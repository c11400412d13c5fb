\* Bounds: two objects and two ids, one registered session and one descriptor, a
\* queue of two events, three events and one pending permission a turn, two
\* turns, two permissions and one event that cannot be persisted.
CONSTANTS
  i1 = i1
  Object = {o1, o2}
  Id = {i1, i2}
  NoObject = NoObject
  Earlier <- MCEarlier
  SessionLimit = 1
  DescriptorLimit = 1
  QueueLimit = 2
  EventLimit = 3
  PendingLimit = 1
  MaxTurns = 2
  MaxAsks = 2
  MaxMishaps = 1
SPECIFICATION FairSpec
CHECK_DEADLOCK FALSE
INVARIANTS
  NoAskForgotten
PROPERTIES
  
  StopIsHeard
