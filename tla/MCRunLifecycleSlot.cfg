\* An audit of a busy project leaks a slot with no mishap at all.
CONSTANTS
  a = a
  f = f
  m = m
  ca = ca
  cf = cf
  cm = cm
  p = p
  NoRun = NoRun
  Run = {a, f, m}
  Conversation = {ca, cf, cm}
  Project = {p}
  KindOf <- MCKindOf
  ConversationOf <- MCConversationOf
  ProjectOf <- MCProjectOf
  Maximum = 2
  MayAsk = {f}
  MaxMishaps = 0
SPECIFICATION Spec
CHECK_DEADLOCK FALSE
INVARIANTS
  SlotReturned
