\* Bounds: three runs over three conversations of a project, a quota of two,
\* a permission asked by the fix, and one mishap: an event that cannot be
\* persisted, or a restart.
CONSTANTS
  a = a
  f = f
  m = m
  ca = ca
  cf = cf
  cm = cm
  p = p
  NoRun = NoRun
  Run = {a, f, m}
  Conversation = {ca, cf, cm}
  Project = {p}
  KindOf <- MCKindOf
  ConversationOf <- MCConversationOf
  ProjectOf <- MCProjectOf
  Maximum = 2
  MayAsk = {f}
  MaxMishaps = 1
SPECIFICATION Spec
CHECK_DEADLOCK FALSE
INVARIANTS
  SlotsKept
  
  ExecutionFollowsRun
  CompletedFixPushed
  ServedIsOpen
