\* A fix and a message in its conversation, each asking for a permission, and
\* two mishaps.
CONSTANTS
  a = a
  f = f
  m = m
  ca = ca
  cf = cf
  cm = cm
  p = p
  NoRun = NoRun
  Run = {f, m}
  Conversation = {cf}
  Project = {p}
  KindOf <- MCKindOf
  ConversationOf <- MCConversationOf
  ProjectOf <- MCProjectOf
  Maximum = 2
  MayAsk = {f, m}
  MaxMishaps = 2
SPECIFICATION Spec
CHECK_DEADLOCK FALSE
PROPERTIES
  RunEnds
