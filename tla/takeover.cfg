SPECIFICATION Spec
CONSTANTS
  Run = {r1}
  Message = {m1}
  Call = {plain}
  Tool = {t1}
  Text = {x1, x2}
  Actor = {user}
  FirstActor = user
  NoRun = NoRun
  NoOwner = NoOwner
  NoTool = NoTool
  NoState = NoState
  NoText = NoText
  NoActor = NoActor
  NoRequest = NoRequest
  Requester <- MCRequester
  MaxToken = 4
  p1 = p1
  p2 = p2
  h1 = h1
  h2 = h2
  w1 = w1
  w2 = w2
  o1 = o1
  o2 = o2
  plain = plain
  gated = gated
  gated2 = gated2
  denied = denied
  Process = {p1, p2}
  Incarnation = {1, 2}
  Handler = {h1}
  Resumer = {}
  Operator = {o2}
  ProcessOf <- TwoProcesses
  Policy <- MCPolicy
  Batches <- PlainAlone
  MaxTurns = 2
  Faults = {"model", "tool"}
  Validity = {TRUE}
  Control = {"pause", "cancel", "recover", "resolve"}
INVARIANTS
  RunningRunsAreServed
PROPERTIES
  OutcomesAreOfTheClaim
CHECK_DEADLOCK FALSE
