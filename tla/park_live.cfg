SPECIFICATION FairSpec
CONSTANTS
  Run = {r1}
  Message = {m1}
  Call = {gated, gated2}
  Tool = {t1}
  Text = {x1}
  Actor = {user}
  FirstActor = user
  NoRun = NoRun
  NoOwner = NoOwner
  NoTool = NoTool
  NoState = NoState
  NoText = NoText
  NoActor = NoActor
  NoRequest = NoRequest
  Requester <- MCRequester
  MaxToken = 8
  p1 = p1
  p2 = p2
  h1 = h1
  h2 = h2
  w1 = w1
  w2 = w2
  o1 = o1
  o2 = o2
  plain = plain
  gated = gated
  gated2 = gated2
  denied = denied
  Process = {p1}
  Incarnation = {1}
  Handler = {h1}
  Resumer = {w1}
  Operator = {}
  ProcessOf <- OneProcess
  Policy <- MCPolicy
  Batches <- TwoGated
  MaxTurns = 1
  Faults = {"tool"}
  Validity = {TRUE, FALSE}
  Control = {}
PROPERTIES
  EveryMessageIsAnswered
  DecisionsTakeEffect
CHECK_DEADLOCK FALSE
