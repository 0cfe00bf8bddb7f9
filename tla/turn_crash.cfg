SPECIFICATION Spec
CONSTANTS
  Run = {r1}
  Message = {m1}
  Call = {plain, gated, denied}
  Tool = {t1}
  Text = {x1}
  Actor = {user}
  FirstActor = user
  NoRun = NoRun
  NoOwner = NoOwner
  NoTool = NoTool
  NoState = NoState
  NoText = NoText
  NoActor = NoActor
  NoRequest = NoRequest
  Requester <- MCRequester
  MaxToken = 3
  p1 = p1
  p2 = p2
  h1 = h1
  h2 = h2
  w1 = w1
  w2 = w2
  o1 = o1
  o2 = o2
  plain = plain
  gated = gated
  gated2 = gated2
  denied = denied
  Process = {p1}
  Incarnation = {1, 2}
  Handler = {h1}
  Resumer = {w1}
  Operator = {}
  ProcessOf <- OneProcess
  Policy <- MCPolicy
  Batches <- EitherOrder
  MaxTurns = 2
  Faults = {"context", "model", "tool", "card"}
  Validity = {TRUE, FALSE}
  Control = {"pause", "cancel", "recover", "resolve"}
INVARIANTS
  RuntimeTypeOK
  AtMostOneEffect
  EffectNeedsConsent
  CompletedConsentIsInLedger
  CheckpointIsCoherent
  RequestIsCoherent
  ResultsAreTrue
CHECK_DEADLOCK FALSE
