SPECIFICATION Spec
CONSTANTS
  Task = {ta}
  ta = ta
  tb = tb
  g1 = g1
  g2 = g2
  g3 = g3
  Trigger = {g1, g2}
  Scheduled = {g1, g2}
  Run = {r1, r2}
  NoRun = NoRun
  NoTrigger = NoTrigger
  NoOwner = NoOwner
  NoTool = NoTool
  NoState = NoState
  NoText = NoText
  MaxToken = 3
  p1 = p1
  p2 = p2
  x1 = x1
  x2 = x2
  Process = {p1}
  Incarnation = {1, 2}
  Thread = {x1}
  ProcessOf <- OneProcess
  Deps <- Independent
  TaskOf <- AllForA
  Operations = {"resume", "recover", "approval", "run", "pause", "cancel"}
  Faults = {"start", "context", "work", "approval"}
  Control = {}
INVARIANTS
  TaskTypeOK
  BoundRunAnswersTrigger
  OneRunAtATime
PROPERTIES
  NoLiveRunIsDropped
CHECK_DEADLOCK FALSE
