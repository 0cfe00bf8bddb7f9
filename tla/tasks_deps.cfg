SPECIFICATION Spec
CONSTANTS
  Task = {ta, tb}
  ta = ta
  tb = tb
  g1 = g1
  g2 = g2
  g3 = g3
  Trigger = {g1, g2}
  Scheduled = {g1}
  Run = {r1, r2}
  NoRun = NoRun
  NoTrigger = NoTrigger
  NoOwner = NoOwner
  NoTool = NoTool
  NoState = NoState
  NoText = NoText
  MaxToken = 3
  p1 = p1
  p2 = p2
  x1 = x1
  x2 = x2
  Process = {p1, p2}
  Incarnation = {1}
  Thread = {x1, x2}
  ProcessOf <- TwoProcesses
  Deps <- BAfterA
  TaskOf <- OneEach
  Operations = {"manual", "recover", "cancel", "fail"}
  Faults = {"start", "work"}
  Control = {"pause"}
INVARIANTS
  DependenciesComeFirst
CHECK_DEADLOCK FALSE
