SPECIFICATION Spec
CONSTANTS
  Run = {r1, r2}
  Owner = {o1, o2}
  Message = {m1}
  Call = {c1}
  Tool = {t1}
  State = {s1}
  Text = {x1, x2}
  Connection = {b1, b2}
  Operation = {i1, i2}
  NoRun = NoRun
  NoOwner = NoOwner
  NoTool = NoTool
  NoState = NoState
  NoText = NoText
  NoCall = NoCall
  NoCommand = NoCommand
  MaxToken = 3
  Request = {a1, a2}
  Actor = {user, other}
  FirstActor = user
  Event = {e1, e2}
  Continuation = {k1}
  NoActor = NoActor
  NoContinuation = NoContinuation
  NoRequest = NoRequest
  Requester <- MCRequester
  Memory = {1, 2, 3}
  Subject = {ann}
  Conversation = {room, hall}
  Tenant = {acme}
  ann = ann
  room = room
  hall = hall
  acme = acme
  Nothing = Nothing
  Identity <- MCIdentity
  QueuedRun = {q1, q2}
  Consumer = {w1, w2}
  NoConsumer = NoConsumer
  MaxAttempts = 2
SYMMETRY Symmetry
INVARIANTS
  ReadsStayTrue
  DispositionsAreAudited
  ExecutionNeedsDecision
  DecidedByOneEvent
  OneVersionIsShown
  ForgottenVersionsAreGone
  ClaimsAreExclusive
PROPERTIES
  StaleWritersAreRejected
  LedgerNeverForgets
  ImplementsInbox
  ImplementsStore
  ImplementsConsent
CHECK_DEADLOCK FALSE
