SPECIFICATION Spec
CONSTANTS
  w1 = w1
  w2 = w2
  Worker = {w1, w2}
  MaxAttempts = 2
  Threshold = 2
  Recovery = 2
  HasFallback = TRUE
  Issuers <- Both
  NoId = NoId
  Nobody = Nobody
INVARIANTS
  IdsStayWithProvider
