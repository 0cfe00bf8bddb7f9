SPECIFICATION Spec
CONSTANTS
  Memory = {1, 2, 3, 4}
  Subject = {ann}
  Conversation = {room}
  Tenant = {}
  ann = ann
  room = room
  Nothing = Nothing
  Identity <- MCIdentity
  Connection = {b1, b2}
SYMMETRY Symmetry
INVARIANTS
  ForgottenChainsAreGone
