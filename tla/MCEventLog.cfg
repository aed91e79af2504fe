SPECIFICATION Spec
CONSTANTS
  o1 = o1
  o2 = o2
  create1 = create1
  paid1 = paid1
  odd1 = odd1
  create2 = create2
  replay1 = replay1
  replay2 = replay2
  q1 = q1
  q2 = q2
  w1 = w1
  w2 = w2
  NoEvent = NoEvent
  OrderOf <- MCOrderOf
  Orders = {o1}
  Webhooks = {create1, odd1}
  Replays = {replay1}
  Unhandled = {odd1}
  Gone = {}
  Requests = {q1, q2}
  Workers = {w1, w2}
  MaxAttempts = 2
  Limit = 1
  MaxUpsets = 2
  MaxPresses = 1
SYMMETRY Symmetry
INVARIANTS
  TypeOK
  AckedIsLogged
  SuccessMeansBooked
  ErrorIsScheduled
  TriesBounded
  NothingSlipsTheWindow
  EInv
CHECK_DEADLOCK FALSE
