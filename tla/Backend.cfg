SPECIFICATION BackendSpec
CONSTANTS
  Device = {d1, d2}
  Wallet = {w1}
  Call = {c1, c2}
  Nonce = {n1, n2}
  Token = {t1, t2}
  ChallengeLimit = 1
  Registrar = {e1, e2}
  MemberId = {m1}
  Account = {a1, a2}
  SignKey = {s1, s2}
  KexKey = {x1, x2}
  NoKey = NoKey
  Writer = {p1, p2}
  Reader = {r1, r2}
  Root = {root1, root2}
  MaxVersion = 3
  FetchLimit = 1
  MaxDeaths = 1
  Putter = {q1, q2}
  Grantee = {g1, g2}
  Blob = {b1, b2}
  MaxEpoch = 1
  Proposal <- MCProposal
  g1 = g1
  g2 = g2
  b1 = b1
  b2 = b2
  Socket = {k1, k2}
  k1 = k1
  k2 = k2
  Owner <- MCOwner
  MaxAppends = 2
  MaxMishaps = 1
  MaxOps = 5
  BatchLimit = 2
  MaxFaults = 2
  MayRestore = TRUE
  LossyFounding = FALSE
INVARIANTS BackendTypeOK NonceSpentOnce OneUserPerWallet RegistrationsStand
  AcceptedIsStored ServedIsAudited
  WrapsAreTheCommittedSet ConfirmedIsStored
  NewsIsOnItsWay
  SpentPositionsHeld OnlyRestoredAreAccused
PROPERTIES SlotMovesForward KeysAreWrittenOnce NewsArrives QueueDrains
CHECK_DEADLOCK FALSE
