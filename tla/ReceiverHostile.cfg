\* A server that orders, repeats and forks as it likes; one crash or storage fault.
CONSTANTS
  NoOp = NoOp
  Op <- MCOp
  Member <- MCMember
  Author <- MCAuthor
  ASeq <- MCASeq
  Prev <- MCPrev
  OpId <- MCOpId
  Self = "me"
  NoMember = "nobody"
  Class <- MCClass
  CtlPrev <- MCCtlPrev
  Verdict <- MCVerdict
  Authored <- MCAuthored
  MaxSeq = 3
  Offer <- HostileOffer
  Server = "hostile"
  MaxPage = 2
  CrashAt = {"scan", "settle"}
  FaultAt = {"judge", "replay"}
  MaxFaults = 1
SPECIFICATION Spec
INVARIANTS
  TypeOK
  ChainLinked
PROPERTIES
  NothingDropped
  EvidenceKept
