\* A crash between the log insert and the apply.
CONSTANTS
  NoOp = NoOp
  Op <- MCOp
  Member <- MCMember
  Author <- MCAuthor
  ASeq <- MCASeq
  Prev <- MCPrev
  OpId <- MCOpId
  Self = "me"
  NoMember = "nobody"
  Class <- MCClass
  CtlPrev <- MCCtlPrev
  Verdict <- MCVerdict
  Authored <- MCAuthored
  MaxSeq = 4
  Offer <- GrantOffer
  Server = "honest"
  MaxPage = 2
  CrashAt = {"judge"}
  FaultAt = {}
  MaxFaults = 1
SPECIFICATION Spec
INVARIANTS
  ExactlyOneVerdict
