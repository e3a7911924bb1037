\* A relaunch between two pulls.
CONSTANTS
  NoOp = NoOp
  Op <- MCOp
  Member <- MCMember
  Author <- MCAuthor
  ASeq <- MCASeq
  Prev <- MCPrev
  OpId <- MCOpId
  Self = "me"
  NoMember = "nobody"
  Class <- MCClass
  CtlPrev <- MCCtlPrev
  Verdict <- MCVerdict
  Authored <- MCAuthored
  MaxSeq = 8
  Offer <- HonestOffer
  Server = "honest"
  MaxPage = 2
  CrashAt = {"idle"}
  FaultAt = {}
  MaxFaults = 1
SPECIFICATION Spec
INVARIANTS
  RegisteredIsKnown
