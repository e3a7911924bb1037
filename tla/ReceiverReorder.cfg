\* Two worlds: shuffled pages with faults where the release is re-armed, and an
\* honest server with faults everywhere.
CONSTANTS
  NoOp = NoOp
  Op <- WorldOp
  Member <- WorldMember
  Author <- WorldAuthor
  ASeq <- WorldASeq
  Prev <- WorldPrev
  OpId <- WorldOpId
  Self = "me"
  NoMember = "nobody"
  Class <- WorldClass
  CtlPrev <- WorldCtlPrev
  Verdict <- WorldVerdict
  Authored <- MCAuthored
  MaxSeq = 8
  Offer <- ReorderedOffer
  Server = "reordering"
  MaxPage = 2
  CrashAt = {}
  FaultAt = {"page", "replay", "save"}
  MaxFaults = 2
SPECIFICATION WorldSpec
INVARIANTS
  ExactlyOneVerdict
  HonestNeverAccused
  ReadySuccessorsReArmed
  GapAlarmTracksGaps
  HealsInOneSync
PROPERTIES
  HonestConverges
