-------------------------- MODULE MCReceiverWorlds --------------------------
(***************************************************************************)
(* Two instances of SyncReceiver over the same ops: the configured server,  *)
(* which shuffles its pages, and an honest one under storage faults at      *)
(* every step.  A behaviour lives in the world its initial state picks.     *)
(***************************************************************************)
EXTENDS MCReceiver

VARIABLE world

WorldOp == {e[2] : e \in HonestOffer}
WorldMember == {"me"} \cup {o[1] : o \in WorldOp}
WorldAuthor == [o \in WorldOp |-> o[1]]
WorldASeq   == [o \in WorldOp |-> o[2]]
WorldOpId   == [o \in WorldOp |-> o]
WorldPrev   == [o \in WorldOp |->
                  LET before == {p \in WorldOp : p[1] = o[1] /\ p[2] = o[2] - 1}
                  IN IF before = {} THEN NoOp ELSE CHOOSE p \in before : TRUE]
WorldClass  == [o \in WorldOp |-> IF o[2] = 1 THEN "register" ELSE "content"]
WorldCtlPrev == [o \in WorldOp |-> IF o = <<"bob", 1, "op">> THEN <<"ann", 1, "op">>
                                   ELSE NoOp]
WorldVerdict == [o \in WorldOp |-> CASE o[3] = "late"   -> "hlc_in_the_future"
                                     [] o[3] = "barred" -> "no_live_grant"
                                     [] OTHER           -> "apply"]

InOrder == INSTANCE SyncReceiver WITH
  Offer <- HonestOffer, Server <- "honest", MaxFaults <- 3,
  FaultAt <- {"idle", "page", "file", "accuse", "scan", "mark", "replay", "clear",
              "settle", "save", "tail"}

\* The shuffled world is one that the theorems of the receiver are about.
ASSUME ShuffledWorld ==
  /\ ReleasesGoThrough /\ VerdictsAreWhole /\ GapsAreSettled
  /\ RegistersFirst /\ NothingOnControl /\ ServesHonestChains

WorldInit == world \in {"shuffled", "in order"} /\ Init
WorldNext == /\ UNCHANGED world
             /\ \/ world = "shuffled" /\ Next
                \/ world = "in order" /\ InOrder!Next
WorldSpec == /\ WorldInit /\ [][WorldNext]_<<world, vars>>
             /\ world = "in order" => InOrder!Fairness

\* The liveness of the receiver is about the honest server.
HonestConverges == world = "in order" => InOrder!Converges
=============================================================================
