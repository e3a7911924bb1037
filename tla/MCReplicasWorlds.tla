-------------------------- MODULE MCReplicasWorlds --------------------------
(***************************************************************************)
(* Four instances of Replicas.  In "any" wall clocks are set to anything;  *)
(* in "apart" they only advance, and differ by more than the skew bound; in *)
(* "agreeing" they agree and a process ends once; in "failing" they agree  *)
(* and storage fails at any time.  A behaviour lives in the world its      *)
(* initial state picks.  Edits that disagree are written in "agreeing", and *)
(* come in every order there; where time or faults are what matters one    *)
(* edit is enough.                                                         *)
(***************************************************************************)
EXTENDS MCReplicas

VARIABLE world

OneField == {e \in AllEdits : e["tags"] = NoWrite}
Disagreeing == AllEdits \ OneField
OneEdit == {e \in Disagreeing : e["title"] = 1}

Anyhow == INSTANCE Replicas WITH Edit <- OneEdit
Apart == INSTANCE Replicas WITH
  Edit <- OneField, SkewBound <- 1, WallClocks <- "forward", MaxWall <- 2
Agreeing == INSTANCE Replicas WITH
  Edit <- Disagreeing, SkewBound <- 1, WallClocks <- "shared", MayRelaunch <- TRUE
Failing == INSTANCE Replicas WITH
  Edit <- OneField, SkewBound <- 1, WallClocks <- "shared", MayFault <- TRUE

\* In each of them relaunches keep clocks apart, as theorems of the replicas ask.
ASSUME WorldsMoveOn == /\ Anyhow!RelaunchesMoveOn /\ Apart!RelaunchesMoveOn
                       /\ Agreeing!RelaunchesMoveOn /\ Failing!RelaunchesMoveOn

WorldInit == world \in {"any", "apart", "agreeing", "failing"} /\ Init
WorldNext == /\ UNCHANGED world
             /\ \/ world = "any" /\ Anyhow!Next
                \/ world = "apart" /\ Apart!Next
                \/ world = "agreeing" /\ Agreeing!Next
                \/ world = "failing" /\ Failing!Next
WorldSpec == WorldInit /\ [][WorldNext]_<<world, vars>>

\* "A refused hlc_in_the_future op must not be able to drag the local clock", said of
\* the worlds where wall clocks only advance (ClockWithinSkew).
SkewBounded == world # "any" => Apart!ClockWithinSkew

\* Devices that were served the same show the same but for the receipts that were cut off,
\* where their clocks agree and their processes end in the middle of anything, or their
\* storage fails (AlikeOnceServed).
EchoesHeal == world \in {"agreeing", "failing"} => Agreeing!AlikeOnceServed
=============================================================================
