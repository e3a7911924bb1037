---------------------------- MODULE KeyWrapStore ----------------------------
(***************************************************************************)
(* The epoch keys of one workspace: PUT /w/{w}/keywraps by its owners,     *)
(* racing one another and the rotates that mint the epochs.  A set of      *)
(* wraps is the per-member wraps and the escrow wrap of one epoch; its     *)
(* digest is the set itself, which KeyWraps shows it stands for.  A PUT     *)
(* reads the epoch row and the wraps one by one; every read flushes the    *)
(* rows added before it, so the commit itself inserts the last row only.   *)
(***************************************************************************)
EXTENDS Naturals, FiniteSets

CONSTANTS Putter,    \* PUT handlers in flight
          Grantee,   \* members a wrap may be addressed to
          Blob,      \* contents of a wrap
          MaxEpoch,  \* MAX_KEY_EPOCH
          Proposal   \* the sets devices seal


NoBlob == "empty"
NoRow == [row |-> FALSE]
AtRest == [at |-> "rest"]

VARIABLES epochRow,  \* workspace_epochs: the digest and the escrow wrap of each epoch
          wrapRow,   \* key_wraps: a wrap or none, by epoch and member
          putter,    \* the PUT handlers
          confirmed  \* history: the sets whose PUT was answered 200

keyWrapVars == <<epochRow, wrapRow, putter, confirmed>>

\* One set per epoch: the members of an epoch need not be those of another,
\* and no member is named twice.
WrapSet == [wraps : UNION {[S -> Blob] : S \in SUBSET Grantee}, escrow : Blob]
\* mutant: the digest forgets the members' wraps
DigestOfEscrow(set) == [set EXCEPT !.wraps = [m \in {} |-> NoBlob]]
SetDigest(set) == set

ASSUME KeyWrapAssumption == /\ MaxEpoch \in Nat /\ Proposal \subseteq WrapSet
                            /\ NoBlob \notin Blob

Epoch == 0 .. MaxEpoch
HasRow(e) == epochRow[e] # NoRow
Holds(e, set) == \A m \in DOMAIN set.wraps : wrapRow[e][m] = set.wraps[m]

-----------------------------------------------------------------------------

\* _materialise_control of a rotate: the row carries the signed digest and no
\* escrow wrap yet.  Rotates mint one epoch after the other.
MaterialiseRotate(e, set) ==
  /\ e \in 1 .. MaxEpoch
  /\ ~HasRow(e) /\ (e > 1 => HasRow(e - 1))
  /\ epochRow' = [epochRow EXCEPT ![e] = [row |-> TRUE, digest |-> SetDigest(set),
                                          escrow |-> NoBlob]]
  /\ UNCHANGED <<wrapRow, putter, confirmed>>

\* mutant: a PUT is not compared with the signed digest
PutUndigested(p, e, set) ==
  /\ putter[p].at = "rest"
  /\ e > 0 => HasRow(e)
  /\ putter' = [putter EXCEPT ![p] = [at |-> "wraps", epoch |-> e, set |-> set,
                                      adds |-> ~HasRow(e)]]
  /\ UNCHANGED <<epochRow, wrapRow, confirmed>>

\* The epoch row is read; epoch 0 alone may be written without one, under a
\* digest the caller computed the same way.
PutKeywraps(p, e, set) ==
  /\ putter[p].at = "rest"
  /\ e > 0 => HasRow(e)
  /\ HasRow(e) => /\ epochRow[e].digest = SetDigest(set)
                  /\ epochRow[e].escrow \in {NoBlob, set.escrow}
  /\ putter' = [putter EXCEPT ![p] = [at |-> "wraps", epoch |-> e, set |-> set,
                                      adds |-> ~HasRow(e)]]
  /\ UNCHANGED <<epochRow, wrapRow, confirmed>>

\* The stored wraps are read: write-once, an identical one is kept.
ReadWraps(p) ==
  LET c == putter[p]
      clash == \E m \in DOMAIN c.set.wraps :
                 wrapRow[c.epoch][m] \notin {NoBlob, c.set.wraps[m]}
  IN /\ c.at = "wraps"
     /\ putter' = [putter EXCEPT ![p] =
          IF clash THEN AtRest
          ELSE [at |-> "flush", epoch |-> c.epoch, set |-> c.set, adds |-> c.adds,
                fresh |-> {m \in DOMAIN c.set.wraps : wrapRow[c.epoch][m] = NoBlob}]]
     /\ UNCHANGED <<epochRow, wrapRow, confirmed>>

\* The rows the reads flush: all but the last of the set.  The wraps are sent
\* in one order by every device.
LastOf(S) == IF S = {} THEN {} ELSE {CHOOSE m \in S : TRUE}
Early(c) == [adds |-> c.adds /\ DOMAIN c.set.wraps # {},
             fresh |-> c.fresh \ LastOf(DOMAIN c.set.wraps)]
Late(c) == [adds |-> c.adds /\ DOMAIN c.set.wraps = {},
            fresh |-> c.fresh \cap LastOf(DOMAIN c.set.wraps)]

\* mutant: no constraint on the rows
NeverTaken(c, rows) == FALSE

\* Another PUT committed one of the rows this one inserts, or holds it
\* uncommitted, which this one waits for.
Taken(c, rows) == \/ rows.adds /\ HasRow(c.epoch)
                  \/ \E m \in rows.fresh : wrapRow[c.epoch][m] # NoBlob
Held(p, rows) ==
  \E q \in Putter \ {p} :
    /\ putter[q].at = "commit" /\ putter[q].epoch = putter[p].epoch
    /\ \/ rows.adds /\ Early(putter[q]).adds
       \/ rows.fresh \cap Early(putter[q]).fresh # {}

\* A row taken at this point is caught nowhere: the PUT fails.
FlushWraps(p) ==
  /\ putter[p].at = "flush"
  /\ ~Held(p, Early(putter[p]))
  /\ putter' = [putter EXCEPT ![p] =
       IF Taken(@, Early(@)) THEN AtRest ELSE [@ EXCEPT !.at = "commit"]]
  /\ UNCHANGED <<epochRow, wrapRow, confirmed>>

\* The commit inserts what is left.  The loser of a race is told what a re-read
\* shows: 200 when the rows it wanted are the rows that are there.
CommitWraps(p) ==
  LET c == putter[p]
      taken == Taken(c, Late(c))
      answered == \/ ~taken
                  \/ /\ HasRow(c.epoch)
                     /\ epochRow[c.epoch].digest = SetDigest(c.set)
                     /\ Holds(c.epoch, c.set)
  IN /\ c.at = "commit"
     /\ ~Held(p, Late(c))
     /\ IF taken THEN UNCHANGED <<epochRow, wrapRow>>
        ELSE /\ epochRow' = [epochRow EXCEPT ![c.epoch] =
                  [row |-> TRUE, escrow |-> c.set.escrow,
                   digest |-> IF c.adds THEN SetDigest(c.set) ELSE @.digest]]
             /\ wrapRow' = [wrapRow EXCEPT ![c.epoch] =
                  [m \in Grantee |-> IF m \in c.fresh THEN c.set.wraps[m] ELSE @[m]]]
     /\ confirmed' = IF answered THEN confirmed \cup {<<c.epoch, c.set>>} ELSE confirmed
     /\ putter' = [putter EXCEPT ![p] = AtRest]

\* get_epoch_keys: an epoch whose wraps never arrived is left out.
EpochKeys == {e \in Epoch : HasRow(e) /\ epochRow[e].escrow # NoBlob}

\* What a member is served of its own wraps, across every epoch.
KeywrapsForMember(m) ==
  {<<e, wrapRow[e][m]>> : e \in {f \in Epoch : wrapRow[f][m] # NoBlob}}

KeyWrapInit ==
  /\ epochRow = [e \in Epoch |-> NoRow]
  /\ wrapRow = [e \in Epoch |-> [m \in Grantee |-> NoBlob]]
  /\ putter = [p \in Putter |-> AtRest]
  /\ confirmed = {}

KeyWrapNext ==
  \/ \E e \in Epoch, set \in Proposal :
       \/ MaterialiseRotate(e, set)
       \/ \E p \in Putter : PutKeywraps(p, e, set)
  \/ \E p \in Putter : ReadWraps(p) \/ FlushWraps(p) \/ CommitWraps(p)

KeyWrapSpec == KeyWrapInit /\ [][KeyWrapNext]_keyWrapVars

-----------------------------------------------------------------------------
(* Properties.                                                             *)

\* The type invariant.
KeyWrapTypeOK ==
  /\ epochRow \in [Epoch -> {NoRow} \cup [row : {TRUE}, digest : WrapSet,
                                          escrow : Blob \cup {NoBlob}]]
  /\ wrapRow \in [Epoch -> [Grantee -> Blob \cup {NoBlob}]]
  /\ \A p \in Putter : putter[p].at \in {"rest", "wraps", "flush", "commit"}
  /\ confirmed \subseteq Epoch \X WrapSet

\* An epoch's keys are all there or none is, and they are the set the signed
\* digest names: the server can neither add a wrap for a member the owner
\* never wrapped to nor leave one out, whatever races.
WrapsAreTheCommittedSet ==
  \A e \in Epoch :
    IF e \in EpochKeys
    THEN LET set == epochRow[e].digest
         IN /\ epochRow[e].escrow = set.escrow
            /\ \A m \in Grantee :
                 wrapRow[e][m] = IF m \in DOMAIN set.wraps THEN set.wraps[m] ELSE NoBlob
    ELSE \A m \in Grantee : wrapRow[e][m] = NoBlob

\* A key once handed out is never another key: epoch rows keep their digest
\* and wraps are written once.
KeysAreWrittenOnce ==
  [][\A e \in Epoch :
       /\ HasRow(e) => epochRow'[e].digest = epochRow[e].digest
       /\ \A m \in Grantee : wrapRow[e][m] # NoBlob => wrapRow'[e][m] = wrapRow[e][m]
    ]_keyWrapVars

\* An owner that was answered 200 has its set stored, the loser of a race too.
ConfirmedIsStored == \A c \in confirmed : c[1] \in EpochKeys /\ epochRow[c[1]].digest = c[2]
=============================================================================
