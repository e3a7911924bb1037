------------------------- MODULE KeyWrapStoreProofs -------------------------
(***************************************************************************)
(* The stored epoch keys, for any owners that race, members and epochs.    *)
(***************************************************************************)
EXTENDS KeyWrapStore, TLAPS

-----------------------------------------------------------------------------
(* Types.                                                                  *)

Reading == [at : {"wraps"}, epoch : Epoch, set : Proposal, adds : BOOLEAN]
Writing == [at : {"flush", "commit"}, epoch : Epoch, set : Proposal,
            adds : BOOLEAN, fresh : SUBSET Grantee]
PutterState == {AtRest} \cup Reading \cup Writing
EpochRows == {NoRow} \cup [row : {TRUE}, digest : WrapSet, escrow : Blob \cup {NoBlob}]

Typed ==
  /\ epochRow \in [Epoch -> EpochRows]
  /\ wrapRow \in [Epoch -> [Grantee -> Blob \cup {NoBlob}]]
  /\ putter \in [Putter -> PutterState]
  /\ confirmed \subseteq Epoch \X WrapSet

LEMMA SetFacts ==
  ASSUME NEW set \in Proposal
  PROVE  /\ set \in WrapSet /\ set.escrow \in Blob /\ set.escrow # NoBlob
         /\ DOMAIN set.wraps \subseteq Grantee
         /\ \A m \in DOMAIN set.wraps : set.wraps[m] \in Blob /\ set.wraps[m] # NoBlob
BY KeyWrapAssumption DEF WrapSet

LEMMA PutterFacts ==
  ASSUME Typed, NEW p \in Putter
  PROVE  /\ putter[p].at \in {"rest", "wraps", "flush", "commit"}
         /\ putter[p].at = "wraps" => putter[p] \in Reading
         /\ putter[p].at \in {"flush", "commit"} => putter[p] \in Writing
BY DEF Typed, PutterState, Reading, Writing, AtRest

LEMMA RowFacts ==
  ASSUME Typed, NEW e \in Epoch
  PROVE  /\ HasRow(e) => /\ epochRow[e].digest \in WrapSet
                         /\ epochRow[e].escrow \in Blob \cup {NoBlob}
                         /\ epochRow[e].row = TRUE
         /\ NoRow.row = FALSE
BY DEF Typed, EpochRows, HasRow, NoRow

(***************************************************************************)
(* The inductive invariant: what a PUT in flight may rely on.  A PUT that  *)
(* adds no epoch row stands on one that carries its own set; one that adds *)
(* a row has found none, and after its flush there still is none, since of *)
(* two PUTs that flushed a row the second waited.                          *)
(***************************************************************************)
Standing(p) ==
  /\ putter[p].at # "rest" =>
       IF putter[p].adds THEN putter[p].epoch = 0
       ELSE HasRow(putter[p].epoch) /\ epochRow[putter[p].epoch].digest = putter[p].set
  /\ putter[p].at \in {"flush", "commit"} =>
       /\ putter[p].fresh \subseteq DOMAIN putter[p].set.wraps
       /\ \A m \in DOMAIN putter[p].set.wraps \ putter[p].fresh :
            wrapRow[putter[p].epoch][m] = putter[p].set.wraps[m]
  /\ putter[p].at = "commit" /\ Early(putter[p]).adds => ~HasRow(putter[p].epoch)

OneAdder ==
  \A p, q \in Putter :
    ~(/\ p # q
      /\ putter[p].at = "commit" /\ Early(putter[p]).adds
      /\ putter[q].at = "commit" /\ Early(putter[q]).adds)

EscrowOfSet ==
  \A e \in Epoch : HasRow(e) =>
    /\ epochRow[e].escrow \in {NoBlob, epochRow[e].digest.escrow}
    /\ e = 0 => epochRow[e].escrow # NoBlob

KeyInv ==
  /\ Typed
  /\ \A p \in Putter : Standing(p)
  /\ OneAdder
  /\ EscrowOfSet
  /\ WrapsAreTheCommittedSet
  /\ ConfirmedIsStored

LEMMA TypedInit == KeyWrapInit => Typed
BY DEF KeyWrapInit, Typed, PutterState, EpochRows

LEMMA TypedNext ==
  ASSUME KeyInv, [KeyWrapNext]_keyWrapVars PROVE Typed'
<1> USE DEF KeyInv
<1>1. CASE UNCHANGED keyWrapVars
  BY <1>1 DEF Typed, keyWrapVars, EpochRows, PutterState, Reading, Writing
<1>2. ASSUME NEW e \in Epoch, NEW set \in Proposal, MaterialiseRotate(e, set)
      PROVE  Typed'
  <2>1. [row |-> TRUE, digest |-> set, escrow |-> NoBlob] \in EpochRows
    BY SetFacts DEF EpochRows
  <2> QED BY <1>2, <2>1 DEF MaterialiseRotate, Typed, SetDigest
<1>3. ASSUME NEW e \in Epoch, NEW set \in Proposal, NEW p \in Putter,
             PutKeywraps(p, e, set)
      PROVE  Typed'
  <2> DEFINE new == [at |-> "wraps", epoch |-> e, set |-> set, adds |-> ~HasRow(e)]
  <2>1. new \in PutterState
    BY DEF PutterState, Reading, HasRow
  <2>2. putter' = [putter EXCEPT ![p] = new] /\ UNCHANGED <<epochRow, wrapRow, confirmed>>
    BY <1>3 DEF PutKeywraps
  <2> HIDE DEF new
  <2> QED BY <2>1, <2>2 DEF Typed
<1>4. ASSUME NEW p \in Putter, ReadWraps(p) PROVE Typed'
  <2> DEFINE c == putter[p]
             fresh == {m \in DOMAIN c.set.wraps : wrapRow[c.epoch][m] = NoBlob}
             new == [at |-> "flush", epoch |-> c.epoch, set |-> c.set, adds |-> c.adds,
                     fresh |-> fresh]
  <2>1. c \in Reading
    BY <1>4, PutterFacts DEF ReadWraps
  <2>2. fresh \subseteq Grantee
    BY <2>1, SetFacts DEF Reading
  <2>3. new \in PutterState /\ AtRest \in PutterState
    BY <2>1, <2>2 DEF PutterState, Writing, Reading
  <2>4. putter' \in {[putter EXCEPT ![p] = AtRest], [putter EXCEPT ![p] = new]}
        /\ UNCHANGED <<epochRow, wrapRow, confirmed>>
    BY <1>4 DEF ReadWraps
  <2> HIDE DEF new
  <2> QED BY <2>3, <2>4 DEF Typed
<1>5. ASSUME NEW p \in Putter, FlushWraps(p) PROVE Typed'
  <2>1. putter[p] \in Writing
    BY <1>5, PutterFacts DEF FlushWraps
  <2>2. [putter[p] EXCEPT !.at = "commit"] \in PutterState /\ AtRest \in PutterState
    BY <2>1 DEF PutterState, Writing
  <2>3. putter' \in {[putter EXCEPT ![p] = AtRest],
                     [putter EXCEPT ![p] = [putter[p] EXCEPT !.at = "commit"]]}
        /\ UNCHANGED <<epochRow, wrapRow, confirmed>>
    BY <1>5 DEF FlushWraps
  <2> QED BY <2>2, <2>3 DEF Typed
<1>6. ASSUME NEW p \in Putter, CommitWraps(p) PROVE Typed'
  <2> DEFINE c == putter[p]
             row == [row |-> TRUE, escrow |-> c.set.escrow,
                     digest |-> IF c.adds THEN c.set ELSE epochRow[c.epoch].digest]
             wraps == [m \in Grantee |-> IF m \in c.fresh THEN c.set.wraps[m]
                                         ELSE wrapRow[c.epoch][m]]
  <2>1. c \in Writing
    BY <1>6, PutterFacts DEF CommitWraps
  <2>2. c.epoch \in Epoch /\ c.set \in Proposal /\ c.set \in WrapSet
    BY <2>1, SetFacts DEF Writing
  <2>3. putter' = [putter EXCEPT ![p] = AtRest] /\ AtRest \in PutterState
    BY <1>6 DEF CommitWraps, PutterState
  <2>4. confirmed' \subseteq Epoch \X WrapSet
    BY <1>6, <2>2 DEF CommitWraps, Typed
  <2>5. CASE Taken(c, Late(c))
    BY <1>6, <2>3, <2>4, <2>5 DEF CommitWraps, Typed
  <2>6. CASE ~Taken(c, Late(c))
    <3>1. /\ epochRow' = [epochRow EXCEPT ![c.epoch] = row]
          /\ wrapRow' = [wrapRow EXCEPT ![c.epoch] = wraps]
      BY <1>6, <2>6 DEF CommitWraps, SetDigest
    <3> DEFINE good == /\ ~c.adds => HasRow(c.epoch)
                       /\ \A m \in c.fresh : m \in DOMAIN c.set.wraps
    <3>2. good => row \in EpochRows /\ wraps \in [Grantee -> Blob \cup {NoBlob}]
      <4> SUFFICES ASSUME good
                   PROVE  row \in EpochRows /\ wraps \in [Grantee -> Blob \cup {NoBlob}]
        OBVIOUS
      <4>1. row.digest \in WrapSet
        BY <2>2, RowFacts
      <4>2. row \in EpochRows
        BY <2>2, <4>1, SetFacts DEF EpochRows
      <4>3. wraps \in [Grantee -> Blob \cup {NoBlob}]
        BY <2>1, <2>2, SetFacts DEF Typed, Writing
      <4> QED BY <4>2, <4>3
    <3>3. good
      BY <1>6, <2>1 DEF Standing, CommitWraps, Writing
    <3> HIDE DEF good, row, wraps
    <3> QED BY <2>2, <2>3, <2>4, <3>1, <3>2, <3>3 DEF Typed
  <2> QED BY <2>5, <2>6
<1> QED BY <1>1, <1>2, <1>3, <1>4, <1>5, <1>6 DEF KeyWrapNext

-----------------------------------------------------------------------------
(* The one step that writes keys.                                          *)

LEMMA EarlyOrLate == ASSUME NEW c PROVE c.adds = TRUE => Early(c).adds \/ Late(c).adds
BY DEF Early, Late

\* The commit of a PUT leaves the epoch with exactly the set it carries.
LEMMA CommitStoresTheSet ==
  ASSUME KeyInv, NEW p \in Putter, CommitWraps(p), ~Taken(putter[p], Late(putter[p]))
  PROVE  LET c == putter[p] IN
         /\ c.epoch \in Epoch /\ c.set \in Proposal
         /\ epochRow' = [epochRow EXCEPT ![c.epoch] =
                            [row |-> TRUE, escrow |-> c.set.escrow, digest |-> c.set]]
         /\ wrapRow' = [wrapRow EXCEPT ![c.epoch] =
                           [m \in Grantee |-> IF m \in DOMAIN c.set.wraps
                                              THEN c.set.wraps[m] ELSE NoBlob]]
         /\ c.adds => ~HasRow(c.epoch) /\ c.epoch = 0
         /\ ~c.adds => HasRow(c.epoch) /\ epochRow[c.epoch].digest = c.set
<1> DEFINE c == putter[p]
<1>1. c \in Writing /\ c.at = "commit"
  BY PutterFacts DEF CommitWraps, KeyInv
<1>2. c.epoch \in Epoch /\ c.set \in Proposal /\ c.adds \in BOOLEAN /\ c.fresh \subseteq Grantee
  BY <1>1 DEF Writing
<1>3. /\ c.fresh \subseteq DOMAIN c.set.wraps
      /\ \A m \in DOMAIN c.set.wraps \ c.fresh : wrapRow[c.epoch][m] = c.set.wraps[m]
      /\ IF c.adds THEN c.epoch = 0
         ELSE HasRow(c.epoch) /\ epochRow[c.epoch].digest = c.set
      /\ Early(c).adds => ~HasRow(c.epoch)
  BY <1>1 DEF KeyInv, Standing
<1>4. c.adds => ~HasRow(c.epoch)
  BY <1>2, <1>3, EarlyOrLate DEF Taken
<1>5. /\ DOMAIN c.set.wraps \subseteq Grantee
      /\ \A m \in DOMAIN c.set.wraps : c.set.wraps[m] \in Blob /\ c.set.wraps[m] # NoBlob
  BY <1>2, SetFacts
<1>6. IF HasRow(c.epoch) /\ epochRow[c.epoch].escrow # NoBlob
      THEN \A m \in Grantee : wrapRow[c.epoch][m] =
             IF m \in DOMAIN epochRow[c.epoch].digest.wraps
             THEN epochRow[c.epoch].digest.wraps[m] ELSE NoBlob
      ELSE \A m \in Grantee : wrapRow[c.epoch][m] = NoBlob
  BY <1>2 DEF KeyInv, WrapsAreTheCommittedSet, EpochKeys
<1>7. ASSUME NEW m \in Grantee
      PROVE  (IF m \in c.fresh THEN c.set.wraps[m] ELSE wrapRow[c.epoch][m])
             = (IF m \in DOMAIN c.set.wraps THEN c.set.wraps[m] ELSE NoBlob)
  <2>1. CASE m \in DOMAIN c.set.wraps
    BY <2>1, <1>3
  <2>2. CASE m \notin DOMAIN c.set.wraps
    BY <2>2, <1>3, <1>4, <1>6, <1>2
  <2> QED BY <2>1, <2>2
<1>8. /\ epochRow' = [epochRow EXCEPT ![c.epoch] =
            [row |-> TRUE, escrow |-> c.set.escrow,
             digest |-> IF c.adds THEN c.set ELSE epochRow[c.epoch].digest]]
      /\ wrapRow' = [wrapRow EXCEPT ![c.epoch] =
            [m \in Grantee |-> IF m \in c.fresh THEN c.set.wraps[m] ELSE wrapRow[c.epoch][m]]]
  BY DEF CommitWraps, SetDigest
<1>9. (IF c.adds THEN c.set ELSE epochRow[c.epoch].digest) = c.set
  BY <1>3, <1>2
<1>10. [m \in Grantee |-> IF m \in c.fresh THEN c.set.wraps[m] ELSE wrapRow[c.epoch][m]]
       = [m \in Grantee |-> IF m \in DOMAIN c.set.wraps THEN c.set.wraps[m] ELSE NoBlob]
  BY <1>7
<1> QED BY <1>2, <1>3, <1>4, <1>8, <1>9, <1>10

\* What no step undoes: an epoch's digest, its escrow wrap, and each wrap.
Kept ==
  \A e \in Epoch :
    /\ HasRow(e) => HasRow(e)' /\ epochRow'[e].digest = epochRow[e].digest
    /\ e \in EpochKeys => e \in EpochKeys'
    /\ \A m \in Grantee : wrapRow[e][m] # NoBlob => wrapRow'[e][m] = wrapRow[e][m]

LEMMA StepsKeep == ASSUME KeyInv, [KeyWrapNext]_keyWrapVars PROVE Kept
<1>1. CASE UNCHANGED <<epochRow, wrapRow>>
  BY <1>1 DEF Kept, HasRow, EpochKeys
<1>2. ASSUME NEW f \in Epoch, NEW set \in Proposal, MaterialiseRotate(f, set) PROVE Kept
  <2>1. ~HasRow(f) /\ f \in Epoch /\ UNCHANGED wrapRow
        /\ \A e \in Epoch \ {f} : epochRow'[e] = epochRow[e]
    BY <1>2 DEF MaterialiseRotate, KeyInv, Typed
  <2> QED BY <2>1 DEF Kept, HasRow, EpochKeys
<1>3. ASSUME NEW p \in Putter, CommitWraps(p), ~Taken(putter[p], Late(putter[p])) PROVE Kept
  <2> DEFINE c == putter[p]
             row == [row |-> TRUE, escrow |-> c.set.escrow, digest |-> c.set]
             wraps == [m \in Grantee |-> IF m \in DOMAIN c.set.wraps
                                         THEN c.set.wraps[m] ELSE NoBlob]
  <2>1. /\ c.epoch \in Epoch /\ c.set \in Proposal
        /\ epochRow' = [epochRow EXCEPT ![c.epoch] = row]
        /\ wrapRow' = [wrapRow EXCEPT ![c.epoch] = wraps]
        /\ HasRow(c.epoch) => epochRow[c.epoch].digest = c.set
    BY <1>3, CommitStoresTheSet
  <2>2. row # NoRow /\ row.escrow # NoBlob /\ row.digest = c.set
    BY <2>1, SetFacts DEF NoRow
  <2>3. \A m \in Grantee : wraps[m] = IF m \in DOMAIN c.set.wraps THEN c.set.wraps[m] ELSE NoBlob
    OBVIOUS
  <2> HIDE DEF row, wraps
  <2>4. epochRow'[c.epoch] = row /\ wrapRow'[c.epoch] = wraps
        /\ \A e \in Epoch \ {c.epoch} : epochRow'[e] = epochRow[e] /\ wrapRow'[e] = wrapRow[e]
    BY <2>1 DEF KeyInv, Typed
  <2>5. ASSUME NEW m \in Grantee, wrapRow[c.epoch][m] # NoBlob
        PROVE  wraps[m] = wrapRow[c.epoch][m]
    BY <2>1, <2>3, <2>5 DEF KeyInv, WrapsAreTheCommittedSet, EpochKeys
  <2> QED BY <2>1, <2>2, <2>4, <2>5 DEF Kept, HasRow, EpochKeys
<1>4. CASE UNCHANGED keyWrapVars
  BY <1>4, <1>1 DEF keyWrapVars
<1>5. ASSUME NEW p \in Putter, NEW e \in Epoch, NEW set \in Proposal,
             PutKeywraps(p, e, set) \/ ReadWraps(p) \/ FlushWraps(p)
      PROVE  Kept
  BY <1>5, <1>1 DEF PutKeywraps, ReadWraps, FlushWraps
<1>6. ASSUME NEW p \in Putter, CommitWraps(p) PROVE Kept
  BY <1>6, <1>1, <1>3 DEF CommitWraps
<1>7. ASSUME NEW p \in Putter, ReadWraps(p) \/ FlushWraps(p) PROVE Kept
  BY <1>7, <1>1 DEF ReadWraps, FlushWraps
<1> QED BY <1>2, <1>4, <1>5, <1>6, <1>7 DEF KeyWrapNext

-----------------------------------------------------------------------------
(* The stored keys stay whole.                                             *)

LEMMA StoredNext ==
  ASSUME KeyInv, [KeyWrapNext]_keyWrapVars
  PROVE  EscrowOfSet' /\ WrapsAreTheCommittedSet'
<1>1. CASE UNCHANGED <<epochRow, wrapRow>>
  BY <1>1 DEF KeyInv, EscrowOfSet, WrapsAreTheCommittedSet, HasRow, EpochKeys
<1>2. ASSUME NEW f \in Epoch, NEW set \in Proposal, MaterialiseRotate(f, set)
      PROVE  EscrowOfSet' /\ WrapsAreTheCommittedSet'
  <2> DEFINE row == [row |-> TRUE, digest |-> set, escrow |-> NoBlob]
  <2>1. /\ ~HasRow(f) /\ UNCHANGED wrapRow /\ f # 0
        /\ epochRow' = [epochRow EXCEPT ![f] = row]
    BY <1>2 DEF MaterialiseRotate, SetDigest
  <2>2. row.escrow = NoBlob
    OBVIOUS
  <2> HIDE DEF row
  <2>3. epochRow'[f] = row /\ \A e \in Epoch \ {f} : epochRow'[e] = epochRow[e]
    BY <2>1 DEF KeyInv, Typed
  <2>4. EscrowOfSet'
    BY <2>1, <2>2, <2>3 DEF KeyInv, EscrowOfSet, HasRow
  <2>5. WrapsAreTheCommittedSet'
    BY <2>1, <2>2, <2>3 DEF KeyInv, WrapsAreTheCommittedSet, HasRow, EpochKeys
  <2> QED BY <2>4, <2>5
<1>3. ASSUME NEW p \in Putter, CommitWraps(p), ~Taken(putter[p], Late(putter[p]))
      PROVE  EscrowOfSet' /\ WrapsAreTheCommittedSet'
  <2> DEFINE c == putter[p]
             row == [row |-> TRUE, escrow |-> c.set.escrow, digest |-> c.set]
             wraps == [m \in Grantee |-> IF m \in DOMAIN c.set.wraps
                                         THEN c.set.wraps[m] ELSE NoBlob]
  <2>1. /\ c.epoch \in Epoch /\ c.set \in Proposal
        /\ epochRow' = [epochRow EXCEPT ![c.epoch] = row]
        /\ wrapRow' = [wrapRow EXCEPT ![c.epoch] = wraps]
    BY <1>3, CommitStoresTheSet
  <2>2. row # NoRow /\ row.escrow = c.set.escrow /\ c.set.escrow # NoBlob /\ row.digest = c.set
    BY <2>1, SetFacts DEF NoRow
  <2>3. \A m \in Grantee : wraps[m] = IF m \in DOMAIN c.set.wraps THEN c.set.wraps[m] ELSE NoBlob
    OBVIOUS
  <2> HIDE DEF row, wraps
  <2>4. epochRow'[c.epoch] = row /\ wrapRow'[c.epoch] = wraps
        /\ \A e \in Epoch \ {c.epoch} : epochRow'[e] = epochRow[e] /\ wrapRow'[e] = wrapRow[e]
    BY <2>1 DEF KeyInv, Typed
  <2>5. EscrowOfSet'
    BY <2>2, <2>4 DEF KeyInv, EscrowOfSet, HasRow
  <2>6. WrapsAreTheCommittedSet'
    BY <2>1, <2>2, <2>3, <2>4 DEF KeyInv, WrapsAreTheCommittedSet, HasRow, EpochKeys
  <2> QED BY <2>5, <2>6
<1>4. CASE UNCHANGED keyWrapVars
  BY <1>4, <1>1 DEF keyWrapVars
<1>5. ASSUME NEW p \in Putter, NEW e \in Epoch, NEW set \in Proposal, PutKeywraps(p, e, set)
      PROVE  EscrowOfSet' /\ WrapsAreTheCommittedSet'
  BY <1>5, <1>1 DEF PutKeywraps
<1>6. ASSUME NEW p \in Putter, ReadWraps(p) \/ FlushWraps(p)
      PROVE  EscrowOfSet' /\ WrapsAreTheCommittedSet'
  BY <1>6, <1>1 DEF ReadWraps, FlushWraps
<1>7. ASSUME NEW p \in Putter, CommitWraps(p)
      PROVE  EscrowOfSet' /\ WrapsAreTheCommittedSet'
  BY <1>7, <1>1, <1>3 DEF CommitWraps
<1> QED BY <1>2, <1>4, <1>5, <1>6, <1>7 DEF KeyWrapNext

\* What was confirmed stays, and what is confirmed is there.
LEMMA ConfirmedNext == ASSUME KeyInv, [KeyWrapNext]_keyWrapVars PROVE ConfirmedIsStored'
<1>1. Kept
  BY StepsKeep
<1>2. \A k \in confirmed : k[1] \in Epoch /\ k[2] \in WrapSet
  BY DEF KeyInv, Typed
<1>3. \A k \in confirmed : k[1] \in EpochKeys' /\ epochRow'[k[1]].digest = k[2]
  BY <1>1, <1>2 DEF KeyInv, ConfirmedIsStored, Kept, EpochKeys
<1>4. CASE UNCHANGED confirmed
  BY <1>3, <1>4 DEF ConfirmedIsStored
<1>5. ASSUME NEW p \in Putter, CommitWraps(p) PROVE ConfirmedIsStored'
  <2> DEFINE c == putter[p]
             there == c.epoch \in EpochKeys' /\ epochRow'[c.epoch].digest = c.set
  <2>1. c \in Writing
    BY <1>5, PutterFacts DEF CommitWraps, KeyInv
  <2>2. c.epoch \in Epoch /\ c.set \in Proposal /\ c.fresh \subseteq Grantee
    BY <2>1 DEF Writing
  <2>3. ASSUME ~Taken(c, Late(c)) PROVE there
    <3> DEFINE row == [row |-> TRUE, escrow |-> c.set.escrow, digest |-> c.set]
    <3>1. epochRow' = [epochRow EXCEPT ![c.epoch] = row]
      BY <1>5, <2>3, CommitStoresTheSet
    <3>2. row # NoRow /\ row.escrow # NoBlob /\ row.digest = c.set
      BY <2>2, SetFacts DEF NoRow
    <3> HIDE DEF row
    <3>3. epochRow'[c.epoch] = row
      BY <2>2, <3>1 DEF KeyInv, Typed
    <3> QED BY <2>2, <3>2, <3>3 DEF EpochKeys, HasRow
  <2>4. ASSUME Taken(c, Late(c)), HasRow(c.epoch), epochRow[c.epoch].digest = c.set
        PROVE  there
    <3>1. epochRow[c.epoch].escrow # NoBlob
      <4>1. CASE Late(c).adds
        BY <1>5, <2>2, <4>1, <2>4 DEF CommitWraps, KeyInv, Standing, EscrowOfSet, Late
      <4>2. CASE \E m \in Late(c).fresh : wrapRow[c.epoch][m] # NoBlob
        BY <2>2, <4>2 DEF KeyInv, WrapsAreTheCommittedSet, EpochKeys, Late
      <4> QED BY <2>4, <4>1, <4>2 DEF Taken
    <3> QED BY <1>1, <2>2, <2>4, <3>1 DEF Kept, EpochKeys
  <2>5. confirmed' = confirmed \/ (confirmed' = confirmed \cup {<<c.epoch, c.set>>} /\ there)
    BY <1>5, <2>3, <2>4 DEF CommitWraps, SetDigest
  <2>6. CASE confirmed' = confirmed
    BY <1>3, <2>6 DEF ConfirmedIsStored
  <2>7. CASE confirmed' = confirmed \cup {<<c.epoch, c.set>>} /\ there
    BY <1>3, <2>7 DEF ConfirmedIsStored
  <2> QED BY <2>5, <2>6, <2>7
<1>6. ASSUME NEW p \in Putter, NEW e \in Epoch, NEW set \in Proposal,
             \/ PutKeywraps(p, e, set) \/ ReadWraps(p) \/ FlushWraps(p)
             \/ MaterialiseRotate(e, set)
      PROVE  UNCHANGED confirmed
  BY <1>6 DEF PutKeywraps, ReadWraps, FlushWraps, MaterialiseRotate
<1>7. ASSUME NEW p \in Putter, ReadWraps(p) \/ FlushWraps(p) PROVE UNCHANGED confirmed
  BY <1>7 DEF ReadWraps, FlushWraps
<1>8. ASSUME NEW e \in Epoch, NEW set \in Proposal, MaterialiseRotate(e, set)
      PROVE  UNCHANGED confirmed
  BY <1>8 DEF MaterialiseRotate
<1> QED BY <1>4, <1>5, <1>6, <1>7, <1>8 DEF KeyWrapNext, keyWrapVars

-----------------------------------------------------------------------------
(* The PUTs in flight keep what they stand on.                             *)

LEMMA WritingPutter ==
  ASSUME KeyInv, NEW p \in Putter, putter[p].at # "rest"
  PROVE  /\ putter[p].epoch \in Epoch /\ putter[p].set \in Proposal
         /\ putter[p].adds \in BOOLEAN
         /\ DOMAIN putter[p].set.wraps \subseteq Grantee
         /\ \A m \in DOMAIN putter[p].set.wraps : putter[p].set.wraps[m] # NoBlob
BY PutterFacts, SetFacts DEF KeyInv, Reading, Writing

\* A PUT that takes no step still stands, unless the row it is to add appeared.
LEMMA OthersStand ==
  ASSUME KeyInv, Kept, NEW q \in Putter, putter'[q] = putter[q],
         putter[q].at = "commit" /\ Early(putter[q]).adds =>
           epochRow'[putter[q].epoch] = epochRow[putter[q].epoch]
  PROVE  Standing(q)'
<1>1. CASE putter[q].at = "rest"
  BY <1>1 DEF Standing
<1>2. CASE putter[q].at # "rest"
  <2>1. Standing(q)
    BY DEF KeyInv
  <2> QED BY <1>2, <2>1, WritingPutter DEF Standing, Kept, HasRow, Early
<1> QED BY <1>1, <1>2

LEMMA PuttersNext ==
  ASSUME KeyInv, [KeyWrapNext]_keyWrapVars
  PROVE  (\A q \in Putter : Standing(q)') /\ OneAdder'
<1>0. Kept
  BY StepsKeep
<1>1. CASE UNCHANGED keyWrapVars
  BY <1>0, <1>1, OthersStand DEF keyWrapVars, OneAdder, KeyInv, Early
<1>2. ASSUME NEW f \in Epoch, NEW set \in Proposal, MaterialiseRotate(f, set)
      PROVE  (\A q \in Putter : Standing(q)') /\ OneAdder'
  <2>1. f # 0 /\ UNCHANGED putter /\ \A e \in Epoch \ {f} : epochRow'[e] = epochRow[e]
    BY <1>2 DEF MaterialiseRotate, KeyInv, Typed
  <2>2. ASSUME NEW q \in Putter, putter[q].at = "commit", Early(putter[q]).adds
        PROVE  epochRow'[putter[q].epoch] = epochRow[putter[q].epoch]
    BY <2>1, <2>2, WritingPutter DEF KeyInv, Standing, Early
  <2> QED BY <1>0, <2>1, <2>2, OthersStand DEF KeyInv, OneAdder
<1>3. ASSUME NEW e \in Epoch, NEW set \in Proposal, NEW p \in Putter, PutKeywraps(p, e, set)
      PROVE  (\A q \in Putter : Standing(q)') /\ OneAdder'
  <2> DEFINE new == [at |-> "wraps", epoch |-> e, set |-> set, adds |-> ~HasRow(e)]
  <2>1. /\ putter' = [putter EXCEPT ![p] = new] /\ UNCHANGED epochRow
        /\ e > 0 => HasRow(e)
        /\ HasRow(e) => epochRow[e].digest = set
    BY <1>3 DEF PutKeywraps, SetDigest
  <2>2. new.at = "wraps" /\ new.adds = ~HasRow(e) /\ new.epoch = e /\ new.set = set
    OBVIOUS
  <2> HIDE DEF new
  <2>3. putter'[p] = new /\ \A q \in Putter \ {p} : putter'[q] = putter[q]
    BY <2>1 DEF KeyInv, Typed
  <2>4. ~HasRow(e) => e = 0
    BY <2>1, KeyWrapAssumption DEF Epoch
  <2>5. Standing(p)'
    BY <2>1, <2>2, <2>3, <2>4 DEF Standing, HasRow
  <2>6. \A q \in Putter \ {p} : Standing(q)'
    BY <1>0, <2>1, <2>3, OthersStand
  <2>7. OneAdder'
    BY <2>2, <2>3 DEF KeyInv, OneAdder
  <2> QED BY <2>5, <2>6, <2>7
<1>4. ASSUME NEW p \in Putter, ReadWraps(p)
      PROVE  (\A q \in Putter : Standing(q)') /\ OneAdder'
  <2> DEFINE c == putter[p]
             fresh == {m \in DOMAIN c.set.wraps : wrapRow[c.epoch][m] = NoBlob}
             new == [at |-> "flush", epoch |-> c.epoch, set |-> c.set, adds |-> c.adds,
                     fresh |-> fresh]
  <2>1. /\ UNCHANGED <<epochRow, wrapRow>> /\ c.at = "wraps"
        /\ \/ putter' = [putter EXCEPT ![p] = AtRest]
           \/ /\ putter' = [putter EXCEPT ![p] = new]
              /\ \A m \in DOMAIN c.set.wraps : wrapRow[c.epoch][m] \in {NoBlob, c.set.wraps[m]}
    BY <1>4 DEF ReadWraps
  <2>2. /\ new.at = "flush" /\ new.epoch = c.epoch /\ new.set = c.set /\ new.adds = c.adds
        /\ new.fresh = {m \in DOMAIN c.set.wraps : wrapRow[c.epoch][m] = NoBlob}
    OBVIOUS
  <2> HIDE DEF new
  <2>3. putter'[p] \in {AtRest, new} /\ \A q \in Putter \ {p} : putter'[q] = putter[q]
    BY <2>1 DEF KeyInv, Typed
  <2>4. Standing(p)'
    <3>1. CASE putter'[p] = AtRest
      BY <3>1 DEF Standing, AtRest
    <3>2. CASE putter'[p] = new /\ new # AtRest
      <4>1. \A m \in DOMAIN c.set.wraps : wrapRow[c.epoch][m] \in {NoBlob, c.set.wraps[m]}
        BY <2>1, <3>2 DEF KeyInv, Typed
      <4>2. Standing(p)
        BY DEF KeyInv
      <4> QED BY <2>1, <2>2, <3>2, <4>1, <4>2 DEF Standing, HasRow
    <3> QED BY <2>3, <3>1, <3>2
  <2>5. \A q \in Putter \ {p} : Standing(q)'
    BY <1>0, <2>1, <2>3, OthersStand
  <2>6. putter'[p].at # "commit"
    BY <2>2, <2>3 DEF AtRest
  <2>7. OneAdder'
    BY <2>3, <2>6 DEF KeyInv, OneAdder
  <2> QED BY <2>4, <2>5, <2>7
<1>5. ASSUME NEW p \in Putter, FlushWraps(p)
      PROVE  (\A q \in Putter : Standing(q)') /\ OneAdder'
  <2> DEFINE c == putter[p]
             new == [c EXCEPT !.at = "commit"]
  <2>1. c \in Writing /\ c.at = "flush"
    BY <1>5, PutterFacts DEF FlushWraps, KeyInv
  <2>2. /\ new.at = "commit" /\ new.epoch = c.epoch /\ new.set = c.set
        /\ new.adds = c.adds /\ new.fresh = c.fresh
    BY <2>1 DEF Writing
  <2>3. /\ UNCHANGED <<epochRow, wrapRow>> /\ ~Held(p, Early(c))
        /\ \/ putter' = [putter EXCEPT ![p] = AtRest]
           \/ putter' = [putter EXCEPT ![p] = new] /\ ~Taken(c, Early(c))
    BY <1>5 DEF FlushWraps
  <2> HIDE DEF new
  <2>4. putter'[p] \in {AtRest, new} /\ \A q \in Putter \ {p} : putter'[q] = putter[q]
    BY <2>3 DEF KeyInv, Typed
  <2>5. putter'[p] = new => ~Taken(c, Early(c))
    BY <2>2, <2>3 DEF KeyInv, Typed, AtRest
  <2>6. Early(new) = Early(c)
    BY <2>2 DEF Early
  <2>7. Standing(p)'
    <3>1. CASE putter'[p] = AtRest
      BY <3>1 DEF Standing, AtRest
    <3>2. CASE putter'[p] = new
      <4>1. Standing(p)
        BY DEF KeyInv
      <4> QED BY <2>1, <2>2, <2>3, <2>5, <2>6, <3>2, <4>1 DEF Standing, HasRow, Taken
    <3> QED BY <2>4, <3>1, <3>2
  <2>8. \A q \in Putter \ {p} : Standing(q)'
    BY <1>0, <2>3, <2>4, OthersStand
  <2>9. OneAdder'
    <3>1. ASSUME NEW q \in Putter, q # p, putter'[p].at = "commit", Early(putter'[p]).adds,
                 putter[q].at = "commit", Early(putter[q]).adds
          PROVE  FALSE
      <4>1. putter'[p] = new
        BY <2>4, <3>1 DEF AtRest
      <4>2. Early(c).adds
        BY <2>6, <3>1, <4>1
      <4>3. c.adds /\ putter[q].adds
        BY <3>1, <4>2 DEF Early
      <4>4. c.epoch = 0 /\ putter[q].epoch = 0
        BY <2>1, <3>1, <4>3 DEF KeyInv, Standing
      <4> QED BY <2>3, <3>1, <4>2, <4>4 DEF Held
    <3> QED BY <2>4, <3>1 DEF KeyInv, OneAdder
  <2> QED BY <2>7, <2>8, <2>9
<1>6. ASSUME NEW p \in Putter, CommitWraps(p)
      PROVE  (\A q \in Putter : Standing(q)') /\ OneAdder'
  <2> DEFINE c == putter[p]
  <2>1. putter' = [putter EXCEPT ![p] = AtRest] /\ c.at = "commit" /\ ~Held(p, Late(c))
    BY <1>6 DEF CommitWraps
  <2>2. putter'[p] = AtRest /\ \A q \in Putter \ {p} : putter'[q] = putter[q]
    BY <2>1 DEF KeyInv, Typed
  <2>3. Standing(p)'
    BY <2>2 DEF Standing, AtRest
  <2>4. ASSUME NEW q \in Putter \ {p}, putter[q].at = "commit", Early(putter[q]).adds
        PROVE  epochRow'[putter[q].epoch] = epochRow[putter[q].epoch]
    <3>1. putter[q].epoch = 0 /\ ~HasRow(putter[q].epoch) /\ 0 \in Epoch
      BY <2>4, WritingPutter DEF KeyInv, Standing, Early
    <3>2. CASE Taken(c, Late(c))
      BY <1>6, <3>2 DEF CommitWraps
    <3>3. CASE ~Taken(c, Late(c))
      <4>1. /\ c.epoch \in Epoch
            /\ epochRow' = [epochRow EXCEPT ![c.epoch] =
                               [row |-> TRUE, escrow |-> c.set.escrow, digest |-> c.set]]
            /\ c.adds => c.epoch = 0
            /\ ~c.adds => HasRow(c.epoch)
        BY <1>6, <3>3, CommitStoresTheSet
      <4>2. ~c.adds
        BY <2>1, <2>4, <3>1, <4>1, EarlyOrLate DEF KeyInv, OneAdder, Held
      <4>3. c.epoch # putter[q].epoch
        BY <3>1, <4>1, <4>2
      <4> QED BY <3>1, <4>1, <4>3 DEF KeyInv, Typed
    <3> QED BY <3>2, <3>3
  <2>5. \A q \in Putter \ {p} : Standing(q)'
    BY <1>0, <2>2, <2>4, OthersStand
  <2>6. OneAdder'
    BY <2>2 DEF KeyInv, OneAdder, AtRest
  <2> QED BY <2>3, <2>5, <2>6
<1> QED BY <1>1, <1>2, <1>3, <1>4, <1>5, <1>6 DEF KeyWrapNext

-----------------------------------------------------------------------------
(* The theorems.                                                           *)

LEMMA InitKeyInv == KeyWrapInit => KeyInv
<1> SUFFICES ASSUME KeyWrapInit PROVE KeyInv
  OBVIOUS
<1>1. \A e \in Epoch : ~HasRow(e) /\ \A m \in Grantee : wrapRow[e][m] = NoBlob
  BY DEF KeyWrapInit, HasRow
<1>2. \A p \in Putter : putter[p].at = "rest"
  BY DEF KeyWrapInit, AtRest
<1>3. confirmed = {}
  BY DEF KeyWrapInit
<1> QED BY <1>1, <1>2, <1>3, TypedInit
        DEF KeyInv, Standing, OneAdder, EscrowOfSet, WrapsAreTheCommittedSet,
            ConfirmedIsStored, EpochKeys

LEMMA NextKeyInv == KeyInv /\ [KeyWrapNext]_keyWrapVars => KeyInv'
BY TypedNext, StoredNext, ConfirmedNext, PuttersNext DEF KeyInv

LEMMA KeyInvHolds == KeyWrapSpec => []KeyInv
BY InitKeyInv, NextKeyInv, PTL DEF KeyWrapSpec

\* Type correctness of the stored epoch keys and of the PUT handlers in flight.
THEOREM TypeCorrect == KeyWrapSpec => []KeyWrapTypeOK
<1>1. KeyInv => KeyWrapTypeOK
  BY PutterFacts DEF KeyInv, Typed, EpochRows, KeyWrapTypeOK
<1> QED BY <1>1, KeyInvHolds, PTL

\* However many owners and rotates race, an epoch's stored keys are none or
\* exactly the set its signed digest names (put_keywraps).
THEOREM KeysAreTheCommittedSet == KeyWrapSpec => []WrapsAreTheCommittedSet
<1>1. KeyInv => WrapsAreTheCommittedSet
  BY DEF KeyInv
<1> QED BY <1>1, KeyInvHolds, PTL

\* get_my_keywraps: whatever a member is served is the wrap the signed set of
\* that epoch holds for it, and its epoch is one whose keys are all there.
ServedWrapsAreSealed ==
  \A m \in Grantee : \A k \in KeywrapsForMember(m) :
    /\ k[1] \in EpochKeys
    /\ m \in DOMAIN epochRow[k[1]].digest.wraps
    /\ k[2] = epochRow[k[1]].digest.wraps[m]
THEOREM MembersReadTheirOwnWraps == KeyWrapSpec => []ServedWrapsAreSealed
<1>1. KeyInv => ServedWrapsAreSealed
  <2> SUFFICES ASSUME WrapsAreTheCommittedSet, NEW m \in Grantee, NEW e \in Epoch,
                      wrapRow[e][m] # NoBlob
               PROVE  /\ e \in EpochKeys
                      /\ m \in DOMAIN epochRow[e].digest.wraps
                      /\ wrapRow[e][m] = epochRow[e].digest.wraps[m]
    BY DEF KeyInv, ServedWrapsAreSealed, KeywrapsForMember
  <2> QED BY DEF WrapsAreTheCommittedSet
<1> QED BY <1>1, KeyInvHolds, PTL

\* A PUT answered 200, the loser of a race included, has its set stored for good.
THEOREM ConfirmedSetsAreStored == KeyWrapSpec => []ConfirmedIsStored
<1>1. KeyInv => ConfirmedIsStored
  BY DEF KeyInv
<1> QED BY <1>1, KeyInvHolds, PTL

\* No race replaces a key once stored: digests and wraps are written once.
THEOREM KeysNeverChange == KeyWrapSpec => KeysAreWrittenOnce
<1>1. KeyInv /\ [KeyWrapNext]_keyWrapVars =>
        [\A e \in Epoch :
           /\ HasRow(e) => epochRow'[e].digest = epochRow[e].digest
           /\ \A m \in Grantee : wrapRow[e][m] # NoBlob => wrapRow'[e][m] = wrapRow[e][m]
        ]_keyWrapVars
  BY StepsKeep DEF Kept
<1> QED BY <1>1, KeyInvHolds, PTL DEF KeyWrapSpec, KeysAreWrittenOnce
=============================================================================
