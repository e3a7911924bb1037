-------------------------- MODULE RecoveryEscrow ---------------------------
(***************************************************************************)
(* The recovery slot of one user and workspace: a sealed blob under a      *)
(* version, signed by the Root whose public key the first write pins.      *)
(* put_recovery_escrow reads the slot and writes it in two statements of   *)
(* one READ COMMITTED transaction, and answers once it is committed;       *)
(* get_recovery_escrow counts, audits and serves.  Any other call, or a    *)
(* death of the process, may fall between.                                 *)
(***************************************************************************)
EXTENDS Integers, FiniteSets

CONSTANTS Writer,        \* PUT handlers in flight, each sealing a blob of its own
          Reader,        \* GET handlers in flight
          Root,          \* root keys a device may sign with
          MaxVersion,    \* MAX_ESCROW_VERSION
          FetchLimit,    \* RECOVERY_FETCH_DAILY_LIMIT
          MaxDeaths      \* bound on deaths of the process

ASSUME EscrowAssumption == MaxVersion \in Nat \ {0} /\ FetchLimit \in Nat
                             /\ MaxDeaths \in Nat /\ IsFiniteSet(Reader)

FIRST_ESCROW_VERSION == 1
NO_ESCROW_STORED_VERSION == 0

VARIABLES escrow,    \* recovery_escrows: the row of the slot, version 0 for none
          put,       \* the PUT handlers
          get,       \* the GET handlers
          fetches,   \* Redis: fetches counted in the window
          audited,   \* recovery_escrow_fetches: rows
          served,    \* history: blobs handed out
          accepted,  \* history: what each version's writers were told they stored
          deaths

escrowVars == <<escrow, put, get, fetches, audited, served, accepted, deaths>>

NoEscrow == [version |-> NO_ESCROW_STORED_VERSION]
Stored == escrow.version # NO_ESCROW_STORED_VERSION
Idle == [at |-> "idle"]

-----------------------------------------------------------------------------
(* PUT.                                                                    *)

\* verify_escrow_signature: against the pinned root once there is one.
VerifyEscrowSignature(signer, root_pk, stored) ==
  signer = IF stored.version = NO_ESCROW_STORED_VERSION THEN root_pk ELSE stored.root_pk

\* The read, and every refusal that rests on it.
PutRead(w, version, root_pk, signer) ==
  /\ put[w].at = "idle"
  /\ version \in FIRST_ESCROW_VERSION .. MaxVersion
  /\ VerifyEscrowSignature(signer, root_pk, escrow)
  /\ IF Stored THEN version > escrow.version ELSE version = FIRST_ESCROW_VERSION
  /\ put' = [put EXCEPT ![w] = [at |-> "write", version |-> version,
                                root_pk |-> root_pk, observed |-> escrow.version]]
  /\ UNCHANGED <<escrow, get, fetches, audited, served, accepted, deaths>>

Commit(w) == put' = [put EXCEPT ![w].at = "answer"]
Refuse(w) == put' = [put EXCEPT ![w] = Idle] /\ UNCHANGED escrow

\* mutant: the first write overwrites
PutUpsert(w) ==
  /\ put[w].at = "write" /\ put[w].observed = NO_ESCROW_STORED_VERSION
  /\ escrow' = [version |-> put[w].version, blob |-> w, root_pk |-> put[w].root_pk]
  /\ Commit(w)
  /\ UNCHANGED <<get, fetches, audited, served, accepted, deaths>>

\* The slot was empty: an INSERT, which a row that appeared meanwhile refuses.
PutInsert(w) ==
  /\ put[w].at = "write" /\ put[w].observed = NO_ESCROW_STORED_VERSION
  /\ IF Stored THEN Refuse(w)
     ELSE /\ escrow' = [version |-> put[w].version, blob |-> w, root_pk |-> put[w].root_pk]
          /\ Commit(w)
  /\ UNCHANGED <<get, fetches, audited, served, accepted, deaths>>

\* mutant: UPDATE without the observed version
PutUnconditionally(w) ==
  /\ put[w].at = "write" /\ put[w].observed # NO_ESCROW_STORED_VERSION
  /\ escrow' = [escrow EXCEPT !.version = put[w].version, !.blob = w]
  /\ Commit(w)
  /\ UNCHANGED <<get, fetches, audited, served, accepted, deaths>>

\* UPDATE ... WHERE version = observed; the pinned root stays.
PutUpdate(w) ==
  /\ put[w].at = "write" /\ put[w].observed # NO_ESCROW_STORED_VERSION
  /\ IF escrow.version # put[w].observed THEN Refuse(w)
     ELSE /\ escrow' = [escrow EXCEPT !.version = put[w].version, !.blob = w]
          /\ Commit(w)
  /\ UNCHANGED <<get, fetches, audited, served, accepted, deaths>>

\* What was committed is answered, unless the process dies first.
PutAnswer(w) ==
  /\ put[w].at = "answer"
  /\ put' = [put EXCEPT ![w] = Idle]
  /\ accepted' = accepted \cup {<<put[w].version, w>>}
  /\ UNCHANGED <<escrow, get, fetches, audited, served, deaths>>

-----------------------------------------------------------------------------
(* GET.                                                                    *)

\* 404 before the counter, 429 past it.  The count is capped one past the limit.
GetCount(r) ==
  /\ get[r].at = "idle"
  /\ Stored
  /\ fetches <= FetchLimit
  /\ fetches' = fetches + 1
  /\ get' = IF fetches' > FetchLimit THEN get
            ELSE [get EXCEPT ![r] = [at |-> "audit", row |-> escrow]]
  /\ UNCHANGED <<escrow, put, audited, served, accepted, deaths>>

\* mutant: served without the record
GetUnaudited(r) ==
  /\ get[r].at = "audit"
  /\ get' = [get EXCEPT ![r].at = "serve"]
  /\ UNCHANGED <<escrow, put, fetches, audited, served, accepted, deaths>>

\* The audit row is committed before a byte is handed out.
GetAudit(r) ==
  /\ get[r].at = "audit"
  /\ audited' = audited + 1
  /\ get' = [get EXCEPT ![r].at = "serve"]
  /\ UNCHANGED <<escrow, put, fetches, served, accepted, deaths>>

GetServe(r) ==
  /\ get[r].at = "serve"
  /\ served' = served + 1
  /\ get' = [get EXCEPT ![r] = Idle]
  /\ UNCHANGED <<escrow, put, fetches, audited, accepted, deaths>>

Die ==
  /\ deaths < MaxDeaths
  /\ deaths' = deaths + 1
  /\ put' = [w \in Writer |-> Idle]
  /\ get' = [r \in Reader |-> Idle]
  /\ UNCHANGED <<escrow, fetches, audited, served, accepted>>

EscrowInit ==
  /\ escrow = NoEscrow
  /\ put = [w \in Writer |-> Idle]
  /\ get = [r \in Reader |-> Idle]
  /\ fetches = 0 /\ audited = 0 /\ served = 0 /\ accepted = {} /\ deaths = 0

EscrowNext ==
  \/ \E w \in Writer :
       \/ \E v \in 0 .. MaxVersion, pk, signer \in Root : PutRead(w, v, pk, signer)
       \/ PutInsert(w) \/ PutUpdate(w) \/ PutAnswer(w)
  \/ \E r \in Reader : GetCount(r) \/ GetAudit(r) \/ GetServe(r)
  \/ Die

EscrowSpec == EscrowInit /\ [][EscrowNext]_escrowVars

-----------------------------------------------------------------------------
(* Properties.                                                             *)

Row == [version : 1 .. MaxVersion, blob : Writer, root_pk : Root]

\* The type invariant.
EscrowTypeOK ==
  /\ escrow \in Row \cup {NoEscrow}
  /\ put \in [Writer -> {Idle} \cup [at : {"write", "answer"},
                                     version : 1 .. MaxVersion,
                                     root_pk : Root, observed : 0 .. MaxVersion]]
  /\ get \in [Reader -> {Idle} \cup [at : {"audit", "serve"}, row : Row]]
  /\ fetches \in 0 .. FetchLimit + 1 /\ audited \in Nat /\ served \in Nat
  /\ accepted \subseteq (1 .. MaxVersion) \X Writer
  /\ deaths \in 0 .. MaxDeaths

\* The slot only moves forward: once written it keeps its root, and any other
\* change is to a strictly higher version.  Writers race between their reads
\* and their writes.
SlotMovesForward ==
  [][Stored => /\ escrow'.version >= escrow.version
               /\ escrow'.root_pk = escrow.root_pk
               /\ escrow'.version = escrow.version => escrow' = escrow]_escrowVars

\* No acknowledged write is lost: one writer at most was told it stored each
\* version, and until a higher version supersedes it the row is the blob of the
\* writer that was told so.  A process that dies behind the commit leaves a row
\* nobody was told of, which is never told to another either.
AcceptedIsStored ==
  /\ \A a, b \in accepted : a[1] = b[1] => a = b
  /\ \A a \in accepted : /\ a[1] <= escrow.version
                         /\ a[1] = escrow.version => a[2] = escrow.blob

Serving == {r \in Reader : get[r].at = "serve"}

\* A blob never leaves unrecorded, and never past the window's quota, even
\* when the process dies between the record and the answer.
ServedIsAudited ==
  /\ served + Cardinality(Serving) <= audited
  /\ served <= FetchLimit
=============================================================================
