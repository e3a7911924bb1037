------------------------------- MODULE Outbox -------------------------------
(***************************************************************************)
(* A device writing to one workspace: the outbox, the author chain it      *)
(* numbers, the claim of a place in the workspace (found it, or register   *)
(* and be granted) and flushOutbox over a wire that delays and loses       *)
(* requests and answers.  The server is what post_ops does with one        *)
(* author's ops; another device may found the workspace first, revoke this *)
(* one's grant or rotate the key past what it sealed under.  The process   *)
(* may die between any two steps, and the device's database may be         *)
(* restored from an older copy.                                            *)
(***************************************************************************)
EXTENDS Naturals, Sequences, FiniteSets

CONSTANTS MaxOps,      \* bound on the ops the device authors
          BatchLimit,  \* maxOpsPerBatch
          MaxFaults,   \* bound on lost answers, given up requests, deaths and shut doors
          MayRestore   \* whether the database may be put back

ASSUME OutboxAssumption ==
  /\ MaxOps \in Nat /\ MaxFaults \in Nat
  /\ BatchLimit \in Nat \ {0} /\ MayRestore \in BOOLEAN

VARIABLES device,    \* the durable tables: outbox, authorState, own part of op_log
          claim,     \* how far the running ceremony's claim has come
          post,      \* the flush in progress
          delayed,   \* chunks whose sender gave up, still on their way
          mine,      \* server: the ops stored of this author, by author_seq
          founder,   \* server: who founded the workspace
          door,      \* server: what it holds against this author's content
          accused,   \* an ownWritesRollback or ownWritesDivergence alarm stands
          backup,    \* a copy of the device's tables
          restored,  \* the copy was put back
          drawn,     \* op ids drawn; an op is its id
          faults

outboxVars == <<device, claim, post, delayed, mine, founder, door, accused, backup,
                restored, drawn, faults>>

Nobody == "nobody"
Resting == [at |-> "rest"]
EmptyDevice == [outbox |-> {}, authored |-> 0, logged |-> 0, founded |-> FALSE]

-----------------------------------------------------------------------------
(* The device.  Its outbox is a table: a row is an op at an author_seq.     *)

Kinds == {"genesis", "register", "grant", "content"}
OpOf(row) == [id |-> row.id, kind |-> row.kind]
Unsent(d) == {row \in d.outbox : ~row.sent}
Acknowledged(d) ==
  LET sent == {row.seq : row \in d.outbox \ Unsent(d)}
  IN IF sent = {} THEN 0 ELSE CHOOSE n \in sent : \A o \in sent : o <= n

\* mutant: numbered with the old head
AuthoredFromZero(d, id, kind) ==
  [d EXCEPT !.outbox = @ \cup {[id |-> id, kind |-> kind, seq |-> d.authored, sent |-> FALSE]},
            !.authored = @ + 1]

\* One op, numbered and queued with the chain's new head in one transaction.
Authored(d, id, kind) ==
  [d EXCEPT !.outbox =
              @ \cup {[id |-> id, kind |-> kind, seq |-> d.authored + 1, sent |-> FALSE]},
            !.authored = @ + 1]

\* The own ops that a pull logs: the stored ones up to the first that the
\* outbox contradicts.
Undisputed(d) ==
  {n \in DOMAIN mine : \A row \in d.outbox : row.seq <= n => OpOf(row) = mine[row.seq]}
Pulled(d) ==
  [d EXCEPT !.logged = IF Undisputed(d) = {} THEN @
                       ELSE CHOOSE n \in Undisputed(d) : \A o \in Undisputed(d) : o <= n,
            !.founded = founder # Nobody]

\* mutant: what is not marked sent cannot be in the log
AccuseUnsent(d) == \E row \in Unsent(d) : row.seq \in DOMAIN mine

CheckOwnWrites(d) ==
  \E row \in d.outbox : row.seq \in DOMAIN mine /\ OpOf(row) # mine[row.seq]

\* What the store says of itself after the ceremony or a relaunch: enrolled as
\* soon as the log it pulled was founded by somebody.
Enrolled == device.founded /\ claim = "none"

\* An enrolled device syncs; one whose grant was revoked is refused.
Pull ==
  /\ Enrolled /\ door # "revoked"
  /\ device' = Pulled(device)
  /\ accused' = (accused \/ CheckOwnWrites(device))
  /\ UNCHANGED <<claim, post, delayed, mine, founder, door,
                 backup, restored, drawn, faults>>

\* _claimOnce on a device that is not enrolled, or again after a lost race:
\* pull and look,
ClaimPull ==
  /\ post.at = "rest" /\ drawn + 2 <= MaxOps /\ door # "revoked"
  /\ claim = "again" \/ (claim = "none" /\ ~device.founded)
  /\ device' = Pulled(device)
  /\ claim' = IF device'.founded THEN "register" ELSE "genesis"
  /\ accused' = (accused \/ CheckOwnWrites(device))
  /\ UNCHANGED <<post, delayed, mine, founder, door, backup, restored, drawn, faults>>

\* found an empty workspace, register in any other,
ClaimFirst ==
  /\ claim \in {"genesis", "register"} /\ drawn + 2 <= MaxOps
  /\ device' = Authored(device, drawn + 1, claim)
  /\ claim' = "grant"
  /\ drawn' = drawn + 1
  /\ UNCHANGED <<post, delayed, mine, founder, door, accused, backup, restored, faults>>

\* and queue the owner grant before the flush.
ClaimGrant ==
  /\ claim = "grant" /\ drawn < MaxOps
  /\ device' = Authored(device, drawn + 1, "grant")
  /\ claim' = "flush"
  /\ drawn' = drawn + 1
  /\ UNCHANGED <<post, delayed, mine, founder, door, accused, backup, restored, faults>>

\* After the flush the device applies what it authored, if the pull is answered.
ClaimPullBack ==
  /\ claim = "pull" /\ door # "revoked"
  /\ device' = Pulled(device)
  /\ claim' = "none"
  /\ accused' = (accused \/ CheckOwnWrites(device))
  /\ UNCHANGED <<post, delayed, mine, founder, door, backup, restored, drawn, faults>>

ClaimPullRefused ==
  /\ claim \in {"pull", "again"} /\ door = "revoked"
  /\ claim' = "none"
  /\ UNCHANGED <<device, post, delayed, mine, founder, door, accused, backup, restored,
                 drawn, faults>>

\* A user's write.
Capture ==
  /\ Enrolled /\ drawn < MaxOps
  /\ device' = Authored(device, drawn + 1, "content")
  /\ drawn' = drawn + 1
  /\ UNCHANGED <<claim, post, delayed, mine, founder, door,
                 accused, backup, restored, faults>>

-----------------------------------------------------------------------------
(* The server.                                                             *)

StoredOps == {mine[n] : n \in DOMAIN mine}
\* mutant: posted again is appended again
EveryRow(chunk) == chunk
FreshOf(chunk) == {row \in chunk : OpOf(row) \notin StoredOps}
Founding(chunk) == \E row \in chunk : row.kind = "genesis"
Granted(chunk, row) == \/ door # "revoked" /\ \E op \in StoredOps : op.kind = "grant"
                       \/ \E r \in chunk : r.seq < row.seq /\ r.kind = "grant"

\* The door: the author's own history, and what others made of the workspace.  A replay
\* is judged like any other op.
DoorRefuses(chunk) ==
  \E row \in chunk :
    CASE row.kind = "register" -> founder = Nobody \/ row.seq # 1
      [] row.kind = "grant"    -> founder = Nobody /\ ~Founding(chunk)
      [] row.kind = "content"  -> door = "rotated" \/ ~Granted(chunk, row)
      [] OTHER -> FALSE

\* The fresh ops, in the order of their positions, go on where the chain ends.
ChainConflicts(chunk) ==
  \E row \in FreshOf(chunk) :
    \/ row.seq # Len(mine) + 1 /\ \A r \in FreshOf(chunk) : r.seq # row.seq - 1
    \/ \E r \in FreshOf(chunk) \ {row} : r.seq = row.seq

PostAnswer(chunk) ==
  IF Founding(chunk) /\ founder # Nobody THEN [code |-> "genesis_not_first"]
  ELSE IF DoorRefuses(chunk)    THEN [code |-> "refused"]
  ELSE IF ChainConflicts(chunk) THEN [code |-> "author_chain_conflict",
                                      expected |-> Len(mine) + 1]
  ELSE [code |-> "stored"]

ServerTakes(chunk) ==
  IF PostAnswer(chunk).code = "stored"
  THEN /\ mine' = [n \in DOMAIN mine \cup {row.seq : row \in FreshOf(chunk)} |->
                     IF n \in DOMAIN mine THEN mine[n]
                     ELSE OpOf(CHOOSE row \in FreshOf(chunk) : row.seq = n)]
       /\ founder' = IF Founding(chunk) THEN "me" ELSE founder
  ELSE UNCHANGED <<mine, founder>>

PostArrives ==
  /\ post.at = "asked"
  /\ ServerTakes(post.chunk)
  /\ post' = [at |-> "answered", chunk |-> post.chunk, rest |-> post.rest,
              answer |-> PostAnswer(post.chunk)]
  /\ UNCHANGED <<device, claim, delayed, door, accused, backup, restored, drawn, faults>>

DelayedArrives(chunk) ==
  /\ chunk \in delayed
  /\ ServerTakes(chunk)
  /\ delayed' = delayed \ {chunk}
  /\ UNCHANGED <<device, claim, post, door, accused, backup, restored, drawn, faults>>

RivalFounds ==
  /\ founder = Nobody
  /\ founder' = "rival"
  /\ UNCHANGED <<device, claim, post, delayed, mine, door,
                 accused, backup, restored, drawn, faults>>

\* Another owner revokes this device's grant, or rotates the key two epochs past what a
\* queued write was sealed under; the chunks behind that write never go out.
DoorShuts(why) ==
  /\ faults < MaxFaults /\ faults' = faults + 1
  /\ door = "open" /\ founder # Nobody
  /\ \/ why = "revoked" /\ \E op \in StoredOps : op.kind = "grant"
     \/ why = "rotated" /\ \E row \in Unsent(device) : row.kind = "content"
  /\ door' = why
  /\ UNCHANGED <<device, claim, post, delayed, mine, founder, accused, backup, restored,
                 drawn>>

-----------------------------------------------------------------------------
(* flushOutbox.                                                            *)

\* The rows in the order of the query, cut after BatchLimit.
Precedes(r, row) == r.seq < row.seq \/ (r.seq = row.seq /\ r.id < row.id)
ChunkOf(rows) ==
  {row \in rows : Cardinality({r \in rows : Precedes(r, row)}) < BatchLimit}
Asking(rows) == IF rows = {} THEN Resting
                ELSE [at |-> "asked", chunk |-> ChunkOf(rows), rest |-> rows \ ChunkOf(rows)]

Flush ==
  /\ post.at = "rest" /\ (Enrolled \/ claim = "flush")
  /\ Unsent(device) # {}
  /\ post' = Asking(Unsent(device))
  /\ UNCHANGED <<device, claim, delayed, mine, founder, door,
                 accused, backup, restored, drawn, faults>>

Answered(code) == post.at = "answered" /\ post.answer.code = code
InRows(row, rows) == \E r \in rows : r.id = row.id

\* A duplicate is still an acknowledgement.  The next chunk goes out.
MarkSent ==
  /\ Answered("stored")
  /\ device' = [device EXCEPT !.outbox =
       {IF InRows(row, post.chunk) THEN [row EXCEPT !.sent = TRUE] ELSE row : row \in @}]
  /\ post' = Asking(post.rest)
  /\ claim' = IF post.rest = {} /\ claim = "flush" THEN "pull" ELSE claim
  /\ UNCHANGED <<delayed, mine, founder, door, accused, backup, restored, drawn, faults>>

\* mutant: the chain keeps the positions it dropped
DropWithoutRewind ==
  /\ Answered("genesis_not_first")
  /\ device' = [device EXCEPT
       !.outbox = {row \in @ : ~InRows(row, post.chunk \cup post.rest)}]
  /\ post' = Resting
  /\ claim' = IF claim = "flush" THEN "again" ELSE claim
  /\ UNCHANGED <<delayed, mine, founder, door, accused, backup, restored, drawn, faults>>

\* The genesis and all that was queued behind it go, and the chain is rewound
\* to what the pulled log holds.
DropSupersededGenesis ==
  /\ Answered("genesis_not_first")
  /\ device' = [device EXCEPT
       !.outbox = {row \in @ : ~InRows(row, post.chunk \cup post.rest)},
       !.authored = device.logged]
  /\ post' = Resting
  /\ claim' = IF claim = "flush" THEN "again" ELSE claim
  /\ UNCHANGED <<delayed, mine, founder, door, accused, backup, restored, drawn, faults>>

\* The server names a position this device was told it passed, or one it never
\* reached.  Nothing is renumbered and the queue stays.
RecordOwnWritesVerdict ==
  /\ Answered("author_chain_conflict")
  /\ LET expected == post.answer.expected
     IN accused' = \/ accused
                   \/ expected <= Acknowledged(device)
                   \/ expected > device.authored + 1
  /\ post' = Resting
  /\ claim' = IF claim = "flush" THEN "pull" ELSE claim
  /\ UNCHANGED <<device, delayed, mine, founder, door, backup, restored, drawn, faults>>

\* Any other refusal is thrown to the caller.
Rethrow ==
  /\ Answered("refused")
  /\ post' = Resting /\ claim' = "none"
  /\ UNCHANGED <<device, delayed, mine, founder, door, accused,
                 backup, restored, drawn, faults>>

-----------------------------------------------------------------------------
(* Faults.                                                                 *)

\* The request is late, its answer is lost or the process dies: tables are as
\* they were, the server may or may not take the chunk, and a claim is off.
GiveUp ==
  /\ faults < MaxFaults /\ (post.at # "rest" \/ claim # "none")
  /\ faults' = faults + 1
  /\ delayed' = IF post.at = "asked" THEN delayed \cup {post.chunk} ELSE delayed
  /\ post' = Resting /\ claim' = "none"
  /\ UNCHANGED <<device, mine, founder, door, accused, backup, restored, drawn>>

\* One copy is taken, with something acknowledged in it.
SaveBackup ==
  /\ MayRestore /\ ~restored /\ backup = EmptyDevice /\ Acknowledged(device) > 0
  /\ backup' = device
  /\ UNCHANGED <<device, claim, post, delayed, mine, founder,
                 door, accused, restored, drawn, faults>>

Restore ==
  /\ MayRestore /\ ~restored /\ post.at = "rest" /\ backup # device
  /\ device' = backup
  /\ restored' = TRUE /\ claim' = "none"
  /\ UNCHANGED <<post, delayed, mine, founder, door, accused, backup, drawn, faults>>

OutboxInit ==
  /\ device = EmptyDevice /\ backup = EmptyDevice
  /\ claim = "none" /\ post = Resting /\ delayed = {} /\ mine = <<>>
  /\ founder \in {Nobody, "rival"} /\ door = "open"
  /\ accused = FALSE /\ restored = FALSE
  /\ drawn = 0
  /\ faults \in 0 .. MaxFaults

\* What runs on once it was started: a ceremony, its flush included, and the chunks of
\* any flush.
Running == \/ ClaimFirst \/ ClaimGrant \/ (claim = "flush" /\ Flush)
           \/ ClaimPullBack \/ ClaimPullRefused
           \/ PostArrives \/ MarkSent \/ DropSupersededGenesis \/ RecordOwnWritesVerdict
           \/ Rethrow

OutboxNext == \/ Running \/ Flush \/ ClaimPull \/ Capture \/ Pull
              \/ \E chunk \in delayed : DelayedArrives(chunk)
              \/ RivalFounds \/ (\E why \in {"revoked", "rotated"} : DoorShuts(why))
              \/ GiveUp \/ SaveBackup \/ Restore

\* Answers come back but for MaxFaults times.  Nothing is bound to start a flush.
OutboxFairness == WF_outboxVars(Running)

OutboxSpec == OutboxInit /\ [][OutboxNext]_outboxVars /\ OutboxFairness

\* Of a behaviour's first state: answers are lost only where another device founded
\* the workspace.
FoundsWithoutLoss == founder = Nobody => faults = MaxFaults

-----------------------------------------------------------------------------
(* Properties.                                                             *)

OutboxOp == [id : 1 .. MaxOps, kind : Kinds]
OutboxRow == [id : 1 .. MaxOps, kind : Kinds, seq : 1 .. MaxOps, sent : BOOLEAN]

\* The type invariant.
OutboxTypeOK ==
  /\ {device, backup} \subseteq
       [outbox : SUBSET OutboxRow, authored : 0 .. MaxOps, logged : 0 .. MaxOps, founded : BOOLEAN]
  /\ claim \in {"none", "genesis", "register", "grant", "flush", "pull", "again"}
  /\ post.at \in {"rest", "asked", "answered"}
  /\ post.at # "rest" => post.chunk \in SUBSET OutboxRow /\ post.rest \in SUBSET OutboxRow
  /\ delayed \subseteq SUBSET OutboxRow
  /\ mine \in Seq(OutboxOp) /\ founder \in {Nobody, "rival", "me"}
  /\ door \in {"open", "revoked", "rotated"}
  /\ accused \in BOOLEAN /\ restored \in BOOLEAN
  /\ drawn \in 0 .. MaxOps /\ faults \in 0 .. MaxFaults

\* What was lost, delayed, answered twice or raced for never breaks the chain
\* of a device whose database was not put back: every position it has spent
\* holds one op, stored at the server or waiting in the outbox, and a row that
\* says sent is stored.
SpentPositionsHeld ==
  ~restored =>
    /\ Len(mine) <= device.authored \/ mine = <<>>
    /\ \A n \in 1 .. device.authored :
         LET here == {OpOf(row) : row \in {r \in device.outbox : r.seq = n}}
         IN /\ Cardinality(here) = 1
            /\ n <= Len(mine) => here = {mine[n]}
    /\ \A row \in device.outbox : row.sent => row.seq <= Len(mine)

\* No device is told that its history was rolled back or rewritten unless its
\* own database was: not by a lost answer, a late duplicate or a lost race.
OnlyRestoredAreAccused == accused => restored

\* Who goes on flushing drains the queue: unless from some time on no flush is started,
\* what an enrolled device with a place in the workspace authored leaves the queue for
\* good, stored or superseded, whatever answers were lost on the way.  No retry meets the
\* same refusal for ever unless the door was shut to this device's content.
HasPlace == \/ \E op \in StoredOps : op.kind = "grant"
            \/ \E row \in device.outbox : row.kind = "grant"
QueueDrains ==
  \/ <>[](post.at = "rest")
  \/ <>[](\/ restored \/ ~Enrolled \/ ~HasPlace
          \/ door # "open" \/ Unsent(device) = {})

\* sync_client.dart, _dropSupersededGenesis: "none of these rows were accepted:
\* the batch failed whole, so the positions they claim are unspent".
DroppedWereNeverAccepted ==
  [][DropSupersededGenesis =>
       \A row \in device.outbox :
         InRows(row, post.chunk \cup post.rest) => OpOf(row) \notin StoredOps]_outboxVars

\* enrolment_state.dart: "the ceremony has crash windows and a device sitting in
\* one is neither enrolled nor free to start over".
EnrolledHasPlace == Enrolled => HasPlace

-----------------------------------------------------------------------------
(* The chain a device writes, at the server, as ChainLog describes it.      *)

writtenChain == [author \in {"me"} |-> mine]
toldStored   == {OpOf(row) : row \in device.outbox \ Unsent(device)}

WrittenLog == INSTANCE ChainLog WITH
  Author <- {"me"}, chain <- writtenChain, acked <- toldStored

\* What a device is answered, however late, often or in vain it asks, is what the log
\* of chains promises: its chain at the server only grows at its end, and, until its
\* database is put back, what its outbox marks as sent is in that chain and stays
\* marked (post_ops, flushOutbox, _dropSupersededGenesis).
WritesToChainLog ==
  /\ WrittenLog!Init
  /\ [][WrittenLog!Extends(mine', mine)]_mine
  /\ [][~restored' => WrittenLog!Next]_<<writtenChain, toldStored>>
=============================================================================
