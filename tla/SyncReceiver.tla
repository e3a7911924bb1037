---------------------------- MODULE SyncReceiver ----------------------------
(***************************************************************************)
(* One device receiving the op log of one Workspace: SyncClient.pull and    *)
(* everything it calls for content ops and for the control ops that extend  *)
(* the control chain, at the granularity of the statements that commit      *)
(* separately.                                                              *)
(*                                                                          *)
(* A step is one committed SQLite statement or transaction.  Between two of *)
(* them the process may die (Crash: memory is lost, the database stays) or  *)
(* a write may fail (StorageFault: the SqliteException unwinds the pull,    *)
(* memory stays).  An honest server answers a pull with the ops above since *)
(* up to some position; a hostile one with anything it was given to offer.  *)
(*                                                                          *)
(* Left to other modules, and absent from Offer here: prune ops, bodies     *)
(* under an epoch key, and two control ops naming one predecessor.          *)
(***************************************************************************)
EXTENDS AuthorChain, Sequences, FiniteSets

CONSTANTS
  Self,        \* the member this device authors as
  NoMember,
  Class,       \* "register", "control" or "content", per op
  CtlPrev,     \* prev_control_hash of a control op: the op it names, or NoOp
  Verdict,     \* what the stages after the log insert say of a content op:
               \* "apply", "no_live_grant" or "hlc_in_the_future"
  Authored,    \* this device's own ops, as its outbox retains them
  MaxSeq,      \* bound: transport seqs are 1..MaxSeq
  Offer,       \* the (seq, op) pairs the server holds
  Server,      \* "honest": pages above since, in seq order; "reordering": the same
               \* pages, shuffled after their registers; "hostile": any page at all
  MaxPage,     \* bound: the ops of one page of a hostile server
  CrashAt,     \* the program points at which the process may die
  FaultAt,     \* the program points whose next write may fail
  MaxFaults    \* bound: crashes and storage faults together

Seqs == 1..MaxSeq

ASSUME ReceiverConstants ==
  /\ Self \in Member /\ NoMember \notin Member
  /\ Class \in [Op -> {"register", "control", "content"}]
  /\ CtlPrev \in [Op -> Op \cup {NoOp}]
  /\ Verdict \in [Op -> {"apply", "no_live_grant", "hlc_in_the_future"}]
  /\ Authored \subseteq {o \in Op : Author[o] = Self}
  /\ MaxSeq \in Nat /\ MaxPage \in Nat /\ MaxFaults \in Nat
  /\ Offer \subseteq Seqs \X Op
  /\ Server \in {"honest", "reordering", "hostile"}

\* Control forks are the ControlLog's subject: here every control op has a
\* predecessor of its own.
ASSUME NoControlForks ==
  \A o, p \in Op : /\ Class[o] # "content" /\ Class[p] # "content"
                   /\ CtlPrev[o] = CtlPrev[p]
                   => o = p

VARIABLES
  log,         \* op_log: the envelope stored at each transport seq
  stamp,       \* its applied_at / refused_reason: "none", "applied", "refused"
  reduced,     \* the content ops the reducer has applied
  quar,        \* quarantined_ops, in row-id order
  alarms,      \* the unresolved integrity alarms, as <<kind, author>>
  cursor,      \* sync_cursors.last_seq
  directory,   \* memory: the members whose keys this process has learned
  pc,          \* memory: the next statement of pull
  since,       \* memory: the since the page in hand was asked with
  page,        \* memory: the ops of that page not yet received
  at, op,      \* memory: the PulledOp being received (0, NoOp when none)
  why,         \* memory: the rejection being filed or accused
  cont,        \* memory: where the refusal path continues
  who,         \* memory: the author scanned for releasable successors
  claim,       \* memory: the quarantine row picked for release
  freed,       \* memory: releasedAny of the scan in progress
  faults       \* history: crashes and faults so far

durable == <<log, stamp, reduced, quar, alarms, cursor>>
pulled  == <<at, op>>
refusal == <<why, cont>>
scan    == <<who, claim, freed>>
vars    == <<durable, directory, pc, since, page, pulled, refusal, scan, faults>>

Logged == {log[s] : s \in Seqs} \ {NoOp}
Points == {"idle", "page", "file", "accuse", "judge", "stamp", "scan", "mark",
           "replay", "clear", "settle", "save", "tail"}

-----------------------------------------------------------------------------
(* Quarantine rows, alarms, and the questions asked of them. *)

GapReason == "author_chain_gap"
Reasons ==
  ChainRefusals \cup {"own_writes_divergence", "member_not_chained_to_root",
                     "control_chain_break", "stale_replayed_op", "no_live_grant",
                     "hlc_in_the_future"}

Row(s, o, reason) ==
  [seq |-> s, op |-> o, reason |-> reason, released |-> FALSE, started |-> FALSE]

\* Mutant: rows are told apart by position and reason, whatever their bytes.
QuarantinedBySeq(rows, s, o, reason) ==
  IF \E i \in 1..Len(rows) : rows[i].seq = s /\ rows[i].reason = reason
  THEN rows ELSE Append(rows, Row(s, o, reason))

\* _quarantine: one standing row per (seq, reason, bytes).
Quarantined(rows, s, o, reason) ==
  IF \E i \in 1..Len(rows) : /\ rows[i].seq = s /\ rows[i].op = o
                             /\ rows[i].reason = reason /\ ~rows[i].released
  THEN rows
  ELSE Append(rows, Row(s, o, reason))

\* The two release marks: _markReleased, _markReleaseStarted.
MarkedReleased(rows, i) == [rows EXCEPT ![i].released = TRUE]
MarkedStarted(rows, i)  == [rows EXCEPT ![i].started = TRUE]

\* alarmForRejection, on the reasons this module can produce.
Escalates == {"author_chain_gap", "prev_author_hash_mismatch", "author_chain_rewrite",
              "duplicate_op_id_divergence", "own_writes_divergence",
              "stale_replayed_op", "no_live_grant"}
AlarmKind(reason) ==
  IF reason = "stale_replayed_op" THEN "stale_prefix_served" ELSE reason
AlarmsFor(reason, m) ==
  IF reason \in Escalates THEN {<<AlarmKind(reason), m>>} ELSE {}

\* The rows waiting for a predecessor, all of them and those at head + 1.
GapRows(m) ==
  {i \in 1..Len(quar) : /\ quar[i].reason = GapReason /\ ~quar[i].released
                        /\ Author[quar[i].op] = m}
Claimants(m) == {i \in GapRows(m) : ASeq[quar[i].op] = HeadSeq(Logged, m) + 1}
Releasable(m) ==
  {i \in Claimants(m) : ChainVerdict(Logged, quar[i].op) \notin ChainRefusals}
Interrupted(m) == {i \in 1..Len(quar) : /\ ~quar[i].released /\ quar[i].started
                                        /\ Author[quar[i].op] = m}

\* _checkOwnWrites: the outbox holds other bytes at this device's own position.
OwnWriteDiverges(o) ==
  \E a \in Authored : Author[o] = Self /\ ASeq[a] = ASeq[o] /\ a # o

AppliedControl == {s \in Seqs : /\ log[s] # NoOp /\ stamp[s] = "applied"
                                /\ Class[log[s]] # "content"}
ControlHead ==
  IF AppliedControl = {} THEN NoOp
  ELSE log[CHOOSE s \in AppliedControl : \A t \in AppliedControl : t <= s]

(* What _receive makes of op o served at seq s, from the state as it stands. *)

\* The stages before the log insert; "accept" goes on to it.
Fate(o) ==
  IF Class[o] = "register"
  THEN IF ASeq[o] = 1 THEN "accept" ELSE "control_chain_break"
  ELSE IF Author[o] \notin directory THEN "member_not_chained_to_root"
  ELSE IF Class[o] = "control"        THEN "accept"
  ELSE LET verdict == ChainVerdict(Logged, o)
       IN  IF verdict \notin ChainRefusals /\ OwnWriteDiverges(o)
           THEN "own_writes_divergence"
           ELSE verdict

\* Mutant: the log is unique by author chain position only.
ChainSlotTaken(s, o) == \E l \in HeldBy(Logged, Author[o]) : ASeq[l] = ASeq[o]

\* _logReceived: the two unique indexes of op_log.
SlotTaken(s, o) ==
  \/ log[s] # NoOp
  \/ \E l \in HeldBy(Logged, Author[o]) : ASeq[l] = ASeq[o]

\* The stages after it.
LateFate(o) ==
  IF Class[o] = "content" THEN Verdict[o]
  ELSE IF CtlPrev[o] = ControlHead THEN "apply" ELSE "control_chain_break"

Held(s, o) ==
  \/ Fate(o) = "idempotent_skip"
  \/ Fate(o) = "accept" /\ log[s] = o
Collides(s, o)    == Fate(o) = "accept" /\ log[s] # o /\ SlotTaken(s, o)
Logs(s, o)        == Fate(o) = "accept" /\ ~SlotTaken(s, o)
RefusesUnlogged(o) == Fate(o) \notin {"accept", "idempotent_skip"}
Applies(s, o)     == Logs(s, o) /\ LateFate(o) = "apply"
Rejects(s, o)     == RefusesUnlogged(o) \/ (Logs(s, o) /\ LateFate(o) # "apply")
RejectReason(o)   == IF Fate(o) = "accept" THEN LateFate(o) ELSE Fate(o)

\* The columns those outcomes leave behind.
LogAfter(s, o)    == IF Logs(s, o) THEN [log EXCEPT ![s] = o] ELSE log
NoStampAfter(s, o) == stamp       \* mutant: a replayed op is logged and not stamped
StampAfter(s, o)  ==
  IF Logs(s, o)
  THEN [stamp EXCEPT ![s] = IF Applies(s, o) THEN "applied" ELSE "refused"]
  ELSE stamp
Learned(s, o)     == IF Applies(s, o) /\ Class[o] = "register" THEN {Author[o]} ELSE {}
Collision(s, o)   ==
  IF Collides(s, o) THEN {<<"author_chain_slot_collision", Author[o]>>} ELSE {}

-----------------------------------------------------------------------------
Init ==
  /\ log = [s \in Seqs |-> NoOp]
  /\ stamp = [s \in Seqs |-> "none"]
  /\ reduced = {} /\ quar = <<>> /\ alarms = {} /\ cursor = 0
  /\ directory = {Self}
  /\ pc = "idle" /\ since = 0 /\ page = {} /\ at = 0 /\ op = NoOp
  /\ why = "none" /\ cont = "save"
  /\ who = NoMember /\ claim = 0 /\ freed = FALSE
  /\ faults = 0

(* pull: one page at a time, each asked for with the cursor as it stands. *)

\* What a server may answer: an honest one, everything above from up to some seq.
Pages(from) ==
  IF Server = "hostile" THEN {p \in SUBSET Offer : Cardinality(p) <= MaxPage}
  ELSE {{e \in Offer : from < e[1] /\ e[1] <= b} : b \in Seqs}

\* Whether the loop over the page may meet <<s, o>> next.
MayComeNext(s, o) ==
  /\ Server = "honest" => \A e \in page : s <= e[1]
  /\ Server = "reordering" =>
       \A e \in page : Class[e[2]] = "register" => Class[o] = "register" /\ s <= e[1]

FetchPage ==
  /\ \/ pc = "idle"
     \/ pc = "page" /\ page = {} /\ cursor > since
  /\ page' \in Pages(cursor)
  /\ since' = cursor
  /\ pc' = "page"
  /\ UNCHANGED <<durable, directory, pulled, refusal, scan, faults>>

EndOfPages ==
  /\ pc = "page" /\ page = {}
  /\ pc' = "tail"
  /\ UNCHANGED <<durable, directory, since, page, pulled, refusal, scan, faults>>

Takes(s, o) ==
  /\ pc = "page" /\ <<s, o>> \in page /\ MayComeNext(s, o)
  /\ page' = page \ {<<s, o>>}
  /\ UNCHANGED <<since, scan, faults>>

\* _refuseStaleServe: an op at or below the since the page was asked with.
ReceiveStaleHeld(s, o) ==
  /\ Takes(s, o) /\ s <= since /\ log[s] = o
  /\ alarms' = alarms \cup {<<"stale_prefix_served", Author[o]>>}
  /\ UNCHANGED <<log, stamp, reduced, quar, cursor, directory, pc, pulled, refusal>>

ReceiveStaleOther(s, o) ==
  /\ Takes(s, o) /\ s <= since /\ log[s] # o
  /\ LET verdict == ChainVerdict(Logged, o)
     IN  why' = IF verdict \in ChainRefusals THEN verdict ELSE "stale_replayed_op"
  /\ at' = s /\ op' = o /\ cont' = "page" /\ pc' = "file"
  /\ UNCHANGED <<durable, directory>>

\* _receive, content: everything up to and including the op_log insert.
ReceiveContent(s, o) ==
  /\ Takes(s, o) /\ s > since /\ Class[o] = "content"
  /\ at' = s /\ op' = o
  /\ log' = LogAfter(s, o)
  /\ alarms' = alarms \cup Collision(s, o)
  /\ \/ Logs(s, o) /\ pc' = "judge" /\ UNCHANGED refusal
     \/ RefusesUnlogged(o) /\ why' = Fate(o) /\ cont' = "save" /\ pc' = "file"
     \/ (Held(s, o) \/ Collides(s, o)) /\ pc' = "save" /\ UNCHANGED refusal
  /\ UNCHANGED <<stamp, reduced, quar, cursor, directory>>

\* _receive, control: log, apply and stamp are one transaction.
ReceiveControl(s, o) ==
  /\ Takes(s, o) /\ s > since /\ Class[o] # "content"
  /\ at' = s /\ op' = o
  /\ log' = LogAfter(s, o)
  /\ stamp' = StampAfter(s, o)
  /\ directory' = directory \cup Learned(s, o)
  /\ alarms' = alarms \cup Collision(s, o)
  /\ IF Rejects(s, o)
     THEN why' = RejectReason(o) /\ cont' = "save" /\ pc' = "file"
     ELSE pc' = "save" /\ UNCHANGED refusal
  /\ UNCHANGED <<reduced, quar, cursor>>

\* Where an op that went through the reducer goes on: the scan of its author.
ThenScan == who' = Author[op] /\ freed' = FALSE /\ UNCHANGED claim

\* Mutant: an op refused after logging returns without the scan its head calls for.
JudgeWithoutScan ==
  /\ pc = "judge"
  /\ IF Verdict[op] = "apply"
     THEN /\ reduced' = reduced \cup {op} /\ pc' = "stamp" /\ ThenScan
          /\ UNCHANGED <<stamp, refusal>>
     ELSE /\ stamp' = [stamp EXCEPT ![at] = "refused"]
          /\ why' = Verdict[op] /\ cont' = "save" /\ pc' = "file"
          /\ UNCHANGED <<reduced, scan>>
  /\ UNCHANGED <<log, quar, alarms, cursor, directory, since, page, pulled, faults>>

\* Grant verdict and reducer: apply in one transaction, or stamp the refusal.
Judge ==
  /\ pc = "judge"
  /\ IF Verdict[op] = "apply"
     THEN /\ reduced' = reduced \cup {op} /\ pc' = "stamp"
          /\ UNCHANGED <<stamp, refusal>>
     ELSE /\ stamp' = [stamp EXCEPT ![at] = "refused"]
          /\ why' = Verdict[op] /\ cont' = "scan" /\ pc' = "file"
          /\ UNCHANGED reduced
  /\ ThenScan
  /\ UNCHANGED <<log, quar, alarms, cursor, directory, since, page, pulled, faults>>

StampApplied ==
  /\ pc = "stamp"
  /\ stamp' = [stamp EXCEPT ![at] = "applied"]
  /\ pc' = "scan"
  /\ UNCHANGED <<log, reduced, quar, alarms, cursor, directory, since, page, pulled,
                 refusal, scan, faults>>

\* _refuse: file the row, and raise what it stands for in a second statement.
File ==
  /\ pc = "file"
  /\ quar' = Quarantined(quar, at, op, why)
  /\ pc' = "accuse"
  /\ UNCHANGED <<log, stamp, reduced, alarms, cursor, directory, since, page, pulled,
                 refusal, scan, faults>>

\* Mutant: a refused op leaves the cursor where it was.
AccuseWithoutCursor ==
  /\ pc = "accuse"
  /\ alarms' = alarms \cup AlarmsFor(why, Author[op])
  /\ pc' = "page" /\ why' = "none" /\ cont' = "save" /\ at' = 0 /\ op' = NoOp
  /\ UNCHANGED <<log, stamp, reduced, quar, cursor, directory, since, page, scan, faults>>

Accuse ==
  /\ pc = "accuse"
  /\ alarms' = alarms \cup AlarmsFor(why, Author[op])
                \cup (IF cont = "page" THEN {<<"stale_prefix_served", Author[op]>>} ELSE {})
  /\ pc' = cont /\ why' = "none" /\ cont' = "save"
  /\ IF cont = "page" THEN at' = 0 /\ op' = NoOp ELSE UNCHANGED pulled
  /\ UNCHANGED <<log, stamp, reduced, quar, cursor, directory, since, page, scan, faults>>

(* _releaseChainSuccessors: the claimants at head + 1, to fixpoint. *)

\* Claimants of a position that more than one continuation claims: they do not chain
\* to the head, or chain to it beside another that does.
ForkedAt(m) ==
  {i \in Claimants(m) :
     \/ ChainVerdict(Logged, quar[i].op) = "prev_author_hash_mismatch"
     \/ i \in Releasable(m) /\ \E j \in Releasable(m) : quar[j].op # quar[i].op}

\* One pass over the claimants: the alarms it raises, and the winner it picks.
ScanAlarms(m) ==
  (IF ForkedAt(m) # {} THEN {<<"author_chain_fork", m>>} ELSE {})
  \cup UNION {AlarmsFor(ChainVerdict(Logged, quar[i].op), m) :
                 i \in Claimants(m) \ (Releasable(m) \cup ForkedAt(m))}

Scan ==
  /\ pc = "scan"
  /\ alarms' = alarms \cup ScanAlarms(who)
  /\ \/ Releasable(who) = {} /\ pc' = "clear" /\ UNCHANGED claim
     \/ \E winner \in Releasable(who) :
          /\ \A i \in Releasable(who) : winner <= i
          /\ pc' = "mark" /\ claim' = winner
  /\ UNCHANGED <<log, stamp, reduced, quar, cursor, directory, since, page, pulled,
                 refusal, who, freed, faults>>

\* Mutant: the replay begins with no durable marker.
StartUnmarked ==
  /\ pc = "mark" /\ pc' = "replay"
  /\ UNCHANGED <<durable, directory, since, page, pulled, refusal, scan, faults>>

\* _markReleaseStarted: durable before the replay begins.
MarkStarted ==
  /\ pc = "mark"
  /\ quar' = MarkedStarted(quar, claim)
  /\ pc' = "replay"
  /\ UNCHANGED <<log, stamp, reduced, alarms, cursor, directory, since, page, pulled,
                 refusal, scan, faults>>

\* The winner is marked released and received again, in one transaction.
Replay ==
  /\ pc = "replay"
  /\ LET s == quar[claim].seq
         o == quar[claim].op
         rows == MarkedReleased(quar, claim)
     IN  /\ log' = LogAfter(s, o)
         /\ stamp' = StampAfter(s, o)
         /\ reduced' = reduced \cup
              (IF Applies(s, o) /\ Class[o] = "content" THEN {o} ELSE {})
         /\ directory' = directory \cup Learned(s, o)
         /\ quar' = IF Rejects(s, o) THEN Quarantined(rows, s, o, RejectReason(o)) ELSE rows
         /\ alarms' = alarms \cup Collision(s, o) \cup
              (IF Rejects(s, o) THEN AlarmsFor(RejectReason(o), Author[o]) ELSE {})
  /\ freed' = TRUE /\ claim' = 0 /\ pc' = "scan"
  /\ UNCHANGED <<cursor, since, page, pulled, refusal, who, faults>>

\* Mutant: every scan returns to the reception of an op.
EndScanInPage == pc' = "save" /\ who' = NoMember /\ freed' = FALSE

\* A finished scan returns to the op being received, or to the pull's tail.
EndScan ==
  /\ pc' = IF op = NoOp THEN "tail" ELSE "save"
  /\ who' = NoMember /\ freed' = FALSE

\* _clearReleaseStarted, once a scan ran to its end.
Unmarked(rows, m) ==
  [i \in 1..Len(rows) |->
     IF Author[rows[i].op] = m THEN [rows[i] EXCEPT !.started = FALSE] ELSE rows[i]]

ClearStarted ==
  /\ pc = "clear"
  /\ quar' = Unmarked(quar, who)
  /\ IF freed THEN pc' = "settle" /\ UNCHANGED <<who, freed>> ELSE EndScan
  /\ UNCHANGED <<log, stamp, reduced, alarms, cursor, directory, since, page, pulled,
                 refusal, claim, faults>>

\* Mutant: one successor released resolves the gap alarm, whatever else is missing.
SettleTooEarly ==
  /\ pc = "settle"
  /\ alarms' = (alarms \cup {<<"author_stream_reordered", who>>}) \ {<<GapReason, who>>}
  /\ EndScan
  /\ UNCHANGED <<log, stamp, reduced, quar, cursor, directory, since, page, pulled,
                 refusal, claim, faults>>

\* The reorder is recorded, and the gap alarm resolved when nothing is missing.
SettleAlarms ==
  /\ pc = "settle"
  /\ alarms' = (alarms \cup {<<"author_stream_reordered", who>>})
                \ (IF GapRows(who) = {} THEN {<<GapReason, who>>} ELSE {})
  /\ EndScan
  /\ UNCHANGED <<log, stamp, reduced, quar, cursor, directory, since, page, pulled,
                 refusal, claim, faults>>

\* _saveCursor: the cursor only ever moves forward.
SaveCursor ==
  /\ pc = "save"
  /\ cursor' = IF at > cursor THEN at ELSE cursor
  /\ at' = 0 /\ op' = NoOp /\ pc' = "page"
  /\ UNCHANGED <<log, stamp, reduced, quar, alarms, directory, since, page, refusal,
                 scan, faults>>

\* The pull's tail: re-run the scan of every author whose release was interrupted.
ResumeRelease(m) ==
  /\ pc = "tail" /\ Interrupted(m) # {}
  /\ who' = m /\ freed' = FALSE /\ pc' = "scan"
  /\ UNCHANGED <<durable, directory, since, page, pulled, refusal, claim, faults>>

EndPull ==
  /\ pc = "tail" /\ \A m \in Member : Interrupted(m) = {}
  /\ pc' = "idle"
  /\ UNCHANGED <<durable, directory, since, page, pulled, refusal, scan, faults>>

-----------------------------------------------------------------------------
(* What goes wrong around the program. *)

Unwind ==
  /\ faults < MaxFaults /\ faults' = faults + 1
  /\ pc' = "idle" /\ since' = 0 /\ page' = {} /\ at' = 0 /\ op' = NoOp
  /\ why' = "none" /\ cont' = "save" /\ who' = NoMember /\ claim' = 0 /\ freed' = FALSE
  /\ UNCHANGED durable

\* The process dies; the next one starts with the database and its own keys.
Crash == pc \in CrashAt /\ Unwind /\ directory' = {Self}

\* A write fails: the exception leaves pull, and the process lives on.
StorageFault == pc \in FaultAt /\ Unwind /\ UNCHANGED directory

-----------------------------------------------------------------------------
Receive == \E s \in Seqs, o \in Op :
             \/ ReceiveStaleHeld(s, o) \/ ReceiveStaleOther(s, o)
             \/ ReceiveContent(s, o) \/ ReceiveControl(s, o)

Release == \/ Scan \/ MarkStarted \/ Replay \/ ClearStarted \/ SettleAlarms
           \/ \E m \in Member : ResumeRelease(m)

Next ==
  \/ FetchPage \/ EndOfPages \/ Receive
  \/ Judge \/ StampApplied \/ File \/ Accuse
  \/ Release \/ SaveCursor \/ EndPull
  \/ Crash \/ StorageFault

Spec == Init /\ [][Next]_vars

\* The device keeps pulling and runs a started pull on; an honest server that holds
\* ops above the cursor does not answer with an empty page for ever.
Fairness ==
  /\ WF_vars(Next /\ ~(Crash \/ StorageFault))
  /\ SF_vars(FetchPage /\ page' # {})

FairSpec == Spec /\ Fairness

-----------------------------------------------------------------------------
(* What the receiver promises. *)

QuarRow == [seq : Seqs, op : Op, reason : Reasons, released : BOOLEAN, started : BOOLEAN]
AlarmKinds ==
  {AlarmKind(r) : r \in Escalates}
    \cup {"author_chain_fork", "author_stream_reordered", "author_chain_slot_collision"}

\* Every variable has its type; the op in hand is the one the program point needs.
TypeOK ==
  /\ log \in [Seqs -> Op \cup {NoOp}]
  /\ stamp \in [Seqs -> {"none", "applied", "refused"}]
  /\ reduced \subseteq Op
  /\ quar \in Seq(QuarRow)
  /\ alarms \subseteq AlarmKinds \X Member
  /\ cursor \in 0..MaxSeq /\ since \in 0..MaxSeq
  /\ directory \subseteq Member
  /\ pc \in Points
  /\ page \subseteq Offer
  /\ why \in Reasons \cup {"none"} /\ cont \in {"page", "save", "scan"}
  /\ freed \in BOOLEAN /\ faults \in 0..MaxFaults
  /\ <<at, op>> \in {<<0, NoOp>>} \cup (Seqs \X Op)
  /\ pc \in {"judge", "stamp", "file", "accuse", "save"} => op # NoOp
  /\ pc \in {"file", "accuse"} => why # "none"
  /\ who \in Member \cup {NoMember}
  /\ cont = "scan" => pc \in {"file", "accuse"}
  /\ pc \in {"stamp", "scan", "mark", "replay", "clear", "settle"} \/ cont = "scan"
       => who \in Member
  /\ claim \in 0..Len(quar)
  /\ pc \in {"mark", "replay"} => claim # 0

\* The log of every author is a chain: no author_seq twice, and a content op stands on
\* the envelope it names, at the author_seq before its own (chainVerdict, _logReceived).
ChainLinked ==
  /\ \A s, t \in Seqs :
       /\ log[s] # NoOp /\ log[t] # NoOp /\ s # t
       /\ Author[log[s]] = Author[log[t]]
       => ASeq[log[s]] # ASeq[log[t]]
  /\ \A o \in Logged :
       Class[o] = "content" =>
         \/ ASeq[o] = 1 /\ Prev[o] = NoOp
         \/ /\ Prev[o] \in Logged
            /\ Author[Prev[o]] = Author[o] /\ ASeq[o] = ASeq[Prev[o]] + 1

\* The accusations that say an author signed what it must not have signed.
Accusations == {"author_chain_fork", "author_chain_rewrite", "prev_author_hash_mismatch",
                "duplicate_op_id_divergence"}

\* The authors who signed one chain, of content after their registration.
Honest ==
  {m \in Member : SignsOneChain(m) /\ \A o \in HeldBy(Op, m) : Class[o] # "control"}

\* Whatever a server withholds, reorders or repeats, an honest author is never accused of
\* forking or rewriting its chain (chainVerdict, _releaseChainSuccessors).
HonestNeverAccused ==
  \A m \in Honest, kind \in Accusations : <<kind, m>> \notin alarms

\* An op received at s is on record: logged, standing in quarantine, or accused of a
\* slot collision.
OnRecord(s, o) ==
  \/ o \in Logged
  \/ \E i \in 1..Len(quar) : quar[i].seq = s /\ quar[i].op = o /\ ~quar[i].released
  \/ <<"author_chain_slot_collision", Author[o]>> \in alarms

\* "One bad op must not stall a device", and none is dropped either: no op's reception
\* ends before it is on record, and what is on record stays there through every later
\* release, replay, crash and storage fault (_receive, _refuse, _releaseChainSuccessors).
NothingDropped ==
  [][\A s \in Seqs, o \in Op :
       OnRecord(s, o) \/ (pc = "save" /\ <<at, op>> = <<s, o>>) => OnRecord(s, o)']_vars

\* Evidence is never edited: a spent log position keeps its envelope, a verdict once
\* stamped stays, quarantine rows only gain and lose release marks, and the cursor
\* never moves back (_logReceived, _markReleased, _saveCursor).
EvidenceKept ==
  [][/\ \A s \in Seqs : /\ log[s] # NoOp => log'[s] = log[s]
                        /\ stamp[s] # "none" => stamp'[s] = stamp[s]
     /\ Len(quar) <= Len(quar')
     /\ \A i \in 1..Len(quar) :
          /\ quar'[i].seq = quar[i].seq /\ quar'[i].op = quar[i].op
          /\ quar'[i].reason = quar[i].reason
          /\ quar[i].released => quar'[i].released
     /\ cursor <= cursor']_vars

\* "Exactly one of the two is set" (OpLog.appliedAt, refusedReason): every logged op is
\* the one in hand, or stamped, and then reduced exactly when its stamp says so; what is
\* not yet stamped lies above the cursor, where the server serves it again.
ExactlyOneVerdict ==
  \A s \in Seqs : log[s] # NoOp /\ at # s =>
    /\ stamp[s] = "none" => s > cursor
    /\ Class[log[s]] = "content" => (stamp[s] = "applied" <=> log[s] \in reduced)

\* Between pulls no successor that could be released lies in quarantine unless a later
\* pull will look at its author again.
ReadySuccessorsReArmed ==
  pc = "idle" => \A m \in Member : Releasable(m) # {} => Interrupted(m) # {}

\* Between pulls the gap alarm stands against exactly the authors with a gap row left.
GapAlarmTracksGaps ==
  pc = "idle" => \A m \in Member : GapRows(m) # {} <=> <<GapReason, m>> \in alarms

\* "A rehydrated device knows whom it has registered": an author whose registration
\* this device applied is not refused for want of one.
RegisteredIsKnown ==
  \A i \in 1..Len(quar) : quar[i].reason = "member_not_chained_to_root" =>
    ~ \E s \in AppliedControl : /\ s < quar[i].seq /\ Class[log[s]] = "register"
                                 /\ Author[log[s]] = Author[quar[i].op]

\* The op the server holds at a seq is logged and judged, and reduced if it applies.
Settled(s, o) ==
  /\ o \in Logged /\ stamp[s] # "none"
  /\ Class[o] = "content" /\ Verdict[o] = "apply" => o \in reduced

\* "Arrival order 3, 2, 1 converges in a single sync": a pull that no fault cut short
\* leaves everything it was served settled, whatever the order within its pages
\* (_releaseChainSuccessors).
HealsInOneSync ==
  pc = "idle" /\ faults = 0 => \A e \in Offer : e[1] <= cursor => Settled(e[1], e[2])

\* Ops whose author the served log registers.
Vouched(o) == \E e \in Offer : Class[e[2]] = "register" /\ Author[e[2]] = Author[o]

\* "One bad op from a server must not be able to stall a device": whatever faults cut
\* pulls short, the cursor gets past every op, each is put on record, and each op of a
\* registered author is settled for good (pull, _receive).
Converges ==
  <>[](\A e \in Offer : /\ e[1] <= cursor /\ OnRecord(e[1], e[2])
                        /\ Vouched(e[2]) => Settled(e[1], e[2]))

-----------------------------------------------------------------------------
(* The chains a device keeps, one per author, as ChainLog describes them. *)

\* The authors of content on top of a registration; a later control op is logged
\* without the chain check (_receive) and may leave a hole below it.
ContentAuthors == {m \in Member : \A o \in HeldBy(Op, m) : Class[o] # "control"}

ChainIn(held, m) ==
  [n \in 1..HeadSeq(held, m) |-> CHOOSE o \in HeldBy(held, m) : ASeq[o] = n]

keptChains == [m \in ContentAuthors |-> ChainIn(Logged, m)]
appliedOps == {o \in reduced : Author[o] \in ContentAuthors}

HeldLog == INSTANCE ChainLog WITH
  Author <- ContentAuthors, chain <- keptChains, acked <- appliedOps

\* Whatever a server withholds, reorders, repeats or forges, and wherever the process
\* dies, what a device holds of an author is a chain that only ever grows at its end,
\* and what it has applied of that author is in it (_receive, _logReceived).
KeepsChainLog == HeldLog!ReaderSpec

\* A set of envelopes a device may hold of an author: one at each author_seq, and
\* below every op but the first the one it names.
LinkedIn(held, m) ==
  /\ \A o, p \in HeldBy(held, m) : ASeq[o] = ASeq[p] => o = p
  /\ \A o \in HeldBy(held, m) :
       \/ ASeq[o] = 1
       \/ Prev[o] \in HeldBy(held, m) /\ ASeq[o] = ASeq[Prev[o]] + 1

\* The ops of m up to author_seq n.
UpTo(held, m, n) == {o \in HeldBy(held, m) : ASeq[o] <= n}

\* What prev_author_hash is in the header for: a device that shares one op of an author
\* with any linked history, as every other device holds one, shares that author's whole
\* past below it; a server that shows two devices two branches cannot join them again,
\* and devices that compare heads would see it.
SharedOpSharedPast ==
  \A other \in SUBSET Op, m \in ContentAuthors :
    LinkedIn(other, m) =>
      /\ LinkedIn(Logged, m)
      /\ \A o \in HeldBy(Logged, m) \cap other :
           UpTo(Logged, m, ASeq[o]) = UpTo(other, m, ASeq[o])

-----------------------------------------------------------------------------
(* What a theorem of the receiver may ask of the world around it. *)

\* No crash and no fault falls between the log insert of an op and its stamp.
VerdictsAreWhole == {"judge", "stamp"} \cap (CrashAt \cup FaultAt) = {}

\* No crash and no fault falls between a gap row and its alarm, or between the release
\* of one and the end of the scan that settles the alarm.
GapsAreSettled == {"accuse", "scan", "mark", "clear", "settle"} \cap (CrashAt \cup FaultAt) = {}

\* The server shows each page as it holds it, shuffled at most, and no crash and no fault
\* falls between the log insert of an op and the scan it calls for, or between a scan and
\* the durable mark on the row it picked.
ReleasesGoThrough ==
  /\ Server # "hostile"
  /\ {"judge", "stamp", "file", "accuse", "scan", "mark"} \cap (CrashAt \cup FaultAt) = {}

\* The log holds an author's registration below its content.
RegistersFirst ==
  \A e, f \in Offer : /\ Class[e[2]] = "register" /\ Class[f[2]] = "content"
                      /\ Author[e[2]] = Author[f[2]]
                      => e[1] < f[1]

\* No content op follows a control op of its author directly: what the receipt of a
\* control op makes ready is not asked again (_receive).
NothingOnControl ==
  \A o, p \in Op : /\ Class[o] = "content" /\ Class[p] = "control"
                   /\ Author[o] = Author[p]
                   => ASeq[o] # ASeq[p] + 1

\* The registrations the server holds.
Registrations == {e \in Offer : Class[e[2]] = "register"}

\* The server holds what honest authors wrote: one op at a position and one position for
\* an op, every author's ops from author_seq 1 on in order, content of members it holds
\* the registration of, and every registration on top of the one before it.
ServesHonestChains ==
  /\ \A e, f \in Offer : e[1] = f[1] \/ e[2] = f[2] => e = f
  /\ \A e \in Offer :
       /\ Author[e[2]] \in Honest
       /\ Class[e[2]] = "register" => ASeq[e[2]] = 1
       /\ Author[e[2]] = Self \/ Vouched(e[2])
       /\ \A n \in 1..(ASeq[e[2]] - 1) : \E f \in Offer :
            f[1] < e[1] /\ Author[f[2]] = Author[e[2]] /\ ASeq[f[2]] = n
  /\ \A e \in Registrations :
       LET below == {f \in Registrations : f[1] < e[1]}
       IN  \/ below = {} /\ CtlPrev[e[2]] = NoOp
           \/ \E f \in below : CtlPrev[e[2]] = f[2] /\ \A g \in below : g[1] <= f[1]
=============================================================================
