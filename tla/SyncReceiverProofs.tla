------------------------ MODULE SyncReceiverProofs ------------------------
(***************************************************************************)
(* Theorems about SyncReceiver, for every set of members, ops and seqs,     *)
(* every kind of server, and any number of crashes and storage faults.      *)
(***************************************************************************)
EXTENDS SyncReceiver, SequenceTheorems, WellFoundedInduction, TLAPS

-----------------------------------------------------------------------------
(* Lemmas about the operators. *)

\* Rows hold an unreleased refusal of o at s, for that reason.
StandsIn(rows, s, o, reason) ==
  \E i \in 1..Len(rows) : /\ rows[i].seq = s /\ rows[i].op = o
                         /\ rows[i].reason = reason /\ ~rows[i].released

\* Quarantining keeps the table a table, never shrinks it, and keeps its rows.
LEMMA QuarantinedRows ==
  ASSUME NEW rows \in Seq(QuarRow), NEW s \in Seqs, NEW o \in Op, NEW reason \in Reasons
  PROVE  /\ Quarantined(rows, s, o, reason) \in Seq(QuarRow)
         /\ Len(rows) <= Len(Quarantined(rows, s, o, reason))
         /\ \A i \in 1..Len(rows) : Quarantined(rows, s, o, reason)[i] = rows[i]
         /\ StandsIn(Quarantined(rows, s, o, reason), s, o, reason)
<1> DEFINE new == Quarantined(rows, s, o, reason)
<1>0. Len(rows) \in Nat
  BY LenProperties
<1>1. CASE StandsIn(rows, s, o, reason)
  <2>1. new = rows
    BY <1>1 DEF Quarantined, StandsIn
  <2>2. QED
    BY <1>0, <1>1, <2>1
<1>2. CASE ~StandsIn(rows, s, o, reason)
  <2>1. new = Append(rows, Row(s, o, reason))
    BY <1>2 DEF Quarantined, StandsIn
  <2>2. Row(s, o, reason) \in QuarRow
    BY DEF Row, QuarRow
  <2> HIDE DEF new
  <2>3. /\ new \in Seq(QuarRow) /\ Len(new) = Len(rows) + 1
        /\ \A i \in 1..Len(rows) : new[i] = rows[i]
        /\ new[Len(rows) + 1] = Row(s, o, reason)
    BY <2>1, <2>2, AppendProperties
  <2>4. /\ Row(s, o, reason).seq = s /\ Row(s, o, reason).op = o
        /\ Row(s, o, reason).reason = reason /\ ~Row(s, o, reason).released
    BY DEF Row
  <2>5. StandsIn(new, s, o, reason)
    <3>1. Len(rows) + 1 \in 1..Len(new)
      BY <1>0, <2>3
    <3>2. QED
      BY <2>3, <2>4, <3>1 DEF StandsIn
  <2>6. Len(rows) <= Len(new)
    BY <1>0, <2>3
  <2>7. QED
    BY <2>3, <2>5, <2>6 DEF new
<1>3. QED
  BY <1>1, <1>2

\* _markReleased writes the mark and keeps what the row says, and every other row.
LEMMA ReleasedRow ==
  ASSUME NEW rows \in Seq(QuarRow), NEW i \in 1..Len(rows)
  PROVE  /\ MarkedReleased(rows, i) \in Seq(QuarRow)
         /\ Len(MarkedReleased(rows, i)) = Len(rows)
         /\ \A j \in 1..Len(rows) : j # i => MarkedReleased(rows, i)[j] = rows[j]
         /\ MarkedReleased(rows, i)[i].seq = rows[i].seq
         /\ MarkedReleased(rows, i)[i].op = rows[i].op
         /\ MarkedReleased(rows, i)[i].reason = rows[i].reason
         /\ MarkedReleased(rows, i)[i].released = TRUE
<1> DEFINE r == [rows[i] EXCEPT !.released = TRUE]
<1>1. rows[i] \in QuarRow
  BY ElementOfSeq
<1>2. /\ r \in QuarRow
      /\ r.seq = rows[i].seq /\ r.op = rows[i].op /\ r.reason = rows[i].reason
      /\ r.released = TRUE
  BY <1>1 DEF QuarRow
<1>3. MarkedReleased(rows, i) = [rows EXCEPT ![i] = r]
  BY DEF MarkedReleased
<1> HIDE DEF r
<1>4. /\ [rows EXCEPT ![i] = r] \in Seq(QuarRow)
      /\ Len([rows EXCEPT ![i] = r]) = Len(rows)
      /\ \A j \in 1..Len(rows) : [rows EXCEPT ![i] = r][j] = IF j = i THEN r ELSE rows[j]
  BY <1>2, ExceptSeq
<1>5. QED
  BY <1>2, <1>3, <1>4

\* _markReleaseStarted changes nothing a row says.
LEMMA StartedRow ==
  ASSUME NEW rows \in Seq(QuarRow), NEW i \in 1..Len(rows)
  PROVE  /\ MarkedStarted(rows, i) \in Seq(QuarRow)
         /\ Len(MarkedStarted(rows, i)) = Len(rows)
         /\ \A j \in 1..Len(rows) :
              /\ MarkedStarted(rows, i)[j].seq = rows[j].seq
              /\ MarkedStarted(rows, i)[j].op = rows[j].op
              /\ MarkedStarted(rows, i)[j].reason = rows[j].reason
              /\ MarkedStarted(rows, i)[j].released = rows[j].released
<1> DEFINE r == [rows[i] EXCEPT !.started = TRUE]
<1>1. rows[i] \in QuarRow
  BY ElementOfSeq
<1>2. /\ r \in QuarRow
      /\ r.seq = rows[i].seq /\ r.op = rows[i].op /\ r.reason = rows[i].reason
      /\ r.released = rows[i].released
  BY <1>1 DEF QuarRow
<1>3. MarkedStarted(rows, i) = [rows EXCEPT ![i] = r]
  BY DEF MarkedStarted
<1> HIDE DEF r
<1>4. /\ [rows EXCEPT ![i] = r] \in Seq(QuarRow)
      /\ Len([rows EXCEPT ![i] = r]) = Len(rows)
      /\ \A j \in 1..Len(rows) : [rows EXCEPT ![i] = r][j] = IF j = i THEN r ELSE rows[j]
  BY <1>2, ExceptSeq
<1>5. QED
  BY <1>2, <1>3, <1>4

\* A function on 1..n is a sequence.
LEMMA FunctionIsSeq ==
  ASSUME NEW S, NEW n \in Nat, NEW f \in [1..n -> S]
  PROVE  f \in Seq(S) /\ Len(f) = n
  OBVIOUS

\* _clearReleaseStarted takes marks off rows and does nothing else to them.
LEMMA ClearedRows ==
  ASSUME NEW rows \in Seq(QuarRow), NEW m
  PROVE  /\ Unmarked(rows, m) \in Seq(QuarRow) /\ Len(Unmarked(rows, m)) = Len(rows)
         /\ \A i \in 1..Len(rows) :
              /\ Unmarked(rows, m)[i].seq = rows[i].seq
              /\ Unmarked(rows, m)[i].op = rows[i].op
              /\ Unmarked(rows, m)[i].reason = rows[i].reason
              /\ Unmarked(rows, m)[i].released = rows[i].released
<1> DEFINE new == Unmarked(rows, m)
<1>1. ASSUME NEW i \in 1..Len(rows)
      PROVE  /\ new[i] \in QuarRow
             /\ new[i].seq = rows[i].seq /\ new[i].op = rows[i].op
             /\ new[i].reason = rows[i].reason /\ new[i].released = rows[i].released
  <2>1. rows[i] \in QuarRow
    BY ElementOfSeq
  <2>2. QED
    BY <2>1 DEF QuarRow, Unmarked
<1>2. Len(rows) \in Nat
  BY LenProperties
<1>3. new \in [1..Len(rows) -> QuarRow]
  BY <1>1 DEF Unmarked
<1>4. QED
  BY <1>1, <1>2, <1>3, FunctionIsSeq

-----------------------------------------------------------------------------
(* Type correctness. *)

\* What the receive path says of an op is a verdict or a reason it may file.
LEMMA FateType ==
  ASSUME NEW o \in Op
  PROVE  /\ ChainVerdict(Logged, o) \in ChainRefusals \cup {"accept", "idempotent_skip"}
         /\ Fate(o) \in Reasons \cup {"accept", "idempotent_skip"}
         /\ Fate(o) \notin {"accept", "idempotent_skip"} => Fate(o) \in Reasons
         /\ LateFate(o) # "apply" => LateFate(o) \in Reasons
<1>1. ChainVerdict(Logged, o) \in ChainRefusals \cup {"accept", "idempotent_skip"}
  BY DEF ChainVerdict, ChainRefusals
<1>2. Fate(o) \in Reasons \cup {"accept", "idempotent_skip"}
  BY <1>1 DEF Fate, Reasons
<1>3. LateFate(o) # "apply" => LateFate(o) \in Reasons
  BY ReceiverConstants DEF LateFate, Reasons
<1>4. QED
  BY <1>1, <1>2, <1>3

\* A refusal, a release scan and an accusation raise alarms of the known kinds.
LEMMA AlarmTypes ==
  ASSUME NEW m \in Member
  PROVE  /\ \A reason : AlarmsFor(reason, m) \subseteq AlarmKinds \X Member
         /\ ScanAlarms(m) \subseteq AlarmKinds \X Member
         /\ <<"stale_prefix_served", m>> \in AlarmKinds \X Member
         /\ <<"author_stream_reordered", m>> \in AlarmKinds \X Member
<1>1. ASSUME NEW r PROVE AlarmsFor(r, m) \subseteq AlarmKinds \X Member
  BY DEF AlarmsFor, AlarmKinds
<1>2. ScanAlarms(m) \subseteq AlarmKinds \X Member
  <2>1. (IF ForkedAt(m) # {} THEN {<<"author_chain_fork", m>>} ELSE {})
          \subseteq AlarmKinds \X Member
    BY DEF AlarmKinds
  <2>2. QED
    BY <1>1, <2>1 DEF ScanAlarms
<1>3. "stale_prefix_served" \in AlarmKinds
  <2>1. "stale_replayed_op" \in Escalates
    BY DEF Escalates
  <2>2. AlarmKind("stale_replayed_op") = "stale_prefix_served"
    BY DEF AlarmKind
  <2>3. QED
    BY <2>1, <2>2 DEF AlarmKinds
<1>4. "author_stream_reordered" \in AlarmKinds
  BY DEF AlarmKinds
<1>5. QED
  BY <1>1, <1>2, <1>3, <1>4

\* So does a collision of log positions.
LEMMA CollisionType ==
  ASSUME NEW s \in Seqs, NEW o \in Op
  PROVE  Collision(s, o) \subseteq AlarmKinds \X Member
  BY ChainConstants DEF Collision, AlarmKinds

\* Every step keeps the types.
LEMMA TypeStep ==
  ASSUME TypeOK, [Next]_vars
  PROVE  TypeOK'
<1> USE DEF TypeOK
<1>1. CASE FetchPage
  BY <1>1 DEF FetchPage, Pages, durable, pulled, refusal, scan, Points
<1>2. CASE EndOfPages
  BY <1>2 DEF EndOfPages, durable, pulled, refusal, scan, Points
<1>3. ASSUME NEW s \in Seqs, NEW o \in Op, ReceiveStaleHeld(s, o)
      PROVE  TypeOK'
  <2>1. Author[o] \in Member
    BY ChainConstants
  <2>2. alarms' \subseteq AlarmKinds \X Member
    BY <1>3, <2>1, AlarmTypes DEF ReceiveStaleHeld
  <2>3. QED
    BY <1>3, <2>2 DEF ReceiveStaleHeld, Takes, pulled, refusal, scan
<1>4. ASSUME NEW s \in Seqs, NEW o \in Op, ReceiveStaleOther(s, o)
      PROVE  TypeOK'
  <2>1. why' \in Reasons
    BY <1>4 DEF ReceiveStaleOther, Reasons
  <2>2. why' # "none"
    BY <2>1 DEF Reasons, ChainRefusals
  <2>3. QED
    BY <1>4, <2>1, <2>2, ChainConstants DEF ReceiveStaleOther, Takes, durable, scan, Points
<1>5. ASSUME NEW s \in Seqs, NEW o \in Op, ReceiveContent(s, o)
      PROVE  TypeOK'
  <2>1. alarms' \subseteq AlarmKinds \X Member
    <3>1. Author[o] \in Member
      BY ChainConstants
    <3>2. QED
      BY <1>5, <3>1, CollisionType DEF ReceiveContent
  <2>2. log' \in [Seqs -> Op \cup {NoOp}]
    BY <1>5 DEF ReceiveContent, LogAfter
  <2>3. /\ why' \in Reasons \cup {"none"} /\ cont' \in {"page", "save"}
        /\ pc' \in {"judge", "file", "save"} /\ pc' = "file" => why' # "none"
    BY <1>5, FateType DEF ReceiveContent, RefusesUnlogged, Takes, refusal, Reasons, ChainRefusals
  <2>4. QED
    BY <1>5, <2>1, <2>2, <2>3, ChainConstants DEF ReceiveContent, Takes, scan, Points
<1>6. ASSUME NEW s \in Seqs, NEW o \in Op, ReceiveControl(s, o)
      PROVE  TypeOK'
  <2>1. alarms' \subseteq AlarmKinds \X Member
    <3>1. Author[o] \in Member
      BY ChainConstants
    <3>2. QED
      BY <1>6, <3>1, CollisionType DEF ReceiveControl
  <2>2. /\ log' \in [Seqs -> Op \cup {NoOp}]
        /\ stamp' \in [Seqs -> {"none", "applied", "refused"}]
        /\ directory' \subseteq Member
    BY <1>6, ChainConstants DEF ReceiveControl, LogAfter, StampAfter, Learned
  <2>3. /\ why' \in Reasons \cup {"none"} /\ cont' \in {"page", "save"}
        /\ pc' \in {"file", "save"} /\ pc' = "file" => why' # "none"
    BY <1>6, FateType
    DEF ReceiveControl, Rejects, RejectReason, RefusesUnlogged, Logs, Takes, refusal,
        Reasons, ChainRefusals
  <2>4. QED
    BY <1>6, <2>1, <2>2, <2>3, ChainConstants DEF ReceiveControl, Takes, scan, Points
<1>7. CASE Judge
  <2>1. op \in Op /\ at \in Seqs /\ Author[op] \in Member /\ Verdict[op] \in
          {"apply", "no_live_grant", "hlc_in_the_future"}
    BY <1>7, ChainConstants, ReceiverConstants DEF Judge
  <2>2. stamp' \in [Seqs -> {"none", "applied", "refused"}]
    BY <1>7 DEF Judge
  <2>3. /\ why' \in Reasons \cup {"none"} /\ cont' \in {"page", "save", "scan"}
        /\ pc' \in {"stamp", "file"} /\ pc' = "file" => why' # "none"
        /\ cont' = "scan" => pc' = "file"
    BY <1>7, <2>1 DEF Judge, refusal, Reasons
  <2>4. QED
    BY <1>7, <2>1, <2>2, <2>3 DEF Judge, ThenScan, pulled, Points
<1>8. CASE StampApplied
  <2>1. at \in Seqs
    BY <1>8 DEF StampApplied
  <2>2. stamp' \in [Seqs -> {"none", "applied", "refused"}]
    BY <1>8, <2>1 DEF StampApplied
  <2>3. QED
    BY <1>8, <2>2 DEF StampApplied, pulled, refusal, scan, Points
<1>9. CASE File
  <2>1. quar' \in Seq(QuarRow) /\ Len(quar) <= Len(quar')
    BY <1>9, QuarantinedRows DEF File
  <2>2. claim \in 0..Len(quar')
    BY <2>1, LenProperties
  <2>3. QED
    BY <1>9, <2>1, <2>2 DEF File, pulled, refusal, scan, Points
<1>10. CASE Accuse
  <2>1. Author[op] \in Member
    BY <1>10, ChainConstants DEF Accuse
  <2>2. alarms' \subseteq AlarmKinds \X Member
    BY <1>10, <2>1, AlarmTypes DEF Accuse
  <2>3. QED
    BY <1>10, <2>2 DEF Accuse, pulled, scan, Points
<1>11. CASE Scan
  <2>1. alarms' \subseteq AlarmKinds \X Member
    BY <1>11, AlarmTypes DEF Scan
  <2>2. Releasable(who) \subseteq 1..Len(quar)
    BY DEF Releasable, Claimants, GapRows
  <2>3. claim' \in 0..Len(quar) /\ pc' \in {"clear", "mark"}
        /\ (pc' = "mark" => claim' # 0)
    BY <1>11, <2>2 DEF Scan
  <2>4. QED
    BY <1>11, <2>1, <2>3 DEF Scan, pulled, refusal, Points
<1>12. CASE MarkStarted
  <2>1. claim \in 1..Len(quar)
    BY <1>12 DEF MarkStarted
  <2>2. quar' \in Seq(QuarRow) /\ Len(quar') = Len(quar)
    BY <1>12, <2>1, StartedRow DEF MarkStarted
  <2>3. QED
    BY <1>12, <2>2 DEF MarkStarted, pulled, refusal, scan, Points
<1>13. CASE Replay
  <2> DEFINE row  == quar[claim]
             rows == MarkedReleased(quar, claim)
  <2>1. claim \in 1..Len(quar) /\ row \in QuarRow
    BY <1>13, ElementOfSeq DEF Replay
  <2>2. rows \in Seq(QuarRow)
    BY <2>1, ReleasedRow
  <2>3. row.seq \in Seqs /\ row.op \in Op /\ Author[row.op] \in Member
    BY <2>1, ChainConstants DEF QuarRow
  <2>4. Rejects(row.seq, row.op) => RejectReason(row.op) \in Reasons
    BY <2>3, FateType DEF Rejects, RejectReason, RefusesUnlogged, Logs
  <2> HIDE DEF row, rows
  <2>5. /\ log' = LogAfter(row.seq, row.op) /\ stamp' = StampAfter(row.seq, row.op)
        /\ reduced' \subseteq reduced \cup {row.op}
        /\ directory' = directory \cup Learned(row.seq, row.op)
        /\ quar' = IF Rejects(row.seq, row.op)
                   THEN Quarantined(rows, row.seq, row.op, RejectReason(row.op))
                   ELSE rows
        /\ alarms' = alarms \cup Collision(row.seq, row.op) \cup
             (IF Rejects(row.seq, row.op)
              THEN AlarmsFor(RejectReason(row.op), Author[row.op]) ELSE {})
        /\ pc' = "scan" /\ claim' = 0 /\ freed' = TRUE
        /\ UNCHANGED <<cursor, since, page, pulled, refusal, who, faults>>
        /\ pc = "replay"
    BY <1>13 DEF Replay, row, rows
  <2>6. quar' \in Seq(QuarRow) /\ 0 \in 0..Len(quar')
    <3>1. quar' \in Seq(QuarRow)
      BY <2>2, <2>3, <2>4, <2>5, QuarantinedRows
    <3>2. QED
      BY <3>1, LenProperties
  <2>7. alarms' \subseteq AlarmKinds \X Member
    BY <2>3, <2>5, AlarmTypes, CollisionType
  <2>8. /\ log' \in [Seqs -> Op \cup {NoOp}]
        /\ stamp' \in [Seqs -> {"none", "applied", "refused"}]
        /\ directory' \subseteq Member /\ reduced' \subseteq Op
    BY <2>3, <2>5 DEF LogAfter, StampAfter, Learned
  <2>9. QED
    BY <2>5, <2>6, <2>7, <2>8 DEF pulled, refusal, Points
<1>14. CASE ClearStarted
  <2>1. quar' \in Seq(QuarRow) /\ Len(quar') = Len(quar)
    BY <1>14, ClearedRows DEF ClearStarted
  <2>2. QED
    BY <1>14, <2>1 DEF ClearStarted, EndScan, pulled, refusal, Points
<1>15. CASE SettleAlarms
  <2>1. alarms' \subseteq AlarmKinds \X Member
    BY <1>15, AlarmTypes DEF SettleAlarms
  <2>2. QED
    BY <1>15, <2>1 DEF SettleAlarms, EndScan, pulled, refusal, Points
<1>16. ASSUME NEW m \in Member, ResumeRelease(m)
       PROVE  TypeOK'
  BY <1>16 DEF ResumeRelease, durable, pulled, refusal, Points
<1>17. CASE SaveCursor
  BY <1>17, ReceiverConstants DEF SaveCursor, refusal, scan, Points, Seqs
<1>18. CASE EndPull
  BY <1>18 DEF EndPull, durable, pulled, refusal, scan, Points
<1>19. CASE Crash \/ StorageFault
  <2>1. Unwind /\ directory' \subseteq Member
    BY <1>19, ReceiverConstants DEF Crash, StorageFault
  <2>2. /\ 0 \in 0..Len(quar) /\ faults' \in 0..MaxFaults
        /\ <<at', op'>> \in {<<0, NoOp>>} \cup (Seqs \X Op)
        /\ 0 \in 0..MaxSeq
    BY <2>1, LenProperties, ReceiverConstants DEF Unwind
  <2>3. QED
    BY <2>1, <2>2, ReceiverConstants DEF Unwind, durable, Points
<1>20. CASE UNCHANGED vars
  BY <1>20 DEF vars, durable, pulled, refusal, scan
<1>21. QED
  BY <1>1, <1>2, <1>3, <1>4, <1>5, <1>6, <1>7, <1>8, <1>9, <1>10, <1>11, <1>12, <1>13,
     <1>14, <1>15, <1>16, <1>17, <1>18, <1>19, <1>20 DEF Next, Receive, Release

\* Whatever the server, the crashes and the faults, the receiver's state has its types
\* and every program point the op, the author or the row it works on.
THEOREM TypeCorrect == Spec => []TypeOK
<1>1. Init => TypeOK
  <2> SUFFICES ASSUME Init PROVE TypeOK
    OBVIOUS
  <2>1. quar \in Seq(QuarRow) /\ claim \in 0..Len(quar)
    BY EmptySeq DEF Init
  <2>2. /\ log \in [Seqs -> Op \cup {NoOp}]
        /\ stamp \in [Seqs -> {"none", "applied", "refused"}]
    BY DEF Init
  <2>3. /\ <<at, op>> \in {<<0, NoOp>>} \cup (Seqs \X Op)
        /\ 0 \in 0..MaxSeq /\ 0 \in 0..MaxFaults
    BY ReceiverConstants DEF Init
  <2>4. QED
    BY <2>1, <2>2, <2>3, ReceiverConstants DEF Init, TypeOK, Points
<1>2. TypeOK /\ [Next]_vars => TypeOK'
  BY TypeStep
<1>3. QED
  BY <1>1, <1>2, PTL DEF Spec
-----------------------------------------------------------------------------
(* The log grows by accepted ops, one at a time. *)

\* Every step leaves the log alone or logs one op that may be logged.
LEMMA LogStep ==
  ASSUME TypeOK, [Next]_vars
  PROVE  \/ log' = log
         \/ \E s \in Seqs, o \in Op : Logs(s, o) /\ log' = [log EXCEPT ![s] = o]
<1>1. ASSUME NEW s \in Seqs, NEW o \in Op, log' = LogAfter(s, o)
      PROVE  \/ log' = log
             \/ \E t \in Seqs, p \in Op : Logs(t, p) /\ log' = [log EXCEPT ![t] = p]
  BY <1>1 DEF LogAfter
<1>2. ASSUME Replay
      PROVE  \E s \in Seqs, o \in Op : log' = LogAfter(s, o)
  <2>1. claim \in 1..Len(quar) /\ quar \in Seq(QuarRow)
    BY <1>2 DEF Replay, TypeOK
  <2>2. quar[claim] \in QuarRow
    BY <2>1, ElementOfSeq
  <2>3. quar[claim].seq \in Seqs /\ quar[claim].op \in Op
    BY <2>2 DEF QuarRow
  <2>4. log' = LogAfter(quar[claim].seq, quar[claim].op)
    BY <1>2 DEF Replay
  <2>5. QED
    BY <2>3, <2>4
<1>3. ASSUME NEW s \in Seqs, NEW o \in Op, ReceiveContent(s, o) \/ ReceiveControl(s, o)
      PROVE  log' = LogAfter(s, o)
  BY <1>3 DEF ReceiveContent, ReceiveControl
<1>4. CASE \/ FetchPage \/ EndOfPages \/ Judge \/ StampApplied \/ File \/ Accuse
           \/ Scan \/ MarkStarted \/ ClearStarted \/ SettleAlarms \/ SaveCursor
           \/ EndPull \/ Crash \/ StorageFault
           \/ \E m \in Member : ResumeRelease(m)
           \/ \E s \in Seqs, o \in Op : ReceiveStaleHeld(s, o) \/ ReceiveStaleOther(s, o)
           \/ UNCHANGED vars
  BY <1>4
  DEF FetchPage, EndOfPages, Judge, StampApplied, File, Accuse, Scan, MarkStarted,
      ClearStarted, SettleAlarms, SaveCursor, EndPull, Crash, StorageFault, Unwind,
      ResumeRelease, ReceiveStaleHeld, ReceiveStaleOther, durable, vars
<1>5. QED
  BY <1>1, <1>2, <1>3, <1>4 DEF Next, Receive, Release

\* Logging o adds o and nothing else to the set of logged ops.
LEMMA LoggedAfter ==
  ASSUME TypeOK, NEW s \in Seqs, NEW o \in Op, Logs(s, o),
         log' = [log EXCEPT ![s] = o]
  PROVE  Logged' = Logged \cup {o}
<1>1. log[s] = NoOp /\ o # NoOp
  BY ChainConstants DEF Logs, SlotTaken
<1>2. QED
  BY <1>1 DEF Logged, TypeOK

\* Only ops are logged, and their author_seqs are numbers.
LEMMA LoggedOps ==
  ASSUME TypeOK
  PROVE  Logged \subseteq Op /\ \A o \in Logged : ASeq[o] \in Nat /\ Author[o] \in Member
  BY ChainConstants DEF Logged, TypeOK

-----------------------------------------------------------------------------
(* The chain of every author. *)

\* Every author with an op in the log has a head.
HeadsExist ==
  \A m \in Member : HeldBy(Logged, m) # {} => \E h \in HeldBy(Logged, m) : IsHead(Logged, h)

\* The derived head seq is the author_seq of any op that is a head.
LEMMA HeadOfLog ==
  ASSUME NEW held \in SUBSET Op, NEW h \in held, IsHead(held, h)
  PROVE  HeadSeq(held, Author[h]) = ASeq[h]
<1> DEFINE m == Author[h]
           c == CHOOSE g \in HeldBy(held, m) : IsHead(held, g)
<1>1. h \in HeldBy(held, m)
  BY DEF HeldBy
<1>2. c \in HeldBy(held, m) /\ IsHead(held, c)
  BY <1>1
<1>3. Author[c] = m /\ c \in Op /\ h \in Op
  BY <1>2 DEF HeldBy
<1>4. ASeq[c] <= ASeq[h] /\ ASeq[h] <= ASeq[c]
  BY <1>1, <1>2, <1>3 DEF IsHead
<1>5. ASeq[c] = ASeq[h]
  BY <1>3, <1>4, ChainConstants
<1>6. HeadSeq(held, m) = ASeq[c]
  BY <1>1 DEF HeadSeq
<1>7. QED
  BY <1>5, <1>6

\* An accepted content op starts its author's chain or stands on its head.
LEMMA AcceptedStandsOnHead ==
  ASSUME TypeOK, HeadsExist, NEW o \in Op, ChainVerdict(Logged, o) = "accept"
  PROVE  \/ HeldBy(Logged, Author[o]) = {} /\ ASeq[o] = 1 /\ Prev[o] = NoOp
         \/ \E h \in HeldBy(Logged, Author[o]) :
              IsHead(Logged, h) /\ Prev[o] = h /\ ASeq[o] = ASeq[h] + 1
<1>1. ASeq[o] = HeadSeq(Logged, Author[o]) + 1 /\ NamesHead(Logged, o)
  BY DEF ChainVerdict
<1>2. CASE HeldBy(Logged, Author[o]) = {}
  BY <1>1, <1>2 DEF HeadSeq, NamesHead
<1>3. CASE HeldBy(Logged, Author[o]) # {}
  <2>1. PICK h \in HeldBy(Logged, Author[o]) : IsHead(Logged, h) /\ Prev[o] = h
    BY <1>1, <1>3 DEF NamesHead
  <2>2. h \in Logged /\ Author[h] = Author[o]
    BY <2>1 DEF HeldBy
  <2>3. HeadSeq(Logged, Author[h]) = ASeq[h]
    BY <2>1, <2>2, HeadOfLog, LoggedOps
  <2>4. QED
    BY <1>1, <2>1, <2>2, <2>3
<1>4. QED
  BY <1>2, <1>3

\* A logged content op was accepted by the chain.
LEMMA LoggedContentAccepted ==
  ASSUME NEW s, NEW o, Logs(s, o), Class[o] = "content"
  PROVE  ChainVerdict(Logged, o) = "accept"
  BY DEF Logs, Fate

\* An author with ops in the log has a derived head: author_seqs do not grow without end.
LEMMA HeadsExistInvariant == Spec => []HeadsExist
<1>1. Init => HeadsExist
  BY DEF Init, HeadsExist, HeldBy, Logged
<1>2. TypeOK /\ HeadsExist /\ [Next]_vars => HeadsExist'
  <2> SUFFICES ASSUME TypeOK, HeadsExist, [Next]_vars PROVE HeadsExist'
    OBVIOUS
  <2>1. CASE log' = log
    BY <2>1 DEF HeadsExist, HeldBy, IsHead, Logged
  <2>2. ASSUME NEW s \in Seqs, NEW o \in Op, Logs(s, o), log' = [log EXCEPT ![s] = o]
        PROVE  HeadsExist'
    <3> DEFINE new == Logged \cup {o}
    <3>1. Logged' = new
      BY <2>2, LoggedAfter
    <3>2. ASSUME NEW m \in Member, HeldBy(new, m) # {}
          PROVE  \E h \in HeldBy(new, m) : IsHead(new, h)
      <4>1. CASE Author[o] # m
        <5>1. HeldBy(new, m) = HeldBy(Logged, m)
          BY <4>1 DEF HeldBy
        <5>2. PICK h \in HeldBy(Logged, m) : IsHead(Logged, h)
          BY <3>2, <5>1 DEF HeadsExist
        <5>3. Author[h] = m /\ h \in new
          BY <5>2 DEF HeldBy
        <5>4. IsHead(new, h)
          BY <5>1, <5>2, <5>3 DEF IsHead
        <5>5. QED
          BY <5>1, <5>2, <5>4
      <4>2. CASE Author[o] = m /\ HeldBy(Logged, m) = {}
        <5>1. HeldBy(new, m) = {o}
          BY <4>2 DEF HeldBy
        <5>2. ASeq[o] <= ASeq[o]
          BY ChainConstants
        <5>3. QED
          BY <4>2, <5>1, <5>2 DEF IsHead
      <4>3. CASE Author[o] = m /\ HeldBy(Logged, m) # {}
        <5>1. PICK h \in HeldBy(Logged, m) : IsHead(Logged, h)
          BY <4>3 DEF HeadsExist
        <5>2. Author[h] = m /\ h \in Logged
          BY <5>1 DEF HeldBy
        <5>3. HeldBy(new, m) = HeldBy(Logged, m) \cup {o}
          BY <4>3 DEF HeldBy
        <5>4. \A p \in HeldBy(Logged, m) : ASeq[p] <= ASeq[h] /\ ASeq[p] \in Nat
          BY <5>1, <5>2, LoggedOps DEF IsHead, HeldBy
        <5>5. ASeq[o] \in Nat /\ ASeq[h] \in Nat
          BY <5>1, <5>4, ChainConstants
        <5>6. CASE ASeq[o] <= ASeq[h]
          BY <5>1, <5>2, <5>3, <5>4, <5>6 DEF IsHead
        <5>7. CASE ~(ASeq[o] <= ASeq[h])
          <6>1. \A p \in HeldBy(new, m) : ASeq[p] <= ASeq[o]
            BY <5>3, <5>4, <5>5, <5>7
          <6>2. QED
            BY <4>3, <5>3, <6>1 DEF IsHead
        <5>8. QED
          BY <5>6, <5>7
      <4>4. QED
        BY <4>1, <4>2, <4>3
    <3>3. QED
      BY <3>1, <3>2 DEF HeadsExist, HeldBy, IsHead
  <2>3. QED
    BY <2>1, <2>2, LogStep
<1>3. QED
  BY <1>1, <1>2, TypeCorrect, PTL DEF Spec

\* Whatever is served, the log never holds one author_seq of an author twice, and a
\* logged content op stands on the envelope it names (chainVerdict, _logReceived).
THEOREM LogIsChains == Spec => []ChainLinked
<1>1. Init => ChainLinked
  BY DEF Init, ChainLinked, Logged
<1>2. TypeOK /\ HeadsExist /\ ChainLinked /\ [Next]_vars => ChainLinked'
  <2> SUFFICES ASSUME TypeOK, HeadsExist, ChainLinked, [Next]_vars PROVE ChainLinked'
    OBVIOUS
  <2>1. CASE log' = log
    BY <2>1 DEF ChainLinked, Logged
  <2>2. ASSUME NEW s \in Seqs, NEW o \in Op, Logs(s, o), log' = [log EXCEPT ![s] = o]
        PROVE  ChainLinked'
    <3>1. Logged' = Logged \cup {o}
      BY <2>2, LoggedAfter
    <3>2. \A l \in Logged : Author[l] = Author[o] => ASeq[l] # ASeq[o]
      BY <2>2 DEF Logs, SlotTaken, HeldBy
    <3>3. ASSUME NEW t \in Seqs, NEW u \in Seqs, log'[t] # NoOp, log'[u] # NoOp, t # u,
                 Author[log'[t]] = Author[log'[u]]
          PROVE  ASeq[log'[t]] # ASeq[log'[u]]
      <4>1. \A r \in Seqs : r # s => log'[r] = log[r]
        BY <2>2 DEF TypeOK
      <4>2. log'[s] = o
        BY <2>2 DEF TypeOK
      <4>3. CASE t = s
        BY <3>2, <3>3, <4>1, <4>2, <4>3 DEF Logged
      <4>4. CASE u = s
        BY <3>2, <3>3, <4>1, <4>2, <4>4 DEF Logged
      <4>5. CASE t # s /\ u # s
        BY <3>3, <4>1, <4>5 DEF ChainLinked
      <4>6. QED
        BY <4>3, <4>4, <4>5
    <3>4. ASSUME NEW p \in Logged', Class[p] = "content"
          PROVE  \/ ASeq[p] = 1 /\ Prev[p] = NoOp
                 \/ /\ Prev[p] \in Logged'
                    /\ Author[Prev[p]] = Author[p] /\ ASeq[p] = ASeq[Prev[p]] + 1
      <4>1. CASE p \in Logged
        BY <3>1, <3>4, <4>1 DEF ChainLinked
      <4>2. CASE p = o
        <5>1. ChainVerdict(Logged, o) = "accept"
          BY <2>2, <3>4, <4>2, LoggedContentAccepted
        <5>2. QED
          BY <3>1, <4>2, <5>1, AcceptedStandsOnHead DEF HeldBy
      <4>3. QED
        BY <3>1, <4>1, <4>2
    <3>5. QED
      BY <3>3, <3>4 DEF ChainLinked
  <2>3. QED
    BY <2>1, <2>2, LogStep
<1>3. QED
  BY <1>1, <1>2, TypeCorrect, HeadsExistInvariant, PTL DEF Spec
-----------------------------------------------------------------------------
(* What is recorded stays recorded. *)

\* A position that holds no envelope holds no verdict either, and the position in hand
\* between the log insert and the verdict holds the op in hand.
VerdictAwaited ==
  /\ \A s \in Seqs : log[s] = NoOp => stamp[s] = "none"
  /\ pc \in {"judge", "stamp"} => log[at] = op /\ stamp[at] = "none"

\* A stamp belongs to a logged op, and the op being judged is logged and not stamped.
LEMMA VerdictAwaitedInvariant == Spec => []VerdictAwaited
<1>1. Init => VerdictAwaited
  BY DEF Init, VerdictAwaited
<1>2. TypeOK /\ VerdictAwaited /\ [Next]_vars => VerdictAwaited'
  <2> SUFFICES ASSUME TypeOK, VerdictAwaited, [Next]_vars PROVE VerdictAwaited'
    OBVIOUS
  <2> USE DEF VerdictAwaited
  <2>1. ASSUME NEW s \in Seqs, NEW o \in Op, log' = LogAfter(s, o),
               stamp' = StampAfter(s, o)
        PROVE  \A t \in Seqs : log'[t] = NoOp => stamp'[t] = "none"
    <3>1. o # NoOp
      BY ChainConstants
    <3>2. CASE Logs(s, o)
      BY <2>1, <3>1, <3>2 DEF LogAfter, StampAfter, TypeOK
    <3>3. CASE ~Logs(s, o)
      BY <2>1, <3>3 DEF LogAfter, StampAfter
    <3>4. QED
      BY <3>2, <3>3
  <2>2. ASSUME NEW s \in Seqs, NEW o \in Op, ReceiveContent(s, o)
        PROVE  VerdictAwaited'
    <3>1. o # NoOp /\ at' = s /\ op' = o /\ stamp' = stamp /\ log' = LogAfter(s, o)
      BY <2>2, ChainConstants DEF ReceiveContent
    <3>2. CASE Logs(s, o)
      <4>1. log[s] = NoOp
        BY <3>2 DEF Logs, SlotTaken
      <4>2. QED
        BY <3>1, <3>2, <4>1 DEF LogAfter, TypeOK
    <3>3. CASE ~Logs(s, o)
      <4>1. log' = log /\ pc' \notin {"judge", "stamp"}
        BY <2>2, <3>1, <3>3 DEF ReceiveContent, LogAfter
      <4>2. QED
        BY <3>1, <4>1
    <3>4. QED
      BY <3>2, <3>3
  <2>3. ASSUME NEW s \in Seqs, NEW o \in Op, ReceiveControl(s, o)
        PROVE  VerdictAwaited'
    <3>1. log' = LogAfter(s, o) /\ stamp' = StampAfter(s, o)
          /\ pc' \notin {"judge", "stamp"}
      BY <2>3 DEF ReceiveControl
    <3>2. QED
      BY <2>1, <3>1
  <2>4. CASE Judge
    <3>1. at \in Seqs /\ op \in Op
      BY <2>4 DEF Judge, TypeOK
    <3>2. log[at] # NoOp
      BY <2>4, <3>1, ChainConstants DEF Judge
    <3>3. QED
      BY <2>4, <3>1, <3>2 DEF Judge, pulled, TypeOK
  <2>5. CASE StampApplied
    <3>1. at \in Seqs /\ op \in Op
      BY <2>5 DEF StampApplied, TypeOK
    <3>2. log[at] # NoOp
      BY <2>5, <3>1, ChainConstants DEF StampApplied
    <3>3. QED
      BY <2>5, <3>1, <3>2 DEF StampApplied, pulled, TypeOK
  <2>6. CASE Replay
    <3>1. claim \in 1..Len(quar) /\ quar \in Seq(QuarRow)
      BY <2>6 DEF Replay, TypeOK
    <3>2. quar[claim] \in QuarRow
      BY <3>1, ElementOfSeq
    <3>3. quar[claim].seq \in Seqs /\ quar[claim].op \in Op
      BY <3>2 DEF QuarRow
    <3>4. /\ log' = LogAfter(quar[claim].seq, quar[claim].op)
          /\ stamp' = StampAfter(quar[claim].seq, quar[claim].op)
          /\ pc' \notin {"judge", "stamp"}
      BY <2>6 DEF Replay
    <3>5. QED
      BY <2>1, <3>3, <3>4
  <2>7. CASE \/ FetchPage \/ EndOfPages \/ File \/ Accuse
             \/ Scan \/ MarkStarted \/ ClearStarted \/ SettleAlarms \/ SaveCursor
             \/ EndPull \/ Crash \/ StorageFault
             \/ \E m \in Member : ResumeRelease(m)
             \/ \E s \in Seqs, o \in Op : ReceiveStaleHeld(s, o) \/ ReceiveStaleOther(s, o)
    <3>1. log' = log /\ stamp' = stamp /\ pc' \notin {"judge", "stamp"}
      BY <2>7
      DEF FetchPage, EndOfPages, File, Accuse, Scan, MarkStarted, ClearStarted, EndScan,
          SettleAlarms, SaveCursor, EndPull, Crash, StorageFault, Unwind, ResumeRelease,
          ReceiveStaleHeld, ReceiveStaleOther, Takes, durable, TypeOK
    <3>2. QED
      BY <3>1
  <2>8. CASE UNCHANGED vars
    BY <2>8 DEF vars, durable, pulled
  <2>9. QED
    BY <2>2, <2>3, <2>4, <2>5, <2>6, <2>7, <2>8 DEF Next, Receive, Release
<1>3. QED
  BY <1>1, <1>2, TypeCorrect, PTL DEF Spec

\* A spent position keeps its envelope.
LEMMA LogOnlyGrows ==
  ASSUME TypeOK, [Next]_vars
  PROVE  /\ \A s \in Seqs : log[s] # NoOp => log'[s] = log[s]
         /\ Logged \subseteq Logged'
<1>1. CASE log' = log
  BY <1>1 DEF Logged
<1>2. ASSUME NEW s \in Seqs, NEW o \in Op, Logs(s, o), log' = [log EXCEPT ![s] = o]
      PROVE  /\ \A t \in Seqs : log[t] # NoOp => log'[t] = log[t]
             /\ Logged \subseteq Logged'
  <2>1. log[s] = NoOp
    BY <1>2 DEF Logs, SlotTaken
  <2>2. QED
    BY <1>2, <2>1, LoggedAfter DEF TypeOK
<1>3. QED
  BY <1>1, <1>2, LogStep

\* Rows of the quarantine keep what they say.
RowsKept ==
  /\ Len(quar) <= Len(quar')
  /\ \A i \in 1..Len(quar) :
       /\ quar'[i].seq = quar[i].seq /\ quar'[i].op = quar[i].op
       /\ quar'[i].reason = quar[i].reason
       /\ quar[i].released => quar'[i].released

\* What Replay does to the quarantine.
LEMMA ReplayRows ==
  ASSUME TypeOK, Replay
  PROVE  /\ claim \in 1..Len(quar) /\ quar[claim] \in QuarRow
         /\ RowsKept
         /\ \A i \in 1..Len(quar) : i # claim => quar'[i] = quar[i]
         /\ Rejects(quar[claim].seq, quar[claim].op) =>
              StandsIn(quar', quar[claim].seq, quar[claim].op,
                       RejectReason(quar[claim].op))
<1> DEFINE s    == quar[claim].seq
           o    == quar[claim].op
           rows == MarkedReleased(quar, claim)
<1>1. claim \in 1..Len(quar) /\ quar \in Seq(QuarRow)
  BY DEF Replay, TypeOK
<1>2. quar[claim] \in QuarRow
  BY <1>1, ElementOfSeq
<1>3. s \in Seqs /\ o \in Op
  BY <1>2 DEF QuarRow
<1>4. /\ rows \in Seq(QuarRow) /\ Len(rows) = Len(quar)
      /\ \A j \in 1..Len(quar) : j # claim => rows[j] = quar[j]
      /\ rows[claim].seq = s /\ rows[claim].op = o
      /\ rows[claim].reason = quar[claim].reason /\ rows[claim].released = TRUE
  BY <1>1, ReleasedRow
<1>5. quar' = IF Rejects(s, o) THEN Quarantined(rows, s, o, RejectReason(o)) ELSE rows
  BY DEF Replay
<1>6. Rejects(s, o) => RejectReason(o) \in Reasons
  BY <1>3, FateType DEF Rejects, RejectReason, RefusesUnlogged, Logs
<1> HIDE DEF s, o, rows
<1>7. /\ Len(rows) <= Len(quar')
      /\ \A i \in 1..Len(rows) : quar'[i] = rows[i]
      /\ Rejects(s, o) => StandsIn(quar', s, o, RejectReason(o))
  <2>1. CASE Rejects(s, o)
    BY <1>3, <1>4, <1>5, <1>6, <2>1, QuarantinedRows
  <2>2. CASE ~Rejects(s, o)
    <3>1. Len(rows) \in Nat
      BY <1>4, LenProperties
    <3>2. QED
      BY <1>5, <2>2, <3>1
  <2>3. QED
    BY <2>1, <2>2
<1>8. RowsKept
  <2>1. ASSUME NEW i \in 1..Len(quar)
        PROVE  /\ quar'[i].seq = quar[i].seq /\ quar'[i].op = quar[i].op
               /\ quar'[i].reason = quar[i].reason
               /\ quar[i].released => quar'[i].released
    BY <1>4, <1>7 DEF s, o
  <2>2. QED
    BY <1>4, <1>7, <2>1 DEF RowsKept
<1>9. QED
  BY <1>1, <1>2, <1>4, <1>7, <1>8 DEF s, o

\* Every step keeps the rows of the quarantine, and only Replay releases one.
LEMMA RowsStep ==
  ASSUME TypeOK, [Next]_vars
  PROVE  /\ RowsKept
         /\ ~Replay => \A i \in 1..Len(quar) : quar'[i].released = quar[i].released
<1> DEFINE Kept == /\ Len(quar) <= Len(quar')
                   /\ \A i \in 1..Len(quar) :
                        /\ quar'[i].seq = quar[i].seq /\ quar'[i].op = quar[i].op
                        /\ quar'[i].reason = quar[i].reason
                        /\ quar'[i].released = quar[i].released
<1>0. quar \in Seq(QuarRow) /\ Len(quar) \in Nat
  BY LenProperties DEF TypeOK
<1>1. CASE File
  <2>1. at \in Seqs /\ op \in Op /\ why \in Reasons
    BY <1>1 DEF File, TypeOK
  <2>2. quar' = Quarantined(quar, at, op, why)
    BY <1>1 DEF File
  <2>3. Kept
    BY <1>0, <2>1, <2>2, QuarantinedRows
  <2>4. QED
    BY <2>3 DEF RowsKept
<1>2. CASE MarkStarted
  <2>1. claim \in 1..Len(quar)
    BY <1>2 DEF MarkStarted, TypeOK
  <2>2. quar' = MarkedStarted(quar, claim)
    BY <1>2 DEF MarkStarted
  <2>3. Kept
    BY <1>0, <2>1, <2>2, StartedRow
  <2>4. QED
    BY <2>3 DEF RowsKept
<1>3. CASE ClearStarted
  <2>1. quar' = Unmarked(quar, who)
    BY <1>3 DEF ClearStarted
  <2>2. Kept
    BY <1>0, <2>1, ClearedRows
  <2>3. QED
    BY <2>2 DEF RowsKept
<1>4. CASE Replay
  BY <1>4, ReplayRows
<1>5. CASE \/ FetchPage \/ EndOfPages \/ Judge \/ StampApplied \/ Accuse
           \/ Scan \/ SettleAlarms \/ SaveCursor \/ EndPull \/ Crash \/ StorageFault
           \/ (\E m \in Member : ResumeRelease(m))
           \/ Receive \/ UNCHANGED vars
  <2>1. quar' = quar
    BY <1>5
    DEF FetchPage, EndOfPages, Judge, StampApplied, Accuse, Scan, SettleAlarms, SaveCursor,
        EndPull, Crash, StorageFault, Unwind, ResumeRelease, Receive, ReceiveStaleHeld,
        ReceiveStaleOther, ReceiveContent, ReceiveControl, durable, vars
  <2>2. QED
    BY <1>0, <2>1 DEF RowsKept
<1>6. QED
  BY <1>1, <1>2, <1>3, <1>4, <1>5 DEF Next, Release

\* No step edits the evidence: envelopes, verdicts, refusals, the cursor (_logReceived,
\* _stampApplied, _markReleased, _saveCursor).
THEOREM EvidenceIsKept == Spec => EvidenceKept
<1> DEFINE Kept ==
      /\ \A s \in Seqs : /\ log[s] # NoOp => log'[s] = log[s]
                         /\ stamp[s] # "none" => stamp'[s] = stamp[s]
      /\ Len(quar) <= Len(quar')
      /\ \A i \in 1..Len(quar) :
           /\ quar'[i].seq = quar[i].seq /\ quar'[i].op = quar[i].op
           /\ quar'[i].reason = quar[i].reason
           /\ quar[i].released => quar'[i].released
      /\ cursor <= cursor'
<1>1. TypeOK /\ VerdictAwaited /\ [Next]_vars => [Kept]_vars
  <2> SUFFICES ASSUME TypeOK, VerdictAwaited, [Next]_vars PROVE Kept
    OBVIOUS
  <2>1. \A s \in Seqs : stamp[s] # "none" => stamp'[s] = stamp[s]
    <3>1. ASSUME NEW t \in Seqs, NEW o, stamp' = StampAfter(t, o)
          PROVE  \A s \in Seqs : stamp[s] # "none" => stamp'[s] = stamp[s]
      <4>1. CASE Logs(t, o)
        <5>1. stamp[t] = "none"
          BY <4>1 DEF Logs, SlotTaken, VerdictAwaited
        <5>2. QED
          BY <3>1, <4>1, <5>1 DEF StampAfter, TypeOK
      <4>2. CASE ~Logs(t, o)
        BY <3>1, <4>2 DEF StampAfter
      <4>3. QED
        BY <4>1, <4>2
    <3>2. CASE \E t \in Seqs, o \in Op : ReceiveControl(t, o)
      BY <3>1, <3>2 DEF ReceiveControl
    <3>3. CASE Replay
      <4>1. quar[claim].seq \in Seqs
        BY <3>3, ReplayRows DEF QuarRow
      <4>2. QED
        BY <3>1, <3>3, <4>1 DEF Replay
    <3>4. CASE Judge \/ StampApplied
      <4>1. at \in Seqs /\ stamp[at] = "none"
        BY <3>4 DEF Judge, StampApplied, TypeOK, VerdictAwaited
      <4>2. QED
        BY <3>4, <4>1 DEF Judge, StampApplied, TypeOK
    <3>5. CASE \/ FetchPage \/ EndOfPages \/ File \/ Accuse
               \/ Scan \/ MarkStarted \/ ClearStarted \/ SettleAlarms \/ SaveCursor
               \/ EndPull \/ Crash \/ StorageFault
               \/ (\E m \in Member : ResumeRelease(m))
               \/ (\E s \in Seqs, o \in Op :
                     \/ ReceiveStaleHeld(s, o) \/ ReceiveStaleOther(s, o)
                     \/ ReceiveContent(s, o))
               \/ UNCHANGED vars
      BY <3>5
      DEF FetchPage, EndOfPages, File, Accuse, Scan, MarkStarted, ClearStarted,
          SettleAlarms, SaveCursor, EndPull, Crash, StorageFault, Unwind, ResumeRelease,
          ReceiveStaleHeld, ReceiveStaleOther, ReceiveContent, durable, vars
    <3>6. QED
      BY <3>2, <3>3, <3>4, <3>5 DEF Next, Receive, Release
  <2>2. cursor <= cursor'
    <3>1. cursor \in Nat /\ (at \in Nat \/ at = 0)
      BY ReceiverConstants DEF TypeOK, Seqs
    <3>2. CASE SaveCursor
      BY <3>1, <3>2 DEF SaveCursor
    <3>3. CASE ~SaveCursor
      <4>1. cursor' = cursor
        BY <3>3
        DEF Next, Receive, Release, FetchPage, EndOfPages, Judge, StampApplied, File,
            Accuse, Scan, MarkStarted, Replay, ClearStarted, SettleAlarms, EndPull, Crash,
            StorageFault, Unwind, ResumeRelease, ReceiveStaleHeld, ReceiveStaleOther,
            ReceiveContent, ReceiveControl, durable, vars
      <4>2. QED
        BY <3>1, <4>1
    <3>4. QED
      BY <3>2, <3>3
  <2>3. QED
    BY <2>1, <2>2, LogOnlyGrows, RowsStep DEF RowsKept
<1>2. Spec => [][Kept]_vars
  BY <1>1, TypeCorrect, VerdictAwaitedInvariant, PTL DEF Spec
<1>3. QED
  BY <1>2 DEF EvidenceKept

\* What _receive takes for a duplicate delivery is in the log.
LEMMA HeldIsLogged ==
  ASSUME NEW s \in Seqs, NEW o \in Op, Held(s, o)
  PROVE  o \in Logged
<1>1. CASE log[s] = o
  BY <1>1, ChainConstants DEF Logged
<1>2. CASE Fate(o) = "idempotent_skip"
  <2>1. ChainVerdict(Logged, o) = "idempotent_skip"
    BY <1>2 DEF Fate
  <2>2. QED
    BY <2>1 DEF ChainVerdict
<1>3. QED
  BY <1>1, <1>2 DEF Held

\* Every step, the release of the row itself included, keeps an op on record.
LEMMA RecordKept ==
  ASSUME TypeOK, [Next]_vars, NEW s \in Seqs, NEW o \in Op, OnRecord(s, o)
  PROVE  OnRecord(s, o)'
<1>1. CASE o \in Logged
  BY <1>1, LogOnlyGrows DEF OnRecord
<1>2. CASE <<"author_chain_slot_collision", Author[o]>> \in alarms
  <2> DEFINE alarm == <<"author_chain_slot_collision", Author[o]>>
  <2>1. CASE SettleAlarms
    <3>1. alarm # <<GapReason, who>>
      BY DEF GapReason
    <3>2. QED
      BY <1>2, <2>1, <3>1 DEF SettleAlarms, OnRecord
  <2>2. CASE ~SettleAlarms
    <3>1. alarms \subseteq alarms'
      BY <2>2
      DEF Next, Receive, Release, FetchPage, EndOfPages, Judge, StampApplied, File, Accuse,
          Scan, MarkStarted, Replay, ClearStarted, EndPull, Crash, StorageFault, Unwind,
          SaveCursor, ResumeRelease, ReceiveStaleHeld, ReceiveStaleOther, ReceiveContent,
          ReceiveControl, durable, vars
    <3>2. QED
      BY <1>2, <3>1 DEF OnRecord
  <2>3. QED
    BY <2>1, <2>2
<1>3. ASSUME NEW i \in 1..Len(quar),
             quar[i].seq = s, quar[i].op = o, ~quar[i].released
      PROVE  OnRecord(s, o)'
  <2>1. /\ Len(quar) \in Nat /\ Len(quar') \in Nat /\ Len(quar) <= Len(quar')
        /\ quar'[i].seq = s /\ quar'[i].op = o
    <3>1. quar' \in Seq(QuarRow) /\ quar \in Seq(QuarRow)
      BY TypeStep DEF TypeOK
    <3>2. QED
      BY <1>3, <3>1, RowsStep, LenProperties DEF RowsKept
  <2>2. i \in 1..Len(quar')
    BY <2>1
  <2>3. CASE ~Replay \/ i # claim
    <3>1. ~quar'[i].released
      BY <1>3, <2>3, RowsStep, ReplayRows
    <3>2. QED
      BY <2>1, <2>2, <3>1 DEF OnRecord
  <2>4. CASE Replay /\ i = claim
    <3>1. s = quar[claim].seq /\ o = quar[claim].op
      BY <1>3, <2>4
    <3>2. CASE Rejects(s, o)
      BY <2>4, <3>1, <3>2, ReplayRows DEF StandsIn, OnRecord
    <3>3. CASE Logs(s, o)
      <4>1. log' = [log EXCEPT ![s] = o]
        BY <2>4, <3>1, <3>3 DEF Replay, LogAfter
      <4>2. QED
        BY <3>3, <4>1, LoggedAfter DEF OnRecord
    <3>4. CASE Collides(s, o)
      BY <2>4, <3>1, <3>4 DEF Replay, Collision, OnRecord
    <3>5. CASE Held(s, o)
      <4>1. o \in Logged
        BY <3>5, HeldIsLogged
      <4>2. QED
        BY <4>1, LogOnlyGrows DEF OnRecord
    <3>6. QED
      BY <3>2, <3>3, <3>4, <3>5 DEF Rejects, RefusesUnlogged, Logs, Collides, Held
  <2>5. QED
    BY <2>3, <2>4
<1>4. QED
  BY <1>1, <1>2, <1>3 DEF OnRecord

\* An op whose reception got past filing is on record; between receptions no op is in
\* hand.
HandOnRecord ==
  /\ pc \in {"idle", "page", "tail"} => op = NoOp
  /\ /\ op # NoOp
     /\ \/ pc \in {"judge", "stamp", "accuse", "scan", "mark", "replay", "clear",
                  "settle", "save"}
        \/ pc = "file" /\ cont = "scan"
     => OnRecord(at, op)

\* The op in hand is on record once its refusal was filed or its log insert done.
LEMMA HandOnRecordInvariant == Spec => []HandOnRecord
<1>1. Init => HandOnRecord
  BY DEF Init, HandOnRecord
<1>2. TypeOK /\ VerdictAwaited /\ HandOnRecord /\ [Next]_vars => HandOnRecord'
  <2> SUFFICES ASSUME TypeOK, VerdictAwaited, HandOnRecord, [Next]_vars
               PROVE  HandOnRecord'
    OBVIOUS
  <2>1. op # NoOp => at \in Seqs /\ op \in Op
    BY DEF TypeOK
  <2>2. ASSUME UNCHANGED pulled, op # NoOp, OnRecord(at, op)
        PROVE  OnRecord(at, op)'
    <3>1. PICK s \in Seqs, o \in Op : at = s /\ op = o
      BY <2>1, <2>2
    <3>2. OnRecord(s, o)
      BY <2>2, <3>1 DEF OnRecord
    <3>3. OnRecord(s, o)'
      BY <3>2, RecordKept
    <3>4. at' = s /\ op' = o
      BY <2>2, <3>1 DEF pulled
    <3>5. QED
      BY <3>3, <3>4 DEF OnRecord
  <2>3. ASSUME NEW s \in Seqs, NEW o \in Op, ReceiveContent(s, o) \/ ReceiveControl(s, o)
        PROVE  HandOnRecord'
    <3>1. at' = s /\ op' = o /\ pc' \notin {"idle", "page", "tail"}
      BY <2>3 DEF ReceiveContent, ReceiveControl
    <3>2. CASE Logs(s, o)
      <4>1. log' = [log EXCEPT ![s] = o]
        BY <2>3, <3>2 DEF ReceiveContent, ReceiveControl, LogAfter
      <4>2. QED
        BY <3>1, <3>2, <4>1, LoggedAfter DEF HandOnRecord, OnRecord
    <3>3. CASE Collides(s, o)
      BY <2>3, <3>1, <3>3 DEF ReceiveContent, ReceiveControl, Collision, HandOnRecord, OnRecord
    <3>4. CASE Held(s, o)
      <4>1. o \in Logged'
        BY <3>4, HeldIsLogged, LogOnlyGrows
      <4>2. QED
        BY <3>1, <4>1 DEF HandOnRecord, OnRecord
    <3>5. CASE RefusesUnlogged(o)
      <4>1. pc' = "file" /\ cont' = "save"
        BY <2>3, <3>5
        DEF ReceiveContent, ReceiveControl, Rejects, Logs, Held, Collides, RefusesUnlogged
      <4>2. QED
        BY <4>1 DEF HandOnRecord
    <3>6. QED
      BY <3>2, <3>3, <3>4, <3>5 DEF RefusesUnlogged, Logs, Collides, Held
  <2>4. ASSUME NEW s \in Seqs, NEW o \in Op, ReceiveStaleOther(s, o)
        PROVE  HandOnRecord'
    BY <2>4 DEF ReceiveStaleOther, HandOnRecord
  <2>5. CASE File
    <3>1. at \in Seqs /\ op \in Op /\ why \in Reasons /\ quar \in Seq(QuarRow)
      BY <2>5 DEF File, TypeOK
    <3>2. StandsIn(quar', at, op, why)
      BY <2>5, <3>1, QuarantinedRows DEF File
    <3>3. QED
      BY <2>5, <3>2 DEF File, pulled, StandsIn, HandOnRecord, OnRecord
  <2>6. CASE Judge \/ StampApplied
    <3>1. op # NoOp /\ UNCHANGED pulled /\ log[at] = op
      BY <2>6 DEF Judge, StampApplied, TypeOK, VerdictAwaited
    <3>2. OnRecord(at, op)
      BY <2>1, <3>1 DEF OnRecord, Logged
    <3>3. pc' \notin {"idle", "page", "tail"}
      BY <2>6 DEF Judge, StampApplied
    <3>4. QED
      BY <2>2, <3>1, <3>2, <3>3 DEF HandOnRecord
  <2>7. CASE \/ Accuse \/ Scan \/ MarkStarted \/ Replay \/ ClearStarted \/ SettleAlarms
             \/ SaveCursor
    <3>1. op # NoOp => OnRecord(at, op)
      BY <2>7
      DEF Accuse, Scan, MarkStarted, Replay, ClearStarted, SettleAlarms, SaveCursor,
          HandOnRecord
    <3>2. \/ op' = NoOp
          \/ /\ UNCHANGED pulled /\ pc' \notin {"idle", "page"}
             /\ pc' = "tail" => op = NoOp
      BY <2>7
      DEF Accuse, Scan, MarkStarted, Replay, ClearStarted, EndScan, SettleAlarms,
          SaveCursor, TypeOK
    <3>3. CASE op' = NoOp
      BY <3>3 DEF HandOnRecord
    <3>4. CASE UNCHANGED pulled /\ op' # NoOp
      <4>1. op = op'
        BY <3>4 DEF pulled
      <4>2. OnRecord(at, op)'
        BY <2>2, <3>1, <3>4, <4>1
      <4>3. QED
        BY <3>2, <3>4, <4>1, <4>2 DEF HandOnRecord
    <3>5. QED
      BY <3>2, <3>3, <3>4
  <2>8. CASE \/ FetchPage \/ EndOfPages \/ EndPull \/ Crash \/ StorageFault
             \/ (\E m \in Member : ResumeRelease(m))
             \/ (\E s \in Seqs, o \in Op : ReceiveStaleHeld(s, o))
    <3>1. op' = NoOp
      BY <2>8
      DEF FetchPage, EndOfPages, EndPull, Crash, StorageFault, Unwind, ResumeRelease,
          ReceiveStaleHeld, Takes, pulled, HandOnRecord
    <3>2. QED
      BY <3>1 DEF HandOnRecord
  <2>9. CASE UNCHANGED vars
    BY <2>9 DEF vars, durable, pulled, refusal, HandOnRecord, OnRecord, Logged
  <2>10. QED
    BY <2>3, <2>4, <2>5, <2>6, <2>7, <2>8, <2>9 DEF Next, Receive, Release
<1>3. QED
  BY <1>1, <1>2, TypeCorrect, VerdictAwaitedInvariant, PTL DEF Spec

\* No reception ends before the op is on record, and what is on record stays there through
\* every release, replay, crash and fault (_receive, _refuse, _releaseChainSuccessors).
THEOREM NothingIsDropped == Spec => NothingDropped
<1> DEFINE Kept ==
      \A s \in Seqs, o \in Op :
        OnRecord(s, o) \/ (pc = "save" /\ <<at, op>> = <<s, o>>) => OnRecord(s, o)'
<1>1. TypeOK /\ HandOnRecord /\ [Next]_vars => [Kept]_vars
  <2> SUFFICES ASSUME TypeOK, HandOnRecord, [Next]_vars,
                      NEW s \in Seqs, NEW o \in Op,
                      OnRecord(s, o) \/ (pc = "save" /\ <<at, op>> = <<s, o>>)
               PROVE  OnRecord(s, o)'
    OBVIOUS
  <2>1. OnRecord(s, o)
    BY ChainConstants DEF HandOnRecord, OnRecord
  <2>2. QED
    BY <2>1, RecordKept
<1>2. Spec => [][Kept]_vars
  BY <1>1, TypeCorrect, HandOnRecordInvariant, PTL DEF Spec
<1>3. QED
  BY <1>2 DEF NothingDropped
-----------------------------------------------------------------------------
(* Honest authors are not accused. *)

\* What an honest author signed below a logged op of its own is logged.
DownClosed ==
  \A m \in Honest : \A o \in HeldBy(Logged, m), p \in HeldBy(Op, m) :
    ASeq[p] <= ASeq[o] => p \in Logged

\* An honest author's op is accepted, held already, or ahead of its predecessors.
LEMMA HonestVerdict ==
  ASSUME TypeOK, HeadsExist, DownClosed, NEW m \in Honest, NEW o \in HeldBy(Op, m)
  PROVE  ChainVerdict(Logged, o) \in {"accept", "idempotent_skip", "author_chain_gap"}
<1> DEFINE head == HeadSeq(Logged, m)
<1>0. m \in Member /\ SignsOneChain(m) /\ Author[o] = m /\ o \in Op
  BY DEF Honest, HeldBy
<1>1. ~IsSubstitution(Logged, o)
  BY <1>0, LoggedOps DEF IsSubstitution, SignsOneChain, HeldBy
<1>2. ASeq[o] \in Nat /\ ASeq[o] >= 1
  BY <1>0, ChainConstants DEF SignsOneChain
<1>3. CASE HeldBy(Logged, m) = {}
  <2>1. head = 0
    BY <1>3 DEF HeadSeq
  <2>2. ASeq[o] = 1 => NamesHead(Logged, o)
    BY <1>0, <1>3 DEF NamesHead, SignsOneChain
  <2> HIDE DEF head
  <2>3. ASeq[o] = head + 1 \/ ASeq[o] > head + 1
    BY <1>2, <2>1
  <2>4. ASeq[o] = head + 1 => ASeq[o] = 1
    BY <2>1
  <2>5. QED
    BY <1>0, <1>1, <2>2, <2>3, <2>4 DEF ChainVerdict, head
<1>4. CASE HeldBy(Logged, m) # {}
  <2>1. PICK h \in HeldBy(Logged, m) : IsHead(Logged, h)
    BY <1>0, <1>4 DEF HeadsExist
  <2>2. h \in Logged /\ h \in Op /\ Author[h] = m /\ ASeq[h] \in Nat
    BY <2>1, LoggedOps DEF HeldBy
  <2>3. head = ASeq[h]
    BY <2>1, <2>2, HeadOfLog, LoggedOps
  <2>4. ASeq[h] >= 1
    BY <2>2, <1>0 DEF SignsOneChain, HeldBy
  <2> HIDE DEF head
  <2>5. ASSUME ASeq[o] = head + 1
        PROVE  NamesHead(Logged, o)
    <3>1. ASeq[o] > 1 /\ ASeq[o] - 1 = ASeq[h]
      BY <1>2, <2>2, <2>3, <2>4, <2>5
    <3>2. Prev[o] \in HeldBy(Op, m) /\ ASeq[Prev[o]] = ASeq[h]
      BY <1>0, <3>1 DEF SignsOneChain
    <3>3. Prev[o] = h
      BY <1>0, <2>2, <3>2 DEF SignsOneChain, HeldBy
    <3>4. QED
      BY <1>0, <1>4, <2>1, <3>3 DEF NamesHead
  <2>6. ~(ASeq[o] = head + 1) /\ ~(ASeq[o] > head + 1) => o \in Logged
    <3>1. ~(ASeq[o] = head + 1) /\ ~(ASeq[o] > head + 1) => ASeq[o] <= ASeq[h]
      BY <1>2, <2>2, <2>3
    <3>2. QED
      BY <1>0, <2>1, <3>1 DEF DownClosed
  <2>7. QED
    BY <1>0, <1>1, <2>5, <2>6 DEF ChainVerdict, head
<1>5. QED
  BY <1>3, <1>4

\* The log of an honest author holds every op below any op it holds.
LEMMA DownClosedInvariant == Spec => []DownClosed
<1>1. Init => DownClosed
  BY DEF Init, DownClosed, HeldBy, Logged
<1>2. TypeOK /\ HeadsExist /\ DownClosed /\ [Next]_vars => DownClosed'
  <2> SUFFICES ASSUME TypeOK, HeadsExist, DownClosed, [Next]_vars PROVE DownClosed'
    OBVIOUS
  <2>1. CASE log' = log
    BY <2>1 DEF DownClosed, HeldBy, Logged
  <2>2. ASSUME NEW s \in Seqs, NEW o \in Op, Logs(s, o), log' = [log EXCEPT ![s] = o]
        PROVE  DownClosed'
    <3>1. Logged' = Logged \cup {o}
      BY <2>2, LoggedAfter
    <3>2. ASSUME NEW m \in Honest, Author[o] = m, NEW p \in HeldBy(Op, m),
                 ASeq[p] <= ASeq[o]
          PROVE  p \in Logged \cup {o}
      <4>0. /\ m \in Member /\ SignsOneChain(m) /\ Class[o] # "control"
            /\ p \in Op /\ Author[p] = m
        BY <3>2 DEF Honest, HeldBy
      <4>1. ASeq[p] \in Nat /\ ASeq[o] \in Nat /\ ASeq[p] >= 1
        BY <4>0, ChainConstants DEF SignsOneChain, HeldBy
      <4>2. ASeq[p] = ASeq[o] => p = o
        BY <3>2, <4>0 DEF SignsOneChain, HeldBy
      <4>3. CASE Class[o] = "register"
        <5>1. ASeq[o] = 1
          BY <2>2, <4>3 DEF Logs, Fate
        <5>2. QED
          BY <3>2, <4>1, <4>2, <5>1
      <4>4. CASE Class[o] = "content"
        <5>1. ChainVerdict(Logged, o) = "accept"
          BY <2>2, <4>4, LoggedContentAccepted
        <5>2. \/ ASeq[o] = 1
              \/ \E h \in HeldBy(Logged, m) : ASeq[o] = ASeq[h] + 1
          BY <3>2, <5>1, AcceptedStandsOnHead
        <5>3. CASE ASeq[o] = 1
          BY <3>2, <4>1, <4>2, <5>3
        <5>4. ASSUME NEW h \in HeldBy(Logged, m), ASeq[o] = ASeq[h] + 1
              PROVE  p \in Logged \cup {o}
          <6>1. ASeq[h] \in Nat
            BY LoggedOps DEF HeldBy
          <6>2. ASeq[p] = ASeq[o] \/ ASeq[p] <= ASeq[h]
            BY <3>2, <4>1, <5>4, <6>1
          <6>3. QED
            BY <3>2, <4>2, <6>2 DEF DownClosed
        <5>5. QED
          BY <5>2, <5>3, <5>4
      <4>5. QED
        BY <4>0, <4>3, <4>4, ReceiverConstants
    <3>3. ASSUME NEW m \in Honest, NEW q \in HeldBy(Logged \cup {o}, m),
                 NEW p \in HeldBy(Op, m), ASeq[p] <= ASeq[q]
          PROVE  p \in Logged \cup {o}
      <4>1. CASE q = o
        BY <3>2, <3>3, <4>1 DEF HeldBy
      <4>2. CASE q \in Logged
        BY <3>3, <4>2 DEF DownClosed, HeldBy
      <4>3. QED
        BY <4>1, <4>2 DEF HeldBy
    <3>4. QED
      BY <3>1, <3>3 DEF DownClosed, HeldBy
  <2>3. QED
    BY <2>1, <2>2, LogStep
<1>3. QED
  BY <1>1, <1>2, TypeCorrect, HeadsExistInvariant, PTL DEF Spec

\* The refusal being filed accuses no honest author.
FilesNoAccusation ==
  pc \in {"file", "accuse"} /\ why \in Accusations => Author[op] \notin Honest

\* What an honest author's op may be refused for is no accusation.
LEMMA HonestRefusal ==
  ASSUME TypeOK, HeadsExist, DownClosed, NEW o \in Op, Author[o] \in Honest
  PROVE  /\ ChainVerdict(Logged, o) \notin Accusations
         /\ Fate(o) \notin Accusations
         /\ LateFate(o) \notin Accusations
         /\ RejectReason(o) \notin Accusations
<1>1. ChainVerdict(Logged, o) \in {"accept", "idempotent_skip", "author_chain_gap"}
  BY HonestVerdict DEF HeldBy
<1>2. Fate(o) \notin Accusations
  BY <1>1 DEF Fate, Accusations
<1>3. LateFate(o) \notin Accusations
  BY ReceiverConstants DEF LateFate, Accusations
<1>4. QED
  BY <1>1, <1>2, <1>3 DEF RejectReason, Accusations

\* The alarm a refusal raises is an accusation only if the refusal is one.
LEMMA AlarmOfRefusal ==
  ASSUME NEW reason, NEW m, NEW kind \in Accusations, NEW a,
         <<kind, a>> \in AlarmsFor(reason, m)
  PROVE  a = m /\ reason \in Accusations
  BY DEF AlarmsFor, AlarmKind, Accusations

\* A release scan accuses no honest author.
LEMMA ScanAccusesNoHonest ==
  ASSUME TypeOK, HeadsExist, DownClosed, NEW m \in Honest, NEW kind \in Accusations,
         NEW a
  PROVE  <<kind, a>> \notin ScanAlarms(m)
<1>1. ASSUME NEW i \in Claimants(m)
      PROVE  /\ quar[i].op \in HeldBy(Op, m)
             /\ ASeq[quar[i].op] = HeadSeq(Logged, m) + 1
             /\ ChainVerdict(Logged, quar[i].op) \notin Accusations
  <2>1. i \in 1..Len(quar) /\ quar \in Seq(QuarRow) /\ Author[quar[i].op] = m
        /\ ASeq[quar[i].op] = HeadSeq(Logged, m) + 1
    BY DEF Claimants, GapRows, TypeOK
  <2>2. quar[i].op \in Op
    <3>1. quar[i] \in QuarRow
      BY <2>1, ElementOfSeq
    <3>2. QED
      BY <3>1 DEF QuarRow
  <2>3. QED
    BY <2>1, <2>2, HonestRefusal DEF HeldBy
<1>2. \A i, j \in Claimants(m) : quar[i].op = quar[j].op
  BY <1>1 DEF Honest, SignsOneChain
<1>3. ForkedAt(m) = {}
  BY <1>1, <1>2 DEF ForkedAt, Releasable, Accusations
<1>4. \A i \in Claimants(m) :
        <<kind, a>> \notin AlarmsFor(ChainVerdict(Logged, quar[i].op), m)
  BY <1>1, AlarmOfRefusal
<1>5. QED
  BY <1>3, <1>4 DEF ScanAlarms

\* Whatever a server withholds, reorders or repeats, an author who signed one chain is
\* never accused of forking or rewriting it (chainVerdict, _releaseChainSuccessors).
THEOREM HonestIsNeverAccused == Spec => []HonestNeverAccused
<1> DEFINE Inv == FilesNoAccusation /\ HonestNeverAccused
<1>1. Init => Inv
  BY DEF Init, FilesNoAccusation, HonestNeverAccused
<1>2. TypeOK /\ HeadsExist /\ DownClosed /\ Inv /\ [Next]_vars => Inv'
  <2> SUFFICES ASSUME TypeOK, HeadsExist, DownClosed, Inv, [Next]_vars PROVE Inv'
    OBVIOUS
  <2>1. FilesNoAccusation'
    <3>1. ASSUME NEW s \in Seqs, NEW o \in Op, ReceiveStaleOther(s, o)
          PROVE  FilesNoAccusation'
      <4>1. op' = o /\ (why' = ChainVerdict(Logged, o) \/ why' = "stale_replayed_op")
        BY <3>1 DEF ReceiveStaleOther
      <4>2. QED
        BY <4>1, HonestRefusal DEF FilesNoAccusation, Accusations
    <3>2. ASSUME NEW s \in Seqs, NEW o \in Op, ReceiveContent(s, o)
          PROVE  FilesNoAccusation'
      <4>1. op' = o /\ (pc' = "file" => why' = Fate(o)) /\ pc' # "accuse"
        BY <3>2 DEF ReceiveContent
      <4>2. QED
        BY <4>1, HonestRefusal DEF FilesNoAccusation
    <3>3. ASSUME NEW s \in Seqs, NEW o \in Op, ReceiveControl(s, o)
          PROVE  FilesNoAccusation'
      <4>1. op' = o /\ (pc' = "file" => why' = RejectReason(o)) /\ pc' # "accuse"
        BY <3>3 DEF ReceiveControl
      <4>2. QED
        BY <4>1, HonestRefusal DEF FilesNoAccusation
    <3>4. CASE Judge
      <4>1. op \in Op
        BY <3>4 DEF Judge, TypeOK
      <4>2. pc' \in {"file", "accuse"} => why' \notin Accusations
        BY <3>4, <4>1, ReceiverConstants DEF Judge, Accusations
      <4>3. QED
        BY <4>2 DEF FilesNoAccusation
    <3>5. CASE File \/ UNCHANGED vars
      BY <3>5 DEF File, pulled, vars, refusal, FilesNoAccusation
    <3>6. CASE \/ FetchPage \/ EndOfPages \/ StampApplied \/ Accuse
               \/ Scan \/ MarkStarted \/ Replay \/ ClearStarted \/ SettleAlarms
               \/ SaveCursor \/ EndPull \/ Crash \/ StorageFault
               \/ (\E m \in Member : ResumeRelease(m))
               \/ (\E s \in Seqs, o \in Op : ReceiveStaleHeld(s, o))
      <4>1. pc' \notin {"file", "accuse"}
        BY <3>6
        DEF FetchPage, EndOfPages, StampApplied, Accuse, Scan, MarkStarted, Replay,
            ClearStarted, EndScan, SettleAlarms, SaveCursor, EndPull, Crash, StorageFault,
            Unwind, ResumeRelease, ReceiveStaleHeld, Takes, TypeOK
      <4>2. QED
        BY <4>1 DEF FilesNoAccusation
    <3>7. QED
      BY <3>1, <3>2, <3>3, <3>4, <3>5, <3>6 DEF Next, Receive, Release
  <2>2. ASSUME NEW m \in Honest, NEW kind \in Accusations, <<kind, m>> \in alarms'
        PROVE  FALSE
    <3>0. m \in Member
      BY DEF Honest
    <3>1. <<kind, m>> \notin alarms
      BY <2>2 DEF HonestNeverAccused
    <3>2. \A s \in Seqs, o \in Op : <<kind, m>> \notin Collision(s, o)
      BY DEF Collision, Accusations
    <3>3. CASE \E s \in Seqs, o \in Op : ReceiveContent(s, o) \/ ReceiveControl(s, o)
      BY <2>2, <3>1, <3>2, <3>3 DEF ReceiveContent, ReceiveControl
    <3>4. CASE Accuse
      <4>1. why \notin Accusations \/ Author[op] # m
        BY <3>4 DEF Accuse, FilesNoAccusation
      <4>2. <<kind, m>> \notin AlarmsFor(why, Author[op])
        BY <4>1, AlarmOfRefusal
      <4>3. kind # "stale_prefix_served"
        BY DEF Accusations
      <4>4. QED
        BY <2>2, <3>1, <3>4, <4>2, <4>3 DEF Accuse
    <3>5. CASE Scan
      <4>1. <<kind, m>> \in ScanAlarms(who) /\ who \in Member
        BY <2>2, <3>1, <3>5 DEF Scan, TypeOK
      <4>2. who = m
        BY <4>1, AlarmOfRefusal DEF ScanAlarms
      <4>3. QED
        BY <4>1, <4>2, ScanAccusesNoHonest
    <3>6. CASE Replay
      <4> DEFINE o == quar[claim].op
      <4>1. o \in Op
        BY <3>6, ReplayRows DEF QuarRow
      <4>2. quar[claim].seq \in Seqs
        BY <3>6, ReplayRows DEF QuarRow
      <4>3. <<kind, m>> \in AlarmsFor(RejectReason(o), Author[o])
        BY <2>2, <3>1, <3>2, <3>6, <4>1, <4>2 DEF Replay
      <4> HIDE DEF o
      <4>4. Author[o] = m /\ RejectReason(o) \in Accusations
        BY <4>3, AlarmOfRefusal
      <4>5. QED
        BY <4>1, <4>4, HonestRefusal
    <3>7. CASE \/ SettleAlarms \/ (\E s \in Seqs, o \in Op : ReceiveStaleHeld(s, o))
      BY <2>2, <3>1, <3>7 DEF SettleAlarms, ReceiveStaleHeld, Accusations
    <3>8. CASE \/ FetchPage \/ EndOfPages \/ Judge \/ StampApplied \/ File
               \/ MarkStarted \/ ClearStarted \/ SaveCursor \/ EndPull \/ Crash
               \/ StorageFault \/ UNCHANGED vars
               \/ (\E a \in Member : ResumeRelease(a))
               \/ (\E s \in Seqs, o \in Op : ReceiveStaleOther(s, o))
      <4>1. alarms' = alarms
        BY <3>8
        DEF FetchPage, EndOfPages, Judge, StampApplied, File, MarkStarted, ClearStarted,
            SaveCursor, EndPull, Crash, StorageFault, Unwind, ResumeRelease,
            ReceiveStaleOther, durable, vars
      <4>2. QED
        BY <2>2, <3>1, <4>1
    <3>9. QED
      BY <3>3, <3>4, <3>5, <3>6, <3>7, <3>8 DEF Next, Receive, Release
  <2>3. QED
    BY <2>1, <2>2 DEF HonestNeverAccused
<1>3. Inv => HonestNeverAccused
  OBVIOUS
<1>4. QED
  BY <1>1, <1>2, <1>3, TypeCorrect, HeadsExistInvariant, DownClosedInvariant, PTL DEF Spec

-----------------------------------------------------------------------------
(* Every logged op has its verdict, where nothing cuts one short. *)

\* Only the op in hand is logged without a stamp, and the reducer holds the content ops
\* stamped "applied" with the one it has just taken.
VerdictsMatch ==
  /\ \A s \in Seqs : log[s] # NoOp /\ stamp[s] = "none" =>
       pc \in {"judge", "stamp"} /\ at = s
  /\ \A s \in Seqs : log[s] # NoOp /\ Class[log[s]] = "content" =>
       (log[s] \in reduced <=> \/ stamp[s] = "applied"
                               \/ pc = "stamp" /\ at = s)
  /\ reduced \subseteq Logged
  /\ pc \in {"judge", "stamp"} => Class[op] = "content"

\* A logged op is logged at one position.
LEMMA OnePosition ==
  ASSUME TypeOK, ChainLinked, NEW s \in Seqs, NEW t \in Seqs,
         log[s] # NoOp, log[s] = log[t]
  PROVE  s = t
<1>1. log[s] \in Op /\ log[t] # NoOp
  BY DEF TypeOK
<1>2. QED
  BY <1>1 DEF ChainLinked

\* Logging o at s and stamping it in the same step keeps the verdicts matched, when o
\* is reduced exactly as the stamp says.
LEMMA StampedInOneStep ==
  ASSUME TypeOK, VerdictAwaited, VerdictsMatch, pc \notin {"judge", "stamp"},
         pc' \notin {"judge", "stamp"}, NEW s \in Seqs, NEW o \in Op,
         log' = LogAfter(s, o), stamp' = StampAfter(s, o),
         reduced' = reduced \cup
           (IF Applies(s, o) /\ Class[o] = "content" THEN {o} ELSE {})
  PROVE  VerdictsMatch'
<1>1. CASE ~Logs(s, o)
  <2>1. log' = log /\ stamp' = stamp /\ reduced' = reduced
    BY <1>1 DEF LogAfter, StampAfter, Applies
  <2>2. QED
    BY <2>1 DEF VerdictsMatch, Logged
<1>2. CASE Logs(s, o)
  <2>1. log' = [log EXCEPT ![s] = o]
    BY <1>2 DEF LogAfter
  <2>2. stamp' = [stamp EXCEPT ![s] = IF Applies(s, o) THEN "applied" ELSE "refused"]
    BY <1>2 DEF StampAfter
  <2>3. log[s] = NoOp /\ o \notin Logged /\ o # NoOp
    BY <1>2, ChainConstants DEF Logs, SlotTaken, HeldBy
  <2>4. Logged' = Logged \cup {o}
    BY <1>2, <2>1, LoggedAfter
  <2>5. /\ log'[s] = o /\ stamp'[s] = IF Applies(s, o) THEN "applied" ELSE "refused"
        /\ \A t \in Seqs : t # s => log'[t] = log[t] /\ stamp'[t] = stamp[t]
    BY <2>1, <2>2 DEF TypeOK
  <2>6. \A t \in Seqs : t # s => log[t] # o
    BY <2>3 DEF Logged
  <2>7. o \notin reduced
    BY <2>3 DEF VerdictsMatch
  <2>8. ASSUME NEW t \in Seqs, log'[t] # NoOp
        PROVE  stamp'[t] # "none"
    <3>1. CASE t = s
      BY <2>5, <3>1
    <3>2. CASE t # s
      BY <2>5, <2>8, <3>2 DEF VerdictsMatch
    <3>3. QED
      BY <3>1, <3>2
  <2>9. ASSUME NEW t \in Seqs, log'[t] # NoOp, Class[log'[t]] = "content"
        PROVE  log'[t] \in reduced' <=> stamp'[t] = "applied"
    <3>1. CASE t = s
      BY <2>5, <2>7, <2>9, <3>1
    <3>2. CASE t # s
      <4>1. log[t] \in reduced' <=> log[t] \in reduced
        BY <2>6, <3>2
      <4>2. log[t] \in reduced <=> stamp[t] = "applied"
        BY <2>5, <2>9, <3>2 DEF VerdictsMatch
      <4>3. QED
        BY <2>5, <3>2, <4>1, <4>2
    <3>3. QED
      BY <3>1, <3>2
  <2>10. reduced' \subseteq Logged'
    BY <2>4 DEF VerdictsMatch
  <2>11. QED
    BY <2>8, <2>9, <2>10 DEF VerdictsMatch
<1>3. QED
  BY <1>1, <1>2

\* Every step keeps the verdicts matched.
LEMMA VerdictStep ==
  ASSUME VerdictsAreWhole, TypeOK, ChainLinked, VerdictAwaited, VerdictsMatch, [Next]_vars
  PROVE  VerdictsMatch'
<1>1. ASSUME NEW s \in Seqs, NEW o \in Op, ReceiveContent(s, o)
      PROVE  VerdictsMatch'
  <2>1. /\ at' = s /\ op' = o /\ stamp' = stamp /\ log' = LogAfter(s, o)
        /\ reduced' = reduced /\ pc = "page" /\ Class[o] = "content"
    BY <1>1 DEF ReceiveContent, Takes
  <2>2. CASE Logs(s, o)
    <3>1. log' = [log EXCEPT ![s] = o]
      BY <2>1, <2>2 DEF LogAfter
    <3>2. log[s] = NoOp /\ o \notin Logged /\ o # NoOp
      BY <2>2, ChainConstants DEF Logs, SlotTaken, HeldBy
    <3>3. Logged' = Logged \cup {o}
      BY <2>2, <3>1, LoggedAfter
    <3>4. log'[s] = o /\ \A t \in Seqs : t # s => log'[t] = log[t]
      BY <3>1 DEF TypeOK
    <3>5. stamp[s] = "none" /\ o \notin reduced
      BY <3>2 DEF VerdictAwaited, VerdictsMatch
    <3>6. pc' = "judge"
      BY <1>1, <2>2, <3>2 DEF ReceiveContent, RefusesUnlogged, Logs, Held, Collides, SlotTaken
    <3>7. QED
      BY <2>1, <3>2, <3>3, <3>4, <3>5, <3>6 DEF VerdictsMatch
  <2>3. CASE ~Logs(s, o)
    <3>1. log' = log /\ pc' \notin {"judge", "stamp"}
      BY <1>1, <2>1, <2>3 DEF ReceiveContent, LogAfter
    <3>2. QED
      BY <2>1, <3>1 DEF VerdictsMatch, Logged
  <2>4. QED
    BY <2>2, <2>3
<1>2. ASSUME NEW s \in Seqs, NEW o \in Op, ReceiveControl(s, o)
      PROVE  VerdictsMatch'
  <2>1. /\ log' = LogAfter(s, o) /\ stamp' = StampAfter(s, o) /\ reduced' = reduced
        /\ pc = "page" /\ pc' \notin {"judge", "stamp"} /\ Class[o] # "content"
    BY <1>2 DEF ReceiveControl, Takes
  <2>2. QED
    BY <2>1, StampedInOneStep
<1>3. CASE Judge
  <2>1. /\ at \in Seqs /\ op \in Op /\ log[at] = op /\ stamp[at] = "none"
        /\ Class[op] = "content" /\ op # NoOp /\ log' = log /\ at' = at /\ op' = op
    BY <1>3, ChainConstants DEF Judge, TypeOK, VerdictAwaited, VerdictsMatch, pulled
  <2>2. op \notin reduced
    BY <1>3, <2>1 DEF Judge, VerdictsMatch
  <2>3. \A t \in Seqs : log[t] = op => t = at
    BY <2>1, OnePosition
  <2>4. op \in Logged
    BY <2>1 DEF Logged
  <2>5. CASE Verdict[op] = "apply"
    <3>1. reduced' = reduced \cup {op} /\ stamp' = stamp /\ pc' = "stamp"
      BY <1>3, <2>5 DEF Judge
    <3>2. QED
      BY <1>3, <2>1, <2>2, <2>3, <2>4, <3>1 DEF Judge, VerdictsMatch, Logged
  <2>6. CASE Verdict[op] # "apply"
    <3>1. /\ reduced' = reduced /\ stamp' = [stamp EXCEPT ![at] = "refused"]
          /\ pc' = "file"
      BY <1>3, <2>6 DEF Judge
    <3>2. stamp'[at] = "refused" /\ \A t \in Seqs : t # at => stamp'[t] = stamp[t]
      BY <2>1, <3>1 DEF TypeOK
    <3>3. QED
      BY <1>3, <2>1, <2>2, <2>3, <2>4, <3>1, <3>2 DEF Judge, VerdictsMatch, Logged
  <2>7. QED
    BY <2>5, <2>6
<1>4. CASE StampApplied
  <2>1. /\ at \in Seqs /\ pc' = "scan" /\ log' = log /\ reduced' = reduced
        /\ stamp' = [stamp EXCEPT ![at] = "applied"] /\ pc = "stamp"
    BY <1>4 DEF StampApplied, TypeOK
  <2>2. stamp'[at] = "applied" /\ \A t \in Seqs : t # at => stamp'[t] = stamp[t]
    BY <2>1 DEF TypeOK
  <2>3. QED
    BY <2>1, <2>2 DEF VerdictsMatch, Logged
<1>5. CASE Replay
  <2>1. quar[claim].seq \in Seqs /\ quar[claim].op \in Op
    BY <1>5, ReplayRows DEF QuarRow
  <2>2. /\ log' = LogAfter(quar[claim].seq, quar[claim].op)
        /\ stamp' = StampAfter(quar[claim].seq, quar[claim].op)
        /\ reduced' = reduced \cup
             (IF /\ Applies(quar[claim].seq, quar[claim].op)
                 /\ Class[quar[claim].op] = "content"
              THEN {quar[claim].op} ELSE {})
        /\ pc = "replay" /\ pc' = "scan"
    BY <1>5 DEF Replay
  <2>3. QED
    BY <2>1, <2>2, StampedInOneStep
<1>6. CASE \/ FetchPage \/ EndOfPages \/ File \/ Accuse
           \/ Scan \/ MarkStarted \/ ClearStarted \/ SettleAlarms \/ SaveCursor
           \/ EndPull \/ Crash \/ StorageFault
           \/ (\E m \in Member : ResumeRelease(m))
           \/ (\E s \in Seqs, o \in Op : ReceiveStaleHeld(s, o) \/ ReceiveStaleOther(s, o))
  <2>1. /\ log' = log /\ stamp' = stamp /\ reduced' = reduced
        /\ pc \notin {"judge", "stamp"} /\ pc' \notin {"judge", "stamp"}
    BY <1>6
    DEF FetchPage, EndOfPages, File, Accuse, Scan, MarkStarted, ClearStarted, EndScan,
        SettleAlarms, SaveCursor, EndPull, Crash, StorageFault, Unwind, ResumeRelease,
        ReceiveStaleHeld, ReceiveStaleOther, Takes, durable, TypeOK, VerdictsAreWhole
  <2>2. QED
    BY <2>1 DEF VerdictsMatch, Logged
<1>7. CASE UNCHANGED vars
  BY <1>7 DEF vars, durable, pulled, VerdictsMatch, Logged
<1>8. QED
  BY <1>1, <1>2, <1>3, <1>4, <1>5, <1>6, <1>7 DEF Next, Receive, Release

\* "Exactly one of the two is set": where no crash and no fault falls between an op's log
\* insert and its stamp, every logged op but the one in hand has one verdict, and the
\* reducer holds exactly the content ops whose verdict is "applied" (_receive, _replay).
THEOREM VerdictsAreExact ==
  ASSUME VerdictsAreWhole
  PROVE  Spec => []ExactlyOneVerdict
<1>1. Init => VerdictsMatch
  BY DEF Init, VerdictsMatch
<1>2. TypeOK /\ ChainLinked /\ VerdictAwaited /\ VerdictsMatch /\ [Next]_vars
        => VerdictsMatch'
  BY VerdictStep
<1>3. VerdictsMatch => ExactlyOneVerdict
  BY DEF VerdictsMatch, ExactlyOneVerdict
<1>4. QED
  BY <1>1, <1>2, <1>3, TypeCorrect, LogIsChains, VerdictAwaitedInvariant, PTL DEF Spec

-----------------------------------------------------------------------------
(* The gap alarm stands for what is missing. *)

GapAlarm(m) == <<GapReason, m>> \in alarms

\* A gap row has its alarm or is about to be accused.
GapsAccused ==
  \A m \in Member : GapRows(m) # {} =>
    GapAlarm(m) \/ (pc = "accuse" /\ why = GapReason /\ Author[op] = m)

\* An alarm has its gap row, or the scan that released the last one is still to end.
AlarmsGrounded ==
  \A m \in Member : GapAlarm(m) =>
    \/ GapRows(m) # {}
    \/ who = m /\ freed /\ pc \in {"scan", "clear", "settle"}

\* The gap being accused and the one being released have their rows.
GapsInHand ==
  /\ pc = "accuse" /\ why = GapReason => GapRows(Author[op]) # {}
  /\ pc \in {"mark", "replay"} => claim \in GapRows(who)

\* The gap rows depend on what the rows say, and not on their release marks' history.
LEMMA GapRowsKept ==
  ASSUME TypeOK, [Next]_vars, ~Replay, NEW m
  PROVE  /\ GapRows(m) \subseteq GapRows(m)'
         /\ ~File => GapRows(m)' = GapRows(m)
<1>1. /\ quar \in Seq(QuarRow) /\ Len(quar) \in Nat
      /\ quar' \in Seq(QuarRow) /\ Len(quar') \in Nat
  BY TypeStep, LenProperties DEF TypeOK
<1>2. /\ Len(quar) <= Len(quar')
      /\ \A i \in 1..Len(quar) :
           /\ quar'[i].op = quar[i].op /\ quar'[i].reason = quar[i].reason
           /\ quar'[i].released = quar[i].released
  BY RowsStep DEF RowsKept
<1>3. GapRows(m) \subseteq GapRows(m)'
  BY <1>1, <1>2 DEF GapRows
<1>4. ASSUME ~File PROVE Len(quar') = Len(quar)
  <2>1. CASE MarkStarted
    BY <1>1, <2>1, StartedRow DEF MarkStarted, TypeOK
  <2>2. CASE ClearStarted
    BY <1>1, <2>2, ClearedRows DEF ClearStarted
  <2>3. CASE \/ FetchPage \/ EndOfPages \/ Judge \/ StampApplied \/ Accuse
             \/ Scan \/ SettleAlarms \/ SaveCursor \/ EndPull \/ Crash \/ StorageFault
             \/ (\E a \in Member : ResumeRelease(a))
             \/ Receive \/ UNCHANGED vars
    BY <2>3
    DEF FetchPage, EndOfPages, Judge, StampApplied, Accuse, Scan, SettleAlarms, SaveCursor,
        EndPull, Crash, StorageFault, Unwind, ResumeRelease, Receive, ReceiveStaleHeld,
        ReceiveStaleOther, ReceiveContent, ReceiveControl, durable, vars
  <2>4. QED
    BY <1>4, <2>1, <2>2, <2>3 DEF Next, Release
<1>5. ~File => GapRows(m)' = GapRows(m)
  BY <1>1, <1>2, <1>4 DEF GapRows
<1>6. QED
  BY <1>3, <1>5

\* Filing a refusal adds the gap row of the op in hand, if the refusal is a gap.
LEMMA GapRowsFiled ==
  ASSUME TypeOK, File, NEW m \in Member
  PROVE  /\ GapRows(m)' # {} =>
              GapRows(m) # {} \/ (why = GapReason /\ Author[op] = m)
         /\ why = GapReason /\ Author[op] = m => GapRows(m)' # {}
<1>1. /\ at \in Seqs /\ op \in Op /\ why \in Reasons /\ quar \in Seq(QuarRow)
      /\ Len(quar) \in Nat /\ quar' = Quarantined(quar, at, op, why)
  BY LenProperties DEF File, TypeOK
<1>2. /\ quar' \in Seq(QuarRow) /\ Len(quar) <= Len(quar') /\ Len(quar') \in Nat
      /\ \A i \in 1..Len(quar) : quar'[i] = quar[i]
      /\ StandsIn(quar', at, op, why)
  BY <1>1, QuarantinedRows, LenProperties
<1>3. why = GapReason /\ Author[op] = m => GapRows(m)' # {}
  BY <1>2 DEF StandsIn, GapRows
<1>4. ASSUME NEW i \in GapRows(m)'
      PROVE  GapRows(m) # {} \/ (why = GapReason /\ Author[op] = m)
  <2>1. CASE i \in 1..Len(quar)
    BY <1>2, <1>4, <2>1 DEF GapRows
  <2>2. CASE i \notin 1..Len(quar)
    <3>1. quar' = Append(quar, Row(at, op, why))
      <4>1. quar' # quar
        BY <1>4, <2>2 DEF GapRows
      <4>2. QED
        BY <1>1, <4>1 DEF Quarantined
    <3>2. i = Len(quar) + 1
      BY <1>1, <1>4, <2>2, <3>1, AppendProperties DEF GapRows
    <3>3. quar'[i] = Row(at, op, why)
      BY <1>1, <3>1, <3>2, AppendProperties
    <3>4. QED
      BY <1>4, <3>3 DEF GapRows, Row
  <2>3. QED
    BY <2>1, <2>2
<1>5. QED
  BY <1>3, <1>4

\* A replay can only take a gap row away from the author whose release it is, unless the
\* replayed op is refused for another gap and accused of it in the same step.
LEMMA GapRowsReplayed ==
  ASSUME TypeOK, GapsInHand, Replay, NEW m \in Member
  PROVE  /\ m # who => GapRows(m) \subseteq GapRows(m)'
         /\ GapRows(m)' # {} => GapRows(m) # {}
<1> DEFINE s    == quar[claim].seq
           o    == quar[claim].op
           rows == MarkedReleased(quar, claim)
<1>1. /\ claim \in 1..Len(quar) /\ quar[claim] \in QuarRow /\ quar \in Seq(QuarRow)
      /\ Len(quar) \in Nat /\ claim \in GapRows(who)
  BY ReplayRows, LenProperties DEF TypeOK, Replay, GapsInHand
<1>2. s \in Seqs /\ o \in Op /\ Author[o] = who
  BY <1>1 DEF QuarRow, GapRows
<1>3. /\ rows \in Seq(QuarRow) /\ Len(rows) = Len(quar)
      /\ \A j \in 1..Len(quar) : j # claim => rows[j] = quar[j]
      /\ rows[claim].op = o /\ rows[claim].released = TRUE
  BY <1>1, ReleasedRow
<1>4. quar' = IF Rejects(s, o) THEN Quarantined(rows, s, o, RejectReason(o)) ELSE rows
  BY DEF Replay
<1>5. Rejects(s, o) => RejectReason(o) \in Reasons
  BY <1>2, FateType DEF Rejects, RejectReason, RefusesUnlogged, Logs
<1> HIDE DEF s, o, rows
<1>6. /\ quar' = rows \/ quar' = Append(rows, Row(s, o, RejectReason(o)))
      /\ RejectReason(o) \in Reasons \/ quar' = rows
  BY <1>4, <1>5 DEF Quarantined
<1>7. /\ Len(rows) <= Len(quar') /\ Len(quar') \in Nat
      /\ \A i \in 1..Len(rows) : quar'[i] = rows[i]
      /\ \A i \in 1..Len(quar') : i \in 1..Len(rows) \/ quar'[i] = Row(s, o, RejectReason(o))
  <2>1. CASE quar' = rows
    BY <1>1, <1>3, <2>1
  <2>2. CASE quar' # rows
    <3>1. Row(s, o, RejectReason(o)) \in QuarRow
      BY <1>2, <1>6, <2>2 DEF Row, QuarRow
    <3>2. QED
      BY <1>1, <1>3, <1>6, <2>2, <3>1, AppendProperties
  <2>3. QED
    BY <2>1, <2>2
<1>8. ASSUME m # who PROVE GapRows(m) \subseteq GapRows(m)'
  <2>1. ASSUME NEW i \in GapRows(m) PROVE i \in GapRows(m)'
    <3>1. i \in 1..Len(quar) /\ i # claim
      BY <1>1, <1>8, <2>1 DEF GapRows
    <3>2. quar'[i] = quar[i] /\ i \in 1..Len(quar')
      BY <1>1, <1>3, <1>7, <3>1
    <3>3. QED
      BY <2>1, <3>2 DEF GapRows
  <2>2. QED
    BY <2>1
<1>9. ASSUME NEW i \in GapRows(m)' PROVE GapRows(m) # {}
  <2>1. CASE i \in 1..Len(rows)
    <3>1. i # claim
      BY <1>1, <1>3, <1>7, <1>9, <2>1 DEF GapRows
    <3>2. quar'[i] = quar[i]
      BY <1>3, <1>7, <2>1, <3>1
    <3>3. QED
      BY <1>3, <1>9, <2>1, <3>2 DEF GapRows
  <2>2. CASE i \notin 1..Len(rows)
    <3>1. quar'[i] = Row(s, o, RejectReason(o)) /\ i \in 1..Len(quar')
      BY <1>7, <1>9, <2>2 DEF GapRows
    <3>2. Author[o] = m
      BY <1>9, <3>1 DEF GapRows, Row
    <3>3. QED
      BY <1>1, <1>2, <3>2
  <2>3. QED
    BY <2>1, <2>2
<1>10. QED
  BY <1>8, <1>9

\* Which alarms are gap alarms.
LEMMA GapAlarms ==
  ASSUME NEW m, NEW a
  PROVE  /\ <<GapReason, m>> \in AlarmsFor(GapReason, m)
         /\ \A reason : <<GapReason, a>> \in AlarmsFor(reason, m) =>
              a = m /\ reason = GapReason
         /\ <<GapReason, a>> \in ScanAlarms(m) => a = m /\ GapRows(m) # {}
         /\ \A s, o : <<GapReason, a>> \notin Collision(s, o)
<1>1. <<GapReason, m>> \in AlarmsFor(GapReason, m)
  BY DEF AlarmsFor, Escalates, AlarmKind, GapReason
<1>2. ASSUME NEW reason, <<GapReason, a>> \in AlarmsFor(reason, m)
      PROVE  a = m /\ reason = GapReason
  BY <1>2 DEF AlarmsFor, AlarmKind, GapReason
<1>3. ASSUME <<GapReason, a>> \in ScanAlarms(m)
      PROVE  a = m /\ GapRows(m) # {}
  <2>1. PICK i \in Claimants(m) :
          <<GapReason, a>> \in AlarmsFor(ChainVerdict(Logged, quar[i].op), m)
    BY <1>3 DEF ScanAlarms, GapReason
  <2>2. QED
    BY <1>2, <2>1 DEF Claimants
<1>4. \A s, o : <<GapReason, a>> \notin Collision(s, o)
  BY DEF Collision, GapReason
<1>5. QED
  BY <1>1, <1>2, <1>3, <1>4

GapsTracked == GapsAccused /\ AlarmsGrounded /\ GapsInHand

\* A step away from the accusation and the release of gaps keeps them tracked, when it
\* touches neither gap rows nor gap alarms.
LEMMA GapsUntouched ==
  ASSUME GapsTracked, pc \notin {"accuse", "scan", "clear", "settle"},
         pc' \notin {"accuse", "mark", "replay"},
         \A m \in Member : GapRows(m)' = GapRows(m) /\ (GapAlarm(m)' <=> GapAlarm(m))
  PROVE  GapsTracked'
<1>1. \A m \in Member : GapRows(m) # {} <=> GapAlarm(m)
  BY DEF GapsTracked, GapsAccused, AlarmsGrounded
<1>2. GapsInHand'
  BY DEF GapsInHand
<1>3. GapsAccused' /\ AlarmsGrounded'
  BY <1>1 DEF GapsAccused, AlarmsGrounded
<1>4. QED
  BY <1>2, <1>3 DEF GapsTracked

\* Every step keeps gap rows and gap alarms together.
LEMMA GapsStep ==
  ASSUME GapsAreSettled, TypeOK, GapsTracked, [Next]_vars
  PROVE  GapsTracked'
<1>0. ASSUME ~File, ~Replay
      PROVE  \A m \in Member : GapRows(m)' = GapRows(m)
  BY <1>0, GapRowsKept
<1>1. CASE \/ FetchPage \/ EndOfPages \/ Receive \/ Judge \/ StampApplied \/ SaveCursor
           \/ EndPull \/ Crash \/ StorageFault \/ (\E m \in Member : ResumeRelease(m))
  <2>1. /\ pc \notin {"accuse", "scan", "clear", "settle"}
        /\ pc' \notin {"accuse", "mark", "replay"} /\ ~File /\ ~Replay
    <3>1. CASE Receive
      <4>1. PICK s \in Seqs, o \in Op :
              \/ ReceiveStaleHeld(s, o) \/ ReceiveStaleOther(s, o)
              \/ ReceiveContent(s, o) \/ ReceiveControl(s, o)
        BY <3>1 DEF Receive
      <4>2. pc = "page"
        BY <4>1 DEF ReceiveStaleHeld, ReceiveStaleOther, ReceiveContent, ReceiveControl, Takes
      <4>3. pc' \in {"page", "file", "judge", "save"}
        BY <4>1, <4>2
        DEF ReceiveStaleHeld, ReceiveStaleOther, ReceiveContent, ReceiveControl
      <4>4. QED
        BY <4>2, <4>3 DEF File, Replay
    <3>2. CASE Crash \/ StorageFault
      <4>1. pc \in CrashAt \cup FaultAt /\ pc' = "idle"
        BY <3>2 DEF Crash, StorageFault, Unwind
      <4>2. QED
        BY <4>1 DEF GapsAreSettled, File, Replay
    <3>3. CASE \E m \in Member : ResumeRelease(m)
      BY <3>3 DEF ResumeRelease, File, Replay
    <3>4. CASE \/ FetchPage \/ EndOfPages \/ Judge \/ StampApplied \/ SaveCursor \/ EndPull
      BY <3>4
      DEF FetchPage, EndOfPages, Judge, StampApplied, SaveCursor, EndPull, File, Replay
    <3>5. QED
      BY <1>1, <3>1, <3>2, <3>3, <3>4
  <2>4. ASSUME NEW m \in Member PROVE GapAlarm(m)' <=> GapAlarm(m)
    <3>1. CASE \E s \in Seqs, o \in Op : ReceiveContent(s, o) \/ ReceiveControl(s, o)
      BY <3>1, GapAlarms DEF ReceiveContent, ReceiveControl, GapAlarm
    <3>2. CASE \E s \in Seqs, o \in Op : ReceiveStaleHeld(s, o)
      BY <3>2 DEF ReceiveStaleHeld, GapAlarm, GapReason
    <3>3. CASE \/ FetchPage \/ EndOfPages \/ Judge \/ StampApplied \/ SaveCursor
               \/ EndPull \/ Crash \/ StorageFault \/ (\E a \in Member : ResumeRelease(a))
               \/ (\E s \in Seqs, o \in Op : ReceiveStaleOther(s, o))
      <4>1. alarms' = alarms
        BY <3>3
        DEF FetchPage, EndOfPages, Judge, StampApplied, SaveCursor, EndPull, Crash,
            StorageFault, Unwind, ResumeRelease, ReceiveStaleOther, durable
      <4>2. QED
        BY <4>1 DEF GapAlarm
    <3>4. QED
      BY <1>1, <3>1, <3>2, <3>3 DEF Receive
  <2>5. QED
    BY <1>0, <2>1, <2>4, GapsUntouched
<1>2. CASE File
  <2>1. pc = "file" /\ pc' = "accuse" /\ alarms' = alarms /\ why' = why /\ op' = op
    BY <1>2 DEF File, refusal, pulled
  <2>2. PICK a \in Member : Author[op] = a
    BY <2>1, ChainConstants DEF TypeOK
  <2>3. \A m \in Member : GapRows(m) # {} <=> GapAlarm(m)
    BY <2>1 DEF GapsTracked, GapsAccused, AlarmsGrounded
  <2>4. \A m \in Member : GapAlarm(m)' <=> GapAlarm(m)
    BY <2>1 DEF GapAlarm
  <2>5. ~Replay
    BY <2>1 DEF Replay
  <2>6. \A m \in Member : GapRows(m) \subseteq GapRows(m)'
    BY <2>5, GapRowsKept
  <2>7. GapsAccused'
    BY <1>2, <2>1, <2>3, <2>4, GapRowsFiled DEF GapsAccused
  <2>8. AlarmsGrounded'
    BY <2>3, <2>4, <2>6 DEF AlarmsGrounded
  <2>9. why = GapReason => GapRows(a)' # {}
    BY <1>2, <2>2, GapRowsFiled
  <2>10. GapsInHand'
    <3>1. Author[op'] = a
      BY <2>1, <2>2
    <3>2. QED
      BY <2>1, <2>9, <3>1 DEF GapsInHand, GapRows
  <2>11. QED
    BY <2>7, <2>8, <2>10 DEF GapsTracked
<1>3. CASE Accuse
  <2>1. /\ pc = "accuse" /\ pc' \in {"page", "save", "scan"} /\ ~File /\ ~Replay
        /\ alarms \subseteq alarms' /\ AlarmsFor(why, Author[op]) \subseteq alarms'
        /\ \A m \in Member : GapAlarm(m)' => GapAlarm(m) \/
             <<GapReason, m>> \in AlarmsFor(why, Author[op])
    BY <1>3 DEF Accuse, TypeOK, File, Replay, GapAlarm, GapReason
  <2>2. \A m \in Member : GapRows(m)' = GapRows(m)
    BY <1>0, <2>1
  <2>3. GapsAccused'
    <3>1. ASSUME NEW m \in Member, GapRows(m) # {} PROVE GapAlarm(m)'
      <4>1. CASE GapAlarm(m)
        BY <2>1, <4>1 DEF GapAlarm
      <4>2. CASE why = GapReason /\ Author[op] = m
        BY <2>1, <4>2, GapAlarms DEF GapAlarm
      <4>3. QED
        BY <3>1, <4>1, <4>2 DEF GapsTracked, GapsAccused
    <3>2. QED
      BY <2>2, <3>1 DEF GapsAccused
  <2>4. AlarmsGrounded'
    <3>1. ASSUME NEW m \in Member, GapAlarm(m)' PROVE GapRows(m) # {}
      <4>1. CASE GapAlarm(m)
        BY <2>1, <4>1 DEF GapsTracked, AlarmsGrounded
      <4>2. CASE <<GapReason, m>> \in AlarmsFor(why, Author[op])
        BY <2>1, <4>2, GapAlarms DEF GapsTracked, GapsInHand
      <4>3. QED
        BY <2>1, <3>1, <4>1, <4>2
    <3>2. QED
      BY <2>2, <3>1 DEF AlarmsGrounded
  <2>5. GapsInHand'
    BY <2>1 DEF GapsInHand
  <2>6. QED
    BY <2>3, <2>4, <2>5 DEF GapsTracked
<1>4. CASE Scan
  <2>1. /\ pc = "scan" /\ ~File /\ ~Replay /\ alarms' = alarms \cup ScanAlarms(who)
        /\ who' = who /\ freed' = freed /\ op' = op
        /\ \/ pc' = "clear"
           \/ pc' = "mark" /\ claim' \in Releasable(who)
    BY <1>4 DEF Scan, File, Replay, pulled
  <2>2. \A m \in Member : GapRows(m)' = GapRows(m)
    BY <1>0, <2>1
  <2>3. PICK w \in Member : who = w
    BY <2>1 DEF TypeOK
  <2>4. GapsAccused'
    BY <2>1, <2>2 DEF GapsTracked, GapsAccused, GapAlarm
  <2>5. pc' = "mark" => claim' \in GapRows(who)
    BY <2>1 DEF Releasable, Claimants
  <2>6. AlarmsGrounded'
    <3>1. ASSUME NEW m \in Member, GapAlarm(m)'
          PROVE  GapRows(m) # {} \/ (who = m /\ freed /\ pc' = "clear")
      <4>1. CASE GapAlarm(m)
        BY <2>1, <2>5, <4>1 DEF GapsTracked, AlarmsGrounded
      <4>2. CASE <<GapReason, m>> \in ScanAlarms(who)
        <5>1. <<GapReason, m>> \in ScanAlarms(w)
          BY <2>3, <4>2
        <5>2. m = w /\ GapRows(w) # {}
          BY ONLY <5>1, GapAlarms
        <5>3. QED
          BY <5>2
      <4>3. QED
        BY <2>1, <3>1, <4>1, <4>2 DEF GapAlarm
    <3>2. QED
      BY <2>1, <2>2, <3>1 DEF AlarmsGrounded
  <2>7. GapsInHand'
    <3>1. GapRows(w)' = GapRows(w) /\ who' = w
      BY <2>1, <2>2, <2>3
    <3>2. pc' = "mark" => claim' \in GapRows(w)'
      BY <2>3, <2>5, <3>1
    <3>3. QED
      BY <2>1, <3>1, <3>2 DEF GapsInHand, GapRows
  <2>8. QED
    BY <2>4, <2>6, <2>7 DEF GapsTracked
<1>5. CASE MarkStarted
  <2>1. /\ pc = "mark" /\ pc' = "replay" /\ alarms' = alarms /\ ~File /\ ~Replay
        /\ who' = who /\ claim' = claim
    BY <1>5 DEF MarkStarted, File, Replay, scan
  <2>2. \A m \in Member : GapRows(m)' = GapRows(m) /\ (GapAlarm(m)' <=> GapAlarm(m))
    BY <1>0, <2>1 DEF GapAlarm
  <2>3. GapsAccused' /\ AlarmsGrounded'
    BY <2>1, <2>2 DEF GapsTracked, GapsAccused, AlarmsGrounded
  <2>4. who \in Member /\ claim \in GapRows(who)
    BY <2>1 DEF TypeOK, GapsTracked, GapsInHand
  <2>5. GapsInHand'
    BY <2>1, <2>2, <2>4 DEF GapsInHand, GapRows
  <2>6. QED
    BY <2>3, <2>5 DEF GapsTracked
<1>6. CASE Replay
  <2>1. quar[claim].seq \in Seqs /\ quar[claim].op \in Op /\ Author[quar[claim].op] = who
        /\ who \in Member
    BY <1>6, ReplayRows DEF Replay, QuarRow, GapsTracked, GapsInHand, GapRows, TypeOK
  <2>2. /\ pc = "replay" /\ pc' = "scan" /\ who' = who /\ freed' /\ alarms \subseteq alarms'
        /\ \A m \in Member : m # who /\ GapAlarm(m)' => GapAlarm(m)
    <3>1. /\ pc = "replay" /\ pc' = "scan" /\ who' = who /\ freed'
          /\ alarms' = alarms \cup Collision(quar[claim].seq, quar[claim].op) \cup
               (IF Rejects(quar[claim].seq, quar[claim].op)
                THEN AlarmsFor(RejectReason(quar[claim].op), Author[quar[claim].op])
                ELSE {})
      BY <1>6 DEF Replay
    <3>2. QED
      BY <2>1, <3>1, GapAlarms DEF GapAlarm
  <2>3. GapsAccused'
    BY <1>6, <2>2, GapRowsReplayed DEF GapsTracked, GapsAccused, GapAlarm
  <2>4. AlarmsGrounded'
    <3>1. ASSUME NEW m \in Member, m # who, GapAlarm(m)' PROVE GapRows(m)' # {}
      <4>1. GapAlarm(m)
        BY <2>2, <3>1
      <4>2. GapRows(m) # {}
        BY <2>2, <3>1, <4>1 DEF GapsTracked, AlarmsGrounded
      <4>3. QED
        BY <1>6, <3>1, <4>2, GapRowsReplayed DEF GapsTracked
    <3>2. QED
      BY <2>2, <3>1 DEF AlarmsGrounded
  <2>5. GapsInHand'
    BY <2>2 DEF GapsInHand
  <2>6. QED
    BY <2>3, <2>4, <2>5 DEF GapsTracked
<1>7. CASE ClearStarted
  <2>1. /\ pc = "clear" /\ alarms' = alarms /\ ~File /\ ~Replay
        /\ pc' \in {"settle", "tail", "save"}
        /\ freed => pc' = "settle" /\ who' = who /\ freed' = freed
    BY <1>7 DEF ClearStarted, EndScan, File, Replay
  <2>2. \A m \in Member : GapRows(m)' = GapRows(m) /\ (GapAlarm(m)' <=> GapAlarm(m))
    BY <1>0, <2>1 DEF GapAlarm
  <2>3. GapsAccused' /\ GapsInHand'
    BY <2>1, <2>2 DEF GapsTracked, GapsAccused, GapsInHand
  <2>4. AlarmsGrounded'
    BY <2>1, <2>2 DEF GapsTracked, AlarmsGrounded
  <2>5. QED
    BY <2>3, <2>4 DEF GapsTracked
<1>8. CASE SettleAlarms
  <2>1. PICK w \in Member : who = w
    BY <1>8 DEF SettleAlarms, TypeOK
  <2>2. pc = "settle" /\ ~File /\ ~Replay /\ pc' \in {"tail", "save"}
    BY <1>8 DEF SettleAlarms, EndScan, File, Replay
  <2>3. alarms' = (alarms \cup {<<"author_stream_reordered", w>>})
                   \ (IF GapRows(w) = {} THEN {<<GapReason, w>>} ELSE {})
    BY <1>8, <2>1 DEF SettleAlarms
  <2>4. \A m \in Member : m # w => (GapAlarm(m)' <=> GapAlarm(m))
    BY <2>3 DEF GapAlarm, GapReason
  <2>5. GapAlarm(w)' <=> (GapAlarm(w) /\ GapRows(w) # {})
    BY <2>3 DEF GapAlarm, GapReason
  <2>6. \A m \in Member : GapRows(m)' = GapRows(m)
    BY <1>0, <2>2
  <2>7. \A m \in Member : GapRows(m) # {} => GapAlarm(m)
    BY <2>2 DEF GapsTracked, GapsAccused
  <2>8. \A m \in Member : m # w /\ GapAlarm(m) => GapRows(m) # {}
    BY <2>1 DEF GapsTracked, AlarmsGrounded
  <2>9. \A m \in Member : GapRows(m)' # {} <=> GapAlarm(m)'
    BY <2>4, <2>5, <2>6, <2>7, <2>8
  <2>10. GapsAccused' /\ AlarmsGrounded'
    BY <2>9 DEF GapsAccused, AlarmsGrounded
  <2>11. GapsInHand'
    BY <2>2 DEF GapsInHand
  <2>12. QED
    BY <2>10, <2>11 DEF GapsTracked
<1>9. CASE UNCHANGED vars
  BY <1>9
  DEF vars, durable, pulled, refusal, scan, GapsTracked, GapsAccused, AlarmsGrounded,
      GapsInHand, GapAlarm, GapRows
<1>10. QED
  BY <1>1, <1>2, <1>3, <1>4, <1>5, <1>6, <1>7, <1>8, <1>9 DEF Next, Release

\* Where no crash and no fault parts a gap row from its alarm, or a release from its
\* settlement, the gap alarm stands between pulls against exactly the authors with a gap
\* row left, whatever the server serves (_refuse, _releaseChainSuccessors).
THEOREM GapAlarmsTrackGaps ==
  ASSUME GapsAreSettled
  PROVE  Spec => []GapAlarmTracksGaps
<1>1. Init => GapsTracked
  BY DEF Init, GapsTracked, GapsAccused, AlarmsGrounded, GapsInHand, GapAlarm, GapRows
<1>2. TypeOK /\ GapsTracked /\ [Next]_vars => GapsTracked'
  BY GapsStep
<1>3. GapsTracked => GapAlarmTracksGaps
  BY DEF GapsTracked, GapsAccused, AlarmsGrounded, GapAlarmTracksGaps, GapAlarm
<1>4. QED
  BY <1>1, <1>2, <1>3, TypeCorrect, PTL DEF Spec

-----------------------------------------------------------------------------
(* No successor that is ready is forgotten. *)

\* A page holds what is above its since, and what it holds back below one of its ops was
\* received before.
PagesAreWhole ==
  /\ \A e \in page : e[1] > since
  /\ cont # "page"
  /\ \A f \in page, e \in Offer :
       e[1] <= f[1] => e \in page \/ e[1] <= cursor \/ e = <<at, op>>

\* The registration of m has been received, if the server holds one.
Registered(m) ==
  \A e \in Offer : Class[e[2]] = "register" /\ Author[e[2]] = m =>
    e \notin page /\ e[1] <= cursor

\* A scan of m's successors is to come, or has picked one.
Scheduled(m) ==
  \/ pc = "judge" /\ Author[op] = m
  \/ pc \in {"stamp", "scan", "mark"} /\ who = m
  \/ pc \in {"file", "accuse"} /\ cont = "scan" /\ who = m

\* What is ready is marked, or about to be scanned.
ReadyArmed ==
  \A m \in Member : Releasable(m) # {} => Interrupted(m) # {} \/ Scheduled(m)

\* Gap rows hold content ops of authors whose registration is behind.
GapsOfRegistered ==
  \A m \in Member : GapRows(m) # {} =>
    Registered(m) /\ \A i \in GapRows(m) : Class[quar[i].op] = "content"

\* A gap about to be filed is one, and of a registered author's content.
GapIsAhead ==
  pc = "file" /\ why = GapReason =>
    /\ ASeq[op] > HeadSeq(Logged, Author[op]) + 1
    /\ Class[op] = "content" /\ Registered(Author[op])

\* The row picked is ready for release.
PickIsReady == pc \in {"mark", "replay"} => claim \in Releasable(who)

\* A scan ends when it finds nothing ready.
NoneLeft == pc = "clear" => Releasable(who) = {}

\* A head and a verdict depend on the ops of one author only.
LEMMA HeldLocal ==
  ASSUME NEW held \in SUBSET Op, NEW new \in SUBSET Op, NEW m \in Member,
         HeldBy(new, m) = HeldBy(held, m),
         HeldBy(held, m) # {} => \E h \in HeldBy(held, m) : IsHead(held, h)
  PROVE  /\ HeadSeq(new, m) = HeadSeq(held, m)
         /\ \A o \in Op : Author[o] = m => ChainVerdict(new, o) = ChainVerdict(held, o)
<1>1. \A h \in HeldBy(held, m) : IsHead(new, h) <=> IsHead(held, h)
  BY DEF IsHead, HeldBy
<1>2. HeadSeq(new, m) = HeadSeq(held, m)
  <2>1. CASE HeldBy(held, m) = {}
    BY <2>1 DEF HeadSeq
  <2>2. CASE HeldBy(held, m) # {}
    <3>1. PICK h \in HeldBy(held, m) : IsHead(held, h)
      BY <2>2
    <3>2. h \in held /\ h \in new /\ Author[h] = m /\ IsHead(new, h)
      BY <1>1, <3>1 DEF HeldBy
    <3>3. HeadSeq(held, Author[h]) = ASeq[h]
      BY <3>1, <3>2, HeadOfLog
    <3>4. HeadSeq(new, Author[h]) = ASeq[h]
      BY <3>1, <3>2, HeadOfLog
    <3>5. QED
      BY <3>2, <3>3, <3>4
  <2>3. QED
    BY <2>1, <2>2
<1>3. ASSUME NEW o \in Op, Author[o] = m
      PROVE  ChainVerdict(new, o) = ChainVerdict(held, o)
  <2>1. IsSubstitution(new, o) <=> IsSubstitution(held, o)
    BY <1>3 DEF IsSubstitution
  <2>2. NamesHead(new, o) <=> NamesHead(held, o)
    BY <1>1, <1>3 DEF NamesHead
  <2>3. o \in new <=> o \in held
    BY <1>3 DEF HeldBy
  <2>4. QED
    BY <1>2, <1>3, <2>1, <2>2, <2>3 DEF ChainVerdict
<1>4. QED
  BY <1>2, <1>3

\* A held chain with a new op has the higher of the two author_seqs for its head.
LEMMA HeadAfter ==
  ASSUME NEW held \in SUBSET Op, NEW o \in Op, NEW h \in HeldBy(held, Author[o]),
         IsHead(held, h), ASeq[h] # ASeq[o]
  PROVE  /\ ASeq[o] > ASeq[h] => HeadSeq(held \cup {o}, Author[o]) = ASeq[o]
         /\ ASeq[o] < ASeq[h] =>
              /\ HeadSeq(held \cup {o}, Author[o]) = ASeq[h]
              /\ ~IsHead(held \cup {o}, o)
         /\ \A g \in HeldBy(held, Author[o]) : IsHead(held \cup {o}, g) => IsHead(held, g)
<1> DEFINE new == held \cup {o}
<1>1. h \in held /\ h \in Op /\ Author[h] = Author[o] /\ new \in SUBSET Op
  BY DEF HeldBy
<1>2. ASeq[h] \in Nat /\ ASeq[o] \in Nat /\ \A p \in Op : ASeq[p] \in Nat
  BY <1>1, ChainConstants
<1>3. \A p \in HeldBy(held, Author[o]) : ASeq[p] <= ASeq[h] /\ p \in Op
  BY <1>1 DEF IsHead, HeldBy
<1>4. HeldBy(new, Author[o]) = HeldBy(held, Author[o]) \cup {o}
  BY DEF HeldBy
<1> HIDE DEF new
<1>5. ASSUME ASeq[o] > ASeq[h] PROVE HeadSeq(new, Author[o]) = ASeq[o]
  <2>1. \A p \in HeldBy(new, Author[o]) : ASeq[p] <= ASeq[o]
    BY <1>2, <1>3, <1>4, <1>5
  <2>2. IsHead(new, o)
    BY <2>1 DEF IsHead, new
  <2>3. QED
    BY <1>1, <2>2, HeadOfLog DEF IsHead
<1>6. ASSUME ASeq[o] < ASeq[h]
      PROVE  HeadSeq(new, Author[o]) = ASeq[h] /\ ~IsHead(new, o)
  <2>1. \A p \in HeldBy(new, Author[o]) : ASeq[p] <= ASeq[h]
    BY <1>2, <1>3, <1>4, <1>6
  <2>2. IsHead(new, h) /\ h \in new
    BY <1>1, <2>1 DEF IsHead, new
  <2>3. HeadSeq(new, Author[h]) = ASeq[h]
    BY <1>1, <2>2, HeadOfLog
  <2>4. h \in HeldBy(new, Author[o])
    BY <1>4
  <2>5. ~(ASeq[h] <= ASeq[o])
    BY <1>2, <1>6
  <2>6. ~IsHead(new, o)
    BY <2>4, <2>5 DEF IsHead
  <2>7. QED
    BY <1>1, <2>3, <2>6
<1>7. ASSUME NEW g \in HeldBy(held, Author[o]), IsHead(new, g) PROVE IsHead(held, g)
  BY <1>4, <1>7 DEF IsHead, HeldBy
<1>8. QED
  BY <1>5, <1>6, <1>7 DEF new

\* Logging an op of one author leaves the heads and verdicts of the others alone.
LEMMA LogLocal ==
  ASSUME TypeOK, HeadsExist, NEW s \in Seqs, NEW o \in Op, log' = LogAfter(s, o),
         NEW m \in Member, m # Author[o]
  PROVE  /\ HeadSeq(Logged', m) = HeadSeq(Logged, m)
         /\ \A p \in Op : Author[p] = m =>
              ChainVerdict(Logged', p) = ChainVerdict(Logged, p)
<1>1. Logged \in SUBSET Op
  BY LoggedOps
<1>2. Logged' \in SUBSET Op /\ HeldBy(Logged', m) = HeldBy(Logged, m)
  <2>1. CASE Logs(s, o)
    <3>1. Logged' = Logged \cup {o}
      BY <2>1, LoggedAfter DEF LogAfter
    <3>2. QED
      BY <1>1, <3>1 DEF HeldBy
  <2>2. CASE ~Logs(s, o)
    BY <1>1, <2>2 DEF LogAfter, Logged
  <2>3. QED
    BY <2>1, <2>2
<1>3. HeldBy(Logged, m) # {} => \E h \in HeldBy(Logged, m) : IsHead(Logged, h)
  BY DEF HeadsExist
<1>4. QED
  BY <1>1, <1>2, <1>3, HeldLocal

\* A control op makes no content op of its author ready that was not ready before.
LEMMA ControlWakesNone ==
  ASSUME TypeOK, HeadsExist, NothingOnControl, NEW s \in Seqs, NEW o \in Op, Logs(s, o),
         log' = [log EXCEPT ![s] = o], Class[o] = "control",
         NEW q \in Op, Class[q] = "content", Author[q] = Author[o],
         ASeq[q] = HeadSeq(Logged', Author[o]) + 1,
         ChainVerdict(Logged', q) \notin ChainRefusals
  PROVE  /\ ASeq[q] = HeadSeq(Logged, Author[o]) + 1
         /\ ChainVerdict(Logged, q) \notin ChainRefusals
<1> DEFINE a == Author[o]
<1>1. Logged \in SUBSET Op /\ a \in Member /\ Logged' = Logged \cup {o}
  BY LoggedOps, LoggedAfter, ChainConstants
<1>2. /\ ASeq[q] \in Nat /\ ASeq[o] \in Nat /\ ASeq[q] # ASeq[o] + 1
      /\ \A p \in Op : ASeq[p] \in Nat
  BY ChainConstants DEF NothingOnControl
<1>3. HeldBy(Logged, a) # {}
  <2>1. SUFFICES ASSUME HeldBy(Logged, a) = {} PROVE FALSE
    OBVIOUS
  <2>2. HeldBy(Logged \cup {o}, a) = {o}
    BY <2>1 DEF HeldBy
  <2>3. Logged \cup {o} \in SUBSET Op /\ o \in Logged \cup {o}
    BY <1>1
  <2>4. IsHead(Logged \cup {o}, o)
    <3>1. ASSUME NEW p \in HeldBy(Logged \cup {o}, a) PROVE ASeq[p] <= ASeq[o]
      <4>1. p = o
        BY <2>2, <3>1
      <4>2. ASeq[o] <= ASeq[o]
        BY ChainConstants
      <4>3. QED
        BY <4>1, <4>2
    <3>2. QED
      BY <2>3, <3>1 DEF IsHead
  <2>5. HeadSeq(Logged \cup {o}, Author[o]) = ASeq[o]
    BY <2>3, <2>4, HeadOfLog
  <2>6. HeadSeq(Logged', Author[o]) = ASeq[o]
    BY <1>1, <2>5
  <2>7. QED
    BY <1>2, <2>6
<1>4. PICK h \in HeldBy(Logged, a) : IsHead(Logged, h)
  BY <1>1, <1>3 DEF HeadsExist
<1>5. ASeq[h] # ASeq[o] /\ ASeq[h] \in Nat /\ h \in Logged /\ Author[h] = a
  BY <1>1, <1>2, <1>4 DEF Logs, SlotTaken, HeldBy
<1>6. /\ ASeq[o] > ASeq[h] => HeadSeq(Logged', a) = ASeq[o]
      /\ ASeq[o] < ASeq[h] => HeadSeq(Logged', a) = ASeq[h] /\ ~IsHead(Logged', o)
      /\ \A g \in HeldBy(Logged, a) : IsHead(Logged', g) => IsHead(Logged, g)
  <2> DEFINE new == Logged \cup {o}
  <2>1. /\ ASeq[o] > ASeq[h] => HeadSeq(new, Author[o]) = ASeq[o]
        /\ ASeq[o] < ASeq[h] => HeadSeq(new, Author[o]) = ASeq[h] /\ ~IsHead(new, o)
        /\ \A g \in HeldBy(Logged, Author[o]) : IsHead(new, g) => IsHead(Logged, g)
    BY <1>1, <1>4, <1>5, HeadAfter
  <2>2. QED
    BY <1>1, <2>1
<1>7. HeadSeq(Logged', a) = ASeq[h] /\ ~IsHead(Logged', o)
  BY <1>2, <1>5, <1>6
<1>8. HeadSeq(Logged, Author[h]) = ASeq[h]
  BY <1>1, <1>4, <1>5, HeadOfLog
<1>9. ASeq[q] = HeadSeq(Logged, a) + 1
  BY <1>5, <1>7, <1>8
<1>10. ~IsSubstitution(Logged', q) /\ NamesHead(Logged', q)
  BY DEF ChainVerdict, ChainRefusals
<1>11. ~IsSubstitution(Logged, q)
  BY <1>1, <1>10 DEF IsSubstitution, HeldBy
<1>12. NamesHead(Logged, q)
  <2>1. HeldBy(Logged', Author[q]) # {}
    BY <1>1, <1>3 DEF HeldBy
  <2>2. PICK g \in HeldBy(Logged', Author[q]) : IsHead(Logged', g) /\ Prev[q] = g
    BY <1>10, <2>1 DEF NamesHead
  <2>3. g \in HeldBy(Logged, a)
    BY <1>1, <1>7, <2>2 DEF HeldBy
  <2>4. IsHead(Logged, g)
    BY <1>6, <2>2, <2>3
  <2>5. QED
    BY <2>2, <2>3, <2>4 DEF NamesHead
<1>13. ChainVerdict(Logged, q) = "accept"
  BY <1>9, <1>11, <1>12 DEF ChainVerdict
<1>14. QED
  BY <1>9, <1>13 DEF ChainRefusals

\* Every step keeps the page whole.
LEMMA PagesStep ==
  ASSUME ReleasesGoThrough, TypeOK, HandOnRecord, PagesAreWhole, [Next]_vars
  PROVE  PagesAreWhole'
<1>0. /\ page \subseteq Offer /\ \A e \in Offer : e[1] \in Seqs /\ e[2] \in Op
      /\ \A e \in Offer : e = <<e[1], e[2]>> /\ e[1] \in Nat
      /\ cursor \in Nat /\ since \in Nat
  BY ReceiverConstants DEF TypeOK, Seqs
<1>1. CASE FetchPage
  <2>1. PICK b \in Seqs : page' = {e \in Offer : cursor < e[1] /\ e[1] <= b}
    BY <1>1 DEF FetchPage, Pages, ReleasesGoThrough
  <2>2. since' = cursor /\ cursor' = cursor /\ cont' = cont /\ b \in Nat
    BY <1>1 DEF FetchPage, durable, refusal, Seqs
  <2>3. \A f \in page', e \in Offer : e[1] <= f[1] => e \in page' \/ e[1] <= cursor'
    BY <1>0, <2>1, <2>2
  <2>4. \A e \in page' : e[1] > since'
    BY <1>0, <2>1, <2>2
  <2>5. QED
    BY <2>2, <2>3, <2>4 DEF PagesAreWhole
<1>2. ASSUME NEW s \in Seqs, NEW o \in Op, ReceiveContent(s, o) \/ ReceiveControl(s, o)
      PROVE  PagesAreWhole'
  <2>1. /\ pc = "page" /\ page' = page \ {<<s, o>>} /\ since' = since /\ cursor' = cursor
        /\ at' = s /\ op' = o /\ cont' # "page"
    BY <1>2 DEF ReceiveContent, ReceiveControl, Takes, refusal, PagesAreWhole
  <2>2. op = NoOp
    BY <2>1 DEF HandOnRecord
  <2>3. \A e \in Offer : e # <<at, op>>
    BY <1>0, <2>2, ChainConstants
  <2>4. \A f \in page, e \in Offer : e[1] <= f[1] => e \in page \/ e[1] <= cursor
    BY <2>3 DEF PagesAreWhole
  <2>5. \A f \in page', e \in Offer :
          e[1] <= f[1] => e \in page' \/ e[1] <= cursor' \/ e = <<at', op'>>
    BY <2>1, <2>4
  <2>6. \A e \in page' : e[1] > since'
    BY <2>1 DEF PagesAreWhole
  <2>7. QED
    BY <2>1, <2>5, <2>6 DEF PagesAreWhole
<1>3. ASSUME NEW s \in Seqs, NEW o \in Op, ReceiveStaleHeld(s, o) \/ ReceiveStaleOther(s, o)
      PROVE  FALSE
  <2>1. <<s, o>> \in page /\ s <= since
    BY <1>3 DEF ReceiveStaleHeld, ReceiveStaleOther, Takes
  <2>2. s > since
    BY <2>1 DEF PagesAreWhole
  <2>3. s \in Nat
    BY DEF Seqs
  <2>4. QED
    BY <1>0, <2>1, <2>2, <2>3
<1>4. CASE SaveCursor
  <2>1. /\ cursor' = (IF at > cursor THEN at ELSE cursor) /\ page' = page
        /\ since' = since /\ cont' = cont
    BY <1>4 DEF SaveCursor, refusal
  <2>2. at \in Nat
    BY <1>0 DEF TypeOK, Seqs
  <2>3. cursor <= cursor' /\ at <= cursor' /\ cursor' \in Nat
    BY <1>0, <2>1, <2>2
  <2>4. \A f \in page', e \in Offer : e[1] <= f[1] => e \in page' \/ e[1] <= cursor'
    <3>1. ASSUME NEW f \in page, NEW e \in Offer, e[1] <= f[1]
          PROVE  e \in page \/ e[1] <= cursor'
      <4>1. CASE e = <<at, op>>
        BY <2>3, <4>1
      <4>2. CASE e[1] <= cursor
        BY <1>0, <2>3, <4>2
      <4>3. QED
        BY <3>1, <4>1, <4>2 DEF PagesAreWhole
    <3>2. QED
      BY <2>1, <3>1
  <2>5. QED
    BY <2>1, <2>4 DEF PagesAreWhole
<1>5. CASE Accuse
  <2>1. page' = page /\ since' = since /\ cursor' = cursor /\ UNCHANGED pulled /\ cont' = "save"
    BY <1>5 DEF Accuse, PagesAreWhole
  <2>2. QED
    BY <2>1 DEF PagesAreWhole, pulled
<1>6. CASE Crash \/ StorageFault
  <2>1. page' = {} /\ cont' = "save"
    BY <1>6 DEF Crash, StorageFault, Unwind
  <2>2. QED
    BY <2>1 DEF PagesAreWhole
<1>7. CASE \/ EndOfPages \/ Judge \/ StampApplied \/ File
           \/ Scan \/ MarkStarted \/ Replay \/ ClearStarted \/ SettleAlarms \/ EndPull
           \/ (\E m \in Member : ResumeRelease(m)) \/ UNCHANGED vars
  <2>1. page' = page /\ since' = since /\ cursor' = cursor /\ UNCHANGED pulled
    BY <1>7
    DEF EndOfPages, Judge, StampApplied, File, Scan, MarkStarted, Replay, ClearStarted,
        SettleAlarms, EndPull, ResumeRelease, durable, vars
  <2>2. cont' # "page"
    BY <1>7
    DEF EndOfPages, Judge, StampApplied, File, Scan, MarkStarted, Replay, ClearStarted,
        SettleAlarms, EndPull, ResumeRelease, refusal, vars, PagesAreWhole
  <2>3. QED
    BY <2>1, <2>2 DEF PagesAreWhole, pulled
<1>8. QED
  BY <1>1, <1>2, <1>3, <1>4, <1>5, <1>6, <1>7 DEF Next, Receive, Release

\* What was received of registrations stays received.
LEMMA RegisteredStays ==
  ASSUME ReleasesGoThrough, TypeOK, [Next]_vars, NEW m \in Member, Registered(m)
  PROVE  Registered(m)'
<1>0. /\ \A e \in Offer : e[1] \in Nat
      /\ cursor \in Nat /\ page \subseteq Offer
  BY ReceiverConstants DEF TypeOK, Seqs
<1>1. CASE FetchPage
  <2>1. PICK b \in Seqs : page' = {e \in Offer : cursor < e[1] /\ e[1] <= b}
    BY <1>1 DEF FetchPage, Pages, ReleasesGoThrough
  <2>2. cursor' = cursor
    BY <1>1 DEF FetchPage, durable
  <2>3. \A e \in page' : ~(e[1] <= cursor)
    BY <1>0, <2>1
  <2>4. QED
    BY <2>2, <2>3 DEF Registered
<1>2. CASE SaveCursor
  <2>1. at \in Nat
    BY <1>0 DEF TypeOK, Seqs
  <2>2. cursor <= cursor' /\ cursor' \in Nat /\ page' = page
    BY <1>0, <1>2, <2>1 DEF SaveCursor
  <2>3. QED
    BY <1>0, <2>2 DEF Registered
<1>3. CASE ~FetchPage /\ ~SaveCursor
  <2>1. cursor' = cursor
    BY <1>3
    DEF Next, Receive, Release, EndOfPages, Judge, StampApplied, File, Accuse, Scan,
        MarkStarted, Replay, ClearStarted, SettleAlarms, EndPull, Crash, StorageFault,
        Unwind, ResumeRelease, ReceiveStaleHeld, ReceiveStaleOther, ReceiveContent,
        ReceiveControl, durable, vars
  <2>2. page' \subseteq page
    <3>1. CASE Receive
      <4>1. PICK s \in Seqs, o \in Op : page' = page \ {<<s, o>>}
        BY <3>1
        DEF Receive, ReceiveStaleHeld, ReceiveStaleOther, ReceiveContent, ReceiveControl,
            Takes
      <4>2. QED
        BY <4>1
    <3>2. CASE ~Receive
      <4>1. page' = page \/ page' = {}
        BY <1>3, <3>2
        DEF Next, Release, EndOfPages, Judge, StampApplied, File, Accuse, Scan,
            MarkStarted, Replay, ClearStarted, SettleAlarms, EndPull, Crash, StorageFault,
            Unwind, ResumeRelease, vars
      <4>2. QED
        BY <4>1
    <3>3. QED
      BY <3>1, <3>2
  <2>3. QED
    BY <2>1, <2>2 DEF Registered
<1>4. QED
  BY <1>1, <1>2, <1>3

\* When a content op is received, the registration of its author has been.
LEMMA ContentOfRegistered ==
  ASSUME ReleasesGoThrough, RegistersFirst, TypeOK, HandOnRecord, PagesAreWhole,
         NEW s \in Seqs, NEW o \in Op, ReceiveContent(s, o)
  PROVE  Registered(Author[o])
<1>0. /\ page \subseteq Offer /\ \A e \in Offer : e[1] \in Nat /\ e[2] \in Op
      /\ s \in Nat
  BY ReceiverConstants DEF TypeOK, Seqs
<1>1. /\ pc = "page" /\ <<s, o>> \in page /\ MayComeNext(s, o) /\ Class[o] = "content"
  BY DEF ReceiveContent, Takes
<1>2. SUFFICES ASSUME NEW e \in Offer, Class[e[2]] = "register", Author[e[2]] = Author[o]
               PROVE  e \notin page /\ e[1] <= cursor
  BY DEF Registered
<1>3. e[1] < s
  <2>1. <<s, o>> \in Offer /\ <<s, o>>[1] = s /\ <<s, o>>[2] = o
    BY <1>0, <1>1
  <2>2. QED
    BY <1>1, <1>2, <2>1 DEF RegistersFirst
<1>4. e \notin page
  <2>1. CASE Server = "honest"
    <3>1. ~(s <= e[1])
      BY <1>0, <1>3
    <3>2. QED
      BY <1>1, <2>1, <3>1 DEF MayComeNext
  <2>2. CASE Server = "reordering"
    BY <1>1, <1>2, <2>2 DEF MayComeNext
  <2>3. QED
    BY <2>1, <2>2, ReceiverConstants DEF ReleasesGoThrough
<1>5. e # <<at, op>>
  <2>1. op = NoOp
    BY <1>1 DEF HandOnRecord
  <2>2. QED
    BY <1>0, <2>1, ChainConstants
<1>6. e[1] <= <<s, o>>[1]
  BY <1>0, <1>3
<1>7. QED
  BY <1>1, <1>4, <1>5, <1>6 DEF PagesAreWhole

\* Away from logging, filing and replaying, what is ready stays exactly what it was.
LEMMA ReleasableSame ==
  ASSUME TypeOK, [Next]_vars, ~File, ~Replay, log' = log, NEW m \in Member
  PROVE  Releasable(m)' = Releasable(m)
<1>1. GapRows(m)' = GapRows(m)
  BY GapRowsKept
<1>2. \A i \in GapRows(m) : quar'[i].op = quar[i].op
  BY RowsStep DEF GapRows, RowsKept
<1>3. Logged' = Logged
  BY DEF Logged
<1>4. Claimants(m)' = Claimants(m)
  BY <1>1, <1>2, <1>3 DEF Claimants
<1>5. \A i \in Claimants(m) : quar'[i].op = quar[i].op
  BY <1>2 DEF Claimants
<1>6. QED
  BY <1>3, <1>4, <1>5 DEF Releasable

\* Only the end of a scan and a release take marks off rows.
LEMMA InterruptedKept ==
  ASSUME TypeOK, [Next]_vars, ~Replay, NEW m, ~ClearStarted
  PROVE  Interrupted(m) \subseteq Interrupted(m)'
<1>0. quar \in Seq(QuarRow) /\ Len(quar) \in Nat
  BY LenProperties DEF TypeOK
<1>1. CASE File
  <2>1. at \in Seqs /\ op \in Op /\ why \in Reasons /\ quar' = Quarantined(quar, at, op, why)
    BY <1>1 DEF File, TypeOK
  <2>2. /\ Len(quar) <= Len(quar') /\ Len(quar') \in Nat
        /\ \A i \in 1..Len(quar) : quar'[i] = quar[i]
    BY <1>0, <2>1, QuarantinedRows, LenProperties
  <2>3. QED
    BY <1>0, <2>2 DEF Interrupted
<1>2. CASE MarkStarted
  <2>1. claim \in 1..Len(quar) /\ quar' = MarkedStarted(quar, claim)
    BY <1>2 DEF MarkStarted, TypeOK
  <2>2. /\ Len(quar') = Len(quar)
        /\ \A i \in 1..Len(quar) : quar'[i].op = quar[i].op
                                  /\ quar'[i].released = quar[i].released
    BY <1>0, <2>1, StartedRow
  <2>3. ASSUME NEW i \in 1..Len(quar), quar[i].started PROVE quar'[i].started
    <3>1. quar[i] \in QuarRow
      BY <1>0, ElementOfSeq
    <3>2. QED
      BY <1>0, <2>1, <2>3, <3>1 DEF MarkedStarted, QuarRow
  <2>4. QED
    BY <2>2, <2>3 DEF Interrupted
<1>3. CASE \/ FetchPage \/ EndOfPages \/ Judge \/ StampApplied \/ Accuse
           \/ Scan \/ SettleAlarms \/ SaveCursor \/ EndPull \/ Crash \/ StorageFault
           \/ (\E a \in Member : ResumeRelease(a))
           \/ Receive \/ UNCHANGED vars
  <2>1. quar' = quar
    BY <1>3
    DEF FetchPage, EndOfPages, Judge, StampApplied, Accuse, Scan, SettleAlarms, SaveCursor,
        EndPull, Crash, StorageFault, Unwind, ResumeRelease, Receive, ReceiveStaleHeld,
        ReceiveStaleOther, ReceiveContent, ReceiveControl, durable, vars
  <2>2. QED
    BY <2>1 DEF Interrupted
<1>4. QED
  BY <1>1, <1>2, <1>3 DEF Next, Release

\* A replay takes its own row off the gap rows, adds none, and touches no other author's.
LEMMA ReplayReleases ==
  ASSUME TypeOK, HeadsExist, GapsOfRegistered, PickIsReady, Replay, NEW m \in Member
  PROVE  /\ \A i \in GapRows(m)' : i \in GapRows(m) /\ quar'[i] = quar[i]
         /\ m # who => Interrupted(m) \subseteq Interrupted(m)'
         /\ m # who => Releasable(m)' \subseteq Releasable(m)
<1> DEFINE s    == quar[claim].seq
           o    == quar[claim].op
           rows == MarkedReleased(quar, claim)
<1>1. PICK w \in Member : who = w
  BY DEF Replay, TypeOK
<1>2. /\ claim \in 1..Len(quar) /\ quar[claim] \in QuarRow /\ quar \in Seq(QuarRow)
      /\ Len(quar) \in Nat
  BY ReplayRows, LenProperties DEF TypeOK
<1>3. claim \in Releasable(w) /\ claim \in GapRows(w)
  BY <1>1 DEF Replay, PickIsReady, Releasable, Claimants
<1>4. s \in Seqs /\ o \in Op /\ Author[o] = w
  BY <1>2, <1>3 DEF QuarRow, GapRows
<1>5. ChainVerdict(Logged, o) \notin ChainRefusals /\ Class[o] = "content"
  BY <1>3 DEF Releasable, GapsOfRegistered
<1>6. /\ rows \in Seq(QuarRow) /\ Len(rows) = Len(quar)
      /\ \A j \in 1..Len(quar) : j # claim => rows[j] = quar[j]
      /\ rows[claim].op = o /\ rows[claim].released = TRUE
  BY <1>2, ReleasedRow
<1>7. /\ quar' = IF Rejects(s, o) THEN Quarantined(rows, s, o, RejectReason(o)) ELSE rows
      /\ log' = LogAfter(s, o)
  BY DEF Replay
<1>8. Rejects(s, o) => RejectReason(o) \in Reasons
  BY <1>4, FateType DEF Rejects, RejectReason, RefusesUnlogged, Logs
<1> HIDE DEF s, o, rows
<1>9. RejectReason(o) # GapReason
  <2>1. Fate(o) # GapReason
    BY <1>5 DEF Fate, ChainRefusals, GapReason
  <2>2. LateFate(o) # GapReason
    BY <1>4, <1>5, ReceiverConstants DEF LateFate, GapReason
  <2>3. QED
    BY <2>1, <2>2 DEF RejectReason
<1>10. /\ Len(rows) <= Len(quar') /\ Len(quar') \in Nat
       /\ \A i \in 1..Len(rows) : quar'[i] = rows[i]
       /\ \A i \in 1..Len(quar') : i \in 1..Len(rows) \/ quar'[i] = Row(s, o, RejectReason(o))
  <2>1. CASE quar' = rows
    BY <1>2, <1>6, <2>1
  <2>2. CASE quar' # rows
    <3>1. quar' = Append(rows, Row(s, o, RejectReason(o))) /\ RejectReason(o) \in Reasons
      BY <1>7, <1>8, <2>2 DEF Quarantined
    <3>2. Row(s, o, RejectReason(o)) \in QuarRow
      BY <1>4, <3>1 DEF Row, QuarRow
    <3>3. QED
      BY <1>2, <1>6, <3>1, <3>2, AppendProperties
  <2>3. QED
    BY <2>1, <2>2
<1>11. ASSUME NEW i \in 1..Len(quar), i # claim
       PROVE  i \in 1..Len(quar') /\ quar'[i] = quar[i]
  BY <1>2, <1>6, <1>10, <1>11
<1>12. ASSUME NEW i \in GapRows(m)'
       PROVE  i \in GapRows(m) /\ quar'[i] = quar[i]
  <2>1. /\ i \in 1..Len(quar') /\ quar'[i].reason = GapReason /\ ~quar'[i].released
        /\ Author[quar'[i].op] = m
    BY <1>12 DEF GapRows
  <2>2. i \in 1..Len(rows)
    BY <1>9, <1>10, <2>1 DEF Row
  <2>3. i \in 1..Len(quar) /\ i # claim
    BY <1>6, <1>10, <2>1, <2>2
  <2>4. quar'[i] = quar[i]
    BY <1>11, <2>3
  <2>5. QED
    BY <2>1, <2>3, <2>4 DEF GapRows
<1>13. ASSUME m # who, NEW i \in Interrupted(m) PROVE i \in Interrupted(m)'
  <2>1. i \in 1..Len(quar) /\ i # claim
    BY <1>1, <1>4, <1>13 DEF Interrupted, o
  <2>2. i \in 1..Len(quar') /\ quar'[i] = quar[i]
    BY <1>11, <2>1
  <2>3. QED
    BY <1>13, <2>2 DEF Interrupted
<1>14. ASSUME m # who, NEW i \in Releasable(m)' PROVE i \in Releasable(m)
  <2>1. /\ i \in GapRows(m)' /\ ASeq[quar'[i].op] = HeadSeq(Logged', m) + 1
        /\ ChainVerdict(Logged', quar'[i].op) \notin ChainRefusals
    BY <1>14 DEF Releasable, Claimants
  <2>2. i \in GapRows(m) /\ quar'[i] = quar[i]
    BY <1>12, <2>1
  <2>3. quar[i].op \in Op /\ Author[quar[i].op] = m
    <3>1. quar[i] \in QuarRow
      BY <1>2, <2>2, ElementOfSeq DEF GapRows
    <3>2. QED
      BY <2>2, <3>1 DEF QuarRow, GapRows
  <2>4. m # Author[o]
    BY <1>1, <1>4, <1>14
  <2>5. /\ HeadSeq(Logged', m) = HeadSeq(Logged, m)
        /\ ChainVerdict(Logged', quar[i].op) = ChainVerdict(Logged, quar[i].op)
    BY <1>4, <1>7, <2>3, <2>4, LogLocal
  <2>6. QED
    BY <2>1, <2>2, <2>5 DEF Releasable, Claimants
<1>15. QED
  BY <1>12, <1>13, <1>14

\* A filed gap is not ready, and its author's rows stay what they were.
LEMMA FiledIsNotReady ==
  ASSUME TypeOK, GapIsAhead, File, NEW m \in Member
  PROVE  /\ Releasable(m)' \subseteq Releasable(m)
         /\ \A i \in GapRows(m)' :
              \/ i \in GapRows(m) /\ quar'[i] = quar[i]
              \/ /\ why = GapReason /\ Author[op] = m /\ quar'[i].op = op
<1>1. /\ at \in Seqs /\ op \in Op /\ why \in Reasons /\ quar \in Seq(QuarRow)
      /\ Len(quar) \in Nat /\ quar' = Quarantined(quar, at, op, why) /\ log' = log
      /\ pc = "file"
  BY LenProperties DEF File, TypeOK
<1>2. /\ quar' \in Seq(QuarRow) /\ Len(quar) <= Len(quar') /\ Len(quar') \in Nat
      /\ \A i \in 1..Len(quar) : quar'[i] = quar[i]
  BY <1>1, QuarantinedRows, LenProperties
<1>3. ASSUME NEW i \in GapRows(m)'
      PROVE  \/ i \in GapRows(m) /\ quar'[i] = quar[i]
             \/ why = GapReason /\ Author[op] = m /\ quar'[i].op = op
  <2>1. CASE i \in 1..Len(quar)
    BY <1>2, <1>3, <2>1 DEF GapRows
  <2>2. CASE i \notin 1..Len(quar)
    <3>1. quar' = Append(quar, Row(at, op, why))
      <4>1. quar' # quar
        BY <1>3, <2>2 DEF GapRows
      <4>2. QED
        BY <1>1, <4>1 DEF Quarantined
    <3>2. i = Len(quar) + 1
      BY <1>1, <1>3, <2>2, <3>1, AppendProperties DEF GapRows
    <3>3. quar'[i] = Row(at, op, why)
      BY <1>1, <3>1, <3>2, AppendProperties
    <3>4. QED
      BY <1>3, <3>3 DEF GapRows, Row
  <2>3. QED
    BY <2>1, <2>2
<1>4. ASSUME NEW i \in Releasable(m)' PROVE i \in Releasable(m)
  <2>1. Logged' = Logged
    BY <1>1 DEF Logged
  <2>2. /\ i \in GapRows(m)' /\ ASeq[quar'[i].op] = HeadSeq(Logged, m) + 1
        /\ ChainVerdict(Logged, quar'[i].op) \notin ChainRefusals
    BY <1>4, <2>1 DEF Releasable, Claimants
  <2>3. CASE why = GapReason /\ Author[op] = m /\ quar'[i].op = op
    <3>1. ASeq[op] > HeadSeq(Logged, m) + 1 /\ ASeq[op] = HeadSeq(Logged, m) + 1
      BY <1>1, <2>2, <2>3 DEF GapIsAhead
    <3>2. ASeq[op] \in Nat
      BY <1>1, ChainConstants
    <3>3. QED
      BY <3>1, <3>2
  <2>4. CASE i \in GapRows(m) /\ quar'[i] = quar[i]
    BY <2>2, <2>4 DEF Releasable, Claimants
  <2>5. QED
    BY <1>3, <2>2, <2>3, <2>4
<1>5. QED
  BY <1>3, <1>4

\* A reception makes nothing ready but what the scan it leads to will look at.
LEMMA ReceptionIsScheduled ==
  ASSUME NothingOnControl, TypeOK, HeadsExist, GapsOfRegistered, [Next]_vars,
         NEW s \in Seqs, NEW o \in Op, ReceiveContent(s, o) \/ ReceiveControl(s, o),
         NEW m \in Member
  PROVE  Releasable(m)' \subseteq Releasable(m) \/ Scheduled(m)'
<1>1. /\ log' = LogAfter(s, o) /\ quar' = quar /\ ~File /\ ~Replay
      /\ <<s, o>> \in page /\ op' = o /\ page \subseteq Offer
  BY DEF ReceiveContent, ReceiveControl, Takes, File, Replay, TypeOK
<1>2. GapRows(m)' = GapRows(m)
  BY <1>1 DEF GapRows
<1>3. quar \in Seq(QuarRow)
  BY DEF TypeOK
<1>4. ASSUME NEW i \in GapRows(m)
      PROVE  quar[i].op \in Op /\ Author[quar[i].op] = m /\ Class[quar[i].op] = "content"
  <2>1. quar[i] \in QuarRow
    BY <1>3, <1>4, ElementOfSeq DEF GapRows
  <2>2. QED
    BY <1>4, <2>1 DEF QuarRow, GapRows, GapsOfRegistered
<1>5. CASE ~Logs(s, o)
  <2>1. log' = log
    BY <1>1, <1>5 DEF LogAfter
  <2>2. QED
    BY <1>1, <2>1, ReleasableSame
<1>6. CASE m # Author[o]
  <2>1. ASSUME NEW i \in Releasable(m)' PROVE i \in Releasable(m)
    <3>1. /\ i \in GapRows(m) /\ ASeq[quar[i].op] = HeadSeq(Logged', m) + 1
          /\ ChainVerdict(Logged', quar[i].op) \notin ChainRefusals
      BY <1>1, <1>2, <2>1 DEF Releasable, Claimants
    <3>2. /\ HeadSeq(Logged', m) = HeadSeq(Logged, m)
          /\ ChainVerdict(Logged', quar[i].op) = ChainVerdict(Logged, quar[i].op)
      BY <1>1, <1>4, <1>6, <3>1, LogLocal
    <3>3. QED
      BY <3>1, <3>2 DEF Releasable, Claimants
  <2>2. QED
    BY <2>1
<1>7. CASE Logs(s, o) /\ m = Author[o] /\ Class[o] = "content"
  <2>1. ReceiveContent(s, o)
    BY <1>7 DEF ReceiveControl
  <2>2. pc' = "judge"
    <3>1. log[s] = NoOp /\ o # NoOp
      BY <1>7, ChainConstants DEF Logs, SlotTaken
    <3>2. QED
      BY <1>7, <2>1, <3>1
      DEF ReceiveContent, RefusesUnlogged, Logs, Held, Collides, SlotTaken
  <2>3. QED
    BY <1>1, <1>7, <2>2 DEF Scheduled
<1>8. CASE Logs(s, o) /\ m = Author[o] /\ Class[o] = "control"
  <2>1. log' = [log EXCEPT ![s] = o]
    BY <1>1, <1>8 DEF LogAfter
  <2>2. ASSUME NEW i \in Releasable(m)' PROVE i \in Releasable(m)
    <3>1. /\ i \in GapRows(m) /\ ASeq[quar[i].op] = HeadSeq(Logged', m) + 1
          /\ ChainVerdict(Logged', quar[i].op) \notin ChainRefusals
      BY <1>1, <1>2, <2>2 DEF Releasable, Claimants
    <3>2. /\ quar[i].op \in Op /\ Author[quar[i].op] = Author[o]
          /\ Class[quar[i].op] = "content"
      BY <1>4, <1>8, <3>1
    <3>3. /\ ASeq[quar[i].op] = HeadSeq(Logged, Author[o]) + 1
          /\ ChainVerdict(Logged, quar[i].op) \notin ChainRefusals
      BY <1>8, <2>1, <3>1, <3>2, ControlWakesNone
    <3>4. QED
      BY <1>8, <3>1, <3>3 DEF Releasable, Claimants
  <2>3. QED
    BY <2>2
<1>9. CASE m = Author[o] /\ Class[o] = "register"
  <2>1. ~Registered(m)
    <3>1. <<s, o>> \in Offer /\ <<s, o>>[2] = o
      BY <1>1
    <3>2. QED
      BY <1>1, <1>9, <3>1 DEF Registered
  <2>2. GapRows(m)' = {}
    BY <1>2, <2>1 DEF GapsOfRegistered
  <2>3. QED
    BY <2>2 DEF Releasable, Claimants
<1>10. QED
  BY <1>5, <1>6, <1>7, <1>8, <1>9, ReceiverConstants

ReadyTracked ==
  /\ PagesAreWhole /\ GapsOfRegistered /\ GapIsAhead
  /\ PickIsReady /\ NoneLeft /\ ReadyArmed

\* A gap comes to be filed from the reception of content only.
LEMMA GapIsAheadStep ==
  ASSUME ReleasesGoThrough, RegistersFirst, TypeOK, HandOnRecord, ReadyTracked,
         [Next]_vars
  PROVE  GapIsAhead'
<1>1. ASSUME NEW s \in Seqs, NEW o \in Op, ReceiveContent(s, o)
      PROVE  GapIsAhead'
  <2> SUFFICES ASSUME pc' = "file", why' = GapReason
               PROVE  /\ op' = o /\ ASeq[o] > HeadSeq(Logged', Author[o]) + 1
                      /\ Class[o] = "content" /\ Registered(Author[o])'
    BY DEF GapIsAhead, Registered
  <2>1. op' = o /\ Class[o] = "content" /\ RefusesUnlogged(o) /\ Fate(o) = GapReason
    BY <1>1 DEF ReceiveContent
  <2>2. Logged' = Logged
    BY <1>1, <2>1 DEF ReceiveContent, LogAfter, Logs, GapReason, Logged
  <2>3. ChainVerdict(Logged, o) = "author_chain_gap"
    BY <2>1 DEF Fate, GapReason
  <2>4. ASeq[o] > HeadSeq(Logged, Author[o]) + 1
    BY <2>3 DEF ChainVerdict
  <2>5. Author[o] \in Member /\ Registered(Author[o])
    BY <1>1, ContentOfRegistered, ChainConstants DEF ReadyTracked
  <2>6. Registered(Author[o])'
    BY <2>5, RegisteredStays
  <2>7. QED
    BY <2>1, <2>2, <2>4, <2>6
<1>2. ASSUME NEW s \in Seqs, NEW o \in Op, ReceiveControl(s, o)
      PROVE  GapIsAhead'
  <2>1. Class[o] # "content" /\ (pc' = "file" => why' = RejectReason(o))
    BY <1>2 DEF ReceiveControl
  <2>2. RejectReason(o) # GapReason
    BY <2>1, ReceiverConstants DEF RejectReason, Fate, LateFate, GapReason
  <2>3. QED
    BY <2>1, <2>2 DEF GapIsAhead
<1>3. ASSUME NEW s \in Seqs, NEW o \in Op, ReceiveStaleHeld(s, o) \/ ReceiveStaleOther(s, o)
      PROVE  FALSE
  <2>1. <<s, o>> \in page /\ s <= since
    BY <1>3 DEF ReceiveStaleHeld, ReceiveStaleOther, Takes
  <2>2. s > since
    BY <2>1 DEF ReadyTracked, PagesAreWhole
  <2>3. s \in Nat /\ since \in Nat
    BY ReceiverConstants DEF Seqs, TypeOK
  <2>4. QED
    BY <2>1, <2>2, <2>3
<1>4. CASE Judge
  <2>1. op \in Op
    BY <1>4 DEF Judge, TypeOK
  <2>2. pc' = "file" => why' # GapReason
    BY <1>4, <2>1, ReceiverConstants DEF Judge, GapReason
  <2>3. QED
    BY <2>2 DEF GapIsAhead
<1>5. CASE \/ FetchPage \/ EndOfPages \/ StampApplied \/ File \/ Accuse
           \/ Scan \/ MarkStarted \/ Replay \/ ClearStarted \/ SettleAlarms
           \/ SaveCursor \/ EndPull \/ Crash \/ StorageFault
           \/ (\E m \in Member : ResumeRelease(m))
  <2>1. pc' # "file"
    BY <1>5
    DEF FetchPage, EndOfPages, StampApplied, File, Accuse, Scan, MarkStarted, Replay,
        ClearStarted, EndScan, SettleAlarms, SaveCursor, EndPull, Crash, StorageFault,
        Unwind, ResumeRelease, TypeOK
  <2>2. QED
    BY <2>1 DEF GapIsAhead
<1>6. CASE UNCHANGED vars
  BY <1>6
  DEF vars, durable, pulled, refusal, GapIsAhead, Registered, Logged, ReadyTracked
<1>7. QED
  BY <1>1, <1>2, <1>3, <1>4, <1>5, <1>6 DEF Next, Receive, Release

\* Every step keeps gap rows to content of registered authors.
LEMMA GapsOfRegisteredStep ==
  ASSUME ReleasesGoThrough, TypeOK, HeadsExist, ReadyTracked, [Next]_vars
  PROVE  GapsOfRegistered'
<1>1. ASSUME NEW m \in Member, NEW i \in GapRows(m)'
      PROVE  Registered(m) /\ Class[quar'[i].op] = "content"
  <2>1. ASSUME i \in GapRows(m), quar'[i].op = quar[i].op
        PROVE  Registered(m) /\ Class[quar'[i].op] = "content"
    BY <2>1 DEF ReadyTracked, GapsOfRegistered
  <2>2. CASE File
    <3>1. \/ i \in GapRows(m) /\ quar'[i] = quar[i]
          \/ why = GapReason /\ Author[op] = m /\ quar'[i].op = op
      BY <1>1, <2>2, FiledIsNotReady DEF ReadyTracked
    <3>2. CASE why = GapReason /\ Author[op] = m /\ quar'[i].op = op
      BY <2>2, <3>2 DEF File, ReadyTracked, GapIsAhead
    <3>3. QED
      BY <2>1, <3>1, <3>2
  <2>3. CASE Replay
    BY <1>1, <2>1, <2>3, ReplayReleases DEF ReadyTracked
  <2>4. CASE ~File /\ ~Replay
    <3>1. i \in GapRows(m)
      BY <1>1, <2>4, GapRowsKept
    <3>2. quar'[i].op = quar[i].op
      BY <3>1, RowsStep DEF GapRows, RowsKept
    <3>3. QED
      BY <2>1, <3>1, <3>2
  <2>5. QED
    BY <2>2, <2>3, <2>4
<1>2. \A m \in Member : Registered(m) => Registered(m)'
  BY RegisteredStays
<1>3. ASSUME NEW m \in Member, GapRows(m)' # {}
      PROVE  Registered(m)' /\ \A i \in GapRows(m)' : Class[quar'[i].op] = "content"
  BY <1>1, <1>2, <1>3
<1>4. QED
  BY <1>3 DEF GapsOfRegistered

\* A pick is ready while it is in hand, and a scan that ends left nothing ready.
LEMMA PickStep ==
  ASSUME TypeOK, ReadyTracked, [Next]_vars
  PROVE  PickIsReady' /\ NoneLeft'
<1>1. CASE Scan
  <2>1. PICK w \in Member : who = w
    BY <1>1 DEF Scan, TypeOK
  <2>2. /\ who' = w /\ ~File /\ ~Replay /\ log' = log
        /\ \/ pc' = "clear" /\ Releasable(w) = {}
           \/ pc' = "mark" /\ claim' \in Releasable(w)
    BY <1>1, <2>1 DEF Scan, File, Replay
  <2>3. Releasable(w)' = Releasable(w)
    BY <2>2, ReleasableSame
  <2>4. /\ pc' = "mark" => claim' \in Releasable(w)'
        /\ pc' = "clear" => Releasable(w)' = {}
        /\ pc' # "replay"
    BY <2>2, <2>3
  <2>5. QED
    BY <2>2, <2>4 DEF PickIsReady, NoneLeft, Releasable, Claimants, GapRows
<1>2. CASE MarkStarted
  <2>1. PICK w \in Member : who = w
    BY <1>2 DEF MarkStarted, TypeOK
  <2>2. /\ who' = w /\ claim' = claim /\ ~File /\ ~Replay /\ log' = log
        /\ pc' = "replay" /\ claim \in Releasable(w)
    BY <1>2, <2>1 DEF MarkStarted, scan, File, Replay, ReadyTracked, PickIsReady
  <2>3. Releasable(w)' = Releasable(w)
    BY <2>2, ReleasableSame
  <2>4. claim' \in Releasable(w)'
    BY <2>2, <2>3
  <2>5. QED
    BY <2>2, <2>4 DEF PickIsReady, NoneLeft, Releasable, Claimants, GapRows
<1>3. CASE \/ FetchPage \/ EndOfPages \/ Receive \/ Judge \/ StampApplied \/ File
           \/ Accuse \/ Replay \/ ClearStarted \/ SettleAlarms \/ SaveCursor \/ EndPull
           \/ Crash \/ StorageFault \/ (\E m \in Member : ResumeRelease(m))
  <2>1. pc' \notin {"mark", "replay", "clear"}
    <3>1. CASE Receive
      BY <3>1
      DEF Receive, ReceiveStaleHeld, ReceiveStaleOther, ReceiveContent, ReceiveControl, Takes
    <3>2. CASE ~Receive
      BY <1>3, <3>2
      DEF FetchPage, EndOfPages, Judge, StampApplied, File, Accuse, Replay, ClearStarted,
          EndScan, SettleAlarms, SaveCursor, EndPull, Crash, StorageFault, Unwind,
          ResumeRelease, TypeOK
    <3>3. QED
      BY <3>1, <3>2
  <2>2. QED
    BY <2>1 DEF PickIsReady, NoneLeft
<1>4. CASE UNCHANGED vars
  BY <1>4
  DEF vars, durable, scan, ReadyTracked, PickIsReady, NoneLeft, Releasable, Claimants,
      GapRows, Logged
<1>5. QED
  BY <1>1, <1>2, <1>3, <1>4 DEF Next, Release

\* Every step leaves what is ready marked, or about to be scanned.
LEMMA ReadyStep ==
  ASSUME ReleasesGoThrough, NothingOnControl, TypeOK, HeadsExist, ReadyTracked, [Next]_vars
  PROVE  ReadyArmed'
<1> SUFFICES ASSUME NEW m \in Member, Releasable(m)' # {}
             PROVE  Interrupted(m)' # {} \/ Scheduled(m)'
  BY DEF ReadyArmed
<1>1. ASSUME Releasable(m)' \subseteq Releasable(m),
             Interrupted(m) \subseteq Interrupted(m)',
             Scheduled(m) => Scheduled(m)'
      PROVE  Interrupted(m)' # {} \/ Scheduled(m)'
  BY <1>1 DEF ReadyTracked, ReadyArmed
<1>2. CASE Replay
  <2>1. CASE m = who
    BY <1>2, <2>1 DEF Replay, Scheduled
  <2>2. CASE m # who
    <3>1. /\ Releasable(m)' \subseteq Releasable(m)
          /\ Interrupted(m) \subseteq Interrupted(m)'
      BY <1>2, <2>2, ReplayReleases DEF ReadyTracked
    <3>2. ~Scheduled(m)
      BY <1>2 DEF Replay, Scheduled
    <3>3. QED
      BY <1>1, <3>1, <3>2
  <2>3. QED
    BY <2>1, <2>2
<1>3. CASE Receive
  <2>1. PICK s \in Seqs, o \in Op :
          \/ ReceiveStaleHeld(s, o) \/ ReceiveStaleOther(s, o)
          \/ ReceiveContent(s, o) \/ ReceiveControl(s, o)
    BY <1>3 DEF Receive
  <2>2. <<s, o>> \in page /\ pc = "page"
    BY <2>1 DEF ReceiveStaleHeld, ReceiveStaleOther, ReceiveContent, ReceiveControl, Takes
  <2>3. ReceiveContent(s, o) \/ ReceiveControl(s, o)
    <3>1. s > since /\ s \in Nat /\ since \in Nat
      BY <2>2, ReceiverConstants DEF ReadyTracked, PagesAreWhole, Seqs, TypeOK
    <3>2. ~(s <= since)
      BY <3>1
    <3>3. QED
      BY <2>1, <3>2 DEF ReceiveStaleHeld, ReceiveStaleOther
  <2>4. Releasable(m)' \subseteq Releasable(m) \/ Scheduled(m)'
    BY <2>3, ReceptionIsScheduled DEF ReadyTracked
  <2>5. ~Scheduled(m) /\ ~Replay /\ ~ClearStarted
    BY <2>2 DEF Scheduled, Replay, ClearStarted
  <2>6. Interrupted(m) \subseteq Interrupted(m)'
    BY <2>5, InterruptedKept
  <2>7. QED
    BY <1>1, <2>4, <2>5, <2>6
<1>4. CASE File
  <2>1. ~Replay /\ ~ClearStarted
    BY <1>4 DEF File, Replay, ClearStarted
  <2>2. Interrupted(m) \subseteq Interrupted(m)'
    BY <2>1, InterruptedKept
  <2>3. Releasable(m)' \subseteq Releasable(m)
    BY <1>4, FiledIsNotReady DEF ReadyTracked
  <2>4. Scheduled(m) => Scheduled(m)'
    BY <1>4 DEF File, Scheduled, refusal, scan
  <2>5. QED
    BY <1>1, <2>2, <2>3, <2>4
<1>5. CASE ClearStarted
  <2>1. /\ pc = "clear" /\ ~File /\ ~Replay /\ log' = log
        /\ quar' = Unmarked(quar, who) /\ quar \in Seq(QuarRow) /\ Len(quar) \in Nat
    BY <1>5, LenProperties DEF ClearStarted, File, Replay, TypeOK
  <2>2. Releasable(m)' = Releasable(m)
    BY <2>1, ReleasableSame
  <2>3. m # who
    <3>1. Releasable(who) = {}
      BY <2>1 DEF ReadyTracked, NoneLeft
    <3>2. QED
      BY <2>2, <3>1
  <2>4. ASSUME NEW i \in Interrupted(m) PROVE i \in Interrupted(m)'
    <3>1. i \in 1..Len(quar) /\ Author[quar[i].op] # who
      BY <2>3, <2>4 DEF Interrupted
    <3>2. quar'[i] = quar[i] /\ Len(quar') = Len(quar)
      BY <2>1, <3>1, ClearedRows DEF Unmarked
    <3>3. QED
      BY <2>4, <3>2 DEF Interrupted
  <2>5. ~Scheduled(m)
    BY <2>1 DEF Scheduled
  <2>6. QED
    BY <1>1, <2>2, <2>4, <2>5
<1>6. CASE MarkStarted
  <2>1. /\ pc = "mark" /\ ~File /\ ~Replay /\ ~ClearStarted /\ log' = log
        /\ quar' = MarkedStarted(quar, claim) /\ quar \in Seq(QuarRow) /\ Len(quar) \in Nat
    BY <1>6, LenProperties DEF MarkStarted, File, Replay, ClearStarted, TypeOK
  <2>2. CASE m = who
    <3>1. claim \in 1..Len(quar) /\ ~quar[claim].released /\ Author[quar[claim].op] = m
      BY <2>1, <2>2 DEF ReadyTracked, PickIsReady, Releasable, Claimants, GapRows
    <3>2. /\ Len(quar') = Len(quar) /\ quar'[claim].op = quar[claim].op
          /\ quar'[claim].released = quar[claim].released
      BY <2>1, <3>1, StartedRow
    <3>3. quar'[claim].started
      <4>1. quar[claim] \in QuarRow
        BY <2>1, <3>1, ElementOfSeq
      <4>2. QED
        BY <2>1, <3>1, <4>1 DEF MarkedStarted, QuarRow
    <3>4. QED
      BY <3>1, <3>2, <3>3 DEF Interrupted
  <2>3. CASE m # who
    <3>1. ~Scheduled(m)
      BY <2>1, <2>3 DEF Scheduled
    <3>2. QED
      BY <1>1, <2>1, <3>1, ReleasableSame, InterruptedKept
  <2>4. QED
    BY <2>2, <2>3
<1>7. CASE Scan
  <2>1. /\ pc = "scan" /\ ~File /\ ~Replay /\ ~ClearStarted /\ log' = log /\ who' = who
        /\ \/ pc' = "clear" /\ Releasable(who) = {}
           \/ pc' = "mark"
    BY <1>7 DEF Scan, File, Replay, ClearStarted
  <2>2. Releasable(m)' = Releasable(m) /\ Interrupted(m) \subseteq Interrupted(m)'
    BY <2>1, ReleasableSame, InterruptedKept
  <2>3. Scheduled(m) => m = who
    BY <2>1 DEF Scheduled
  <2>4. Scheduled(m) => Scheduled(m)'
    BY <2>1, <2>2, <2>3 DEF Scheduled
  <2>5. QED
    BY <1>1, <2>2, <2>4
<1>8. CASE Judge \/ StampApplied \/ Accuse
  <2>1. ~File /\ ~Replay /\ ~ClearStarted /\ log' = log
    BY <1>8 DEF Judge, StampApplied, Accuse, File, Replay, ClearStarted
  <2>2. Releasable(m)' = Releasable(m) /\ Interrupted(m) \subseteq Interrupted(m)'
    BY <2>1, ReleasableSame, InterruptedKept
  <2>3. Scheduled(m) => Scheduled(m)'
    BY <1>8 DEF Judge, ThenScan, StampApplied, Accuse, Scheduled, scan
  <2>4. QED
    BY <1>1, <2>2, <2>3
<1>9. CASE \/ FetchPage \/ EndOfPages \/ SettleAlarms \/ SaveCursor \/ EndPull
           \/ Crash \/ StorageFault \/ (\E a \in Member : ResumeRelease(a))
  <2>1. CASE Crash \/ StorageFault
    <3>1. log' = log /\ quar' = quar /\ pc \in CrashAt \cup FaultAt
      BY <2>1 DEF Crash, StorageFault, Unwind, durable
    <3>2. ~Scheduled(m)
      BY <3>1 DEF ReleasesGoThrough, Scheduled
    <3>3. Releasable(m)' = Releasable(m) /\ Interrupted(m)' = Interrupted(m)
      BY <3>1 DEF Releasable, Claimants, GapRows, Interrupted, Logged
    <3>4. QED
      BY <1>1, <3>2, <3>3
  <2>2. CASE ~(Crash \/ StorageFault)
    <3>1. log' = log /\ quar' = quar
      BY <1>9, <2>2
      DEF FetchPage, EndOfPages, SettleAlarms, SaveCursor, EndPull, ResumeRelease, durable
    <3>2. ~Scheduled(m)
      BY <1>9, <2>2
      DEF FetchPage, EndOfPages, SettleAlarms, SaveCursor, EndPull, ResumeRelease, Scheduled
    <3>3. Releasable(m)' = Releasable(m) /\ Interrupted(m)' = Interrupted(m)
      BY <3>1 DEF Releasable, Claimants, GapRows, Interrupted, Logged
    <3>4. QED
      BY <1>1, <3>2, <3>3
  <2>3. QED
    BY <2>1, <2>2
<1>10. CASE UNCHANGED vars
  <2>1. /\ Releasable(m)' = Releasable(m) /\ Interrupted(m)' = Interrupted(m)
    BY <1>10 DEF vars, durable, Releasable, Claimants, GapRows, Interrupted, Logged
  <2>2. Scheduled(m) => Scheduled(m)'
    BY <1>10 DEF vars, pulled, refusal, scan, Scheduled
  <2>3. QED
    BY <1>1, <2>1, <2>2
<1>11. QED
  BY <1>2, <1>3, <1>4, <1>5, <1>6, <1>7, <1>8, <1>9, <1>10 DEF Next, Release

\* Where the server shows whole pages and no crash and no fault falls between an op and
\* the scan it calls for, no successor that could be released is forgotten: between pulls
\* a later pull will look at its author again (_releaseChainSuccessors, _markReleaseStarted).
THEOREM NoReadySuccessorIsForgotten ==
  ASSUME ReleasesGoThrough, RegistersFirst, NothingOnControl
  PROVE  Spec => []ReadySuccessorsReArmed
<1>1. Init => ReadyTracked
  BY DEF Init, ReadyTracked, PagesAreWhole, GapsOfRegistered, GapIsAhead, PickIsReady,
     NoneLeft, ReadyArmed, Releasable, Claimants, GapRows
<1>2. TypeOK /\ HeadsExist /\ HandOnRecord /\ ReadyTracked /\ [Next]_vars => ReadyTracked'
  BY PagesStep, GapsOfRegisteredStep, GapIsAheadStep, PickStep, ReadyStep DEF ReadyTracked
<1>3. ReadyTracked => ReadySuccessorsReArmed
  BY DEF ReadyTracked, ReadyArmed, Scheduled, ReadySuccessorsReArmed
<1>4. QED
  BY <1>1, <1>2, <1>3, TypeCorrect, HeadsExistInvariant, HandOnRecordInvariant, PTL DEF Spec

-----------------------------------------------------------------------------
(* One sync heals: what a faultless pull was served is settled when it ends. *)

\* What is logged, quarantined or in hand, the server offered at that position.
FromOffer ==
  /\ \A s \in Seqs : log[s] # NoOp => <<s, log[s]>> \in Offer
  /\ \A i \in 1..Len(quar) : <<quar[i].seq, quar[i].op>> \in Offer
  /\ op # NoOp => <<at, op>> \in Offer

\* The device knows its own key; a page is in hand until its last op is received, and
\* what the server holds below the op in hand was received before or is in the page.
HandInPage ==
  /\ Self \in directory
  /\ op = NoOp /\ pc # "page" => page = {}
  /\ op # NoOp => \A e \in Offer :
       e[1] <= at => e \in page \/ e[1] <= cursor \/ e = <<at, op>>

\* A content op is refused after logging only by a verdict that does not apply it.
RefusedTruly ==
  \A s \in Seqs : log[s] # NoOp /\ Class[log[s]] = "content" /\ stamp[s] = "refused" =>
    Verdict[log[s]] # "apply"

\* An op is logged or waits for its predecessor.
Kept(o) == o \in Logged \/ \E i \in GapRows(Author[o]) : quar[i].op = o

\* The reception of e is over.
Received(e) == e \notin page /\ e[1] <= cursor /\ e # <<at, op>>

\* Registrations apply as they are received.
RegistrationsApply ==
  \A e \in Registrations : Received(e) \/ e = <<at, op>> =>
    log[e[1]] = e[2] /\ stamp[e[1]] = "applied" /\ Author[e[2]] \in directory

\* Control ops are logged in the order of their positions, and applied.
ControlInOrder ==
  \A t \in Seqs : log[t] # NoOp /\ Class[log[t]] # "content" =>
    /\ stamp[t] = "applied"
    /\ t <= cursor \/ t = at
    /\ \A e \in page : Class[e[2]] = "register" => t < e[1]

\* What was received is kept, from the filing of its gap row at the latest.
ReceivedKept ==
  /\ \A e \in Offer : Received(e) => Kept(e[2])
  /\ op # NoOp => Kept(op) \/ (pc = "file" /\ why = GapReason)

\* Between pulls no release is left half done.
NoReleaseLeft == pc = "idle" => \A m \in Member : Interrupted(m) = {}

NothingMissed ==
  faults = 0 => RegistrationsApply /\ ControlInOrder /\ ReceivedKept /\ NoReleaseLeft

\* A row that a step adds is the refusal in hand, or the one of the op replayed.
LEMMA NewRows ==
  ASSUME TypeOK, [Next]_vars, NEW i \in 1..Len(quar')
  PROVE  \/ i \in 1..Len(quar)
         \/ File /\ quar'[i].seq = at /\ quar'[i].op = op
         \/ /\ Replay
            /\ quar'[i].seq = quar[claim].seq /\ quar'[i].op = quar[claim].op
<1>0. quar \in Seq(QuarRow) /\ Len(quar) \in Nat
  BY LenProperties DEF TypeOK
<1>1. ASSUME NEW rows \in Seq(QuarRow), Len(rows) = Len(quar), NEW s \in Seqs,
             NEW o \in Op, NEW reason \in Reasons,
             quar' = Quarantined(rows, s, o, reason), i \notin 1..Len(quar)
      PROVE  quar'[i].seq = s /\ quar'[i].op = o
  <2>1. quar' # rows
    BY <1>1
  <2>2. quar' = Append(rows, Row(s, o, reason)) /\ Row(s, o, reason) \in QuarRow
    BY <1>1, <2>1 DEF Quarantined, Row, QuarRow
  <2>3. Len(quar') = Len(rows) + 1 /\ quar'[Len(rows) + 1] = Row(s, o, reason)
    BY <1>1, <2>2, AppendProperties
  <2>4. i = Len(rows) + 1
    BY <1>0, <1>1, <2>3
  <2>5. QED
    BY <2>3, <2>4 DEF Row
<1>2. CASE File
  <2>1. at \in Seqs /\ op \in Op /\ why \in Reasons /\ quar' = Quarantined(quar, at, op, why)
    BY <1>2 DEF File, TypeOK
  <2>2. QED
    BY <1>0, <1>1, <1>2, <2>1
<1>3. CASE Replay
  <2> DEFINE s    == quar[claim].seq
             o    == quar[claim].op
             rows == MarkedReleased(quar, claim)
  <2>1. claim \in 1..Len(quar) /\ s \in Seqs /\ o \in Op
    BY <1>3, ReplayRows DEF QuarRow
  <2>2. rows \in Seq(QuarRow) /\ Len(rows) = Len(quar)
    BY <1>0, <2>1, ReleasedRow
  <2>3. quar' = IF Rejects(s, o) THEN Quarantined(rows, s, o, RejectReason(o)) ELSE rows
    BY <1>3 DEF Replay
  <2>4. Rejects(s, o) => RejectReason(o) \in Reasons
    BY <2>1, FateType DEF Rejects, RejectReason, RefusesUnlogged, Logs
  <2> HIDE DEF s, o, rows
  <2>5. CASE Rejects(s, o)
    BY <1>1, <1>3, <2>1, <2>2, <2>3, <2>4, <2>5 DEF s, o
  <2>6. CASE ~Rejects(s, o)
    BY <2>2, <2>3, <2>6
  <2>7. QED
    BY <2>5, <2>6
<1>4. CASE MarkStarted
  BY <1>0, <1>4, StartedRow DEF MarkStarted, TypeOK
<1>5. CASE ClearStarted
  BY <1>0, <1>5, ClearedRows DEF ClearStarted
<1>6. CASE \/ FetchPage \/ EndOfPages \/ Judge \/ StampApplied \/ Accuse
           \/ Scan \/ SettleAlarms \/ SaveCursor \/ EndPull \/ Crash \/ StorageFault
           \/ (\E a \in Member : ResumeRelease(a))
           \/ Receive \/ UNCHANGED vars
  <2>1. quar' = quar
    BY <1>6
    DEF FetchPage, EndOfPages, Judge, StampApplied, Accuse, Scan, SettleAlarms, SaveCursor,
        EndPull, Crash, StorageFault, Unwind, ResumeRelease, Receive, ReceiveStaleHeld,
        ReceiveStaleOther, ReceiveContent, ReceiveControl, durable, vars
  <2>2. QED
    BY <2>1
<1>7. QED
  BY <1>2, <1>3, <1>4, <1>5, <1>6 DEF Next, Release

\* Every step takes ops from the offer, at the positions they were offered at.
LEMMA FromOfferStep ==
  ASSUME TypeOK, FromOffer, [Next]_vars
  PROVE  FromOffer'
<1>1. ASSUME NEW s \in Seqs, NEW o \in Op, <<s, o>> \in Offer, log' = LogAfter(s, o)
      PROVE  \A t \in Seqs : log'[t] # NoOp => <<t, log'[t]>> \in Offer
  <2>1. CASE Logs(s, o)
    BY <1>1, <2>1 DEF LogAfter, TypeOK, FromOffer
  <2>2. CASE ~Logs(s, o)
    BY <1>1, <2>2 DEF LogAfter, FromOffer
  <2>3. QED
    BY <2>1, <2>2
<1>2. Replay => /\ quar[claim].seq \in Seqs /\ quar[claim].op \in Op
                /\ <<quar[claim].seq, quar[claim].op>> \in Offer
                /\ log' = LogAfter(quar[claim].seq, quar[claim].op)
  BY ReplayRows DEF QuarRow, FromOffer, Replay
<1>3. ASSUME Receive
      PROVE  \E s \in Seqs, o \in Op :
               /\ <<s, o>> \in Offer
               /\ log' = LogAfter(s, o) \/ log' = log
               /\ (at' = s /\ op' = o) \/ (at' = at /\ op' = op)
  <2>1. page \subseteq Offer
    BY DEF TypeOK
  <2>2. QED
    BY <1>3, <2>1
    DEF Receive, ReceiveStaleHeld, ReceiveStaleOther, ReceiveContent, ReceiveControl, Takes,
        pulled, durable
<1>4. ~Receive /\ ~Replay => log' = log
  BY DEF Next, Release, FetchPage, EndOfPages, Judge, StampApplied, File, Accuse, Scan,
      MarkStarted, ClearStarted, SettleAlarms, SaveCursor, EndPull, Crash, StorageFault,
      Unwind, ResumeRelease, durable, vars
<1>5. ~Receive => (at' = at /\ op' = op) \/ op' = NoOp
  BY DEF Next, Release, FetchPage, EndOfPages, Judge, StampApplied, File, Accuse, Scan,
      MarkStarted, Replay, ClearStarted, SettleAlarms, SaveCursor, EndPull, Crash,
      StorageFault, Unwind, ResumeRelease, pulled, vars
<1>6. \A t \in Seqs : log'[t] # NoOp => <<t, log'[t]>> \in Offer
  BY <1>1, <1>2, <1>3, <1>4 DEF FromOffer
<1>7. op' # NoOp => <<at', op'>> \in Offer
  BY <1>3, <1>5 DEF FromOffer
<1>8. ASSUME NEW i \in 1..Len(quar')
      PROVE  <<quar'[i].seq, quar'[i].op>> \in Offer
  <2>1. CASE i \in 1..Len(quar)
    BY <2>1, RowsStep DEF RowsKept, FromOffer
  <2>2. CASE File /\ quar'[i].seq = at /\ quar'[i].op = op
    BY <2>2 DEF File, TypeOK, FromOffer
  <2>3. CASE /\ Replay
             /\ quar'[i].seq = quar[claim].seq /\ quar'[i].op = quar[claim].op
    BY <1>2, <2>3
  <2>4. QED
    BY <1>8, <2>1, <2>2, <2>3, NewRows
<1>9. QED
  BY <1>6, <1>7, <1>8 DEF FromOffer

\* Every step keeps the op in hand in place in its page.
LEMMA HandInPageStep ==
  ASSUME ReleasesGoThrough, TypeOK, HandOnRecord, PagesAreWhole, HandInPage, [Next]_vars
  PROVE  HandInPage'
<1>0. /\ page \subseteq Offer /\ \A e \in Offer : e[1] \in Nat /\ e[2] \in Op
      /\ cursor \in Nat /\ since \in Nat /\ cont # "page"
  BY ReceiverConstants DEF TypeOK, Seqs, PagesAreWhole
<1>1. Self \in directory'
  <2>1. CASE Crash
    BY <2>1 DEF Crash
  <2>2. CASE Replay
    BY <2>2 DEF Replay, HandInPage
  <2>3. CASE Receive
    BY <2>3
    DEF Receive, ReceiveStaleHeld, ReceiveStaleOther, ReceiveContent, ReceiveControl,
        HandInPage
  <2>4. CASE ~Crash /\ ~Replay /\ ~Receive
    <3>1. directory' = directory
      BY <2>4
      DEF Next, Release, FetchPage, EndOfPages, Judge, StampApplied, File, Accuse, Scan,
          MarkStarted, ClearStarted, SettleAlarms, SaveCursor, EndPull, StorageFault,
          ResumeRelease, vars
    <3>2. QED
      BY <3>1 DEF HandInPage
  <2>5. QED
    BY <2>1, <2>2, <2>3, <2>4
<1>2. ASSUME NEW s \in Seqs, NEW o \in Op, ReceiveContent(s, o) \/ ReceiveControl(s, o)
      PROVE  HandInPage'
  <2>1. /\ pc = "page" /\ page' = page \ {<<s, o>>} /\ cursor' = cursor
        /\ at' = s /\ op' = o /\ <<s, o>> \in page /\ o # NoOp
    BY <1>2, ChainConstants DEF ReceiveContent, ReceiveControl, Takes
  <2>2. \A e \in Offer : e # <<at, op>>
    BY <1>0, <2>1, ChainConstants DEF HandOnRecord
  <2>3. <<s, o>>[1] = s
    OBVIOUS
  <2>4. \A e \in Offer : e[1] <= s => e \in page \/ e[1] <= cursor
    BY <2>1, <2>2, <2>3 DEF PagesAreWhole
  <2>5. QED
    BY <1>1, <2>1, <2>4 DEF HandInPage
<1>3. ASSUME NEW s \in Seqs, NEW o \in Op, ReceiveStaleHeld(s, o) \/ ReceiveStaleOther(s, o)
      PROVE  FALSE
  <2>1. <<s, o>> \in page /\ s <= since /\ s > since /\ s \in Nat
    BY <1>3 DEF ReceiveStaleHeld, ReceiveStaleOther, Takes, PagesAreWhole, Seqs
  <2>2. QED
    BY <1>0, <2>1
<1>4. CASE SaveCursor \/ FetchPage
  <2>1. pc' = "page" /\ op' = NoOp
    BY <1>4 DEF SaveCursor, FetchPage, pulled, HandOnRecord
  <2>2. QED
    BY <1>1, <2>1 DEF HandInPage
<1>5. CASE Crash \/ StorageFault
  <2>1. page' = {} /\ op' = NoOp
    BY <1>5 DEF Crash, StorageFault, Unwind
  <2>2. QED
    BY <1>1, <2>1 DEF HandInPage
<1>6. CASE EndOfPages
  <2>1. page' = {} /\ op' = NoOp
    BY <1>6 DEF EndOfPages, pulled, HandOnRecord
  <2>2. QED
    BY <1>1, <2>1 DEF HandInPage
<1>7. CASE \/ Judge \/ StampApplied \/ File \/ Accuse
           \/ Scan \/ MarkStarted \/ Replay \/ ClearStarted \/ SettleAlarms \/ EndPull
           \/ (\E m \in Member : ResumeRelease(m))
  <2>1. page' = page /\ cursor' = cursor /\ at' = at /\ op' = op /\ pc # "page"
    BY <1>0, <1>7
    DEF Judge, StampApplied, File, Accuse, Scan, MarkStarted, Replay, ClearStarted,
        SettleAlarms, EndPull, ResumeRelease, pulled, durable
  <2>2. QED
    BY <1>1, <2>1 DEF HandInPage
<1>8. CASE UNCHANGED vars
  BY <1>8 DEF vars, durable, pulled, HandInPage
<1>9. QED
  BY <1>2, <1>3, <1>4, <1>5, <1>6, <1>7, <1>8 DEF Next, Receive, Release

\* Every step stamps a refusal only where the verdict is one.
LEMMA RefusedTrulyStep ==
  ASSUME TypeOK, VerdictAwaited, RefusedTruly, [Next]_vars
  PROVE  RefusedTruly'
<1>1. ASSUME NEW s \in Seqs, NEW o \in Op, log' = LogAfter(s, o), stamp' = StampAfter(s, o)
      PROVE  RefusedTruly'
  <2>1. CASE ~Logs(s, o)
    BY <1>1, <2>1 DEF LogAfter, StampAfter, RefusedTruly
  <2>2. CASE Logs(s, o)
    <3>1. /\ log'[s] = o
          /\ stamp'[s] = IF Applies(s, o) THEN "applied" ELSE "refused"
          /\ \A t \in Seqs : t # s => log'[t] = log[t] /\ stamp'[t] = stamp[t]
      BY <1>1, <2>2 DEF LogAfter, StampAfter, TypeOK
    <3>2. Class[o] = "content" /\ stamp'[s] = "refused" => Verdict[o] # "apply"
      BY <2>2, <3>1 DEF Applies, LateFate
    <3>3. QED
      BY <3>1, <3>2 DEF RefusedTruly
  <2>3. QED
    BY <2>1, <2>2
<1>2. ASSUME NEW s \in Seqs, NEW o \in Op, ReceiveContent(s, o)
      PROVE  RefusedTruly'
  <2>1. log' = LogAfter(s, o) /\ stamp' = stamp
    BY <1>2 DEF ReceiveContent
  <2>2. CASE ~Logs(s, o)
    BY <2>1, <2>2 DEF LogAfter, RefusedTruly
  <2>3. CASE Logs(s, o)
    <3>1. /\ log[s] = NoOp /\ \A t \in Seqs : t # s => log'[t] = log[t]
      BY <2>1, <2>3 DEF LogAfter, TypeOK, Logs, SlotTaken
    <3>2. stamp[s] = "none"
      BY <3>1 DEF VerdictAwaited
    <3>3. QED
      BY <2>1, <3>1, <3>2 DEF RefusedTruly
  <2>4. QED
    BY <2>2, <2>3
<1>3. CASE Replay
  <2>1. quar[claim].seq \in Seqs /\ quar[claim].op \in Op
    BY <1>3, ReplayRows DEF QuarRow
  <2>2. /\ log' = LogAfter(quar[claim].seq, quar[claim].op)
        /\ stamp' = StampAfter(quar[claim].seq, quar[claim].op)
    BY <1>3 DEF Replay
  <2>3. QED
    BY <1>1, <2>1, <2>2
<1>4. CASE Judge \/ StampApplied
  <2>1. log' = log /\ at \in Seqs /\ log[at] = op
    BY <1>4 DEF Judge, StampApplied, TypeOK, VerdictAwaited
  <2>2. /\ \A t \in Seqs : t # at => stamp'[t] = stamp[t]
        /\ stamp'[at] = "refused" => stamp[at] = "refused" \/ Verdict[op] # "apply"
    BY <1>4, <2>1 DEF Judge, StampApplied, TypeOK
  <2>3. QED
    BY <2>1, <2>2 DEF RefusedTruly
<1>5. CASE \/ FetchPage \/ EndOfPages \/ File \/ Accuse
           \/ Scan \/ MarkStarted \/ ClearStarted \/ SettleAlarms \/ SaveCursor
           \/ EndPull \/ Crash \/ StorageFault
           \/ (\E m \in Member : ResumeRelease(m))
           \/ (\E s \in Seqs, o \in Op : ReceiveStaleHeld(s, o) \/ ReceiveStaleOther(s, o))
           \/ UNCHANGED vars
  <2>1. log' = log /\ stamp' = stamp
    BY <1>5
    DEF FetchPage, EndOfPages, File, Accuse, Scan, MarkStarted, ClearStarted,
        SettleAlarms, SaveCursor, EndPull, Crash, StorageFault, Unwind, ResumeRelease,
        ReceiveStaleHeld, ReceiveStaleOther, durable, vars
  <2>2. QED
    BY <2>1 DEF RefusedTruly
<1>6. QED
  BY <1>1, <1>2, <1>3, <1>4, <1>5 DEF Next, Receive, Release, ReceiveControl

\* What the faultless invariant stands on.
HealContext ==
  /\ TypeOK /\ HeadsExist /\ DownClosed /\ VerdictAwaited /\ VerdictsMatch
  /\ HandOnRecord /\ ReadyTracked /\ FromOffer /\ HandInPage /\ RefusedTruly

\* A slot that is taken when its op comes is taken by that op.
LEMMA TakenByItself ==
  ASSUME ServesHonestChains, TypeOK, FromOffer, NEW s \in Seqs, NEW o \in Op,
         <<s, o>> \in Offer, SlotTaken(s, o)
  PROVE  o \in Logged
<1>1. CASE log[s] # NoOp
  <2>1. <<s, log[s]>> \in Offer
    BY <1>1 DEF FromOffer
  <2>2. <<s, log[s]>>[1] = <<s, o>>[1]
    OBVIOUS
  <2>3. <<s, log[s]>> = <<s, o>>
    BY <2>1, <2>2 DEF ServesHonestChains
  <2>4. QED
    BY <1>1, <2>3 DEF Logged
<1>2. ASSUME NEW l \in HeldBy(Logged, Author[o]), ASeq[l] = ASeq[o]
      PROVE  o \in Logged
  <2>1. l \in Logged /\ l \in Op /\ Author[l] = Author[o]
    BY LoggedOps DEF HeldBy
  <2>2. <<s, o>>[2] = o
    OBVIOUS
  <2>3. SignsOneChain(Author[o])
    BY <2>2 DEF ServesHonestChains, Honest
  <2>4. l = o
    BY <1>2, <2>1, <2>3 DEF SignsOneChain, HeldBy
  <2>5. QED
    BY <2>1, <2>4
<1>3. QED
  BY <1>1, <1>2 DEF SlotTaken

\* Content of a known author is accepted, held already, or ahead of its predecessors; and
\* what is accepted is logged.
LEMMA KnownContent ==
  ASSUME ServesHonestChains, TypeOK, HeadsExist, DownClosed, FromOffer,
         NEW s \in Seqs, NEW o \in Op, <<s, o>> \in Offer, Class[o] = "content",
         Author[o] \in directory
  PROVE  /\ Fate(o) \in {"accept", "idempotent_skip", GapReason}
         /\ Fate(o) = ChainVerdict(Logged, o)
         /\ Fate(o) # GapReason => Logs(s, o) \/ o \in Logged
<1>1. Author[o] \in Honest
  <2>1. <<s, o>>[2] = o
    OBVIOUS
  <2>2. QED
    BY <2>1 DEF ServesHonestChains
<1>2. ChainVerdict(Logged, o) \in {"accept", "idempotent_skip", "author_chain_gap"}
  BY <1>1, HonestVerdict DEF HeldBy
<1>3. ~OwnWriteDiverges(o)
  <2>1. SUFFICES ASSUME NEW a \in Authored, Author[o] = Self, ASeq[a] = ASeq[o], a # o
                 PROVE  FALSE
    BY DEF OwnWriteDiverges
  <2>2. a \in Op /\ Author[a] = Self
    BY ReceiverConstants
  <2>3. QED
    BY <1>1, <2>1, <2>2 DEF Honest, SignsOneChain, HeldBy
<1>4. Fate(o) = ChainVerdict(Logged, o)
  BY <1>3 DEF Fate
<1>5. Fate(o) = "accept" => Logs(s, o) \/ o \in Logged
  BY TakenByItself DEF Logs
<1>6. Fate(o) = "idempotent_skip" => o \in Logged
  BY <1>4 DEF ChainVerdict
<1>7. QED
  BY <1>2, <1>4, <1>5, <1>6 DEF GapReason

\* An author whose registration was received is known.
LEMMA RegisteredAreKnown ==
  ASSUME ServesHonestChains, TypeOK, HandInPage, RegistrationsApply,
         NEW e \in Offer, Registered(Author[e[2]])
  PROVE  Author[e[2]] \in directory
<1>1. CASE Author[e[2]] = Self
  BY <1>1 DEF HandInPage
<1>2. CASE Vouched(e[2])
  <2>1. PICK r \in Offer : Class[r[2]] = "register" /\ Author[r[2]] = Author[e[2]]
    BY <1>2 DEF Vouched
  <2>2. r \in Registrations
    BY <2>1 DEF Registrations
  <2>3. Received(r) \/ r = <<at, op>>
    BY <2>1 DEF Registered, Received
  <2>4. QED
    BY <2>1, <2>2, <2>3 DEF RegistrationsApply
<1>3. QED
  BY <1>1, <1>2 DEF ServesHonestChains

\* The op that is replayed is in the log afterwards.
LEMMA ReplayLogs ==
  ASSUME ServesHonestChains, HealContext, RegistrationsApply, [Next]_vars, Replay
  PROVE  quar[claim].op \in Logged' /\ Class[quar[claim].op] = "content"
<1> DEFINE s == quar[claim].seq
           o == quar[claim].op
<1>0. TypeOK /\ HeadsExist /\ DownClosed /\ FromOffer /\ HandInPage /\ ReadyTracked
  BY DEF HealContext
<1>1. PICK w \in Member : who = w
  BY <1>0 DEF Replay, TypeOK
<1>2. claim \in Releasable(w)
  BY <1>0, <1>1 DEF Replay, ReadyTracked, PickIsReady
<1>3. /\ claim \in GapRows(w) /\ claim \in 1..Len(quar) /\ Author[o] = w
      /\ ChainVerdict(Logged, o) \notin ChainRefusals
  BY <1>2 DEF Releasable, Claimants, GapRows
<1>4. Class[o] = "content" /\ Registered(w)
  BY <1>0, <1>3 DEF ReadyTracked, GapsOfRegistered
<1>5. s \in Seqs /\ o \in Op /\ <<s, o>> \in Offer
  BY <1>0, <1>3, ReplayRows DEF QuarRow, FromOffer
<1>6. log' = LogAfter(s, o)
  BY DEF Replay
<1> HIDE DEF s, o
<1>7. Author[o] \in directory
  <2>1. <<s, o>>[2] = o
    OBVIOUS
  <2>2. QED
    BY <1>0, <1>3, <1>4, <1>5, <2>1, RegisteredAreKnown
<1>8. Logs(s, o) \/ o \in Logged
  BY <1>0, <1>3, <1>4, <1>5, <1>7, KnownContent DEF ChainRefusals, GapReason
<1>9. o \in Logged'
  <2>1. CASE Logs(s, o)
    BY <1>0, <1>5, <1>6, <2>1, LoggedAfter DEF LogAfter
  <2>2. CASE o \in Logged
    BY <1>0, <2>2, LogOnlyGrows
  <2>3. QED
    BY <1>8, <2>1, <2>2
<1>10. QED
  BY <1>4, <1>9 DEF o

\* What is kept stays kept, through its own release too.
LEMMA KeptStays ==
  ASSUME ServesHonestChains, HealContext, RegistrationsApply, [Next]_vars,
         NEW o \in Op, Kept(o)
  PROVE  Kept(o)'
<1>0. TypeOK /\ quar \in Seq(QuarRow) /\ Len(quar) \in Nat
  BY LenProperties DEF HealContext, TypeOK
<1>1. CASE o \in Logged
  BY <1>0, <1>1, LogOnlyGrows DEF Kept
<1>2. ASSUME NEW i \in GapRows(Author[o]), quar[i].op = o
      PROVE  Kept(o)'
  <2>1. i \in 1..Len(quar)
    BY DEF GapRows
  <2>2. CASE Replay /\ i = claim
    BY <1>2, <2>2, ReplayLogs DEF Kept
  <2>3. CASE ~Replay \/ i # claim
    <3>1. quar' \in Seq(QuarRow) /\ Len(quar') \in Nat
      BY <1>0, TypeStep, LenProperties DEF TypeOK
    <3>2. /\ Len(quar) <= Len(quar') /\ quar'[i].op = quar[i].op
          /\ quar'[i].reason = quar[i].reason
      BY <1>0, <2>1, RowsStep DEF RowsKept
    <3>3. quar'[i].released = quar[i].released
      BY <1>0, <2>1, <2>3, RowsStep, ReplayRows
    <3>4. i \in GapRows(Author[o])'
      BY <1>0, <1>2, <2>1, <3>1, <3>2, <3>3 DEF GapRows
    <3>5. QED
      BY <1>2, <3>2, <3>4 DEF Kept
  <2>4. QED
    BY <2>2, <2>3
<1>3. QED
  BY <1>1, <1>2 DEF Kept

\* Without a fault, the steps that take an op or put one away.
LEMMA Receptions ==
  ASSUME HealContext, [Next]_vars, faults' = 0
  PROVE  /\ ~Crash /\ ~StorageFault
         /\ \A e \in Offer : Received(e)' =>
              Received(e) \/ (e = <<at, op>> /\ pc = "save" /\ op # NoOp)
         /\ \/ at' = at /\ op' = op
            \/ SaveCursor /\ op' = NoOp
            \/ \E s \in Seqs, o \in Op :
                 /\ ReceiveContent(s, o) \/ ReceiveControl(s, o)
                 /\ at' = s /\ op' = o
<1>0. /\ TypeOK /\ HandOnRecord /\ PagesAreWhole /\ HandInPage
      /\ page \subseteq Offer /\ \A e \in Offer : e[1] \in Nat /\ e[2] \in Op
      /\ cursor \in Nat /\ since \in Nat /\ at \in Nat /\ faults \in Nat /\ cont # "page"
  BY ReceiverConstants DEF HealContext, ReadyTracked, TypeOK, Seqs, PagesAreWhole
<1>1. ~Crash /\ ~StorageFault
  BY <1>0 DEF Crash, StorageFault, Unwind
<1>2. ASSUME NEW s \in Seqs, NEW o \in Op, ReceiveStaleHeld(s, o) \/ ReceiveStaleOther(s, o)
      PROVE  FALSE
  <2>1. <<s, o>> \in page /\ s <= since /\ s > since /\ s \in Nat
    BY <1>0, <1>2 DEF ReceiveStaleHeld, ReceiveStaleOther, Takes, PagesAreWhole, Seqs
  <2>2. QED
    BY <1>0, <2>1
<1>3. ASSUME NEW s \in Seqs, NEW o \in Op, ReceiveContent(s, o) \/ ReceiveControl(s, o)
      PROVE  /\ at' = s /\ op' = o
             /\ \A e \in Offer : Received(e)' => Received(e)
  <2>1. /\ at' = s /\ op' = o /\ cursor' = cursor /\ pc = "page"
        /\ page' = page \ {<<s, o>>}
    BY <1>3 DEF ReceiveContent, ReceiveControl, Takes
  <2>2. \A e \in Offer : e # <<at, op>>
    BY <1>0, <2>1, ChainConstants DEF HandOnRecord
  <2>3. QED
    BY <2>1, <2>2 DEF Received
<1>4. CASE SaveCursor
  <2>1. /\ pc = "save" /\ op # NoOp /\ page' = page /\ op' = NoOp
        /\ cursor' = (IF at > cursor THEN at ELSE cursor)
    BY <1>0, <1>4 DEF SaveCursor, TypeOK
  <2>2. ASSUME NEW e \in Offer, Received(e)'
        PROVE  Received(e) \/ e = <<at, op>>
    <3>1. e \notin page /\ (e[1] <= at \/ e[1] <= cursor)
      BY <1>0, <2>1, <2>2 DEF Received
    <3>2. QED
      BY <1>0, <2>1, <3>1 DEF HandInPage, Received
  <2>3. QED
    BY <1>1, <1>4, <2>1, <2>2
<1>5. CASE FetchPage
  <2>1. /\ page = {} /\ cursor' = cursor /\ at' = at /\ op' = op
    BY <1>0, <1>5 DEF FetchPage, durable, pulled, HandInPage, HandOnRecord
  <2>2. QED
    BY <1>1, <2>1 DEF Received
<1>6. CASE \/ EndOfPages \/ Judge \/ StampApplied \/ File \/ Accuse
           \/ Scan \/ MarkStarted \/ Replay \/ ClearStarted \/ SettleAlarms \/ EndPull
           \/ (\E m \in Member : ResumeRelease(m)) \/ UNCHANGED vars
  <2>1. page' = page /\ cursor' = cursor /\ at' = at /\ op' = op
    BY <1>0, <1>6
    DEF EndOfPages, Judge, StampApplied, File, Accuse, Scan, MarkStarted, Replay,
        ClearStarted, SettleAlarms, EndPull, ResumeRelease, pulled, durable, vars
  <2>2. QED
    BY <1>1, <2>1 DEF Received
<1>7. QED
  BY <1>1, <1>2, <1>3, <1>4, <1>5, <1>6 DEF Next, Receive, Release

\* Only the reception of a control op adds one to the log, or stamps one.
LEMMA ControlLogStep ==
  ASSUME ServesHonestChains, HealContext, RegistrationsApply, [Next]_vars,
         NEW t \in Seqs, log'[t] # NoOp, Class[log'[t]] # "content"
  PROVE  \/ log[t] = log'[t] /\ stamp'[t] = stamp[t]
         \/ \E o \in Op : ReceiveControl(t, o) /\ Logs(t, o)
<1>0. TypeOK /\ VerdictAwaited /\ VerdictsMatch
  BY DEF HealContext
<1>1. ASSUME NEW s \in Seqs, NEW o \in Op, log' = LogAfter(s, o), Class[o] = "content",
             stamp' = stamp \/ stamp' = StampAfter(s, o)
      PROVE  log[t] = log'[t] /\ stamp'[t] = stamp[t]
  <2>1. CASE ~Logs(s, o)
    BY <1>1, <2>1 DEF LogAfter, StampAfter
  <2>2. CASE Logs(s, o)
    <3>1. log' = [log EXCEPT ![s] = o]
      BY <1>1, <2>2 DEF LogAfter
    <3>2. t # s
      BY <1>0, <1>1, <3>1 DEF TypeOK
    <3>3. QED
      BY <1>0, <1>1, <2>2, <3>1, <3>2 DEF StampAfter, TypeOK
  <2>3. QED
    BY <2>1, <2>2
<1>2. ASSUME NEW s \in Seqs, NEW o \in Op, ReceiveContent(s, o)
      PROVE  log[t] = log'[t] /\ stamp'[t] = stamp[t]
  BY <1>1, <1>2 DEF ReceiveContent
<1>3. ASSUME NEW s \in Seqs, NEW o \in Op, ReceiveControl(s, o)
      PROVE  \/ log[t] = log'[t] /\ stamp'[t] = stamp[t]
             \/ ReceiveControl(t, o) /\ Logs(t, o)
  <2>1. log' = LogAfter(s, o) /\ stamp' = StampAfter(s, o)
    BY <1>3 DEF ReceiveControl
  <2>2. CASE Logs(s, o) /\ s = t
    BY <1>3, <2>2
  <2>3. CASE ~(Logs(s, o) /\ s = t)
    BY <1>0, <2>1, <2>3 DEF LogAfter, StampAfter, TypeOK
  <2>4. QED
    BY <2>2, <2>3
<1>4. CASE Replay
  <2>1. quar[claim].seq \in Seqs /\ quar[claim].op \in Op
    BY <1>0, <1>4, ReplayRows DEF QuarRow
  <2>2. /\ log' = LogAfter(quar[claim].seq, quar[claim].op)
        /\ stamp' = StampAfter(quar[claim].seq, quar[claim].op)
    BY <1>4 DEF Replay
  <2>3. Class[quar[claim].op] = "content"
    BY <1>4, ReplayLogs
  <2>4. QED
    BY <1>1, <2>1, <2>2, <2>3
<1>5. CASE Judge \/ StampApplied
  <2>1. log' = log /\ at \in Seqs /\ Class[log[at]] = "content"
    BY <1>0, <1>5 DEF Judge, StampApplied, TypeOK, VerdictAwaited, VerdictsMatch
  <2>2. t # at
    BY <2>1
  <2>3. \A u \in Seqs : u # at => stamp'[u] = stamp[u]
    BY <1>0, <1>5, <2>1 DEF Judge, StampApplied, TypeOK
  <2>4. QED
    BY <2>1, <2>2, <2>3
<1>6. CASE \/ FetchPage \/ EndOfPages \/ File \/ Accuse
           \/ Scan \/ MarkStarted \/ ClearStarted \/ SettleAlarms \/ SaveCursor
           \/ EndPull \/ Crash \/ StorageFault
           \/ (\E m \in Member : ResumeRelease(m))
           \/ (\E s \in Seqs, o \in Op : ReceiveStaleHeld(s, o) \/ ReceiveStaleOther(s, o))
           \/ UNCHANGED vars
  BY <1>6
  DEF FetchPage, EndOfPages, File, Accuse, Scan, MarkStarted, ClearStarted,
      SettleAlarms, SaveCursor, EndPull, Crash, StorageFault, Unwind, ResumeRelease,
      ReceiveStaleHeld, ReceiveStaleOther, durable, vars
<1>7. QED
  BY <1>2, <1>3, <1>4, <1>5, <1>6 DEF Next, Receive, Release

\* A registration that is received is on top of the ones before it, and applies.
LEMMA RegistrationIsNext ==
  ASSUME ReleasesGoThrough, ServesHonestChains, HealContext, RegistrationsApply,
         ControlInOrder, NEW s \in Seqs, NEW o \in Op, ReceiveControl(s, o)
  PROVE  /\ <<s, o>> \in page /\ Class[o] = "register" /\ op = NoOp
         /\ \A e \in page : Class[e[2]] = "register" => s <= e[1]
         /\ Applies(s, o)
<1> DEFINE reg   == <<s, o>>
           below == {f \in Registrations : f[1] < s}
<1>0. /\ TypeOK /\ HandOnRecord /\ PagesAreWhole /\ FromOffer
      /\ page \subseteq Offer
      /\ \A e \in Offer : e[1] \in Seqs /\ e[1] \in Nat /\ e[2] \in Op /\ e = <<e[1], e[2]>>
      /\ s \in Nat /\ cursor \in Nat
  BY ReceiverConstants DEF HealContext, ReadyTracked, TypeOK, Seqs
<1>1. /\ reg \in page /\ reg \in Offer /\ reg[1] = s /\ reg[2] = o
      /\ pc = "page" /\ op = NoOp /\ MayComeNext(s, o) /\ Class[o] # "content"
  BY <1>0 DEF ReceiveControl, Takes, HandOnRecord
<1> HIDE DEF reg
<1>2. Class[o] = "register"
  <2>1. Author[o] \in Honest
    BY <1>1 DEF ServesHonestChains
  <2>2. Class[o] # "control"
    BY <2>1 DEF Honest, HeldBy
  <2>3. QED
    BY <1>1, <2>2, ReceiverConstants
<1>3. \A e \in page : Class[e[2]] = "register" => s <= e[1]
  BY <1>1, ReceiverConstants DEF MayComeNext, ReleasesGoThrough
<1>4. Fate(o) = "accept"
  <2>1. ASeq[o] = 1
    BY <1>1, <1>2 DEF ServesHonestChains
  <2>2. QED
    BY <1>2, <2>1 DEF Fate
<1>5. \A t \in Seqs : log[t] # NoOp /\ Class[log[t]] # "content" => t < s
  BY <1>1, <1>2 DEF ControlInOrder
<1>6. o \notin Logged
  <2>1. ASSUME NEW t \in Seqs, log[t] = o
        PROVE  FALSE
    <3>1. o # NoOp
      BY ChainConstants
    <3>2. <<t, o>> \in Offer /\ <<t, o>>[2] = o /\ <<t, o>>[1] = t
      BY <1>0, <2>1, <3>1 DEF FromOffer
    <3>3. <<t, o>> = reg
      BY <1>1, <3>2 DEF ServesHonestChains
    <3>4. t = s
      BY <1>1, <3>2, <3>3
    <3>5. t < s
      BY <1>1, <1>5, <2>1, <3>1
    <3>6. QED
      BY <1>0, <3>4, <3>5
  <2>2. QED
    BY <2>1 DEF Logged
<1>7. Logs(s, o)
  BY <1>0, <1>1, <1>4, <1>6, TakenByItself DEF Logs, reg
<1>8. \A g \in below : log[g[1]] = g[2] /\ g[1] \in AppliedControl
  <2>1. ASSUME NEW g \in below
        PROVE  log[g[1]] = g[2] /\ g[1] \in AppliedControl
    <3>1. g \in Offer /\ Class[g[2]] = "register" /\ g[1] < s
      BY DEF Registrations
    <3>2. g \notin page
      <4>1. ~(s <= g[1])
        BY <1>0, <3>1
      <4>2. QED
        BY <1>3, <3>1, <4>1
    <3>3. g # <<at, op>>
      BY <1>0, <1>1, <3>1, ChainConstants
    <3>4. g[1] <= cursor
      <4>1. g[1] <= reg[1]
        BY <1>0, <1>1, <3>1
      <4>2. QED
        BY <1>0, <1>1, <3>1, <3>2, <3>3, <4>1 DEF PagesAreWhole
    <3>5. Received(g) /\ g \in Registrations
      BY <3>1, <3>2, <3>3, <3>4 DEF Received, Registrations
    <3>6. log[g[1]] = g[2] /\ stamp[g[1]] = "applied"
      BY <3>5 DEF RegistrationsApply
    <3>7. log[g[1]] # NoOp /\ Class[log[g[1]]] # "content"
      BY <1>0, <3>1, <3>6, ChainConstants
    <3>8. QED
      BY <1>0, <3>1, <3>6, <3>7 DEF AppliedControl
  <2>2. QED
    BY <2>1
<1>9. \A t \in AppliedControl : \E g \in below : g[1] = t /\ g[2] = log[t]
  <2>1. ASSUME NEW t \in AppliedControl
        PROVE  \E g \in below : g[1] = t /\ g[2] = log[t]
    <3>1. t \in Seqs /\ log[t] # NoOp /\ Class[log[t]] # "content" /\ t < s
      BY <1>5 DEF AppliedControl
    <3>2. /\ <<t, log[t]>> \in Offer
          /\ <<t, log[t]>>[1] = t /\ <<t, log[t]>>[2] = log[t]
      BY <1>0, <3>1 DEF FromOffer
    <3>3. log[t] \in Op /\ Author[log[t]] \in Honest
      BY <1>0, <3>2 DEF ServesHonestChains
    <3>4. Class[log[t]] = "register"
      BY <3>1, <3>3, ReceiverConstants DEF Honest, HeldBy
    <3>5. <<t, log[t]>> \in below
      BY <3>1, <3>2, <3>4 DEF Registrations
    <3>6. QED
      BY <3>2, <3>5
  <2>2. QED
    BY <2>1
<1>10. CtlPrev[o] = ControlHead
  <2>1. reg \in Registrations
    BY <1>1, <1>2 DEF Registrations
  <2>2. \/ below = {} /\ CtlPrev[o] = NoOp
        \/ \E f \in below : CtlPrev[o] = f[2] /\ \A g \in below : g[1] <= f[1]
    BY <1>1, <2>1 DEF ServesHonestChains
  <2>3. CASE below = {} /\ CtlPrev[o] = NoOp
    <3>1. AppliedControl = {}
      BY <1>9, <2>3
    <3>2. QED
      BY <2>3, <3>1 DEF ControlHead
  <2>4. ASSUME NEW f \in below, CtlPrev[o] = f[2], \A g \in below : g[1] <= f[1]
        PROVE  CtlPrev[o] = ControlHead
    <3> DEFINE Top(c) == \A t \in AppliedControl : t <= c
               c == CHOOSE x \in AppliedControl : Top(x)
    <3>1. f[1] \in AppliedControl /\ Top(f[1]) /\ f[1] \in Nat
      BY <1>0, <1>8, <1>9, <2>4 DEF Registrations
    <3>2. c \in AppliedControl /\ Top(c)
      BY <3>1
    <3>3. c <= f[1] /\ f[1] <= c /\ c \in Nat
      BY <3>1, <3>2 DEF AppliedControl, Seqs
    <3>4. c = f[1]
      BY <3>1, <3>3
    <3>5. ControlHead = log[c]
      BY <3>1 DEF ControlHead
    <3>6. QED
      BY <1>8, <2>4, <3>4, <3>5
  <2>5. QED
    BY <2>2, <2>3, <2>4
<1>11. Applies(s, o)
  BY <1>1, <1>7, <1>10 DEF Applies, LateFate
<1>12. QED
  BY <1>1, <1>2, <1>3, <1>11 DEF reg

\* Without a fault, every step keeps the registrations applied.
LEMMA RegistrationsApplyStep ==
  ASSUME ReleasesGoThrough, ServesHonestChains, HealContext, RegistrationsApply,
         ControlInOrder, [Next]_vars, faults' = 0
  PROVE  RegistrationsApply'
<1>0. /\ TypeOK /\ \A e \in Offer : e[1] \in Seqs /\ e[2] \in Op
  BY ReceiverConstants DEF HealContext
<1>1. SUFFICES ASSUME NEW e \in Registrations, Received(e)' \/ e = <<at', op'>>
               PROVE  /\ log'[e[1]] = e[2] /\ stamp'[e[1]] = "applied"
                      /\ Author[e[2]] \in directory'
  BY DEF RegistrationsApply, Received
<1>2. e \in Offer /\ Class[e[2]] = "register" /\ e[2] # NoOp
  BY <1>0, ChainConstants DEF Registrations
<1>3. CASE Received(e) \/ e = <<at, op>>
  <2>1. log[e[1]] = e[2] /\ stamp[e[1]] = "applied" /\ Author[e[2]] \in directory
    BY <1>3 DEF RegistrationsApply
  <2>2. log'[e[1]] = e[2]
    BY <1>0, <1>2, <2>1, LogOnlyGrows
  <2>3. stamp'[e[1]] = "applied"
    <3>1. log[e[1]] # NoOp /\ Class[log'[e[1]]] # "content"
      BY <1>2, <2>1, <2>2
    <3>2. ASSUME NEW o \in Op, Logs(e[1], o) PROVE FALSE
      BY <3>1, <3>2 DEF Logs, SlotTaken
    <3>3. QED
      BY <1>0, <1>2, <2>1, <2>2, <3>1, <3>2, ControlLogStep
  <2>4. directory \subseteq directory'
    <3>1. ~Crash /\ ~StorageFault
      BY Receptions
    <3>2. QED
      BY <3>1
      DEF Next, Receive, Release, FetchPage, EndOfPages, Judge, StampApplied, File, Accuse,
          Scan, MarkStarted, Replay, ClearStarted, SettleAlarms, SaveCursor, EndPull,
          ResumeRelease, ReceiveStaleHeld, ReceiveStaleOther, ReceiveContent,
          ReceiveControl, vars
  <2>5. QED
    BY <2>1, <2>2, <2>3, <2>4
<1>4. ASSUME NEW s \in Seqs, NEW o \in Op, ReceiveContent(s, o) \/ ReceiveControl(s, o),
             e = <<s, o>>
      PROVE  /\ log'[e[1]] = e[2] /\ stamp'[e[1]] = "applied"
             /\ Author[e[2]] \in directory'
  <2>1. e[1] = s /\ e[2] = o
    BY <1>4
  <2>2. ReceiveControl(s, o)
    BY <1>2, <1>4, <2>1 DEF ReceiveContent
  <2>3. Applies(s, o)
    BY <2>2, RegistrationIsNext
  <2>4. /\ log' = LogAfter(s, o) /\ stamp' = StampAfter(s, o)
        /\ directory' = directory \cup Learned(s, o)
    BY <2>2 DEF ReceiveControl
  <2>5. /\ log' = [log EXCEPT ![s] = o] /\ stamp' = [stamp EXCEPT ![s] = "applied"]
        /\ Author[o] \in directory'
    BY <1>2, <2>1, <2>3, <2>4 DEF LogAfter, StampAfter, Learned, Applies
  <2>6. QED
    BY <1>0, <2>1, <2>5 DEF TypeOK
<1>5. \/ Received(e) \/ e = <<at, op>>
      \/ \E s \in Seqs, o \in Op :
           /\ ReceiveContent(s, o) \/ ReceiveControl(s, o)
           /\ e = <<s, o>>
  <2>1. CASE Received(e)'
    BY <1>2, <2>1, Receptions
  <2>2. CASE e = <<at', op'>>
    <3>1. op' # NoOp
      BY <1>2, <2>2
    <3>2. QED
      BY <2>2, <3>1, Receptions
  <2>3. QED
    BY <1>1, <2>1, <2>2
<1>6. QED
  BY <1>3, <1>4, <1>5

\* Without a fault, every step keeps the control ops in order.
LEMMA ControlInOrderStep ==
  ASSUME ReleasesGoThrough, ServesHonestChains, HealContext, RegistrationsApply,
         ControlInOrder, [Next]_vars, faults' = 0
  PROVE  ControlInOrder'
<1>0. /\ TypeOK /\ HandOnRecord /\ page \subseteq Offer
      /\ \A e \in Offer : e[1] \in Nat /\ e[2] \in Op /\ e = <<e[1], e[2]>>
      /\ cursor \in Nat /\ at \in Nat /\ \A t \in Seqs : t \in Nat /\ t # 0
      /\ op = NoOp => at = 0
  BY ReceiverConstants, ChainConstants DEF HealContext, TypeOK, Seqs
<1>1. SUFFICES ASSUME NEW t \in Seqs, log'[t] # NoOp, Class[log'[t]] # "content"
               PROVE  /\ stamp'[t] = "applied"
                      /\ t <= cursor' \/ t = at'
                      /\ \A e \in page' : Class[e[2]] = "register" => t < e[1]
  BY DEF ControlInOrder
<1>2. ASSUME NEW o \in Op, ReceiveControl(t, o)
      PROVE  /\ stamp'[t] = "applied"
             /\ t <= cursor' \/ t = at'
             /\ \A e \in page' : Class[e[2]] = "register" => t < e[1]
  <2>1. /\ <<t, o>> \in page /\ Applies(t, o)
        /\ \A e \in page : Class[e[2]] = "register" => t <= e[1]
    BY <1>2, RegistrationIsNext
  <2>2. at' = t /\ page' = page \ {<<t, o>>} /\ stamp' = StampAfter(t, o)
    BY <1>2 DEF ReceiveControl, Takes
  <2>3. stamp'[t] = "applied"
    BY <1>0, <2>1, <2>2 DEF StampAfter, Applies, TypeOK
  <2>4. ASSUME NEW e \in page', Class[e[2]] = "register"
        PROVE  t < e[1]
    <3>1. t <= e[1] /\ e # <<t, o>> /\ e \in Offer /\ <<t, o>> \in Offer
      BY <1>0, <2>1, <2>2, <2>4
    <3>2. <<t, o>>[1] = t
      OBVIOUS
    <3>3. e[1] # t
      BY <3>1, <3>2 DEF ServesHonestChains
    <3>4. QED
      BY <1>0, <3>1, <3>3
  <2>5. QED
    BY <2>2, <2>3, <2>4
<1>3. CASE log[t] = log'[t] /\ stamp'[t] = stamp[t]
  <2>1. /\ stamp'[t] = "applied"
        /\ t <= cursor \/ t = at
        /\ \A e \in page : Class[e[2]] = "register" => t < e[1]
    BY <1>1, <1>3 DEF ControlInOrder
  <2>2. CASE FetchPage
    <3>1. at = 0 /\ cursor' = cursor
      BY <1>0, <2>2 DEF FetchPage, HandOnRecord, durable
    <3>2. PICK b \in Seqs : page' = {e \in Offer : cursor < e[1] /\ e[1] <= b}
      BY <2>2 DEF FetchPage, Pages, ReleasesGoThrough
    <3>3. t <= cursor
      BY <1>0, <2>1, <3>1
    <3>4. \A e \in page' : t < e[1]
      BY <1>0, <3>2, <3>3
    <3>5. QED
      BY <2>1, <3>1, <3>3, <3>4
  <2>3. CASE ~FetchPage
    <3>1. page' \subseteq page /\ (t <= cursor' \/ t = at')
      <4>1. CASE SaveCursor
        <5>1. page' = page /\ cursor' = IF at > cursor THEN at ELSE cursor
          BY <4>1 DEF SaveCursor
        <5>2. QED
          BY <1>0, <2>1, <5>1
      <4>2. CASE Receive
        <5>1. PICK s \in Seqs, o \in Op :
                \/ ReceiveStaleHeld(s, o) \/ ReceiveStaleOther(s, o)
                \/ ReceiveContent(s, o) \/ ReceiveControl(s, o)
          BY <4>2 DEF Receive
        <5>2. /\ pc = "page" /\ page' = page \ {<<s, o>>} /\ cursor' = cursor
          BY <5>1
          DEF ReceiveStaleHeld, ReceiveStaleOther, ReceiveContent, ReceiveControl, Takes,
              durable
        <5>3. at = 0
          BY <1>0, <5>2 DEF HandOnRecord
        <5>4. QED
          BY <1>0, <2>1, <5>2, <5>3
      <4>3. CASE ~SaveCursor /\ ~Receive
        <5>1. cont # "page" /\ ~Crash /\ ~StorageFault
          BY Receptions DEF HealContext, ReadyTracked, PagesAreWhole
        <5>2. page' = page /\ cursor' = cursor /\ at' = at
          BY <2>3, <4>3, <5>1
          DEF Next, Release, EndOfPages, Judge, StampApplied, File, Accuse, Scan,
              MarkStarted, Replay, ClearStarted, SettleAlarms, EndPull, ResumeRelease,
              pulled, durable, vars
        <5>3. QED
          BY <2>1, <5>2
      <4>4. QED
        BY <4>1, <4>2, <4>3
    <3>2. QED
      BY <2>1, <3>1
  <2>4. QED
    BY <2>2, <2>3
<1>4. QED
  BY <1>1, <1>2, <1>3, ControlLogStep

\* Without a fault, every step keeps what was received.
LEMMA ReceivedKeptStep ==
  ASSUME ReleasesGoThrough, RegistersFirst, ServesHonestChains, HealContext,
         RegistrationsApply, ControlInOrder, ReceivedKept, [Next]_vars, faults' = 0
  PROVE  ReceivedKept'
<1>0. /\ TypeOK /\ HeadsExist /\ DownClosed /\ FromOffer /\ HandInPage /\ HandOnRecord
      /\ ReadyTracked /\ PagesAreWhole /\ page \subseteq Offer
      /\ \A e \in Offer : e[1] \in Seqs /\ e[2] \in Op
      /\ op # NoOp => op \in Op
  BY ReceiverConstants DEF HealContext, ReadyTracked, TypeOK
<1>1. ASSUME NEW e \in Offer, Received(e)'
      PROVE  Kept(e[2])'
  <2>1. CASE Received(e)
    <3>1. Kept(e[2])
      BY <2>1 DEF ReceivedKept
    <3>2. QED
      BY <1>0, <3>1, KeptStays
  <2>2. CASE e = <<at, op>> /\ pc = "save" /\ op # NoOp
    <3>1. Kept(op) /\ e[2] = op
      BY <2>2 DEF ReceivedKept
    <3>2. Kept(e[2])
      BY <3>1
    <3>3. QED
      BY <1>0, <3>2, KeptStays
  <2>3. QED
    BY <1>1, <2>1, <2>2, Receptions
<1>2. ASSUME NEW o \in Op, op = o
      PROVE  Kept(o)' \/ (pc' = "file" /\ why' = GapReason)
  <2>1. CASE Kept(o)
    BY <2>1, KeptStays
  <2>2. CASE pc = "file" /\ why = GapReason /\ File
    <3>1. /\ at \in Seqs /\ why \in Reasons /\ quar \in Seq(QuarRow)
          /\ quar' = Quarantined(quar, at, o, GapReason)
      BY <1>0, <1>2, <2>2 DEF File, TypeOK
    <3>2. StandsIn(quar', at, o, GapReason)
      BY <2>2, <3>1, QuarantinedRows
    <3>3. PICK i \in 1..Len(quar') : /\ quar'[i].op = o /\ quar'[i].reason = GapReason
                                     /\ ~quar'[i].released
      BY <3>2 DEF StandsIn
    <3>4. i \in GapRows(Author[o])'
      BY <3>3 DEF GapRows
    <3>5. QED
      BY <3>3, <3>4 DEF Kept
  <2>3. CASE pc = "file" /\ why = GapReason /\ ~File
    <3>1. ~Crash /\ ~StorageFault
      BY Receptions
    <3>2. UNCHANGED vars
      BY <2>3, <3>1
      DEF Next, Receive, Release, FetchPage, EndOfPages, Judge, StampApplied, Accuse,
          Scan, MarkStarted, Replay, ClearStarted, SettleAlarms, SaveCursor, EndPull,
          ResumeRelease, ReceiveStaleHeld, ReceiveStaleOther, ReceiveContent,
          ReceiveControl, Takes
    <3>3. QED
      BY <2>3, <3>2 DEF vars, refusal
  <2>4. QED
    BY <1>2, <2>1, <2>2, <2>3, ChainConstants DEF ReceivedKept
<1>3. ASSUME NEW s \in Seqs, NEW o \in Op, ReceiveContent(s, o)
      PROVE  Kept(o)' \/ (pc' = "file" /\ why' = GapReason)
  <2>1. <<s, o>> \in Offer /\ Class[o] = "content" /\ log' = LogAfter(s, o)
    BY <1>0, <1>3 DEF ReceiveContent, Takes
  <2>2. Author[o] \in directory
    <3>1. Registered(Author[o]) /\ <<s, o>>[2] = o
      BY <1>0, <1>3, ContentOfRegistered
    <3>2. QED
      BY <1>0, <2>1, <3>1, RegisteredAreKnown
  <2>3. /\ Fate(o) \in {"accept", "idempotent_skip", GapReason}
        /\ Fate(o) # GapReason => Logs(s, o) \/ o \in Logged
    BY <1>0, <2>1, <2>2, KnownContent
  <2>4. CASE Logs(s, o)
    BY <1>0, <2>1, <2>4, LoggedAfter DEF LogAfter, Kept
  <2>5. CASE o \in Logged
    BY <1>0, <2>5, LogOnlyGrows DEF Kept
  <2>6. CASE Fate(o) = GapReason
    BY <1>3, <2>6 DEF ReceiveContent, Logs, Held, Collides, GapReason
  <2>7. QED
    BY <2>3, <2>4, <2>5, <2>6
<1>4. ASSUME NEW s \in Seqs, NEW o \in Op, ReceiveControl(s, o)
      PROVE  Kept(o)'
  <2>1. Logs(s, o) /\ log' = [log EXCEPT ![s] = o]
    BY <1>4, RegistrationIsNext DEF Applies, ReceiveControl, LogAfter
  <2>2. QED
    BY <1>0, <2>1, LoggedAfter DEF Kept
<1>5. ASSUME op' # NoOp
      PROVE  Kept(op)' \/ (pc' = "file" /\ why' = GapReason)
  <2>1. ASSUME op' = op
        PROVE  Kept(op)' \/ (pc' = "file" /\ why' = GapReason)
    <3>1. PICK o \in Op : op = o
      BY <1>0, <1>5, <2>1
    <3>2. op' = o
      BY <2>1, <3>1
    <3>3. QED
      BY <1>2, <3>1, <3>2 DEF Kept
  <2>2. ASSUME NEW s \in Seqs, NEW o \in Op, op' = o,
               ReceiveContent(s, o) \/ ReceiveControl(s, o)
        PROVE  Kept(op)' \/ (pc' = "file" /\ why' = GapReason)
    BY <1>3, <1>4, <2>2 DEF Kept
  <2>3. QED
    BY <1>5, <2>1, <2>2, Receptions
<1>6. QED
  BY <1>1, <1>5 DEF ReceivedKept

\* Without a fault, a pull ends with no release half done.
LEMMA NoReleaseLeftStep ==
  ASSUME HealContext, NoReleaseLeft, [Next]_vars, faults' = 0
  PROVE  NoReleaseLeft'
<1> SUFFICES ASSUME pc' = "idle" PROVE \A m \in Member : Interrupted(m)' = {}
  BY DEF NoReleaseLeft
<1>1. ~Crash /\ ~StorageFault /\ cont # "idle"
  BY Receptions DEF HealContext, TypeOK
<1>2. EndPull \/ UNCHANGED vars
  <2>1. ASSUME NEW s \in Seqs, NEW o \in Op
        PROVE  /\ ~ReceiveStaleHeld(s, o) /\ ~ReceiveStaleOther(s, o)
               /\ ~ReceiveContent(s, o) /\ ~ReceiveControl(s, o)
    <3>1. ~ReceiveStaleHeld(s, o) /\ ~ReceiveStaleOther(s, o)
      BY DEF ReceiveStaleHeld, ReceiveStaleOther, Takes
    <3>2. ~ReceiveContent(s, o)
      BY DEF ReceiveContent
    <3>3. ~ReceiveControl(s, o)
      BY DEF ReceiveControl
    <3>4. QED
      BY <3>1, <3>2, <3>3
  <2>2. ~ClearStarted /\ ~SettleAlarms
    BY DEF ClearStarted, SettleAlarms, EndScan
  <2>3. QED
    BY <1>1, <2>1, <2>2
    DEF Next, Receive, Release, FetchPage, EndOfPages, Judge, StampApplied, File, Accuse,
        Scan, MarkStarted, Replay, SaveCursor, ResumeRelease
<1>3. quar' = quar /\ \A m \in Member : Interrupted(m) = {}
  BY <1>2 DEF EndPull, NoReleaseLeft, durable, vars
<1>4. QED
  BY <1>3 DEF Interrupted

\* Every step misses nothing.
LEMMA NothingMissedStep ==
  ASSUME ReleasesGoThrough, RegistersFirst, ServesHonestChains, HealContext,
         NothingMissed, [Next]_vars
  PROVE  NothingMissed'
<1>1. SUFFICES ASSUME faults' = 0
               PROVE  RegistrationsApply' /\ ControlInOrder' /\ ReceivedKept' /\ NoReleaseLeft'
  BY DEF NothingMissed
<1>2. faults = 0
  <2>1. faults' = faults
    <3>1. Receive => faults' = faults
      BY DEF Receive, ReceiveStaleHeld, ReceiveStaleOther, ReceiveContent, ReceiveControl,
         Takes
    <3>2. ~Crash /\ ~StorageFault
      BY <1>1, Receptions
    <3>3. QED
      BY <3>1, <3>2
      DEF Next, Release, FetchPage, EndOfPages, Judge, StampApplied, File, Accuse, Scan,
          MarkStarted, Replay, ClearStarted, SettleAlarms, SaveCursor, EndPull,
          ResumeRelease, vars
  <2>2. QED
    BY <1>1, <2>1
<1>3. RegistrationsApply /\ ControlInOrder /\ ReceivedKept /\ NoReleaseLeft
  BY <1>2 DEF NothingMissed
<1>4. QED
  BY <1>1, <1>3, RegistrationsApplyStep, ControlInOrderStep, ReceivedKeptStep,
     NoReleaseLeftStep

\* Between pulls, with nothing missed, what was received is settled.
LEMMA NothingMissedHeals ==
  ASSUME ServesHonestChains, HealContext, NothingMissed
  PROVE  HealsInOneSync
<1> SUFFICES ASSUME pc = "idle", faults = 0, NEW e \in Offer, e[1] <= cursor
             PROVE  Settled(e[1], e[2])
  BY DEF HealsInOneSync
<1>0. /\ TypeOK /\ HeadsExist /\ DownClosed /\ VerdictsMatch /\ FromOffer /\ RefusedTruly
      /\ ReadyArmed
      /\ RegistrationsApply /\ ReceivedKept /\ NoReleaseLeft
      /\ \A f \in Offer : f[1] \in Nat /\ f[1] \in Seqs /\ f[2] \in Op /\ f = <<f[1], f[2]>>
      /\ cursor \in Nat
  BY ReceiverConstants DEF HealContext, ReadyTracked, NothingMissed, TypeOK, Seqs
<1>1. op = NoOp /\ page = {}
  BY DEF HealContext, HandOnRecord, HandInPage
<1>2. \A f \in Offer : f[1] <= cursor => Received(f)
  BY <1>0, <1>1, ChainConstants DEF Received
<1>3. \A m \in Member : Releasable(m) = {}
  BY <1>0 DEF ReadyArmed, NoReleaseLeft, Scheduled
<1>4. ASSUME NEW f \in Offer, f[1] <= cursor, f[2] \notin Logged,
             ASeq[f[2]] = HeadSeq(Logged, Author[f[2]]) + 1
      PROVE  FALSE
  <2> DEFINE m == Author[f[2]]
  <2>1. Received(f) /\ f[2] \in Op /\ m \in Honest /\ m \in Member
    BY <1>0, <1>2, <1>4, ChainConstants DEF ServesHonestChains
  <2>2. PICK i \in GapRows(m) : quar[i].op = f[2]
    BY <1>0, <1>4, <2>1 DEF ReceivedKept, Kept
  <2>3. ChainVerdict(Logged, f[2]) \in {"accept", "idempotent_skip", "author_chain_gap"}
    BY <1>0, <2>1, HonestVerdict DEF HeldBy
  <2>4. ChainVerdict(Logged, f[2]) \notin ChainRefusals
    BY <1>4, <2>3 DEF ChainVerdict, ChainRefusals
  <2>5. i \in Releasable(m)
    BY <1>4, <2>2, <2>4 DEF Releasable, Claimants
  <2>6. QED
    BY <1>3, <2>1, <2>5
<1>5. e[2] \in Logged
  <2> SUFFICES ASSUME e[2] \notin Logged PROVE FALSE
    OBVIOUS
  <2> DEFINE m    == Author[e[2]]
             head == HeadSeq(Logged, m)
  <2>1. e[2] \in Op /\ m \in Honest /\ m \in Member /\ ASeq[e[2]] \in Nat /\ ASeq[e[2]] >= 1
    <3>1. e[2] \in Op /\ m \in Honest /\ m \in Member /\ ASeq[e[2]] \in Nat
      BY <1>0, ChainConstants DEF ServesHonestChains
    <3>2. QED
      BY <3>1 DEF Honest, SignsOneChain, HeldBy
  <2>2. head \in Nat /\ head < ASeq[e[2]]
    <3>1. CASE HeldBy(Logged, m) = {}
      <4>1. head = 0
        BY <3>1 DEF HeadSeq
      <4>2. QED
        BY <2>1, <4>1
    <3>2. CASE HeldBy(Logged, m) # {}
      <4>1. PICK h \in HeldBy(Logged, m) : IsHead(Logged, h)
        BY <1>0, <2>1, <3>2 DEF HeadsExist
      <4>2. h \in Logged /\ Author[h] = m /\ ASeq[h] \in Nat /\ Logged \in SUBSET Op
        BY <1>0, <4>1, LoggedOps DEF HeldBy
      <4>3. HeadSeq(Logged, Author[h]) = ASeq[h]
        BY <4>1, <4>2, HeadOfLog
      <4>4. ~(ASeq[e[2]] <= ASeq[h])
        BY <1>0, <2>1, <4>1 DEF DownClosed, HeldBy
      <4>5. QED
        BY <2>1, <4>2, <4>3, <4>4
    <3>3. QED
      BY <3>1, <3>2
  <2> HIDE DEF head
  <2>3. CASE ASeq[e[2]] = head + 1
    BY <1>4, <2>3 DEF head
  <2>4. CASE ASeq[e[2]] > head + 1
    <3>1. head + 1 \in 1..(ASeq[e[2]] - 1)
      BY <2>1, <2>2, <2>4
    <3>2. PICK f \in Offer : f[1] < e[1] /\ Author[f[2]] = m /\ ASeq[f[2]] = head + 1
      BY <3>1 DEF ServesHonestChains
    <3>3. f[1] <= cursor
      BY <1>0, <3>2
    <3>4. f[2] \notin Logged
      <4>1. SUFFICES ASSUME f[2] \in Logged PROVE FALSE
        OBVIOUS
      <4>2. f[2] \in HeldBy(Logged, m)
        BY <3>2, <4>1 DEF HeldBy
      <4>3. PICK h \in HeldBy(Logged, m) : IsHead(Logged, h)
        BY <1>0, <2>1, <4>2 DEF HeadsExist
      <4>4. h \in Logged /\ Author[h] = m /\ ASeq[h] \in Nat /\ Logged \in SUBSET Op
        BY <1>0, <4>3, LoggedOps DEF HeldBy
      <4>5. head = ASeq[h]
        BY <4>3, <4>4, HeadOfLog DEF head
      <4>6. ASeq[f[2]] <= ASeq[h]
        BY <4>2, <4>3, <4>4 DEF IsHead
      <4>7. QED
        BY <2>2, <3>2, <4>5, <4>6
    <3>5. QED
      BY <1>4, <3>2, <3>3, <3>4 DEF head
  <2>5. QED
    BY <2>1, <2>2, <2>3, <2>4
<1>6. log[e[1]] = e[2] /\ e[2] # NoOp
  <2>1. PICK t \in Seqs : log[t] = e[2] /\ e[2] # NoOp
    BY <1>5 DEF Logged
  <2>2. <<t, e[2]>> \in Offer /\ <<t, e[2]>>[1] = t /\ <<t, e[2]>>[2] = e[2]
    BY <1>0, <2>1 DEF FromOffer
  <2>3. <<t, e[2]>> = e
    BY <2>2 DEF ServesHonestChains
  <2>4. t = e[1]
    BY <2>2, <2>3
  <2>5. QED
    BY <2>1, <2>4
<1>7. stamp[e[1]] # "none"
  BY <1>0, <1>6 DEF VerdictsMatch
<1>8. Class[e[2]] = "content" /\ Verdict[e[2]] = "apply" => e[2] \in reduced
  <2> SUFFICES ASSUME Class[e[2]] = "content", Verdict[e[2]] = "apply"
               PROVE  e[2] \in reduced
    OBVIOUS
  <2>1. stamp[e[1]] # "refused"
    BY <1>0, <1>6 DEF RefusedTruly
  <2>2. stamp[e[1]] = "applied"
    BY <1>0, <1>7, <2>1 DEF TypeOK
  <2>3. QED
    BY <1>0, <1>6, <2>2 DEF VerdictsMatch
<1>9. QED
  BY <1>5, <1>7, <1>8 DEF Settled

\* The honest chains hold their registrations first.
LEMMA ChainsRegisterFirst ==
  ASSUME ServesHonestChains
  PROVE  RegistersFirst
<1> SUFFICES ASSUME NEW e \in Offer, NEW f \in Offer, Class[e[2]] = "register",
                    Class[f[2]] = "content", Author[e[2]] = Author[f[2]]
             PROVE  e[1] < f[1]
  BY DEF RegistersFirst
<1>0. /\ e[2] \in Op /\ f[2] \in Op /\ SignsOneChain(Author[e[2]])
      /\ ASeq[e[2]] = 1 /\ ASeq[f[2]] \in Nat /\ ASeq[f[2]] >= 1 /\ ASeq[f[2]] # 1
  <2>1. e[2] \in Op /\ f[2] \in Op /\ Author[e[2]] \in Honest
    BY ReceiverConstants DEF ServesHonestChains
  <2>2. SignsOneChain(Author[e[2]]) /\ ASeq[e[2]] = 1 /\ ASeq[f[2]] \in Nat
    BY <2>1, ChainConstants DEF ServesHonestChains, Honest
  <2>3. ASeq[f[2]] >= 1 /\ (ASeq[f[2]] = ASeq[e[2]] => f[2] = e[2])
    BY <2>1, <2>2 DEF SignsOneChain, HeldBy
  <2>4. QED
    BY <2>1, <2>2, <2>3
<1>1. 1 \in 1..(ASeq[f[2]] - 1)
  BY <1>0
<1>2. PICK g \in Offer : g[1] < f[1] /\ Author[g[2]] = Author[f[2]] /\ ASeq[g[2]] = 1
  BY <1>1 DEF ServesHonestChains
<1>3. g[2] = e[2]
  <2>1. g[2] \in Op
    BY ReceiverConstants
  <2>2. QED
    BY <1>0, <1>2, <2>1 DEF SignsOneChain, HeldBy
<1>4. g = e
  BY <1>3 DEF ServesHonestChains
<1>5. QED
  BY <1>2, <1>4

\* "Arrival order 3, 2, 1 converges in a single sync": where the server holds the chains
\* of honest authors and shows each page as it holds it, shuffled at most, a pull that no
\* fault cut short leaves everything it was served logged and judged, and reduced where
\* its verdict applies it (_releaseChainSuccessors).
THEOREM OneSyncHeals ==
  ASSUME ServesHonestChains, ReleasesGoThrough, NothingOnControl
  PROVE  Spec => []HealsInOneSync
<1> DEFINE Inv == /\ VerdictsMatch /\ ReadyTracked
                  /\ FromOffer /\ HandInPage /\ RefusedTruly /\ NothingMissed
<1>0. RegistersFirst /\ VerdictsAreWhole
  BY ChainsRegisterFirst DEF ReleasesGoThrough, VerdictsAreWhole
<1>1. Init => Inv
  <2> SUFFICES ASSUME Init PROVE Inv
    OBVIOUS
  <2>0. \A e \in Offer : e[1] \in Nat /\ e[1] # 0 /\ e[2] \in Op
    BY ReceiverConstants DEF Seqs
  <2>1. VerdictsMatch
    BY DEF Init, VerdictsMatch
  <2>2. ReadyTracked
    BY DEF Init, ReadyTracked, PagesAreWhole, GapsOfRegistered, GapIsAhead, PickIsReady,
       NoneLeft, ReadyArmed, Releasable, Claimants, GapRows
  <2>3. FromOffer /\ HandInPage /\ RefusedTruly
    BY DEF Init, FromOffer, HandInPage, RefusedTruly
  <2>4. \A e \in Offer : ~Received(e) /\ e # <<at, op>>
    BY <2>0 DEF Init, Received
  <2>5. NothingMissed
    BY <2>4
    DEF Init, NothingMissed, RegistrationsApply, Registrations, ControlInOrder,
        ReceivedKept, NoReleaseLeft, Interrupted
  <2>6. QED
    BY <2>1, <2>2, <2>3, <2>5
<1>2. /\ TypeOK /\ HeadsExist /\ ChainLinked /\ DownClosed /\ VerdictAwaited
      /\ HandOnRecord /\ Inv /\ [Next]_vars
      => Inv'
  <2> SUFFICES ASSUME TypeOK, HeadsExist, ChainLinked, DownClosed, VerdictAwaited,
                      HandOnRecord, Inv, [Next]_vars
               PROVE  Inv'
    OBVIOUS
  <2>1. VerdictsMatch'
    BY <1>0, VerdictStep
  <2>2. ReadyTracked'
    BY <1>0, PagesStep, GapsOfRegisteredStep, GapIsAheadStep, PickStep, ReadyStep
    DEF ReadyTracked
  <2>3. FromOffer' /\ RefusedTruly'
    BY FromOfferStep, RefusedTrulyStep
  <2>4. HandInPage'
    BY HandInPageStep DEF ReadyTracked
  <2>5. NothingMissed'
    BY <1>0, NothingMissedStep DEF HealContext
  <2>6. QED
    BY <2>1, <2>2, <2>3, <2>4, <2>5
<1>3. TypeOK /\ HeadsExist /\ DownClosed /\ VerdictAwaited /\ HandOnRecord /\ Inv
        => HealsInOneSync
  BY NothingMissedHeals DEF HealContext
<1>4. QED
  BY <1>1, <1>2, <1>3, TypeCorrect, HeadsExistInvariant, LogIsChains, DownClosedInvariant,
     VerdictAwaitedInvariant, HandOnRecordInvariant, PTL DEF Spec

-----------------------------------------------------------------------------
(* The chains a device keeps.                                               *)

\* A chain without holes: one op at every author_seq from 1 to the head, each but the
\* first naming the one before it.
WholeIn(held, m) ==
  /\ LinkedIn(held, m)
  /\ HeadSeq(held, m) \in Nat
  /\ \A n \in 1..HeadSeq(held, m) : \E o \in HeldBy(held, m) : ASeq[o] = n
  /\ \A o \in HeldBy(held, m) : ASeq[o] \in 1..HeadSeq(held, m)

\* o goes on where the chain ends.
NextOf(held, o) ==
  /\ ASeq[o] = HeadSeq(held, Author[o]) + 1
  /\ \/ ASeq[o] = 1
     \/ /\ Prev[o] \in HeldBy(held, Author[o])
        /\ ASeq[o] = ASeq[Prev[o]] + 1

LEMMA WholeGrows ==
  ASSUME NEW held \in SUBSET Op, NEW o \in Op, WholeIn(held, Author[o]), NextOf(held, o)
  PROVE  /\ WholeIn(held \cup {o}, Author[o])
         /\ HeadSeq(held \cup {o}, Author[o]) = HeadSeq(held, Author[o]) + 1
<1> DEFINE m == Author[o]
           new == held \cup {o}
           h == HeadSeq(held, m)
<1>1. HeldBy(new, m) = HeldBy(held, m) \cup {o} /\ new \in SUBSET Op /\ o \in new
  BY DEF HeldBy
<1>2. h \in Nat /\ ASeq[o] = h + 1
  BY DEF WholeIn, NextOf
<1>3. \A p \in HeldBy(held, m) : ASeq[p] \in 1..h
  BY DEF WholeIn
<1>4. HeadSeq(new, m) = h + 1
  <2>1. \A p \in HeldBy(new, m) : ASeq[p] <= ASeq[o]
    <3> HIDE DEF new, m, h
    <3> QED BY <1>1, <1>2, <1>3
  <2>2. IsHead(new, o)
    BY <1>1, <2>1 DEF IsHead
  <2> HIDE DEF new
  <2> QED BY <1>1, <1>2, <2>2, HeadOfLog
<1>5. LinkedIn(new, m)
  <2>1. \A p, q \in HeldBy(new, m) : ASeq[p] = ASeq[q] => p = q
    <3>1. \A p, q \in HeldBy(held, m) : ASeq[p] = ASeq[q] => p = q
      BY DEF WholeIn, LinkedIn
    <3> HIDE DEF new, m, h
    <3> QED BY <1>1, <1>2, <1>3, <3>1
  <2>2. \A p \in HeldBy(held, m) :
          ASeq[p] = 1 \/ (Prev[p] \in HeldBy(held, m) /\ ASeq[p] = ASeq[Prev[p]] + 1)
    BY DEF WholeIn, LinkedIn
  <2>3. ASeq[o] = 1 \/ (Prev[o] \in HeldBy(held, m) /\ ASeq[o] = ASeq[Prev[o]] + 1)
    BY DEF NextOf
  <2> HIDE DEF new, m, h
  <2> QED BY <1>1, <2>1, <2>2, <2>3 DEF LinkedIn
<1>6. \A n \in 1..(h + 1) : \E p \in HeldBy(new, m) : ASeq[p] = n
  <2>1. \A n \in 1..h : \E p \in HeldBy(held, m) : ASeq[p] = n
    BY DEF WholeIn
  <2>2. ASSUME NEW n \in 1..(h + 1) PROVE n \in 1..h \/ n = h + 1
    <3> HIDE DEF h
    <3> QED BY <1>2
  <2> HIDE DEF new, m, h
  <2> QED BY <1>1, <1>2, <2>1, <2>2
<1>7. \A p \in HeldBy(new, m) : ASeq[p] \in 1..(h + 1)
  <2> HIDE DEF new, m, h
  <2> QED BY <1>1, <1>2, <1>3
<1>8. h + 1 \in Nat
  <2> HIDE DEF h
  <2> QED BY <1>2
<1> QED BY <1>4, <1>5, <1>6, <1>7, <1>8 DEF WholeIn

\* A chain depends on the ops of its author only.
LEMMA WholeLocal ==
  ASSUME NEW held \in SUBSET Op, NEW new \in SUBSET Op, NEW m \in Member,
         HeldBy(new, m) = HeldBy(held, m), WholeIn(held, m)
  PROVE  /\ WholeIn(new, m) /\ HeadSeq(new, m) = HeadSeq(held, m)
         /\ ChainIn(new, m) = ChainIn(held, m)
<1>1. HeldBy(held, m) # {} => \E h \in HeldBy(held, m) : IsHead(held, h)
  <2> SUFFICES ASSUME HeldBy(held, m) # {}
               PROVE  \E h \in HeldBy(held, m) : IsHead(held, h)
    OBVIOUS
  <2>1. HeadSeq(held, m) \in 1..HeadSeq(held, m)
    BY DEF WholeIn
  <2>2. PICK h \in HeldBy(held, m) : ASeq[h] = HeadSeq(held, m)
    BY <2>1 DEF WholeIn
  <2>3. h \in held /\ Author[h] = m
    BY DEF HeldBy
  <2>4. \A o \in HeldBy(held, m) : ASeq[o] <= ASeq[h]
    BY <2>2 DEF WholeIn
  <2> QED BY <2>3, <2>4 DEF IsHead
<1>2. HeadSeq(new, m) = HeadSeq(held, m)
  BY <1>1, HeldLocal
<1>3. ChainIn(new, m) = ChainIn(held, m)
  BY <1>2 DEF ChainIn
<1>4. WholeIn(new, m)
  BY <1>2 DEF WholeIn, LinkedIn
<1> QED BY <1>2, <1>3, <1>4

\* The sequence a whole chain spells.
LEMMA ChainSpelled ==
  ASSUME NEW held, NEW m, WholeIn(held, m)
  PROVE  /\ Len(ChainIn(held, m)) = HeadSeq(held, m)
         /\ DOMAIN ChainIn(held, m) = 1..HeadSeq(held, m)
         /\ \A o \in HeldBy(held, m) :
              ASeq[o] \in DOMAIN ChainIn(held, m) /\ ChainIn(held, m)[ASeq[o]] = o
<1>1. HeadSeq(held, m) \in Nat
  BY DEF WholeIn
<1>2. DOMAIN ChainIn(held, m) = 1..HeadSeq(held, m)
  BY DEF ChainIn
<1>3. Len(ChainIn(held, m)) = HeadSeq(held, m)
  BY <1>1, <1>2
<1>4. ASSUME NEW o \in HeldBy(held, m)
      PROVE  ASeq[o] \in 1..HeadSeq(held, m) /\ ChainIn(held, m)[ASeq[o]] = o
  <2>1. ASeq[o] \in 1..HeadSeq(held, m)
    BY DEF WholeIn
  <2> DEFINE c == CHOOSE p \in HeldBy(held, m) : ASeq[p] = ASeq[o]
  <2>2. ChainIn(held, m)[ASeq[o]] = c
    BY <2>1 DEF ChainIn
  <2>3. c \in HeldBy(held, m) /\ ASeq[c] = ASeq[o]
    OBVIOUS
  <2> HIDE DEF c
  <2>4. c = o
    BY <2>3 DEF WholeIn, LinkedIn
  <2> QED BY <2>1, <2>2, <2>4
<1> QED BY <1>2, <1>3, <1>4

\* What is logged of such an author goes on where its chain ends.
LEMMA LoggedIsNext ==
  ASSUME TypeOK, HeadsExist, NEW s \in Seqs, NEW o \in Op, Logs(s, o),
         Author[o] \in ContentAuthors, WholeIn(Logged, Author[o])
  PROVE  NextOf(Logged, o)
<1>1. Class[o] = "content" \/ Class[o] = "register"
  <2>1. o \in HeldBy(Op, Author[o])
    BY DEF HeldBy
  <2> QED BY <2>1, ReceiverConstants DEF ContentAuthors
<1>2. CASE Class[o] = "content"
  <2>1. ChainVerdict(Logged, o) = "accept"
    BY <1>2, LoggedContentAccepted
  <2>2. CASE HeldBy(Logged, Author[o]) = {} /\ ASeq[o] = 1
    BY <2>2 DEF NextOf, HeadSeq
  <2>3. CASE \E h \in HeldBy(Logged, Author[o]) :
               IsHead(Logged, h) /\ Prev[o] = h /\ ASeq[o] = ASeq[h] + 1
    <3>1. PICK h \in HeldBy(Logged, Author[o]) :
            IsHead(Logged, h) /\ Prev[o] = h /\ ASeq[o] = ASeq[h] + 1
      BY <2>3
    <3>2. h \in Logged /\ Author[h] = Author[o]
      BY DEF HeldBy
    <3>3. HeadSeq(Logged, Author[o]) = ASeq[h]
      BY <3>1, <3>2, HeadOfLog, LoggedOps
    <3> QED BY <3>1, <3>3 DEF NextOf
  <2> QED BY <2>1, <2>2, <2>3, AcceptedStandsOnHead
<1>3. CASE Class[o] = "register"
  <2>1. ASeq[o] = 1
    BY <1>3 DEF Logs, Fate
  <2>2. \A l \in HeldBy(Logged, Author[o]) : ASeq[l] # 1
    BY <2>1 DEF Logs, SlotTaken
  <2>3. HeadSeq(Logged, Author[o]) \in Nat /\ ~(1 \in 1..HeadSeq(Logged, Author[o]))
    BY <2>2 DEF WholeIn
  <2>4. HeadSeq(Logged, Author[o]) = 0
    BY <2>3
  <2> QED BY <2>1, <2>4 DEF NextOf
<1> QED BY <1>1, <1>2, <1>3

ChainsWhole == \A m \in ContentAuthors : WholeIn(Logged, m)

\* One step logs at most one op, and it goes on where its author's chain ends.
LEMMA OneChainGrows ==
  ASSUME TypeOK, HeadsExist, ChainsWhole, [Next]_vars
  PROVE  \/ Logged' = Logged
         \/ \E o \in Op : /\ Logged' = Logged \cup {o}
                          /\ Author[o] \in ContentAuthors => NextOf(Logged, o)
<1>1. CASE log' = log
  BY <1>1 DEF Logged
<1>2. ASSUME NEW s \in Seqs, NEW o \in Op, Logs(s, o), log' = [log EXCEPT ![s] = o]
      PROVE  /\ Logged' = Logged \cup {o}
             /\ Author[o] \in ContentAuthors => NextOf(Logged, o)
  BY <1>2, LoggedAfter, LoggedIsNext DEF ChainsWhole
<1> QED BY <1>1, <1>2, LogStep

LEMMA ChainsWholeInvariant == Spec => []ChainsWhole
<1>1. Init => ChainsWhole
  <2> SUFFICES ASSUME Init, NEW m \in ContentAuthors PROVE WholeIn(Logged, m)
    BY DEF ChainsWhole
  <2>1. HeldBy(Logged, m) = {}
    BY DEF Init, Logged, HeldBy
  <2>2. HeadSeq(Logged, m) = 0
    BY <2>1 DEF HeadSeq
  <2> QED BY <2>1, <2>2 DEF WholeIn, LinkedIn
<1>2. TypeOK /\ HeadsExist /\ ChainsWhole /\ [Next]_vars => ChainsWhole'
  <2> SUFFICES ASSUME TypeOK, HeadsExist, ChainsWhole, [Next]_vars PROVE ChainsWhole'
    OBVIOUS
  <2>1. Logged \in SUBSET Op
    BY LoggedOps
  <2>2. CASE Logged' = Logged
    BY <2>2 DEF ChainsWhole, WholeIn, LinkedIn
  <2>3. ASSUME NEW o \in Op, Logged' = Logged \cup {o},
               Author[o] \in ContentAuthors => NextOf(Logged, o),
               NEW m \in ContentAuthors
        PROVE  WholeIn(Logged \cup {o}, m)
    <3>1. WholeIn(Logged, m) /\ m \in Member
      BY DEF ChainsWhole, ContentAuthors
    <3>2. CASE Author[o] = m
      BY <2>1, <2>3, <3>1, <3>2, WholeGrows
    <3>3. CASE Author[o] # m
      <4> DEFINE new == Logged \cup {o}
      <4>1. HeldBy(new, m) = HeldBy(Logged, m) /\ new \in SUBSET Op
        BY <2>1, <3>3 DEF HeldBy
      <4> HIDE DEF new
      <4>2. WholeIn(new, m)
        BY <2>1, <3>1, <4>1, WholeLocal
      <4> QED BY <4>2 DEF new
    <3> QED BY <3>2, <3>3
  <2>4. ASSUME NEW o \in Op, Logged' = Logged \cup {o},
               Author[o] \in ContentAuthors => NextOf(Logged, o)
        PROVE  ChainsWhole'
    <3>1. \A m \in ContentAuthors : WholeIn(Logged \cup {o}, m)
      BY <2>3, <2>4
    <3>2. \A m \in ContentAuthors : WholeIn(Logged', m)
      BY <2>4, <3>1
    <3> QED BY <3>2 DEF ChainsWhole
  <2> QED BY <2>2, <2>4, OneChainGrows
<1> QED BY <1>1, <1>2, TypeCorrect, HeadsExistInvariant, PTL DEF Spec

\* What the reducer has applied is in the log.
AppliedIsLogged == reduced \subseteq Logged

\* The reducer gains ops of the log, and loses none.
LEMMA ReducedStep ==
  ASSUME TypeOK, VerdictAwaited, AppliedIsLogged, [Next]_vars
  PROVE  reduced \subseteq reduced' /\ reduced' \subseteq Logged'
<1>1. Logged \subseteq Logged'
  BY LogOnlyGrows
<1>2. CASE Judge
  <2>1. at \in Seqs /\ op \in Op /\ log[at] = op
    BY <1>2 DEF Judge, TypeOK, VerdictAwaited
  <2>2. op \in Logged
    BY <2>1, ChainConstants DEF Logged
  <2>3. reduced' = reduced \/ reduced' = reduced \cup {op}
    BY <1>2 DEF Judge
  <2> QED BY <1>1, <2>2, <2>3 DEF AppliedIsLogged
<1>3. CASE Replay
  <2> DEFINE s == quar[claim].seq
             o == quar[claim].op
  <2>1. s \in Seqs /\ o \in Op
    <3>1. claim \in 1..Len(quar) /\ quar \in Seq(QuarRow)
      BY <1>3 DEF Replay, TypeOK
    <3>2. quar[claim] \in QuarRow
      BY <3>1, ElementOfSeq
    <3> QED BY <3>2 DEF QuarRow
  <2>2. /\ log' = LogAfter(s, o)
        /\ reduced' = reduced \cup
             (IF Applies(s, o) /\ Class[o] = "content" THEN {o} ELSE {})
    BY <1>3 DEF Replay
  <2> HIDE DEF s, o
  <2>3. Applies(s, o) => o \in Logged'
    <3> SUFFICES ASSUME Applies(s, o) PROVE o \in Logged'
      OBVIOUS
    <3>1. Logs(s, o) /\ log' = [log EXCEPT ![s] = o]
      BY <2>2 DEF Applies, LogAfter
    <3> QED BY <2>1, <3>1, LoggedAfter
  <2> QED BY <1>1, <2>2, <2>3 DEF AppliedIsLogged
<1>4. CASE ~Judge /\ ~Replay
  <2>1. reduced' = reduced
    BY <1>4
    DEF Next, Receive, Release, FetchPage, EndOfPages, StampApplied, File, Accuse, Scan,
        MarkStarted, ClearStarted, SettleAlarms, SaveCursor, EndPull, Crash, StorageFault,
        Unwind, ResumeRelease, ReceiveStaleHeld, ReceiveStaleOther, ReceiveContent,
        ReceiveControl, durable, vars
  <2> QED BY <1>1, <2>1 DEF AppliedIsLogged
<1> QED BY <1>2, <1>3, <1>4

LEMMA AppliedIsLoggedInvariant == Spec => []AppliedIsLogged
<1>1. Init => AppliedIsLogged
  BY DEF Init, AppliedIsLogged
<1>2. TypeOK /\ VerdictAwaited /\ AppliedIsLogged /\ [Next]_vars => AppliedIsLogged'
  BY ReducedStep DEF AppliedIsLogged
<1> QED BY <1>1, <1>2, TypeCorrect, VerdictAwaitedInvariant, PTL DEF Spec

-----------------------------------------------------------------------------
(* The refinement.                                                          *)

\* What is applied of such an author stands in its chain.
LEMMA AppliedIsStored ==
  ASSUME ChainsWhole, AppliedIsLogged
  PROVE  appliedOps \subseteq HeldLog!Stored
<1> SUFFICES ASSUME NEW o \in appliedOps PROVE o \in HeldLog!Stored
  OBVIOUS
<1> DEFINE m == Author[o]
<1>1. m \in ContentAuthors /\ o \in HeldBy(Logged, m)
  BY DEF appliedOps, AppliedIsLogged, HeldBy
<1>2. ASeq[o] \in DOMAIN ChainIn(Logged, m) /\ ChainIn(Logged, m)[ASeq[o]] = o
  BY <1>1, ChainSpelled DEF ChainsWhole
<1> HIDE DEF m
<1>3. keptChains[m] = ChainIn(Logged, m)
  BY <1>1 DEF keptChains
<1>4. ASeq[o] \in DOMAIN keptChains[m] /\ keptChains[m][ASeq[o]] = o
  BY <1>2, <1>3
<1> QED BY <1>1, <1>4 DEF HeldLog!Stored, keptChains

LEMMA AppliedIsStoredNext ==
  ChainsWhole' /\ AppliedIsLogged' => (appliedOps \subseteq HeldLog!Stored)'
<1>1. ChainsWhole /\ AppliedIsLogged => appliedOps \subseteq HeldLog!Stored
  BY AppliedIsStored
<1> QED BY <1>1, PTL

\* An op that goes on where a chain ends lengthens that chain at its end.
LEMMA ChainLengthens ==
  ASSUME NEW held \in SUBSET Op, NEW o \in Op, WholeIn(held, Author[o]), NextOf(held, o)
  PROVE  HeldLog!Extends(ChainIn(held \cup {o}, Author[o]), ChainIn(held, Author[o]))
<1> DEFINE m == Author[o]
           new == held \cup {o}
           l == ChainIn(held, m)
           l2 == ChainIn(new, m)
<1>1. WholeIn(held, m) /\ WholeIn(new, m) /\ HeadSeq(new, m) = HeadSeq(held, m) + 1
  BY WholeGrows
<1>2. HeadSeq(held, m) \in Nat
  BY <1>1 DEF WholeIn
<1>3. \A p \in HeldBy(held, m) : p \in HeldBy(new, m)
  BY DEF HeldBy
<1> HIDE DEF new, m
<1>4. Len(l) = HeadSeq(held, m) /\ Len(l2) = HeadSeq(new, m)
  BY <1>1, ChainSpelled
<1>5. ASSUME NEW i \in 1..Len(l) PROVE l2[i] = l[i]
  <2>1. PICK p \in HeldBy(held, m) : ASeq[p] = i
    BY <1>1, <1>4 DEF WholeIn
  <2> QED BY <1>1, <1>3, <2>1, ChainSpelled
<1>6. Len(l) <= Len(l2)
  BY <1>1, <1>2, <1>4
<1> QED BY <1>5, <1>6 DEF HeldLog!Extends, m, new

LEMMA KeptInit == Init => HeldLog!Init
<1> SUFFICES ASSUME Init PROVE HeldLog!Init
  OBVIOUS
<1>1. appliedOps = {}
  BY DEF Init, appliedOps
<1> QED BY <1>1 DEF HeldLog!Init, keptChains

LEMMA KeptNext ==
  ASSUME TypeOK, HeadsExist, VerdictAwaited, AppliedIsLogged, ChainsWhole,
         AppliedIsLogged', ChainsWhole', [Next]_vars
  PROVE  HeldLog!ReaderNext \/ UNCHANGED <<keptChains, appliedOps>>
<1>1. appliedOps \subseteq appliedOps'
  BY ReducedStep DEF appliedOps
<1>2. appliedOps' \subseteq HeldLog!Stored'
  BY AppliedIsStoredNext
<1>3. Logged \in SUBSET Op
  BY LoggedOps
<1>4. ASSUME keptChains' = keptChains PROVE HeldLog!Acknowledge
  <2>1. HeldLog!Stored' = HeldLog!Stored
    BY <1>4 DEF HeldLog!Stored, keptChains
  <2> QED BY <1>1, <1>2, <1>4, <2>1 DEF HeldLog!Acknowledge, keptChains, appliedOps
<1>5. CASE Logged' = Logged
  <2>1. keptChains' = keptChains
    BY <1>5 DEF keptChains, ChainIn
  <2> QED BY <1>4, <2>1 DEF HeldLog!ReaderNext
<1>6. ASSUME NEW o \in Op, Logged' = Logged \cup {o},
             Author[o] \in ContentAuthors => NextOf(Logged, o)
      PROVE  HeldLog!ReaderNext
  <2> DEFINE a == Author[o]
             new == Logged \cup {o}
  <2>1. ASSUME NEW m \in ContentAuthors
        PROVE  keptChains[m] = ChainIn(Logged, m) /\ keptChains'[m] = ChainIn(new, m)
    BY <1>6 DEF keptChains, ChainIn
  <2>2. ASSUME NEW m \in ContentAuthors, m # a PROVE keptChains'[m] = keptChains[m]
    <3>1. HeldBy(new, m) = HeldBy(Logged, m) /\ new \in SUBSET Op
      BY <1>3, <2>2 DEF HeldBy
    <3>2. m \in Member /\ WholeIn(Logged, m)
      BY DEF ChainsWhole, ContentAuthors
    <3> HIDE DEF new, a
    <3> QED BY <1>3, <2>1, <3>1, <3>2, WholeLocal
  <2>3. CASE a \in ContentAuthors
    <3>1. HeldLog!Extends(ChainIn(new, a), ChainIn(Logged, a))
      BY <1>3, <1>6, <2>3, ChainLengthens DEF ChainsWhole
    <3> HIDE DEF new, a
    <3>2. HeldLog!Extends(keptChains'[a], keptChains[a])
      BY <2>1, <2>3, <3>1
    <3>3. keptChains' = [keptChains EXCEPT ![a] = keptChains'[a]]
      BY <2>2, <2>3 DEF keptChains
    <3>4. HeldLog!TakeIn(a)
      BY <1>1, <1>2, <3>2, <3>3 DEF HeldLog!TakeIn, keptChains, appliedOps
    <3> QED BY <2>3, <3>4 DEF HeldLog!ReaderNext
  <2>4. CASE a \notin ContentAuthors
    <3> HIDE DEF new, a
    <3>1. \A m \in ContentAuthors : keptChains'[m] = keptChains[m]
      BY <2>2, <2>4
    <3>2. keptChains' = keptChains
      BY <3>1 DEF keptChains
    <3> QED BY <1>4, <3>2 DEF HeldLog!ReaderNext
  <2> QED BY <2>3, <2>4
<1> QED BY <1>5, <1>6, OneChainGrows

\* A device implements the reader's side of the append-only chains, whatever it is
\* served and wherever it dies or its writes fail: a step grows one author's chain at
\* its end, applies what the chains hold, or changes neither (pull, _receive,
\* _logReceived, _releaseChainSuccessors).
THEOREM ReceiverKeepsChainLog == Spec => KeepsChainLog
<1>1. /\ TypeOK /\ HeadsExist /\ VerdictAwaited /\ AppliedIsLogged /\ ChainsWhole
      /\ AppliedIsLogged' /\ ChainsWhole' /\ [Next]_vars
      => [HeldLog!ReaderNext]_<<keptChains, appliedOps>>
  BY KeptNext
<1>2. Spec => HeldLog!Init
  BY KeptInit DEF Spec
<1>3. Spec => [][HeldLog!ReaderNext]_<<keptChains, appliedOps>>
  BY <1>1, TypeCorrect, HeadsExistInvariant, VerdictAwaitedInvariant,
     AppliedIsLoggedInvariant, ChainsWholeInvariant, PTL DEF Spec
<1> QED BY <1>2, <1>3, PTL DEF KeepsChainLog, HeldLog!ReaderSpec, keptChains, appliedOps

-----------------------------------------------------------------------------
(* What two devices can make of one head.                                   *)

\* A nonempty set of naturals up to b has a greatest element.
LEMMA GreatestUpTo ==
  ASSUME NEW b \in Nat, NEW S \in SUBSET (0..b), S # {}
  PROVE  \E n \in S : \A k \in S : k <= n
<1> DEFINE Below == {ss \in Nat \X Nat : ss[1] < ss[2]}
           Rest  == {b - n : n \in S}
<1>1. IsWellFoundedOn(Below, Nat)
  BY NatLessThanWellFounded DEF OpToRel
<1>2. Rest \subseteq Nat /\ Rest # {}
  <2>1. \A n \in S : b - n \in Rest /\ b - n \in Nat
    OBVIOUS
  <2> QED BY <2>1
<1>3. PICK r \in Rest : \A q \in Rest : <<q, r>> \notin Below
  <2> HIDE DEF Below, Rest
  <2> QED BY <1>1, <1>2, WFMin
<1>4. PICK n \in S : r = b - n
  BY <1>3
<1>5. ASSUME NEW k \in S PROVE k <= n
  <2>1. b - k \in Rest /\ b - k \in Nat /\ r \in Nat
    BY <1>2
  <2>2. ~(b - k < r)
    BY <1>3, <2>1
  <2> QED BY <1>4, <2>1, <2>2
<1> QED BY <1>5

\* Two linked histories that share an op share one at every author_seq below it: the
\* hash each op carries leads both of them down the same way.
LEMMA SharedBelow ==
  ASSUME NEW a \in SUBSET Op, NEW b \in SUBSET Op, NEW m, LinkedIn(a, m), LinkedIn(b, m),
         NEW o \in Op, o \in HeldBy(a, m), o \in HeldBy(b, m), NEW n \in 1..ASeq[o]
  PROVE  \E q \in HeldBy(a, m) : q \in HeldBy(b, m) /\ ASeq[q] = n
<1> DEFINE Shared(k) == \E q \in HeldBy(a, m) : q \in HeldBy(b, m) /\ ASeq[q] = k
           Apart == {k \in 1..ASeq[o] : ~Shared(k)}
<1> SUFFICES ASSUME n \in Apart PROVE FALSE
  OBVIOUS
<1>1. ASeq[o] \in Nat
  BY ChainConstants
<1>2. Apart \in SUBSET (0..ASeq[o]) /\ Apart # {}
  BY <1>1
<1>3. PICK k \in Apart : \A j \in Apart : j <= k
  <2> HIDE DEF Apart
  <2> QED BY <1>1, <1>2, GreatestUpTo
<1>4. k \in 1..ASeq[o] /\ ~Shared(k)
  OBVIOUS
<1>5. Shared(ASeq[o])
  OBVIOUS
<1>6. k # ASeq[o]
  BY <1>4, <1>5
<1>7. k + 1 \in 1..ASeq[o] /\ k + 1 \notin Apart /\ k + 1 # 1
  <2> HIDE DEF Apart, Shared
  <2> QED BY <1>1, <1>3, <1>4, <1>6
<1>8. PICK q \in HeldBy(a, m) : q \in HeldBy(b, m) /\ ASeq[q] = k + 1
  BY <1>7
<1>9. /\ Prev[q] \in HeldBy(a, m) /\ Prev[q] \in HeldBy(b, m)
      /\ ASeq[q] = ASeq[Prev[q]] + 1
  <2> HIDE DEF Apart, Shared
  <2> QED BY <1>7, <1>8 DEF LinkedIn
<1>10. ASeq[Prev[q]] \in Nat /\ k \in Nat
  BY <1>1, <1>4, <1>9, ChainConstants DEF HeldBy
<1>11. ASeq[Prev[q]] = k
  BY <1>8, <1>9, <1>10
<1> QED BY <1>4, <1>9, <1>11

\* author_seqs of a linked history start at 1.
LEMMA LinkedFromOne ==
  ASSUME NEW a \in SUBSET Op, NEW m, LinkedIn(a, m), NEW o \in HeldBy(a, m)
  PROVE  ASeq[o] \in Nat /\ ASeq[o] >= 1
<1>1. o \in Op
  BY DEF HeldBy
<1>2. ASeq[o] \in Nat
  BY <1>1, ChainConstants
<1>3. CASE Prev[o] \in HeldBy(a, m) /\ ASeq[o] = ASeq[Prev[o]] + 1
  <2>1. ASeq[Prev[o]] \in Nat
    BY <1>3, ChainConstants DEF HeldBy
  <2> QED BY <1>2, <1>3, <2>1
<1> QED BY <1>2, <1>3 DEF LinkedIn

LEMMA PastIncluded ==
  ASSUME NEW a \in SUBSET Op, NEW b \in SUBSET Op, NEW m, LinkedIn(a, m), LinkedIn(b, m),
         NEW o \in Op, o \in HeldBy(a, m), o \in HeldBy(b, m)
  PROVE  UpTo(a, m, ASeq[o]) \subseteq UpTo(b, m, ASeq[o])
<1> SUFFICES ASSUME NEW p \in UpTo(a, m, ASeq[o]) PROVE p \in UpTo(b, m, ASeq[o])
  OBVIOUS
<1>1. p \in HeldBy(a, m) /\ ASeq[p] <= ASeq[o]
  BY DEF UpTo
<1>2. ASeq[p] \in 1..ASeq[o]
  BY <1>1, LinkedFromOne
<1>3. PICK q \in HeldBy(a, m) : q \in HeldBy(b, m) /\ ASeq[q] = ASeq[p]
  BY <1>2, SharedBelow
<1>4. p = q
  BY <1>1, <1>3 DEF LinkedIn
<1> QED BY <1>1, <1>3, <1>4 DEF UpTo

\* At any moment of a device's life, whatever it was served and wherever it died: one op
\* of an author that it shares with another linked history, such as the log of any other
\* device, is proof that they share that author's whole past up to it
\* (chainVerdict, prev_author_hash).
THEOREM SharedOpProvesSharedPast == Spec => []SharedOpSharedPast
<1>1. TypeOK /\ ChainsWhole => SharedOpSharedPast
  <2> SUFFICES ASSUME TypeOK, ChainsWhole, NEW other \in SUBSET Op,
                      NEW m \in ContentAuthors, LinkedIn(other, m)
               PROVE  /\ LinkedIn(Logged, m)
                      /\ \A o \in HeldBy(Logged, m) \cap other :
                           UpTo(Logged, m, ASeq[o]) = UpTo(other, m, ASeq[o])
    BY DEF SharedOpSharedPast
  <2>1. LinkedIn(Logged, m) /\ Logged \in SUBSET Op
    BY LoggedOps DEF ChainsWhole, WholeIn
  <2>2. ASSUME NEW o \in HeldBy(Logged, m) \cap other
        PROVE  UpTo(Logged, m, ASeq[o]) = UpTo(other, m, ASeq[o])
    <3>1. o \in Op /\ o \in HeldBy(Logged, m) /\ o \in HeldBy(other, m)
      BY DEF HeldBy
    <3>2. UpTo(Logged, m, ASeq[o]) \subseteq UpTo(other, m, ASeq[o])
      BY <2>1, <3>1, PastIncluded
    <3>3. UpTo(other, m, ASeq[o]) \subseteq UpTo(Logged, m, ASeq[o])
      BY <2>1, <3>1, PastIncluded
    <3> QED BY <3>2, <3>3
  <2> QED BY <2>1, <2>2
<1> QED BY <1>1, TypeCorrect, ChainsWholeInvariant, PTL

==============================================================================
