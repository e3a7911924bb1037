------------------------------ MODULE Replicas ------------------------------
(***************************************************************************)
(* The devices of one Workspace writing and reducing: SyncClient.capture    *)
(* and the part of its receive path that reaches the reducer and the hybrid *)
(* logical clock.                                                           *)
(*                                                                          *)
(* Between devices there is only the set of ops authored so far: an op is   *)
(* delivered to a device at any time after it was queued, an author's ops   *)
(* in the order that author queued them (AuthorChain), different authors'   *)
(* in any order.  A device's process may end at any point and start again:  *)
(* captures and receipts under way and the hybrid logical clock are memory, *)
(* the outbox, the op log and the reduced state are not.  The op log and    *)
(* the reduced state are separate commits, and either may fail.             *)
(***************************************************************************)
EXTENDS Reducer, Sequences, FiniteSets

CONSTANTS
  Edit,        \* what one capture may write: a value or Blank, per cell
  SkewBound,   \* futureSkewBoundMs
  WallClocks,  \* "any": a wall clock may be set to anything; "forward": it only
               \* advances; "shared": all advance together, and past a relaunch
  MayRelaunch, \* whether processes end and start again
  MayFault,    \* whether storage fails under the reducer
  MaxOps,      \* bound: ops authored or on their way
  MaxWall,     \* bound: wall clock readings
  MaxCount     \* bound: the counter of a clock

ASSUME ReplicasConstants ==
  /\ \A e \in Edit : /\ e = [c \in Cell |-> e[c]]
                     /\ \A c \in Cell : e[c] = Blank \/ e[c] \in ValueOf(c)
  /\ SkewBound \in Nat /\ MaxOps \in Nat
  /\ MaxWall \in Nat /\ MaxCount \in Nat
  /\ WallClocks \in {"any", "forward", "shared"} /\ MayRelaunch \in BOOLEAN
  /\ MayFault \in BOOLEAN

VARIABLES
  ops,        \* every op authored, in the order the outboxes took them
  drafts,     \* memory: captures between HlcClock.send and the outbox insert
  queued,     \* memory: ops in the outbox whose capture has not reduced them yet
  received,   \* op_log: the ops a device pulled, refused ones included
  judging,    \* memory: the op logged and not judged by the reducer yet, or 0
  applied,    \* the ops its reducer applied, pulled or captured
  state,      \* reduced_fields, field_clocks and row_tombstones
  clock,      \* memory: HlcClock
  merging,    \* memory: the op reduced and not yet merged into the clock, or 0
  now,        \* the wall clock a device reads
  cut         \* history: the ops whose receipt was cut off behind the op log

vars == <<ops, drafts, queued, received, judging, applied, state, clock, merging, now, cut>>

OpRecord == [author : Device, hlc : Clock, edit : Edit]

Writes(o) == WritesAt(o.edit, o.hlc)

-----------------------------------------------------------------------------
Init ==
  /\ ops = <<>>
  /\ drafts = [d \in Device |-> {}] /\ queued = [d \in Device |-> {}]
  /\ received = [d \in Device |-> {}] /\ applied = [d \in Device |-> {}]
  /\ state = [d \in Device |-> [c \in Cell |-> Blank]]
  /\ clock = [d \in Device |-> NewClock] /\ merging = [d \in Device |-> 0]
  /\ judging = [d \in Device |-> 0] /\ cut = [d \in Device |-> {}]
  /\ now = [d \in Device |-> 0]

\* guardPayload: the op is not from the future of this device.
InTime(d, o) == o.hlc.wall <= now[d] + SkewBound

\* capture, its synchronous part: take a clock, encode, guard.
Draft(d, edit) ==
  LET h == Sent(clock[d], now[d])
      hlc == [wall |-> h.wall, count |-> h.count, by |-> d]
  IN  [author |-> d, hlc |-> hlc, edit |-> edit]

Capture(d, edit) ==
  /\ Len(ops) + Cardinality(UNION {drafts[e] : e \in Device}) < MaxOps
  /\ clock[d].count < MaxCount
  /\ clock' = [clock EXCEPT ![d] = Sent(clock[d], now[d])]
  /\ IF InTime(d, Draft(d, edit))
     THEN drafts' = [drafts EXCEPT ![d] = @ \cup {Draft(d, edit)}]
     ELSE UNCHANGED drafts
  /\ UNCHANGED <<ops, queued, received, judging, applied, state, merging, now, cut>>

\* _authorAndQueue: the outbox insert.
Queue(d, o) ==
  /\ o \in drafts[d]
  /\ drafts' = [drafts EXCEPT ![d] = @ \ {o}]
  /\ ops' = Append(ops, o)
  /\ queued' = [queued EXCEPT ![d] = @ \cup {Len(ops) + 1}]
  /\ UNCHANGED <<received, judging, applied, state, clock, merging, now, cut>>

\* ... or its refusal: an epoch below the floor, or one whose key is not here yet.
RefuseToAuthor(d, o) ==
  /\ o \in drafts[d]
  /\ drafts' = [drafts EXCEPT ![d] = @ \ {o}]
  /\ UNCHANGED <<ops, queued, received, judging, applied, state, clock, merging, now, cut>>

\* The capture's own apply, guarded once more.
ApplyOwn(d, i) ==
  /\ i \in queued[d]
  /\ queued' = [queued EXCEPT ![d] = @ \ {i}]
  /\ IF InTime(d, ops[i])
     THEN /\ state' = [state EXCEPT ![d] = Reduced(@, Writes(ops[i]))]
          /\ applied' = [applied EXCEPT ![d] = @ \cup {i}]
     ELSE UNCHANGED <<state, applied>>
  /\ UNCHANGED <<ops, drafts, received, judging, clock, merging, now, cut>>

\* _receive: an op in its place is logged, once ...
Deliver(d, i) ==
  /\ judging[d] = 0 /\ merging[d] = 0
  /\ i \in 1..Len(ops) /\ i \notin received[d]
  /\ \A j \in 1..(i - 1) : ops[j].author = ops[i].author => j \in received[d]
  /\ received' = [received EXCEPT ![d] = @ \cup {i}]
  /\ judging' = [judging EXCEPT ![d] = i]
  /\ UNCHANGED <<ops, drafts, queued, applied, state, clock, merging, now, cut>>

\* Mutant: a device's own op is taken for reduced when it comes back.
ReduceForeign(d) ==
  /\ judging[d] # 0
  /\ judging' = [judging EXCEPT ![d] = 0]
  /\ IF ops[judging[d]].author # d /\ InTime(d, ops[judging[d]])
     THEN /\ state' = [state EXCEPT ![d] = Reduced(@, Writes(ops[judging[d]]))]
          /\ applied' = [applied EXCEPT ![d] = @ \cup {judging[d]}]
          /\ merging' = [merging EXCEPT ![d] = judging[d]]
     ELSE UNCHANGED <<state, applied, merging>>
  /\ UNCHANGED <<ops, drafts, queued, received, clock, now, cut>>

\* Mutant: the clock of a refused op is merged all the same.
ReduceDragging(d) ==
  /\ judging[d] # 0
  /\ judging' = [judging EXCEPT ![d] = 0]
  /\ merging' = [merging EXCEPT ![d] = judging[d]]
  /\ IF InTime(d, ops[judging[d]])
     THEN /\ state' = [state EXCEPT ![d] = Reduced(@, Writes(ops[judging[d]]))]
          /\ applied' = [applied EXCEPT ![d] = @ \cup {judging[d]}]
     ELSE UNCHANGED <<state, applied>>
  /\ UNCHANGED <<ops, drafts, queued, received, clock, now, cut>>

\* ... then Reducer.apply takes it, unless its guard refuses it ...
Reduce(d) ==
  /\ judging[d] # 0
  /\ judging' = [judging EXCEPT ![d] = 0]
  /\ IF InTime(d, ops[judging[d]])
     THEN /\ state' = [state EXCEPT ![d] = Reduced(@, Writes(ops[judging[d]]))]
          /\ applied' = [applied EXCEPT ![d] = @ \cup {judging[d]}]
          /\ merging' = [merging EXCEPT ![d] = judging[d]]
     ELSE UNCHANGED <<state, applied, merging>>
  /\ UNCHANGED <<ops, drafts, queued, received, clock, now, cut>>

\* ... and HlcClock.receive merges its clock.
MergeClock(d) ==
  /\ merging[d] # 0
  /\ clock' = [clock EXCEPT ![d] = Received(@, ops[merging[d]].hlc, now[d])]
  /\ merging' = [merging EXCEPT ![d] = 0]
  /\ UNCHANGED <<ops, drafts, queued, received, judging, applied, state, now, cut>>

\* The ops a device has in hand behind the op log.
InHand(d) == {judging[d]} \ {0}

\* Storage fails under Reducer.apply: the pull, or the capture, throws.  What was logged
\* is not judged again, for the op log holds it when it is served again.
ReducerFails(d) ==
  /\ MayFault
  /\ \/ /\ judging[d] # 0
        /\ judging' = [judging EXCEPT ![d] = 0]
        /\ cut' = [cut EXCEPT ![d] = @ \cup InHand(d)]
        /\ UNCHANGED queued
     \/ /\ \E i \in queued[d] : queued' = [queued EXCEPT ![d] = @ \ {i}]
        /\ UNCHANGED <<judging, cut>>
  /\ UNCHANGED <<ops, drafts, received, applied, state, clock, merging, now>>

\* Wall clocks are set by users and time servers.
SetWallClock ==
  /\ now' \in [Device -> 0..MaxWall] /\ now' # now
  /\ WallClocks = "forward" => \A d \in Device : now'[d] >= now[d]
  /\ WallClocks = "shared"  => \A d \in Device : now'[d] = now[d] + 1
  /\ UNCHANGED <<ops, drafts, queued, received, judging, applied, state, clock, merging, cut>>

\* A process ends and the next one starts, no sooner than a millisecond later.
Relaunch(d) ==
  /\ MayRelaunch /\ now[d] < MaxWall
  /\ now' = IF WallClocks = "shared" THEN [e \in Device |-> now[e] + 1]
            ELSE [now EXCEPT ![d] = @ + 1]
  /\ drafts' = [drafts EXCEPT ![d] = {}]
  /\ queued' = [queued EXCEPT ![d] = {}]
  /\ judging' = [judging EXCEPT ![d] = 0]
  /\ cut' = [cut EXCEPT ![d] = @ \cup InHand(d)]
  /\ merging' = [merging EXCEPT ![d] = 0]
  /\ clock' = [clock EXCEPT ![d] = NewClock]
  /\ UNCHANGED <<ops, received, applied, state>>

Step(d) ==
  \/ \E o \in drafts[d] : Queue(d, o)
  \/ \E i \in queued[d] : ApplyOwn(d, i)
  \/ \E i \in 1..Len(ops) : Deliver(d, i)
  \/ Reduce(d)
  \/ MergeClock(d)

Next ==
  \/ \E d \in Device : \/ \E edit \in Edit : Capture(d, edit)
                       \/ \E o \in drafts[d] : RefuseToAuthor(d, o)
                       \/ Step(d) \/ ReducerFails(d) \/ Relaunch(d)
  \/ SetWallClock

Spec == Init /\ [][Next]_vars

-----------------------------------------------------------------------------
TypeOK ==
  /\ ops \in Seq(OpRecord)
  /\ drafts \in [Device -> SUBSET OpRecord]
  /\ queued \in [Device -> SUBSET (1..Len(ops))]
  /\ received \in [Device -> SUBSET (1..Len(ops))]
  /\ applied \in [Device -> SUBSET (1..Len(ops))]
  /\ state = [d \in Device |-> [c \in Cell |-> state[d][c]]]
  /\ \A d \in Device : IsState(state[d])
  /\ clock \in [Device -> [wall : Nat, count : Nat]]
  /\ now \in [Device -> Nat]
  /\ merging \in [Device -> {0} \cup 1..Len(ops)]
  /\ judging \in [Device -> {0} \cup 1..Len(ops)]
  /\ \A d \in Device : judging[d] = 0 \/ merging[d] = 0
  /\ cut \in [Device -> SUBSET (1..Len(ops))]

\* The writes device d applied to a cell.
AppliedTo(d, c) == {Writes(ops[i])[c] : i \in {j \in applied[d] : ops[j].edit[c] # Blank}}

\* "A strategy is a join-semilattice on (value, clock) pairs": what a device shows is the
\* least upper bound of what it applied (merge_strategy.dart).
StateIsJoin == \A d \in Device, c \in Cell : IsJoin(c, AppliedTo(d, c), state[d][c])

\* "Order-independent in both directions": devices that applied the same ops show the
\* same state, whatever order they arrived in (reducer.dart, merge_strategy.dart).
Convergence ==
  \A d, e \in Device : applied[d] = applied[e] => state[d] = state[e]

\* "An idempotent skip, which is also what makes a pulled echo of the device's own op a
\* no-op": applying again what was applied changes nothing, whatever came in between
\* (Reducer.apply).
AppliedIsAbsorbed ==
  \A d \in Device : \A i \in applied[d] : Reduced(state[d], Writes(ops[i])) = state[d]

\* "Merge a remote clock in, so the next local write sorts after it": a local write is
\* later than everything its device shows when it is made, so that what the user just
\* wrote or deleted is what the device shows next (HlcClock, capture).
LocalWriteWins ==
  [][\A d \in Device : merging[d] = 0 =>
       \A o \in drafts'[d] \ drafts[d] : \A c \in Cell :
         state[d][c] # Blank => Later(o.hlc, state[d][c].clock)]_vars

\* "A refused hlc_in_the_future op must not be able to drag the local clock": while wall
\* clocks only advance, a device's clock runs ahead of its wall clock by no more than the
\* skew bound, whoever's clock runs how far ahead, and so no capture is refused by the
\* guard its own device runs (_receive, guardPayload).
ClockWithinSkew ==
  WallClocks # "any" => \A d \in Device : clock[d].wall <= now[d] + SkewBound

\* What a device will never reduce: it logged the op, and was cut off before its reducer
\* saw it.
Missing(d) == cut[d] \ applied[d]

\* "A pulled echo of the device's own op": a write whose capture was cut off between
\* the outbox and the reducer reaches its author through the server all the same, so
\* once everything authored was served to every device, devices differ by nothing but
\* what a receipt cut off behind the op log left out of one of them (capture,
\* _receive).  Where clocks disagree a device may refuse what another took.
AlikeOnceServed ==
  /\ WallClocks = "shared"
  /\ \A d \in Device : received[d] = 1..Len(ops) /\ judging[d] = 0
  => \A d, e \in Device : Missing(d) = Missing(e) => state[d] = state[e]

-----------------------------------------------------------------------------
(* What a theorem of the replicas may ask of the world around them. *)

\* Processes keep their clocks, or wall clocks agree: then a process that starts over with
\* a new clock reads a wall clock past all that its device gave out and merged.
RelaunchesMoveOn == MayRelaunch => WallClocks = "shared"
=============================================================================
