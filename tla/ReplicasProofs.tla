--------------------------- MODULE ReplicasProofs ---------------------------
(***************************************************************************)
(* For any devices, cells, edits and bounds: what a device shows is the     *)
(* join of the writes it applied, so that devices which applied the same    *)
(* ops show the same.                                                       *)
(***************************************************************************)
EXTENDS Replicas, TLAPS

-----------------------------------------------------------------------------
(* The order of clocks, and the laws of a join. *)

\* The parts of a clock are numbers, and make it up.
LEMMA ClockParts ==
  ASSUME NEW a \in Clock
  PROVE  /\ a.wall \in Nat /\ a.count \in Nat /\ a.by \in Nat
         /\ a = [wall |-> a.wall, count |-> a.count, by |-> a.by]
  BY ReducerConstants DEF Clock

\* Hlc.compareTo is a total order: two clocks neither of which is later are one clock.
LEMMA LaterIsTotal ==
  ASSUME NEW a \in Clock, NEW b \in Clock, ~Later(a, b), ~Later(b, a)
  PROVE  a = b
<1>1. a.wall = b.wall /\ a.count = b.count /\ a.by = b.by
  BY ClockParts DEF Later
<1>2. QED
  BY <1>1, ClockParts

\* ... strict and transitive: stated as what a write not later than a stored one is to a
\* stored one that only advances.
LEMMA LaterIsOrder ==
  ASSUME NEW a \in Clock, NEW b \in Clock, NEW c \in Clock
  PROVE  /\ ~Later(a, a)
         /\ Later(a, b) => ~Later(b, a)
         /\ ~Later(a, b) /\ ~Later(b, c) => ~Later(a, c)
  BY ClockParts DEF Later

\* Latest is one of the two, and neither is later than it.
LEMMA LatestIsLatest ==
  ASSUME NEW a \in Clock, NEW b \in Clock
  PROVE  /\ Latest(a, b) \in {a, b}
         /\ ~Later(a, Latest(a, b)) /\ ~Later(b, Latest(a, b))
  BY LaterIsOrder DEF Latest

\* What Join is, one strategy at a time.
LEMMA JoinByStrategy ==
  ASSUME NEW c \in Cell, NEW old, NEW new, old # Blank, new # Blank
  PROVE  /\ Strategy[c] = "lww" => Join(c, old, new) = LwwJoin(old, new)
         /\ Strategy[c] = "max_timestamp_value" => Join(c, old, new) = MaxJoin(old, new)
         /\ Strategy[c] = "set_merge" => Join(c, old, new) = SetJoin(old, new)
         /\ Strategy[c] \in {"lww", "max_timestamp_value", "set_merge"}
  BY ReducerConstants DEF Join

\* A join with nothing.
LEMMA JoinWithBlank ==
  ASSUME NEW c, NEW w
  PROVE  /\ Join(c, w, Blank) = w
         /\ w # Blank => Join(c, Blank, w) = w
  BY DEF Join

\* A write's value and clock, for each strategy.
LEMMA WriteParts ==
  ASSUME NEW c \in Cell, NEW w \in Write(c)
  PROVE  /\ w # Blank /\ w = [value |-> w.value, clock |-> w.clock]
         /\ w.clock \in Clock /\ w.value \in ValueOf(c)
         /\ Strategy[c] = "set_merge" => w.value \in SUBSET Element
         /\ Strategy[c] # "set_merge" => w.value \in Nat
  BY BlankIsNoWrite DEF Write, ValueOf

\* A join of writes is a write.
LEMMA JoinIsWrite ==
  ASSUME NEW c \in Cell, NEW old \in Write(c), NEW new \in Write(c)
  PROVE  Join(c, old, new) \in Write(c)
<1>1. old # Blank /\ new # Blank
  BY WriteParts
<1>2. Latest(new.clock, old.clock) \in Clock
  BY WriteParts, LatestIsLatest
<1>3. CASE Strategy[c] = "lww"
  BY <1>1, <1>3, JoinByStrategy DEF LwwJoin
<1>4. CASE Strategy[c] = "max_timestamp_value"
  <2>1. (IF new.value >= old.value THEN new.value ELSE old.value) \in ValueOf(c)
    BY WriteParts
  <2>2. QED
    BY <1>1, <1>2, <1>4, <2>1, JoinByStrategy DEF MaxJoin, Write
<1>5. CASE Strategy[c] = "set_merge"
  <2>1. old.value \cup new.value \in ValueOf(c)
    BY <1>5, WriteParts DEF ValueOf
  <2>2. SetJoin(old, new) \in Write(c)
    BY <1>2, <2>1, Zenon DEF SetJoin, Write
  <2>3. QED
    BY <1>1, <1>5, <2>2, JoinByStrategy
<1>6. QED
  BY <1>1, <1>3, <1>4, <1>5, JoinByStrategy

\* Idempotence: a write that was just joined adds nothing.
LEMMA JoinAbsorbsNew ==
  ASSUME NEW c \in Cell, NEW old \in Write(c), NEW new \in Write(c)
  PROVE  Join(c, Join(c, old, new), new) = Join(c, old, new)
<1>1. old # Blank /\ new # Blank /\ Join(c, old, new) # Blank
  BY WriteParts, JoinIsWrite
<1>2. old.clock \in Clock /\ new.clock \in Clock
  BY WriteParts
<1>3. CASE Strategy[c] = "lww"
  BY <1>1, <1>2, <1>3, JoinByStrategy, LaterIsOrder DEF LwwJoin
<1>4. CASE Strategy[c] = "max_timestamp_value"
  <2>1. old.value \in Nat /\ new.value \in Nat
    BY <1>4, WriteParts
  <2>2. Latest(new.clock, Latest(new.clock, old.clock)) = Latest(new.clock, old.clock)
    BY <1>2, LatestIsLatest, LaterIsOrder DEF Latest
  <2>3. QED
    BY <1>1, <1>4, <2>1, <2>2, JoinByStrategy DEF MaxJoin
<1>5. CASE Strategy[c] = "set_merge"
  <2>1. (old.value \cup new.value) \cup new.value = old.value \cup new.value
    OBVIOUS
  <2>2. Latest(new.clock, Latest(new.clock, old.clock)) = Latest(new.clock, old.clock)
    BY <1>2, LatestIsLatest, LaterIsOrder DEF Latest
  <2>3. SetJoin(SetJoin(old, new), new) = SetJoin(old, new)
    BY <2>1, <2>2, Zenon DEF SetJoin
  <2>4. SetJoin(old, new) # Blank
    BY <1>1, <1>5, JoinByStrategy
  <2>5. QED
    BY <1>1, <1>5, <2>3, <2>4, JoinByStrategy
<1>6. QED
  BY <1>1, <1>3, <1>4, <1>5, JoinByStrategy

\* The same of a write joined with itself.
LEMMA JoinAbsorbsItself ==
  ASSUME NEW c \in Cell, NEW w \in Write(c)
  PROVE  Join(c, w, w) = w
<1>1. w # Blank /\ w = [value |-> w.value, clock |-> w.clock] /\ w.clock \in Clock
  BY WriteParts
<1>2. LwwJoin(w, w) = w
  BY <1>1, LaterIsOrder DEF LwwJoin
<1>3. MaxJoin(w, w) = w
  BY <1>1 DEF MaxJoin, Latest
<1>4. SetJoin(w, w) = w
  <2>1. w.value \cup w.value = w.value
    OBVIOUS
  <2>2. Latest(w.clock, w.clock) = w.clock
    BY DEF Latest
  <2>3. QED
    BY <1>1, <2>1, <2>2, Zenon DEF SetJoin
<1>5. QED
  BY <1>1, <1>2, <1>3, <1>4, JoinByStrategy

\* ... and what a state has absorbed it keeps absorbed, whatever else it takes in.
LEMMA JoinKeepsAbsorbed ==
  ASSUME NEW c \in Cell, NEW w \in Write(c), NEW seen \in Write(c), NEW new \in Write(c),
         Join(c, w, seen) = w
  PROVE  Join(c, Join(c, w, new), seen) = Join(c, w, new)
<1>1. w # Blank /\ seen # Blank /\ new # Blank /\ Join(c, w, new) # Blank
  BY WriteParts, JoinIsWrite
<1>2. w.clock \in Clock /\ seen.clock \in Clock /\ new.clock \in Clock
  BY WriteParts
<1>a. w = [value |-> w.value, clock |-> w.clock]
  BY WriteParts
<1>3. CASE Strategy[c] = "lww"
  <2>1. ~Later(seen.clock, w.clock)
    BY <1>1, <1>2, <1>3, JoinByStrategy, LaterIsOrder DEF LwwJoin
  <2>2. Later(new.clock, w.clock) => ~Later(seen.clock, new.clock)
    BY <1>2, <2>1, LaterIsOrder
  <2>3. QED
    BY <1>1, <1>3, <2>1, <2>2, JoinByStrategy DEF LwwJoin
<1>b. ASSUME Latest(seen.clock, w.clock) = w.clock
      PROVE  Latest(seen.clock, Latest(new.clock, w.clock)) = Latest(new.clock, w.clock)
  BY <1>2, <1>b, LatestIsLatest, LaterIsOrder DEF Latest
<1>4. CASE Strategy[c] = "max_timestamp_value"
  <2>1. w.value \in Nat /\ seen.value \in Nat /\ new.value \in Nat
    BY <1>4, WriteParts
  <2>2. MaxJoin(w, seen) = w
    BY <1>1, <1>4, JoinByStrategy
  <2>3. /\ Latest(seen.clock, w.clock) = w.clock
        /\ (IF seen.value >= w.value THEN seen.value ELSE w.value) = w.value
    BY <2>2, <1>a DEF MaxJoin
  <2>4. QED
    BY <1>1, <1>4, <1>b, <2>1, <2>3, JoinByStrategy DEF MaxJoin
<1>5. CASE Strategy[c] = "set_merge"
  <2>1. SetJoin(w, seen) = w
    BY <1>1, <1>5, JoinByStrategy
  <2>2. /\ Latest(seen.clock, w.clock) = w.clock
        /\ w.value \cup seen.value = w.value
    BY <2>1, <1>a DEF SetJoin
  <2>3. (w.value \cup new.value) \cup seen.value = w.value \cup new.value
    BY <2>2
  <2>4. SetJoin(SetJoin(w, new), seen) = SetJoin(w, new)
    BY <1>b, <2>2, <2>3, Zenon DEF SetJoin
  <2>5. SetJoin(w, new) # Blank
    BY <1>1, <1>5, JoinByStrategy
  <2>6. QED
    BY <1>1, <1>5, <2>4, <2>5, JoinByStrategy
<1>6. QED
  BY <1>1, <1>3, <1>4, <1>5, JoinByStrategy

-----------------------------------------------------------------------------
(* Joins of sets of writes. *)

\* The join of one write is that write.
LEMMA JoinOfOne ==
  ASSUME NEW c \in Cell, NEW w \in Write(c)
  PROVE  IsJoin(c, {w}, w)
<1>1. w.clock \in Clock
  BY WriteParts
<1>2. IsLatest(w.clock, {v.clock : v \in {w}})
  BY <1>1, LaterIsOrder DEF IsLatest
<1>3. Strategy[c] = "max_timestamp_value" => w.value >= w.value
  BY WriteParts
<1>4. UNION {v.value : v \in {w}} = w.value
  OBVIOUS
<1>5. QED
  BY <1>2, <1>3, <1>4 DEF IsJoin

\* The clock of a join of one more write.
LEMMA LatestStep ==
  ASSUME NEW H \in SUBSET Clock, NEW h \in Clock, NEW g \in Clock, IsLatest(h, H)
  PROVE  IsLatest(Latest(g, h), H \cup {g})
<1>1. \A f \in H : ~Later(f, Latest(g, h))
  <2>1. TAKE f \in H
  <2>2. ~Later(f, h) /\ ~Later(h, Latest(g, h)) /\ Latest(g, h) \in Clock
    BY LatestIsLatest DEF IsLatest
  <2>3. QED
    BY <2>2, LaterIsOrder
<1>2. QED
  BY <1>1, LatestIsLatest DEF IsLatest

\* Joining one more write: Join is the step from the join of W to that of W and the write.
LEMMA JoinStep ==
  ASSUME NEW c \in Cell, NEW W \in SUBSET Write(c), NEW w, IsJoin(c, W, w),
         NEW new \in Write(c), DistinctClocks(W \cup {new})
  PROVE  IsJoin(c, W \cup {new}, Join(c, w, new))
<1>0. new # Blank
  BY WriteParts
<1>1. CASE W = {}
  <2>1. Join(c, w, new) = new
    BY <1>0, <1>1, JoinWithBlank DEF IsJoin
  <2>2. W \cup {new} = {new}
    BY <1>1
  <2>3. QED
    BY <2>1, <2>2, JoinOfOne
<1>2. CASE W # {}
  <2> DEFINE j == Join(c, w, new)
             V == W \cup {new}
  <2>1. w \in Write(c) /\ w # Blank /\ IsLatest(w.clock, {v.clock : v \in W})
    BY <1>2, WriteParts DEF IsJoin
  <2>2. j \in Write(c)
    BY <2>1, JoinIsWrite
  <2>3. /\ {v.clock : v \in W} \in SUBSET Clock /\ w.clock \in Clock /\ new.clock \in Clock
        /\ {v.clock : v \in V} = {v.clock : v \in W} \cup {new.clock}
    BY <2>1, WriteParts
  <2>4. IsLatest(Latest(new.clock, w.clock), {v.clock : v \in V})
    BY <2>1, <2>3, LatestStep
  <2>5. CASE Strategy[c] = "lww"
    <3>1. j = LwwJoin(w, new)
      BY <1>0, <2>1, <2>5, JoinByStrategy
    <3>2. j.clock = Latest(new.clock, w.clock)
      BY <3>1 DEF LwwJoin, Latest
    <3>3. w \in W
      BY <1>2, <2>5 DEF IsJoin
    <3>4. j \in V
      BY <3>1, <3>3 DEF LwwJoin
    <3>5. QED
      BY <2>2, <2>4, <2>5, <3>2, <3>4 DEF IsJoin
  <2>6. CASE Strategy[c] = "max_timestamp_value"
    <3>1. j = MaxJoin(w, new)
      BY <1>0, <2>1, <2>6, JoinByStrategy
    <3>2. /\ j.clock = Latest(new.clock, w.clock)
          /\ j.value = IF new.value >= w.value THEN new.value ELSE w.value
      BY <3>1 DEF MaxJoin
    <3>3. w.value \in Nat /\ new.value \in Nat /\ \A v \in W : v.value \in Nat
      BY <2>1, <2>6, WriteParts
    <3>4. (\E v \in W : w.value = v.value) /\ (\A v \in W : w.value >= v.value)
      BY <1>2, <2>6 DEF IsJoin
    <3>5. (\E v \in V : j.value = v.value) /\ (\A v \in V : j.value >= v.value)
      BY <3>2, <3>3, <3>4
    <3>6. QED
      BY <2>2, <2>4, <2>6, <3>2, <3>5 DEF IsJoin
  <2>7. CASE Strategy[c] = "set_merge"
    <3>1. j = SetJoin(w, new)
      BY <1>0, <2>1, <2>7, JoinByStrategy
    <3>2. /\ j.clock = Latest(new.clock, w.clock)
          /\ j.value = w.value \cup new.value
      BY <3>1 DEF SetJoin
    <3>3. w.value = UNION {v.value : v \in W}
      BY <1>2, <2>7 DEF IsJoin
    <3>4. UNION {v.value : v \in V} = (UNION {v.value : v \in W}) \cup new.value
      OBVIOUS
    <3>5. j.value = UNION {v.value : v \in V}
      BY <3>2, <3>3, <3>4
    <3>6. QED
      BY <2>2, <2>4, <2>7, <3>2, <3>5 DEF IsJoin
  <2>8. QED
    BY <2>5, <2>6, <2>7, ReducerConstants
<1>3. QED
  BY <1>1, <1>2

\* A set of writes with distinct clocks has one join, so that a state says which writes
\* were applied and nothing of the order they came in.
LEMMA JoinIsUnique ==
  ASSUME NEW c \in Cell, NEW W \in SUBSET Write(c), DistinctClocks(W),
         NEW v, NEW w, IsJoin(c, W, v), IsJoin(c, W, w)
  PROVE  v = w
<1>1. CASE W = {}
  BY <1>1 DEF IsJoin
<1>2. CASE W # {}
  <2>1. v \in Write(c) /\ w \in Write(c)
    BY <1>2 DEF IsJoin
  <2>2. v.clock = w.clock
    <3>1. v.clock \in Clock /\ w.clock \in Clock
      BY <2>1, WriteParts
    <3>2. ~Later(v.clock, w.clock) /\ ~Later(w.clock, v.clock)
      BY <1>2 DEF IsJoin, IsLatest
    <3>3. QED
      BY <3>1, <3>2, LaterIsTotal
  <2>3. CASE Strategy[c] = "lww"
    BY <1>2, <2>2, <2>3 DEF IsJoin, DistinctClocks
  <2>4. ASSUME v.value = w.value PROVE v = w
    BY <2>1, <2>2, <2>4, WriteParts
  <2>5. CASE Strategy[c] = "max_timestamp_value"
    <3>1. v.value \in Nat /\ w.value \in Nat
      BY <2>1, <2>5, WriteParts
    <3>2. v.value >= w.value /\ w.value >= v.value
      BY <1>2, <2>5 DEF IsJoin
    <3>3. QED
      BY <2>4, <3>1, <3>2
  <2>6. CASE Strategy[c] = "set_merge"
    BY <1>2, <2>4, <2>6 DEF IsJoin
  <2>7. QED
    BY <2>3, <2>5, <2>6, ReducerConstants
<1>3. QED
  BY <1>1, <1>2

-----------------------------------------------------------------------------
(* Types. *)

\* Sets of ops kept per device.
LEMMA SetsPerDevice ==
  ASSUME NEW S, NEW f \in [Device -> SUBSET S], NEW d \in Device, NEW i \in S
  PROVE  /\ [f EXCEPT ![d] = @ \cup {i}] \in [Device -> SUBSET S]
         /\ [f EXCEPT ![d] = @ \ {i}] \in [Device -> SUBSET S]
  OBVIOUS

\* What an edit writes.
LEMMA WritesOfEdit ==
  ASSUME NEW e \in Edit, NEW h \in Clock
  PROVE  /\ IsState(WritesAt(e, h))
         /\ \A c \in Cell : /\ e[c] = Blank => WritesAt(e, h)[c] = Blank
                            /\ e[c] # Blank => /\ WritesAt(e, h)[c] \in Write(c)
                                               /\ WritesAt(e, h)[c].clock = h
  BY ReplicasConstants DEF WritesAt, IsState, Write

\* A reduction leaves a state.
LEMMA ReducedIsState ==
  ASSUME NEW st, NEW wr, IsState(st), IsState(wr)
  PROVE  /\ IsState(Reduced(st, wr))
         /\ Reduced(st, wr) = [c \in Cell |-> Reduced(st, wr)[c]]
         /\ \A c \in Cell : Reduced(st, wr)[c] = Join(c, st[c], wr[c])
<1>1. \A c \in Cell : Join(c, st[c], wr[c]) = Blank \/ Join(c, st[c], wr[c]) \in Write(c)
  <2>1. TAKE c \in Cell
  <2>2. /\ st[c] = Blank \/ st[c] \in Write(c)
        /\ wr[c] = Blank \/ wr[c] \in Write(c)
    BY DEF IsState
  <2>3. QED
    BY <2>2, JoinIsWrite, JoinWithBlank
<1>2. QED
  BY <1>1 DEF Reduced, IsState

\* The hybrid logical clock moves to a clock.
LEMMA ClockSteps ==
  ASSUME NEW h \in [wall : Nat, count : Nat], NEW r \in Clock, NEW t \in Nat
  PROVE  /\ Sent(h, t) \in [wall : Nat, count : Nat]
         /\ Received(h, r, t) \in [wall : Nat, count : Nat]
         /\ NewClock \in [wall : Nat, count : Nat]
<1>1. r.wall \in Nat /\ r.count \in Nat
  BY ClockParts
<1>2. QED
  BY <1>1 DEF Sent, Received, NewClock

\* The draft a capture makes.
LEMMA DraftIsOp ==
  ASSUME TypeOK, NEW d \in Device, NEW e \in Edit
  PROVE  Draft(d, e) \in OpRecord
<1>1. Sent(clock[d], now[d]) \in [wall : Nat, count : Nat]
  BY DEF TypeOK, Sent
<1>2. QED
  BY <1>1 DEF Draft, OpRecord, Clock

\* The writes of an op.
LEMMA WritesOfOp ==
  ASSUME TypeOK, NEW i \in 1..Len(ops)
  PROVE  /\ ops[i] \in OpRecord /\ ops[i].hlc \in Clock /\ ops[i].author \in Device
         /\ ops[i].edit \in Edit
         /\ IsState(Writes(ops[i]))
         /\ \A c \in Cell : /\ ops[i].edit[c] = Blank => Writes(ops[i])[c] = Blank
                            /\ ops[i].edit[c] # Blank => /\ Writes(ops[i])[c] \in Write(c)
                                                         /\ Writes(ops[i])[c].clock = ops[i].hlc
<1>1. ops[i] \in OpRecord
  BY DEF TypeOK
<1>2. ops[i].hlc \in Clock /\ ops[i].author \in Device /\ ops[i].edit \in Edit
  BY <1>1 DEF OpRecord
<1>3. QED
  BY <1>1, <1>2, WritesOfEdit DEF Writes

\* The invariant of the types, for one action that reduces op i on device d.
LEMMA TypeOfReduction ==
  ASSUME TypeOK, NEW d \in Device, NEW i \in 1..Len(ops),
         state' = [state EXCEPT ![d] = Reduced(@, Writes(ops[i]))]
  PROVE  /\ state' = [e \in Device |-> [c \in Cell |-> state'[e][c]]]
         /\ \A e \in Device : IsState(state'[e])
         /\ \A e \in Device, c \in Cell :
              state'[e][c] = IF e = d THEN Join(c, state[d][c], Writes(ops[i])[c])
                             ELSE state[e][c]
<1> DEFINE r == Reduced(state[d], Writes(ops[i]))
<1>1. IsState(state[d]) /\ IsState(Writes(ops[i]))
  BY WritesOfOp DEF TypeOK
<1>2. /\ IsState(r) /\ r = [c \in Cell |-> r[c]]
      /\ \A c \in Cell : r[c] = Join(c, state[d][c], Writes(ops[i])[c])
  BY <1>1, ReducedIsState
<1>3. state' = [state EXCEPT ![d] = r]
  OBVIOUS
<1> HIDE DEF r
<1>4. state = [e \in Device |-> [c \in Cell |-> state[e][c]]]
  BY DEF TypeOK
<1>5. state' = [e \in Device |-> IF e = d THEN r ELSE state[e]]
  BY <1>3, <1>4
<1>6. \A e \in Device : state'[e] = IF e = d THEN r ELSE state[e]
  BY <1>5
<1>7. \A e \in Device : IsState(state'[e])
  BY <1>2, <1>6 DEF TypeOK
<1>8. \A e \in Device : state'[e] = [c \in Cell |-> state'[e][c]]
  BY <1>2, <1>4, <1>6
<1>9. state' = [e \in Device |-> state'[e]]
  BY <1>5
<1>10. QED
  BY <1>2, <1>6, <1>7, <1>8, <1>9

\* Every variable keeps its type: what an op writes, joined with what a device holds, is a
\* value of the cell with a clock (Reducer.apply, HlcClock).
THEOREM TypeCorrect == Spec => []TypeOK
<1>1. Init => TypeOK
  BY ClockSteps DEF Init, TypeOK, IsState, NewClock
<1>2. ASSUME TypeOK, [Next]_vars PROVE TypeOK'
  <2> USE TypeOK
  <2>1. ASSUME NEW d \in Device, NEW e \in Edit, Capture(d, e) PROVE TypeOK'
    <3>1. Sent(clock[d], now[d]) \in [wall : Nat, count : Nat]
      BY DEF TypeOK, Sent
    <3>2. drafts' \in [Device -> SUBSET OpRecord]
      <4>1. Draft(d, e) \in OpRecord /\ drafts \in [Device -> SUBSET OpRecord]
        BY DraftIsOp DEF TypeOK
      <4>2. drafts' = drafts \/ drafts' = [drafts EXCEPT ![d] = @ \cup {Draft(d, e)}]
        BY <2>1 DEF Capture
      <4>3. QED
        BY <4>1, <4>2
    <3>3. clock' \in [Device -> [wall : Nat, count : Nat]]
      BY <2>1, <3>1 DEF Capture, TypeOK
    <3>4. QED
      BY <2>1, <3>2, <3>3 DEF Capture, TypeOK
  <2>2. ASSUME NEW d \in Device, NEW o \in drafts[d], Queue(d, o) PROVE TypeOK'
    <3>1. o \in OpRecord /\ ops \in Seq(OpRecord) /\ ops' = Append(ops, o)
      BY <2>2 DEF Queue, TypeOK
    <3>2. ops' \in Seq(OpRecord) /\ Len(ops') = Len(ops) + 1 /\ Len(ops) \in Nat
      BY <3>1
    <3>3. 1..Len(ops) \subseteq 1..Len(ops') /\ Len(ops) + 1 \in 1..Len(ops')
      BY <3>2
    <3>4. /\ queued' \in [Device -> SUBSET (1..Len(ops'))]
          /\ received' \in [Device -> SUBSET (1..Len(ops'))]
          /\ applied' \in [Device -> SUBSET (1..Len(ops'))]
          /\ merging' \in [Device -> {0} \cup 1..Len(ops')]
          /\ judging' \in [Device -> {0} \cup 1..Len(ops')]
          /\ cut' \in [Device -> SUBSET (1..Len(ops'))]
      BY <2>2, <3>3 DEF Queue, TypeOK
    <3>5. drafts' \in [Device -> SUBSET OpRecord]
      BY <2>2 DEF Queue, TypeOK
    <3>6. QED
      BY <2>2, <3>2, <3>4, <3>5 DEF Queue, TypeOK
  <2>3. ASSUME NEW d \in Device, NEW i \in queued[d], ApplyOwn(d, i) PROVE TypeOK'
    <3>1. i \in 1..Len(ops)
      BY DEF TypeOK
    <3>2. /\ queued' \in [Device -> SUBSET (1..Len(ops))]
          /\ applied' \in [Device -> SUBSET (1..Len(ops))]
      <4>1. /\ queued' = [queued EXCEPT ![d] = @ \ {i}]
            /\ applied' = applied \/ applied' = [applied EXCEPT ![d] = @ \cup {i}]
        BY <2>3 DEF ApplyOwn
      <4>2. /\ queued \in [Device -> SUBSET (1..Len(ops))]
            /\ applied \in [Device -> SUBSET (1..Len(ops))]
        BY DEF TypeOK
      <4>3. /\ [queued EXCEPT ![d] = @ \ {i}] \in [Device -> SUBSET (1..Len(ops))]
            /\ [applied EXCEPT ![d] = @ \cup {i}] \in [Device -> SUBSET (1..Len(ops))]
        BY <3>1, <4>2, SetsPerDevice
      <4>4. QED
        BY <4>1, <4>2, <4>3
    <3>3. CASE InTime(d, ops[i])
      <4>1. /\ state' = [e \in Device |-> [c \in Cell |-> state'[e][c]]]
            /\ \A e \in Device : IsState(state'[e])
        BY <2>3, <3>1, <3>3, TypeOfReduction DEF ApplyOwn
      <4>2. QED
        BY <2>3, <3>2, <4>1 DEF ApplyOwn, TypeOK
    <3>4. CASE ~InTime(d, ops[i])
      BY <2>3, <3>2, <3>4 DEF ApplyOwn, TypeOK
    <3>5. QED
      BY <3>3, <3>4
  <2>4. ASSUME NEW d \in Device, NEW i \in 1..Len(ops), Deliver(d, i) PROVE TypeOK'
    <3>1. received' \in [Device -> SUBSET (1..Len(ops))]
      <4>1. received' = [received EXCEPT ![d] = @ \cup {i}]
        BY <2>4 DEF Deliver
      <4>2. received \in [Device -> SUBSET (1..Len(ops))]
        BY DEF TypeOK
      <4>3. QED
        BY <4>1, <4>2, SetsPerDevice
    <3>2. judging' \in [Device -> {0} \cup 1..Len(ops)]
      BY <2>4 DEF Deliver, TypeOK
    <3>3. \A e \in Device : judging'[e] = 0 \/ merging[e] = 0
      BY <2>4 DEF Deliver, TypeOK
    <3>4. QED
      BY <2>4, <3>1, <3>2, <3>3 DEF Deliver, TypeOK
  <2>4a. ASSUME NEW d \in Device, Reduce(d) PROVE TypeOK'
    <3> DEFINE i == judging[d]
    <3>0. i \in 1..Len(ops) /\ merging[d] = 0
      BY <2>4a DEF Reduce, TypeOK
    <3>1. /\ applied' \in [Device -> SUBSET (1..Len(ops))]
          /\ merging' \in [Device -> {0} \cup 1..Len(ops)]
          /\ judging' \in [Device -> {0} \cup 1..Len(ops)]
          /\ \A e \in Device : judging'[e] = 0 \/ merging'[e] = 0
      <4>1. /\ judging' = [judging EXCEPT ![d] = 0]
            /\ applied' = applied \/ applied' = [applied EXCEPT ![d] = @ \cup {i}]
            /\ merging' = merging \/ merging' = [merging EXCEPT ![d] = i]
        BY <2>4a DEF Reduce
      <4>2. /\ applied \in [Device -> SUBSET (1..Len(ops))]
            /\ merging \in [Device -> {0} \cup 1..Len(ops)]
            /\ judging \in [Device -> {0} \cup 1..Len(ops)]
            /\ \A e \in Device : judging[e] = 0 \/ merging[e] = 0
        BY DEF TypeOK
      <4> HIDE DEF i
      <4>3. [applied EXCEPT ![d] = @ \cup {i}] \in [Device -> SUBSET (1..Len(ops))]
        BY <3>0, <4>2, SetsPerDevice
      <4>4. /\ merging' \in [Device -> {0} \cup 1..Len(ops)]
            /\ judging' \in [Device -> {0} \cup 1..Len(ops)]
            /\ \A e \in Device : judging'[e] = 0 \/ merging'[e] = 0
        BY <3>0, <4>1, <4>2
      <4>5. QED
        BY <4>1, <4>2, <4>3, <4>4
    <3>2. CASE InTime(d, ops[i])
      <4>0. state' = [state EXCEPT ![d] = Reduced(@, Writes(ops[i]))]
        BY <2>4a, <3>2 DEF Reduce
      <4>1. /\ state' = [e \in Device |-> [c \in Cell |-> state'[e][c]]]
            /\ \A e \in Device : IsState(state'[e])
        BY <3>0, <4>0, TypeOfReduction
      <4>2. QED
        BY <2>4a, <3>1, <4>1 DEF Reduce, TypeOK
    <3>3. CASE ~InTime(d, ops[i])
      BY <2>4a, <3>1, <3>3 DEF Reduce, TypeOK
    <3>4. QED
      BY <3>2, <3>3
  <2>5. ASSUME NEW d \in Device, MergeClock(d) PROVE TypeOK'
    <3>1. merging[d] \in 1..Len(ops)
      BY <2>5 DEF MergeClock, TypeOK
    <3>2. ops[merging[d]].hlc \in Clock /\ clock[d] \in [wall : Nat, count : Nat] /\ now[d] \in Nat
      BY <3>1, WritesOfOp DEF TypeOK
    <3>3. Received(clock[d], ops[merging[d]].hlc, now[d]) \in [wall : Nat, count : Nat]
      BY <3>2, ClockSteps
    <3>4. clock' \in [Device -> [wall : Nat, count : Nat]]
      BY <2>5, <3>3 DEF MergeClock, TypeOK
    <3>5. merging' \in [Device -> {0} \cup 1..Len(ops)]
      BY <2>5 DEF MergeClock, TypeOK
    <3>6. QED
      BY <2>5, <3>4, <3>5 DEF MergeClock, TypeOK
  <2>6. CASE SetWallClock
    <3>1. now' \in [Device -> Nat]
      BY <2>6, ReplicasConstants DEF SetWallClock
    <3>2. QED
      BY <2>6, <3>1 DEF SetWallClock, TypeOK
  <2>7. ASSUME NEW d \in Device, Relaunch(d) PROVE TypeOK'
    <3>1. now' \in [Device -> Nat]
      BY <2>7 DEF Relaunch, TypeOK
    <3>2. /\ drafts' \in [Device -> SUBSET OpRecord]
          /\ queued' \in [Device -> SUBSET (1..Len(ops))]
          /\ merging' \in [Device -> {0} \cup 1..Len(ops)]
          /\ judging' \in [Device -> {0} \cup 1..Len(ops)]
          /\ \A e \in Device : judging'[e] = 0 \/ merging'[e] = 0
      BY <2>7 DEF Relaunch, TypeOK
    <3>2a. cut' \in [Device -> SUBSET (1..Len(ops))]
      <4>1. InHand(d) \in SUBSET (1..Len(ops)) /\ cut' = [cut EXCEPT ![d] = @ \cup InHand(d)]
        BY <2>7 DEF Relaunch, InHand, TypeOK
      <4>2. QED
        BY <4>1 DEF TypeOK
    <3>3. clock' \in [Device -> [wall : Nat, count : Nat]]
      BY <2>7 DEF Relaunch, TypeOK, NewClock
    <3>4. QED
      BY <2>7, <3>1, <3>2, <3>2a, <3>3 DEF Relaunch, TypeOK
  <2>8. ASSUME NEW d \in Device, NEW o \in drafts[d], RefuseToAuthor(d, o) PROVE TypeOK'
    <3>1. drafts' \in [Device -> SUBSET OpRecord]
      BY <2>8 DEF RefuseToAuthor, TypeOK
    <3>2. QED
      BY <2>8, <3>1 DEF RefuseToAuthor, TypeOK
  <2>9. CASE UNCHANGED vars
    BY <2>9 DEF vars, TypeOK
  <2>10. ASSUME NEW d \in Device, ReducerFails(d) PROVE TypeOK'
    <3>0. /\ queued \in [Device -> SUBSET (1..Len(ops))] /\ cut \in [Device -> SUBSET (1..Len(ops))]
          /\ judging \in [Device -> {0} \cup 1..Len(ops)]
          /\ \A e \in Device : judging[e] = 0 \/ merging[e] = 0
      BY DEF TypeOK
    <3>a. /\ judging' = judging \/ judging' = [judging EXCEPT ![d] = 0]
          /\ queued' = queued \/ \E i \in queued[d] : queued' = [queued EXCEPT ![d] = @ \ {i}]
          /\ cut' = cut \/ cut' = [cut EXCEPT ![d] = @ \cup InHand(d)]
      BY <2>10 DEF ReducerFails
    <3>1. queued' \in [Device -> SUBSET (1..Len(ops))]
      <4>1. CASE queued' = queued
        BY <4>1, <3>0
      <4>2. ASSUME NEW i \in queued[d], queued' = [queued EXCEPT ![d] = @ \ {i}]
            PROVE queued' \in [Device -> SUBSET (1..Len(ops))]
        <5>1. queued[d] \ {i} \in SUBSET (1..Len(ops))
          BY <3>0
        <5>2. QED
          BY <4>2, <5>1, <3>0
      <4>3. QED
        BY <3>a, <4>1, <4>2
    <3>2. /\ judging' \in [Device -> {0} \cup 1..Len(ops)]
          /\ \A e \in Device : judging'[e] = 0 \/ merging[e] = 0
      BY <3>0, <3>a
    <3>3. cut' \in [Device -> SUBSET (1..Len(ops))]
      <4>1. InHand(d) \in SUBSET (1..Len(ops))
        BY <3>0 DEF InHand
      <4>2. cut[d] \cup InHand(d) \in SUBSET (1..Len(ops))
        BY <4>1, <3>0
      <4>3. QED
        BY <3>0, <3>a, <4>2
    <3>4. QED
      BY <2>10, <3>1, <3>2, <3>3 DEF ReducerFails, TypeOK
  <2>11. QED
    BY <1>2, <2>1, <2>2, <2>3, <2>4, <2>4a, <2>5, <2>6, <2>7, <2>8, <2>9, <2>10 DEF Next, Step
<1>3. QED
  BY <1>1, <1>2, PTL DEF Spec

-----------------------------------------------------------------------------
(* What was applied stays absorbed. *)

\* A state that absorbs an op, cell by cell.
LEMMA AbsorbedByCell ==
  ASSUME TypeOK, NEW d \in Device, NEW i \in 1..Len(ops)
  PROVE  Reduced(state[d], Writes(ops[i])) = state[d]
         <=> \A c \in Cell : Join(c, state[d][c], Writes(ops[i])[c]) = state[d][c]
<1>1. state[d] = [c \in Cell |-> state[d][c]]
  BY DEF TypeOK
<1>2. Reduced(state[d], Writes(ops[i])) = [c \in Cell |-> Join(c, state[d][c], Writes(ops[i])[c])]
  BY DEF Reduced
<1>3. QED
  BY <1>1, <1>2

\* An op that is only read keeps its place and its contents.
LEMMA OpsStay ==
  ASSUME TypeOK, NEW o \in OpRecord, ops' = Append(ops, o)
  PROVE  /\ Len(ops') = Len(ops) + 1 /\ Len(ops) \in Nat
         /\ ops'[Len(ops) + 1] = o
         /\ \A i \in 1..Len(ops) : i \in 1..Len(ops') /\ ops'[i] = ops[i]
  BY DEF TypeOK

\* A step's effect on what devices applied and show: nothing, or one op, in time, reduced on
\* one device.
ReducesOne(d, i) ==
  /\ i \in 1..Len(ops) /\ ops' = ops
  /\ state' = [state EXCEPT ![d] = Reduced(@, Writes(ops[i]))]
  /\ applied' = [applied EXCEPT ![d] = @ \cup {i}]

ReducesNone ==
  /\ state' = state /\ applied' = applied
  /\ ops' = ops \/ \E o \in OpRecord : ops' = Append(ops, o)

\* Of all actions only the reductions touch what a device shows.
LEMMA StepsReduceOneOrNone ==
  ASSUME TypeOK, [Next]_vars
  PROVE  ReducesNone \/ \E d \in Device : \E i \in 1..Len(ops) : ReducesOne(d, i)
<1>1. ASSUME NEW d \in Device, NEW e \in Edit, Capture(d, e) PROVE ReducesNone
  BY <1>1 DEF Capture, ReducesNone
<1>2. ASSUME NEW d \in Device, NEW o \in drafts[d], Queue(d, o) PROVE ReducesNone
  <2>1. o \in OpRecord
    BY DEF TypeOK
  <2>2. QED
    BY <1>2, <2>1 DEF Queue, ReducesNone
<1>3. ASSUME NEW d \in Device, NEW i \in queued[d], ApplyOwn(d, i)
      PROVE  ReducesNone \/ (i \in 1..Len(ops) /\ ReducesOne(d, i))
  <2>1. i \in 1..Len(ops)
    BY DEF TypeOK
  <2>2. QED
    BY <1>3, <2>1 DEF ApplyOwn, ReducesNone, ReducesOne
<1>4. ASSUME NEW d \in Device, NEW i \in 1..Len(ops), Deliver(d, i)
      PROVE  ReducesNone
  BY <1>4 DEF Deliver, ReducesNone
<1>4a. ASSUME NEW d \in Device, Reduce(d)
       PROVE  ReducesNone \/ (judging[d] \in 1..Len(ops) /\ ReducesOne(d, judging[d]))
  <2>1. judging[d] \in 1..Len(ops)
    BY <1>4a DEF Reduce, TypeOK
  <2>2. QED
    BY <1>4a, <2>1 DEF Reduce, ReducesNone, ReducesOne
<1>5. ASSUME NEW d \in Device, MergeClock(d) PROVE ReducesNone
  BY <1>5 DEF MergeClock, ReducesNone
<1>6. CASE SetWallClock
  BY <1>6 DEF SetWallClock, ReducesNone
<1>7. ASSUME NEW d \in Device, Relaunch(d) PROVE ReducesNone
  BY <1>7 DEF Relaunch, ReducesNone
<1>8. ASSUME NEW d \in Device, NEW o \in drafts[d], RefuseToAuthor(d, o) PROVE ReducesNone
  BY <1>8 DEF RefuseToAuthor, ReducesNone
<1>9. CASE UNCHANGED vars
  BY <1>9 DEF vars, ReducesNone
<1>9a. ASSUME NEW d \in Device, ReducerFails(d) PROVE ReducesNone
  BY <1>9a DEF ReducerFails, ReducesNone
<1>10. QED
  BY <1>1, <1>2, <1>3, <1>4, <1>4a, <1>9a, <1>5, <1>6, <1>7, <1>8, <1>9 DEF Next, Step

\* Applying an op again is a no-op, for any order of arrival, relaunches and wall clocks
\* included: the echo of an own op, and an op served twice, change nothing
\* (Reducer.apply).
THEOREM ReplayIsHarmless == Spec => []AppliedIsAbsorbed
<1>1. Init => AppliedIsAbsorbed
  BY DEF Init, AppliedIsAbsorbed
<1>2. ASSUME TypeOK, TypeOK', AppliedIsAbsorbed, [Next]_vars PROVE AppliedIsAbsorbed'
  <2>1. CASE ReducesNone
    <3>1. \A e \in Device : \A j \in applied[e] : j \in 1..Len(ops)
      BY <1>2 DEF TypeOK
    <3>2. \A j \in 1..Len(ops) : ops'[j] = ops[j]
      BY <1>2, <2>1, OpsStay DEF ReducesNone
    <3>3. QED
      BY <1>2, <2>1, <3>1, <3>2 DEF ReducesNone, AppliedIsAbsorbed, Writes
  <2>2. ASSUME NEW d \in Device, NEW i \in 1..Len(ops), ReducesOne(d, i)
        PROVE  AppliedIsAbsorbed'
    <3>1. \A e \in Device, c \in Cell :
            state'[e][c] = IF e = d THEN Join(c, state[d][c], Writes(ops[i])[c])
                           ELSE state[e][c]
      BY <1>2, <2>2, TypeOfReduction DEF ReducesOne
    <3>2. ASSUME NEW e \in Device, NEW j \in applied'[e], NEW c \in Cell
          PROVE  Join(c, state'[e][c], Writes(ops[j])[c]) = state'[e][c]
      <4>1. j \in 1..Len(ops) /\ (j \in applied[e] \/ (e = d /\ j = i))
        BY <1>2, <2>2, <3>2 DEF ReducesOne, TypeOK
      <4> DEFINE w == state[e][c]
                 new == Writes(ops[i])[c]
                 seen == Writes(ops[j])[c]
      <4>2. /\ w = Blank \/ w \in Write(c)
            /\ new = Blank \/ new \in Write(c)
            /\ seen = Blank \/ seen \in Write(c)
        BY <1>2, <4>1, WritesOfOp DEF TypeOK, IsState
      <4>3. j \in applied[e] => Join(c, w, seen) = w
        BY <1>2, <4>1, AbsorbedByCell DEF AppliedIsAbsorbed
      <4>4. state'[e][c] = IF e = d THEN Join(c, w, new) ELSE w
        BY <3>1
      <4> HIDE DEF w, new, seen
      <4>5. CASE seen = Blank
        BY <4>5, JoinWithBlank DEF seen
      <4>6. CASE seen # Blank /\ e # d
        BY <4>1, <4>3, <4>4, <4>6 DEF seen
      <4>7. CASE seen # Blank /\ e = d /\ new = Blank
        <5>1. j \in applied[e]
          BY <4>1, <4>7 DEF seen, new
        <5>2. QED
          BY <4>3, <4>4, <4>7, <5>1, JoinWithBlank DEF seen
      <4>8. CASE seen # Blank /\ e = d /\ new # Blank /\ w = Blank
        <5>1. j \in applied[e] => seen = w
          BY <4>3, <4>8, JoinWithBlank
        <5>2. seen = new /\ state'[e][c] = new
          BY <4>1, <4>4, <4>8, <5>1, JoinWithBlank DEF seen, new
        <5>3. Join(c, new, new) = new
          BY <4>2, <4>8, JoinAbsorbsItself
        <5>4. QED
          BY <5>2, <5>3 DEF seen
      <4>9. CASE seen # Blank /\ e = d /\ new # Blank /\ w # Blank
        <5>1. w \in Write(c) /\ new \in Write(c) /\ seen \in Write(c)
          BY <4>2, <4>9
        <5>2. Join(c, Join(c, w, new), seen) = Join(c, w, new)
          BY <4>1, <4>3, <5>1, JoinAbsorbsNew, JoinKeepsAbsorbed DEF seen, new
        <5>3. QED
          BY <4>4, <4>9, <5>2 DEF seen
      <4>10. QED
        BY <4>5, <4>6, <4>7, <4>8, <4>9
    <3>3. \A e \in Device : \A j \in applied'[e] :
            \A c \in Cell : Join(c, state'[e][c], Writes(ops'[j])[c]) = state'[e][c]
      BY <2>2, <3>2 DEF ReducesOne
    <3>4. \A e \in Device : state'[e] = [c \in Cell |-> state'[e][c]]
      BY <1>2 DEF TypeOK
    <3>5. QED
      BY <3>3, <3>4 DEF AppliedIsAbsorbed, Reduced
  <2>3. QED
    BY <1>2, <2>1, <2>2, StepsReduceOneOrNone
<1>3. QED
  BY <1>1, <1>2, TypeCorrect, PTL DEF Spec

-----------------------------------------------------------------------------
(* Clocks are given out once, unless a process starts over behind what it gave out. *)

\* A clock given out (or merged) by the time a device's clock stands at h.
Behind(hlc, h) == hlc.wall < h.wall \/ (hlc.wall = h.wall /\ hlc.count <= h.count)

\* ... or by the time its wall clock reads t, where wall clocks agree.
Passed(hlc, h, t) == Behind(hlc, h) \/ (WallClocks = "shared" /\ hlc.wall < t)

\* What a device gave out is past its clock, and given out once; what it applied is
\* past its clock too, but for the op it is about to merge.
Stamped ==
  /\ \A d \in Device : \A o \in drafts[d] :
       o.author = d /\ o.hlc.by = d /\ Passed(o.hlc, clock[d], now[d])
  /\ \A i \in 1..Len(ops) :
       /\ ops[i].hlc.by = ops[i].author
       /\ Passed(ops[i].hlc, clock[ops[i].author], now[ops[i].author])
OwnQueued ==
  \A d \in Device : \A i \in queued[d] : ops[i].author = d
Merged ==
  \A d \in Device : \A i \in applied[d] \ {merging[d]} :
    Passed(ops[i].hlc, clock[d], now[d])
NoTwins ==
  /\ \A i, j \in 1..Len(ops) : ops[i].hlc = ops[j].hlc => i = j
  /\ \A d \in Device : \A o \in drafts[d] : \A i \in 1..Len(ops) : o.hlc # ops[i].hlc
  /\ \A d \in Device : \A o, p \in drafts[d] : o.hlc = p.hlc => o = p
ClocksInv == Stamped /\ OwnQueued /\ Merged /\ NoTwins

\* The clock only advances: past what it gave out, and past what it takes in.
LEMMA ClockAdvances ==
  ASSUME NEW h \in [wall : Nat, count : Nat], NEW r \in Clock, NEW t \in Nat
  PROVE  /\ Passed(r, Received(h, r, t), t)
         /\ \A g \in Clock : Passed(g, h, t) =>
              /\ Passed(g, Sent(h, t), t) /\ Passed(g, Received(h, r, t), t)
              /\ \A d : g # [wall |-> Sent(h, t).wall, count |-> Sent(h, t).count, by |-> d]
              /\ \A d \in Device :
                   Later([wall |-> Sent(h, t).wall, count |-> Sent(h, t).count, by |-> d], g)
<1>1. h.wall \in Nat /\ h.count \in Nat /\ r.wall \in Nat /\ r.count \in Nat
  BY ClockParts
<1>2. Passed(r, Received(h, r, t), t)
  BY <1>1 DEF Behind, Passed, Received
<1>3. ASSUME NEW g \in Clock, Passed(g, h, t)
      PROVE  /\ Passed(g, Sent(h, t), t) /\ Passed(g, Received(h, r, t), t)
             /\ \A d : g # [wall |-> Sent(h, t).wall, count |-> Sent(h, t).count, by |-> d]
             /\ \A d \in Device :
                  Later([wall |-> Sent(h, t).wall, count |-> Sent(h, t).count, by |-> d], g)
  <2>1. g.wall \in Nat /\ g.count \in Nat
    BY ClockParts
  <2>2. Passed(g, Sent(h, t), t) /\ Passed(g, Received(h, r, t), t)
    BY <1>1, <1>3, <2>1 DEF Behind, Passed, Sent, Received
  <2>3. Sent(h, t).wall > g.wall \/ (Sent(h, t).wall = g.wall /\ Sent(h, t).count > g.count)
    BY <1>1, <1>3, <2>1 DEF Behind, Passed, Sent
  <2>4. ASSUME NEW d
        PROVE  g # [wall |-> Sent(h, t).wall, count |-> Sent(h, t).count, by |-> d]
    BY <2>1, <2>3
  <2>5. ASSUME NEW d \in Device
        PROVE  Later([wall |-> Sent(h, t).wall, count |-> Sent(h, t).count, by |-> d], g)
    BY <2>3 DEF Later
  <2>6. QED
    BY <2>2, <2>4, <2>5
<1>4. QED
  BY <1>2, <1>3

\* Where wall clocks agree, nothing is written, taken or pulled from the future, and so
\* nothing pulled is refused: what is logged and not applied is in hand or was cut off.
SharedTime ==
  WallClocks = "shared" =>
    /\ \A d, e \in Device : now[d] = now[e]
    /\ \A d \in Device :
         /\ clock[d].wall <= now[d]
         /\ received[d] \subseteq applied[d] \cup cut[d] \cup {judging[d]}
         /\ \A o \in drafts[d] : o.hlc.wall <= now[d]
         /\ \A i \in 1..Len(ops) : ops[i].hlc.wall <= now[d]

\* Where a clock's wall part comes from.
LEMMA WallOfClock ==
  ASSUME NEW h \in [wall : Nat, count : Nat], NEW t \in Nat, NEW b \in Nat,
         h.wall <= b, t <= b
  PROVE  /\ Sent(h, t).wall <= b
         /\ \A r \in Clock : r.wall <= b => Received(h, r, t).wall <= b
<1>1. h.wall \in Nat /\ \A r \in Clock : r.wall \in Nat
  BY ClockParts
<1>2. Sent(h, t).wall \in {h.wall, t}
  BY DEF Sent
<1>3. \A r \in Clock : Received(h, r, t).wall \in {h.wall, r.wall, t}
  BY DEF Received
<1>4. QED
  BY <1>1, <1>2, <1>3

\* SharedTime is inductive.
LEMMA SharedTimeStep ==
  ASSUME TypeOK, TypeOK', SharedTime, [Next]_vars
  PROVE  SharedTime'
<1> SUFFICES ASSUME WallClocks = "shared" PROVE SharedTime'
  BY DEF SharedTime
<1>0. /\ \A d \in Device : now[d] \in Nat /\ now'[d] \in Nat
      /\ \A d \in Device : clock[d] \in [wall : Nat, count : Nat] /\ clock[d].wall \in Nat
      /\ \A d \in Device : \A o \in drafts[d] : o \in OpRecord /\ o.hlc.wall \in Nat
      /\ \A i \in 1..Len(ops) : ops[i].hlc \in Clock /\ ops[i].hlc.wall \in Nat
      /\ SkewBound \in Nat
  <2>1. \A o \in OpRecord : o.hlc.wall \in Nat
    BY ClockParts DEF OpRecord
  <2>2. \A i \in 1..Len(ops) : ops[i].hlc \in Clock /\ ops[i].hlc.wall \in Nat
    BY WritesOfOp, ClockParts
  <2>3. QED
    BY <2>1, <2>2, ReplicasConstants DEF TypeOK
<1>1. ASSUME NEW d \in Device, NEW e \in Edit, Capture(d, e) PROVE SharedTime'
  <2>1. Sent(clock[d], now[d]).wall <= now[d]
    BY <1>0, WallOfClock DEF SharedTime
  <2>2. Draft(d, e).hlc.wall <= now[d]
    BY <2>1 DEF Draft
  <2>3. /\ clock'[d] = Sent(clock[d], now[d])
        /\ \A f \in Device : f # d => clock'[f] = clock[f]
        /\ \A f \in Device : \A p \in drafts'[f] : p \in drafts[f] \/ (f = d /\ p = Draft(d, e))
        /\ UNCHANGED <<ops, received, judging, applied, cut, now>>
    <3>1. drafts' = drafts \/ drafts' = [drafts EXCEPT ![d] = @ \cup {Draft(d, e)}]
      BY <1>1 DEF Capture
    <3>2. \A f \in Device : \A p \in drafts'[f] : p \in drafts[f] \/ (f = d /\ p = Draft(d, e))
      BY <3>1 DEF TypeOK
    <3>3. QED
      BY <1>1, <3>2 DEF Capture, TypeOK
  <2>4. QED
    BY <2>1, <2>2, <2>3 DEF SharedTime
<1>2. ASSUME NEW d \in Device, NEW o \in drafts[d], Queue(d, o) PROVE SharedTime'
  <2>1. /\ ops' = Append(ops, o) /\ o \in OpRecord
        /\ \A f \in Device : drafts'[f] \subseteq drafts[f]
        /\ UNCHANGED <<received, judging, applied, cut, clock, now>>
    BY <1>0, <1>2 DEF Queue, TypeOK
  <2>2. \A i \in 1..Len(ops') : (i \in 1..Len(ops) /\ ops'[i] = ops[i]) \/ ops'[i] = o
    BY <2>1, OpsStay
  <2>3. \A f \in Device : o.hlc.wall <= now[f]
    BY DEF SharedTime
  <2>4. QED
    BY <2>1, <2>2, <2>3 DEF SharedTime
<1>3. ASSUME NEW d \in Device, NEW i \in queued[d], ApplyOwn(d, i) PROVE SharedTime'
  <2>1. /\ applied' = applied \/ applied' = [applied EXCEPT ![d] = @ \cup {i}]
        /\ UNCHANGED <<ops, drafts, received, judging, cut, clock, now>>
    BY <1>3 DEF ApplyOwn
  <2>2. ASSUME NEW f \in Device PROVE applied[f] \subseteq applied'[f]
    <3>1. applied'[f] = applied[f] \/ applied'[f] = applied[f] \cup {i}
      BY <2>1 DEF TypeOK
    <3>2. QED
      BY <3>1
  <2>3. QED
    BY <2>1, <2>2 DEF SharedTime
<1>4. ASSUME NEW d \in Device, NEW i \in 1..Len(ops), Deliver(d, i) PROVE SharedTime'
  <2>1. /\ received' = [received EXCEPT ![d] = @ \cup {i}]
        /\ judging[d] = 0 /\ judging' = [judging EXCEPT ![d] = i]
        /\ UNCHANGED <<ops, drafts, applied, cut, clock, now>>
    BY <1>4 DEF Deliver
  <2>2. 0 \notin received[d]
    BY DEF TypeOK
  <2>3. \A f \in Device : received[f] \subseteq applied[f] \cup cut[f] \cup {judging[f]}
    BY DEF SharedTime
  <2>4. \A f \in Device : received'[f] \subseteq applied'[f] \cup cut'[f] \cup {judging'[f]}
    BY <2>1, <2>2, <2>3 DEF TypeOK
  <2>5. QED
    BY <2>1, <2>4 DEF SharedTime
<1>4a. ASSUME NEW d \in Device, Reduce(d) PROVE SharedTime'
  <2> DEFINE i == judging[d]
  <2>0. i \in 1..Len(ops)
    BY <1>4a DEF Reduce, TypeOK
  <2>1. ops[i].hlc.wall <= now[d] /\ now[d] <= now[d] + SkewBound /\ now[d] + SkewBound \in Nat
    BY <1>0, <2>0 DEF SharedTime
  <2>2. InTime(d, ops[i])
    BY <1>0, <2>0, <2>1 DEF InTime
  <2>3. /\ applied' = [applied EXCEPT ![d] = @ \cup {i}]
        /\ judging' = [judging EXCEPT ![d] = 0]
        /\ UNCHANGED <<ops, drafts, received, cut, clock, now>>
    BY <1>4a, <2>2 DEF Reduce
  <2>4. \A f \in Device : received[f] \subseteq applied[f] \cup cut[f] \cup {judging[f]}
    BY DEF SharedTime
  <2>5. \A f \in Device : received'[f] \subseteq applied'[f] \cup cut'[f] \cup {judging'[f]}
    BY <2>3, <2>4 DEF TypeOK
  <2>6. QED
    BY <2>3, <2>5 DEF SharedTime
<1>5. ASSUME NEW d \in Device, MergeClock(d) PROVE SharedTime'
  <2> DEFINE h == Received(clock[d], ops[merging[d]].hlc, now[d])
  <2>1. /\ merging[d] \in 1..Len(ops)
        /\ clock' = [clock EXCEPT ![d] = h]
        /\ UNCHANGED <<ops, drafts, received, judging, applied, cut, now>>
    BY <1>5 DEF MergeClock, TypeOK
  <2>2. ops[merging[d]].hlc \in Clock /\ ops[merging[d]].hlc.wall <= now[d]
    BY <1>0, <2>1 DEF SharedTime
  <2>3. clock[d].wall <= now[d] /\ now[d] <= now[d]
    BY <1>0 DEF SharedTime
  <2>4. h.wall <= now[d]
    BY <1>0, <2>2, <2>3, WallOfClock
  <2> HIDE DEF h
  <2>5. clock'[d] = h /\ \A f \in Device : f # d => clock'[f] = clock[f]
    BY <2>1 DEF TypeOK
  <2>6. QED
    BY <2>1, <2>4, <2>5 DEF SharedTime
<1>6. ASSUME \A d \in Device : now'[d] = now[d] + 1, UNCHANGED <<ops, received, applied>>,
             \A d \in Device : received[d] \subseteq applied[d] \cup cut'[d] \cup {judging'[d]},
             \A d \in Device : drafts'[d] \subseteq drafts[d],
             \A d \in Device : clock'[d] = clock[d] \/ clock'[d] = NewClock
      PROVE  SharedTime'
  <2>1. \A d \in Device : clock'[d].wall <= clock[d].wall
    BY <1>0, <1>6 DEF NewClock
  <2>2. \A d \in Device : clock[d].wall <= now[d] /\ clock'[d].wall \in Nat
    BY <1>0, <1>6 DEF SharedTime, NewClock
  <2>3. \A d \in Device : clock'[d].wall <= now'[d]
    BY <1>0, <1>6, <2>1, <2>2
  <2>4. \A d \in Device : \A o \in drafts'[d] : o.hlc.wall <= now'[d]
    BY <1>0, <1>6 DEF SharedTime
  <2>5. \A d \in Device : \A i \in 1..Len(ops) : ops[i].hlc.wall <= now'[d]
    BY <1>0, <1>6 DEF SharedTime
  <2>6. QED
    BY <1>6, <2>3, <2>4, <2>5 DEF SharedTime
<1>7. CASE SetWallClock
  BY <1>6, <1>7 DEF SetWallClock, SharedTime
<1>8. ASSUME NEW d \in Device, Relaunch(d) PROVE SharedTime'
  <2>1. /\ \A f \in Device : now'[f] = now[f] + 1
        /\ \A f \in Device : drafts'[f] \subseteq drafts[f]
        /\ \A f \in Device : clock'[f] = clock[f] \/ clock'[f] = NewClock
        /\ UNCHANGED <<ops, received, applied>>
    BY <1>8 DEF Relaunch, TypeOK
  <2>2. /\ \A f \in Device : cut[f] \subseteq cut'[f]
        /\ cut'[d] = cut[d] \cup ({judging[d]} \ {0})
        /\ \A f \in Device : f # d => judging'[f] = judging[f]
    BY <1>8 DEF Relaunch, InHand, TypeOK
  <2>3. \A f \in Device : received[f] \subseteq applied[f] \cup cut[f] \cup {judging[f]}
    BY DEF SharedTime
  <2>4. 0 \notin received[d]
    BY DEF TypeOK
  <2>5. \A f \in Device : received[f] \subseteq applied[f] \cup cut'[f] \cup {judging'[f]}
    BY <2>2, <2>3, <2>4
  <2>6. QED
    BY <1>6, <2>1, <2>5
<1>9. ASSUME NEW d \in Device, NEW o \in drafts[d], RefuseToAuthor(d, o) PROVE SharedTime'
  <2>1. /\ \A f \in Device : drafts'[f] \subseteq drafts[f]
        /\ UNCHANGED <<ops, received, judging, applied, cut, clock, now>>
    BY <1>9 DEF RefuseToAuthor, TypeOK
  <2>2. QED
    BY <2>1 DEF SharedTime
<1>10. CASE UNCHANGED vars
  BY <1>10 DEF vars, SharedTime
<1>10a. ASSUME NEW d \in Device, ReducerFails(d) PROVE SharedTime'
  <2>1. UNCHANGED <<ops, drafts, received, applied, clock, now>>
    BY <1>10a DEF ReducerFails
  <2>2. CASE UNCHANGED <<judging, cut>>
    BY <2>1, <2>2 DEF SharedTime
  <2>3. CASE /\ judging' = [judging EXCEPT ![d] = 0]
             /\ cut' = [cut EXCEPT ![d] = @ \cup InHand(d)]
    <3>1. /\ cut'[d] = cut[d] \cup ({judging[d]} \ {0})
          /\ \A f \in Device : f # d => judging'[f] = judging[f] /\ cut'[f] = cut[f]
      BY <2>3 DEF InHand, TypeOK
    <3>2. \A f \in Device : received[f] \subseteq applied[f] \cup cut[f] \cup {judging[f]}
      BY DEF SharedTime
    <3>3. 0 \notin received[d]
      BY DEF TypeOK
    <3>4. \A f \in Device : received[f] \subseteq applied[f] \cup cut'[f] \cup {judging'[f]}
      BY <3>1, <3>2, <3>3
    <3>5. QED
      BY <2>1, <3>4 DEF SharedTime
  <2>4. QED
    BY <1>10a, <2>2, <2>3 DEF ReducerFails
<1>11. QED
  BY <1>1, <1>2, <1>3, <1>4, <1>4a, <1>10a, <1>5, <1>7, <1>8, <1>9, <1>10 DEF Next, Step

\* Shared time, over whole behaviours.
LEMMA SharedTimeInvariant == Spec => []SharedTime
<1>1. Init => SharedTime
  BY DEF Init, SharedTime, NewClock
<1>2. TypeOK /\ TypeOK' /\ SharedTime /\ [Next]_vars => SharedTime'
  BY SharedTimeStep
<1>3. QED
  BY <1>1, <1>2, TypeCorrect, PTL DEF Spec

\* ClocksInv is inductive.
LEMMA ClocksStep ==
  ASSUME RelaunchesMoveOn, TypeOK, TypeOK', SharedTime, ClocksInv, [Next]_vars
  PROVE  ClocksInv'
<1> USE TypeOK, ClocksInv
<1>0. /\ \A d \in Device : clock[d] \in [wall : Nat, count : Nat] /\ now[d] \in Nat
      /\ \A d \in Device : \A o \in drafts[d] : o \in OpRecord /\ o.hlc \in Clock
      /\ \A i \in 1..Len(ops) : ops[i].hlc \in Clock /\ ops[i].author \in Device
      /\ \A d \in Device : \A i \in applied[d] : i \in 1..Len(ops)
      /\ \A d \in Device : \A i \in queued[d] : i \in 1..Len(ops)
  <2>1. \A d \in Device : \A o \in drafts[d] : o \in OpRecord
    BY DEF TypeOK
  <2>2. \A o \in OpRecord : o.hlc \in Clock
    BY DEF OpRecord
  <2>3. \A i \in 1..Len(ops) : ops[i].hlc \in Clock /\ ops[i].author \in Device
    BY WritesOfOp
  <2>4. /\ \A d \in Device : \A i \in applied[d] : i \in 1..Len(ops)
        /\ \A d \in Device : \A i \in queued[d] : i \in 1..Len(ops)
    BY DEF TypeOK
  <2>5. \A d \in Device : clock[d] \in [wall : Nat, count : Nat] /\ now[d] \in Nat
    BY DEF TypeOK
  <2>6. QED
    BY <2>1, <2>2, <2>3, <2>4, <2>5
<1>1. ASSUME NEW d \in Device, NEW e \in Edit, Capture(d, e) PROVE ClocksInv'
  <2> DEFINE h == Sent(clock[d], now[d])
             o == Draft(d, e)
  <2>1. /\ clock' = [clock EXCEPT ![d] = h]
        /\ drafts' = drafts \/ drafts' = [drafts EXCEPT ![d] = @ \cup {o}]
        /\ UNCHANGED <<ops, queued, applied, merging, now>>
    BY <1>1 DEF Capture
  <2>2. \A f \in Device : clock'[f] = IF f = d THEN h ELSE clock[f]
    BY <2>1 DEF TypeOK
  <2>3. \A f \in Device, g \in Clock : Passed(g, clock[f], now[f]) => Passed(g, clock'[f], now[f])
    <3>1. \A g \in Clock : Passed(g, clock[d], now[d]) => Passed(g, h, now[d])
      <4>1. [wall |-> 0, count |-> 0, by |-> d] \in Clock
        BY DEF Clock
      <4>2. QED
        BY <1>0, <4>1, ClockAdvances
    <3>2. QED
      BY <2>2, <3>1
  <2>4. /\ o.author = d /\ o.hlc = [wall |-> h.wall, count |-> h.count, by |-> d]
        /\ o.hlc.by = d /\ o.hlc \in Clock /\ Passed(o.hlc, h, now[d])
    <3>1. h \in [wall : Nat, count : Nat]
      BY <1>0 DEF Sent
    <3>2. QED
      BY <3>1 DEF Draft, Clock, Behind, Passed
  <2>5. \A g \in Clock : Passed(g, clock[d], now[d]) => g # o.hlc
    BY <1>0, <2>4, ClockAdvances
  <2> HIDE DEF h, o
  <2>6. \A f \in Device : \A p \in drafts'[f] : p \in drafts[f] \/ (f = d /\ p = o)
    BY <2>1 DEF TypeOK
  <2>7. Stamped'
    BY <1>0, <2>1, <2>2, <2>3, <2>4, <2>6 DEF ClocksInv, Stamped
  <2>8. OwnQueued' /\ Merged'
    BY <1>0, <2>1, <2>3 DEF ClocksInv, OwnQueued, Merged
  <2>9. \A i \in 1..Len(ops) : ops[i].hlc # o.hlc
    <3>1. TAKE i \in 1..Len(ops)
    <3>2. CASE ops[i].author = d
      BY <1>0, <2>5, <3>2 DEF ClocksInv, Stamped
    <3>3. CASE ops[i].author # d
      BY <2>4, <3>3 DEF ClocksInv, Stamped
    <3>4. QED
      BY <3>2, <3>3
  <2>10. \A p \in drafts[d] : p.hlc # o.hlc
    BY <1>0, <2>5 DEF ClocksInv, Stamped
  <2>11. NoTwins'
    BY <2>1, <2>6, <2>9, <2>10 DEF ClocksInv, NoTwins
  <2>12. QED
    BY <2>7, <2>8, <2>11 DEF ClocksInv
<1>2. ASSUME NEW d \in Device, NEW o \in drafts[d], Queue(d, o) PROVE ClocksInv'
  <2>1. /\ ops' = Append(ops, o) /\ o \in OpRecord
        /\ drafts' = [drafts EXCEPT ![d] = @ \ {o}]
        /\ queued' = [queued EXCEPT ![d] = @ \cup {Len(ops) + 1}]
        /\ UNCHANGED <<applied, clock, merging, now>>
    BY <1>0, <1>2 DEF Queue
  <2>2. /\ Len(ops') = Len(ops) + 1 /\ Len(ops) \in Nat /\ ops'[Len(ops) + 1] = o
        /\ \A i \in 1..Len(ops) : i \in 1..Len(ops') /\ ops'[i] = ops[i]
        /\ \A i \in 1..Len(ops') : i \in 1..Len(ops) \/ i = Len(ops) + 1
    BY <2>1, OpsStay
  <2>3. \A f \in Device : drafts'[f] \subseteq drafts[f] /\ o \notin drafts'[d]
    BY <2>1 DEF TypeOK
  <2>4. \A f \in Device : \A i \in queued'[f] : i \in queued[f] \/ (f = d /\ i = Len(ops) + 1)
    BY <2>1 DEF TypeOK
  <2>5. o.author = d /\ o.hlc.by = d /\ Passed(o.hlc, clock[d], now[d])
    BY DEF ClocksInv, Stamped
  <2>6. Stamped'
    BY <2>1, <2>2, <2>3, <2>5 DEF ClocksInv, Stamped
  <2>7. OwnQueued'
    BY <1>0, <2>1, <2>2, <2>4, <2>5 DEF ClocksInv, OwnQueued
  <2>8. Merged'
    BY <1>0, <2>1, <2>2 DEF ClocksInv, Merged
  <2>9. \A i \in 1..Len(ops) : ops[i].hlc # o.hlc
    BY DEF ClocksInv, NoTwins
  <2>10. \A i, j \in 1..Len(ops') : ops'[i].hlc = ops'[j].hlc => i = j
    BY <2>2, <2>9 DEF ClocksInv, NoTwins
  <2>11. ASSUME NEW f \in Device, NEW p \in drafts'[f] PROVE p.hlc # o.hlc
    <3>1. p \in drafts[f]
      BY <2>3, <2>11
    <3>2. CASE f = d
      BY <2>3, <2>11, <3>1, <3>2 DEF ClocksInv, NoTwins
    <3>3. CASE f # d
      BY <2>5, <3>1, <3>3 DEF ClocksInv, Stamped
    <3>4. QED
      BY <3>2, <3>3
  <2>12. NoTwins'
    BY <2>2, <2>3, <2>10, <2>11 DEF ClocksInv, NoTwins
  <2>13. QED
    BY <2>6, <2>7, <2>8, <2>12 DEF ClocksInv
<1>3. ASSUME NEW d \in Device, NEW i \in queued[d], ApplyOwn(d, i) PROVE ClocksInv'
  <2>1. /\ queued' = [queued EXCEPT ![d] = @ \ {i}]
        /\ applied' = applied \/ applied' = [applied EXCEPT ![d] = @ \cup {i}]
        /\ UNCHANGED <<ops, drafts, clock, merging, now>>
    BY <1>3 DEF ApplyOwn
  <2>2. /\ \A f \in Device : queued'[f] \subseteq queued[f]
        /\ \A f \in Device : \A j \in applied'[f] : j \in applied[f] \/ (f = d /\ j = i)
    BY <2>1 DEF TypeOK
  <2>3. Passed(ops[i].hlc, clock[d], now[d])
    BY <1>0 DEF ClocksInv, OwnQueued, Stamped
  <2>4. Merged'
    BY <2>1, <2>2, <2>3 DEF ClocksInv, Merged
  <2>5. QED
    BY <2>1, <2>2, <2>4 DEF ClocksInv, Stamped, OwnQueued, NoTwins
<1>4. ASSUME NEW d \in Device, NEW i \in 1..Len(ops), Deliver(d, i) PROVE ClocksInv'
  <2>1. UNCHANGED <<ops, drafts, queued, applied, clock, merging, now>>
    BY <1>4 DEF Deliver
  <2>2. QED
    BY <2>1 DEF ClocksInv, Stamped, OwnQueued, Merged, NoTwins
<1>4a. ASSUME NEW d \in Device, Reduce(d) PROVE ClocksInv'
  <2> DEFINE i == judging[d]
  <2>1. /\ merging[d] = 0
        /\ \/ applied' = applied /\ merging' = merging
           \/ /\ applied' = [applied EXCEPT ![d] = @ \cup {i}]
              /\ merging' = [merging EXCEPT ![d] = i]
        /\ UNCHANGED <<ops, drafts, queued, clock, now>>
    BY <1>4a DEF Reduce, TypeOK
  <2> HIDE DEF i
  <2>2. \A f \in Device : \A j \in applied'[f] \ {merging'[f]} : j \in applied[f] \ {merging[f]}
    <3>1. CASE applied' = applied /\ merging' = merging
      BY <3>1
    <3>2. CASE /\ applied' = [applied EXCEPT ![d] = @ \cup {i}]
               /\ merging' = [merging EXCEPT ![d] = i]
      <4>1. \A f \in Device : f # d => applied'[f] = applied[f] /\ merging'[f] = merging[f]
        BY <3>2 DEF TypeOK
      <4>2. applied'[d] = applied[d] \cup {i} /\ merging'[d] = i
        BY <3>2 DEF TypeOK
      <4>3. 0 \notin applied[d]
        BY <1>0 DEF TypeOK
      <4>4. QED
        BY <2>1, <4>1, <4>2, <4>3
    <3>3. QED
      BY <2>1, <3>1, <3>2
  <2>3. Merged'
    BY <2>1, <2>2 DEF ClocksInv, Merged
  <2>4. QED
    BY <2>1, <2>3 DEF ClocksInv, Stamped, OwnQueued, NoTwins
<1>5. ASSUME NEW d \in Device, MergeClock(d) PROVE ClocksInv'
  <2> DEFINE m == merging[d]
             h == Received(clock[d], ops[m].hlc, now[d])
  <2>1. /\ m \in 1..Len(ops)
        /\ clock' = [clock EXCEPT ![d] = h] /\ merging' = [merging EXCEPT ![d] = 0]
        /\ UNCHANGED <<ops, drafts, queued, applied, now>>
    BY <1>5 DEF MergeClock, TypeOK
  <2>2. /\ Passed(ops[m].hlc, h, now[d])
        /\ \A g \in Clock : Passed(g, clock[d], now[d]) => Passed(g, h, now[d])
    BY <1>0, <2>1, ClockAdvances
  <2>3. /\ \A f \in Device : clock'[f] = IF f = d THEN h ELSE clock[f]
        /\ \A f \in Device : merging'[f] = IF f = d THEN 0 ELSE merging[f]
    BY <2>1 DEF TypeOK
  <2> HIDE DEF h
  <2>4. \A f \in Device, g \in Clock : Passed(g, clock[f], now[f]) => Passed(g, clock'[f], now[f])
    BY <2>2, <2>3
  <2>5. Stamped'
    BY <1>0, <2>1, <2>4 DEF ClocksInv, Stamped
  <2>6. Merged'
    BY <1>0, <2>1, <2>2, <2>3, <2>4 DEF ClocksInv, Merged
  <2>7. QED
    BY <2>1, <2>5, <2>6 DEF ClocksInv, OwnQueued, NoTwins
<1>6. CASE SetWallClock
  <2>1. /\ WallClocks = "shared" => \A d \in Device : now'[d] = now[d] + 1
        /\ UNCHANGED <<ops, drafts, queued, applied, clock, merging>>
    BY <1>6 DEF SetWallClock
  <2>2. ASSUME NEW f \in Device, NEW g \in Clock, Passed(g, clock[f], now[f])
        PROVE  Passed(g, clock[f], now'[f])
    <3>1. g.wall \in Nat /\ now[f] \in Nat
      BY <1>0, ClockParts
    <3>2. QED
      BY <2>1, <2>2, <3>1 DEF Passed
  <2>3. Stamped' /\ Merged'
    BY <1>0, <2>1, <2>2 DEF ClocksInv, Stamped, Merged
  <2>4. QED
    BY <2>1, <2>3 DEF ClocksInv, OwnQueued, NoTwins
<1>7. ASSUME NEW d \in Device, Relaunch(d) PROVE ClocksInv'
  <2>1. /\ WallClocks = "shared" /\ \A f \in Device : now'[f] = now[f] + 1
        /\ \A f \in Device : drafts'[f] \subseteq drafts[f] /\ queued'[f] \subseteq queued[f]
        /\ UNCHANGED <<ops, applied>>
    BY <1>7 DEF Relaunch, RelaunchesMoveOn, TypeOK
  <2>2. ASSUME NEW f \in Device, NEW g \in Clock, g.wall <= now[f]
        PROVE  Passed(g, clock'[f], now'[f])
    <3>1. g.wall \in Nat /\ now[f] \in Nat
      BY <1>0, ClockParts
    <3>2. QED
      BY <2>1, <2>2, <3>1 DEF Passed
  <2>3. /\ \A f \in Device : \A o \in drafts[f] : o.hlc.wall <= now[f]
        /\ \A f \in Device : \A i \in 1..Len(ops) : ops[i].hlc.wall <= now[f]
    BY <2>1 DEF SharedTime
  <2>4. Stamped' /\ Merged'
    BY <1>0, <2>1, <2>2, <2>3 DEF ClocksInv, Stamped, Merged
  <2>5. QED
    BY <2>1, <2>4 DEF ClocksInv, OwnQueued, NoTwins
<1>8. ASSUME NEW d \in Device, NEW o \in drafts[d], RefuseToAuthor(d, o) PROVE ClocksInv'
  <2>1. \A f \in Device : drafts'[f] \subseteq drafts[f]
    BY <1>8 DEF RefuseToAuthor, TypeOK
  <2>2. QED
    BY <1>8, <2>1 DEF RefuseToAuthor, ClocksInv, Stamped, OwnQueued, Merged, NoTwins
<1>9. CASE UNCHANGED vars
  BY <1>9 DEF vars, ClocksInv, Stamped, OwnQueued, Merged, NoTwins
<1>9a. ASSUME NEW d \in Device, ReducerFails(d) PROVE ClocksInv'
  <2>1. UNCHANGED <<ops, drafts, applied, clock, merging, now>>
    BY <1>9a DEF ReducerFails
  <2>2. queued' = queued \/ \E i \in queued[d] : queued' = [queued EXCEPT ![d] = @ \ {i}]
    BY <1>9a DEF ReducerFails
  <2>3. queued = [f \in Device |-> queued[f]]
    BY DEF TypeOK
  <2>4. \A f \in Device : queued'[f] \subseteq queued[f]
    BY <2>2, <2>3
  <2>5. QED
    BY <2>1, <2>4 DEF ClocksInv, Stamped, OwnQueued, Merged, NoTwins
<1>10. QED
  BY <1>1, <1>2, <1>3, <1>4, <1>4a, <1>9a, <1>5, <1>6, <1>7, <1>8, <1>9 DEF Next, Step

\* The clocks, over whole behaviours.
LEMMA ClocksInvariant ==
  ASSUME RelaunchesMoveOn
  PROVE  Spec => []ClocksInv
<1>1. Init => ClocksInv
  BY DEF Init, ClocksInv, Stamped, OwnQueued, Merged, NoTwins
<1>2. TypeOK /\ TypeOK' /\ SharedTime /\ ClocksInv /\ [Next]_vars => ClocksInv'
  BY ClocksStep
<1>3. QED
  BY <1>1, <1>2, TypeCorrect, SharedTimeInvariant, PTL DEF Spec

-----------------------------------------------------------------------------
(* Reduction is the join, and so does not depend on the order. *)

\* The writes applied to a cell are writes, with distinct clocks.
LEMMA AppliedAreDistinct ==
  ASSUME TypeOK, NoTwins, NEW I \in SUBSET (1..Len(ops)), NEW c \in Cell
  PROVE  LET W == {Writes(ops[i])[c] : i \in {j \in I : ops[j].edit[c] # Blank}}
         IN  W \in SUBSET Write(c) /\ DistinctClocks(W)
<1> DEFINE J == {j \in I : ops[j].edit[c] # Blank}
           W == {Writes(ops[i])[c] : i \in J}
<1>1. \A i \in J : Writes(ops[i])[c] \in Write(c) /\ Writes(ops[i])[c].clock = ops[i].hlc
  BY WritesOfOp
<1>2. \A i, j \in J : ops[i].hlc = ops[j].hlc => i = j
  BY DEF NoTwins
<1> HIDE DEF J
<1>3. W \in SUBSET Write(c)
  BY <1>1
<1>4. DistinctClocks(W)
  BY <1>1, <1>2 DEF DistinctClocks
<1>5. QED
  BY <1>3, <1>4 DEF J

\* StateIsJoin is inductive.
LEMMA JoinStepOfSystem ==
  ASSUME TypeOK, TypeOK', NoTwins, StateIsJoin, [Next]_vars
  PROVE  StateIsJoin'
<1>1. CASE ReducesNone
  <2>1. \A d \in Device : \A j \in applied[d] : j \in 1..Len(ops)
    BY DEF TypeOK
  <2>2. \A j \in 1..Len(ops) : ops'[j] = ops[j]
    BY <1>1, OpsStay DEF ReducesNone
  <2>3. \A d \in Device, c \in Cell : AppliedTo(d, c)' = AppliedTo(d, c)
    <3>1. TAKE d \in Device, c \in Cell
    <3>2. applied' = applied /\ \A j \in applied[d] : ops'[j] = ops[j]
      BY <1>1, <2>1, <2>2 DEF ReducesNone
    <3>3. {j \in applied'[d] : ops'[j].edit[c] # Blank} = {j \in applied[d] : ops[j].edit[c] # Blank}
      BY <3>2
    <3>4. QED
      BY <3>2, <3>3 DEF AppliedTo, Writes
  <2>4. QED
    BY <1>1, <2>3 DEF ReducesNone, StateIsJoin
<1>2. ASSUME NEW e \in Device, NEW i \in 1..Len(ops), ReducesOne(e, i)
      PROVE  StateIsJoin'
  <2>1. ASSUME NEW d \in Device, NEW c \in Cell
        PROVE  IsJoin(c, AppliedTo(d, c)', state'[d][c])
    <3>1. state'[d][c] = IF d = e THEN Join(c, state[e][c], Writes(ops[i])[c]) ELSE state[d][c]
      BY <1>2, TypeOfReduction DEF ReducesOne
    <3>2. applied'[d] = IF d = e THEN applied[e] \cup {i} ELSE applied[d]
      BY <1>2 DEF ReducesOne, TypeOK
    <3>3. ops' = ops /\ applied'[d] \in SUBSET (1..Len(ops))
      BY <1>2 DEF ReducesOne, TypeOK
    <3>4. IsJoin(c, AppliedTo(d, c), state[d][c])
      BY DEF StateIsJoin
    <3> DEFINE new == Writes(ops[i])[c]
    <3>5. CASE d = e /\ ops[i].edit[c] # Blank
      <4>1. AppliedTo(d, c)' = AppliedTo(d, c) \cup {new}
        BY <3>2, <3>3, <3>5 DEF AppliedTo, Writes
      <4>2. AppliedTo(d, c)' \in SUBSET Write(c) /\ DistinctClocks(AppliedTo(d, c)')
        BY <3>3, AppliedAreDistinct DEF AppliedTo, Writes
      <4>3. new \in Write(c)
        BY <3>5, WritesOfOp
      <4>4. QED
        BY <3>1, <3>4, <3>5, <4>1, <4>2, <4>3, JoinStep
    <3>6. CASE d = e /\ ops[i].edit[c] = Blank
      <4>1. {j \in applied'[d] : ops[j].edit[c] # Blank} = {j \in applied[d] : ops[j].edit[c] # Blank}
        BY <3>2, <3>6
      <4>2. AppliedTo(d, c)' = AppliedTo(d, c)
        BY <3>3, <4>1 DEF AppliedTo, Writes
      <4>3. new = Blank
        BY <3>6, WritesOfOp
      <4>4. QED
        BY <3>1, <3>4, <3>6, <4>2, <4>3, JoinWithBlank
    <3>7. CASE d # e
      <4>1. AppliedTo(d, c)' = AppliedTo(d, c)
        BY <3>2, <3>3, <3>7 DEF AppliedTo, Writes
      <4>2. QED
        BY <3>1, <3>4, <3>7, <4>1
    <3>8. QED
      BY <3>5, <3>6, <3>7
  <2>2. QED
    BY <2>1 DEF StateIsJoin
<1>3. QED
  BY <1>1, <1>2, StepsReduceOneOrNone

\* What a device shows is the least upper bound of the writes it applied, whichever
\* strategy arbitrates the cell, so long as no process starts over behind what it gave out
\* (Reducer.apply, FieldMergeStrategy).
THEOREM ReductionIsJoin ==
  ASSUME RelaunchesMoveOn
  PROVE  Spec => []StateIsJoin
<1>1. Init => StateIsJoin
  BY DEF Init, StateIsJoin, AppliedTo, IsJoin
<1>2. TypeOK /\ TypeOK' /\ ClocksInv /\ StateIsJoin /\ [Next]_vars => StateIsJoin'
  BY JoinStepOfSystem DEF ClocksInv
<1>3. QED
  BY <1>1, <1>2, TypeCorrect, ClocksInvariant, PTL DEF Spec

\* Devices that applied the same ops show the same, in whatever order the ops reached
\* them: reducer.dart's "order-independent in both directions", for any number of
\* devices, ops and cells, so long as no process starts over behind what it gave out.
THEOREM DevicesConverge ==
  ASSUME RelaunchesMoveOn
  PROVE  Spec => []Convergence
<1>1. TypeOK /\ ClocksInv /\ StateIsJoin => Convergence
  <2> SUFFICES ASSUME TypeOK, ClocksInv, StateIsJoin,
                      NEW d \in Device, NEW e \in Device, applied[d] = applied[e]
               PROVE  state[d] = state[e]
    BY DEF Convergence
  <2>1. ASSUME NEW c \in Cell PROVE state[d][c] = state[e][c]
    <3>1. AppliedTo(d, c) = AppliedTo(e, c)
      BY DEF AppliedTo
    <3>2. IsJoin(c, AppliedTo(d, c), state[d][c]) /\ IsJoin(c, AppliedTo(d, c), state[e][c])
      BY <3>1 DEF StateIsJoin
    <3>3. applied[d] \in SUBSET (1..Len(ops))
      BY DEF TypeOK
    <3>4. AppliedTo(d, c) \in SUBSET Write(c) /\ DistinctClocks(AppliedTo(d, c))
      BY <3>3, AppliedAreDistinct DEF AppliedTo, ClocksInv
    <3>5. QED
      BY <3>2, <3>4, JoinIsUnique
  <2>2. state[d] = [c \in Cell |-> state[d][c]] /\ state[e] = [c \in Cell |-> state[e][c]]
    BY DEF TypeOK
  <2>3. QED
    BY <2>1, <2>2
<1>2. QED
  BY <1>1, TypeCorrect, ClocksInvariant, ReductionIsJoin, PTL

\* A write whose capture was cut off comes back to its author as an echo: where wall clocks
\* agree, devices that were served everything differ by nothing but the ops whose receipt
\* was cut off between the op log and the reducer, whatever was under way when processes
\* ended or storage failed (SyncClient.capture, _receive).
THEOREM ServedAlikeShowsAlike == Spec => []AlikeOnceServed
<1>1. ASSUME WallClocks = "shared"
      PROVE  TypeOK /\ SharedTime /\ Convergence => AlikeOnceServed
  <2> SUFFICES ASSUME TypeOK, SharedTime, Convergence,
                      \A d \in Device : received[d] = 1..Len(ops) /\ judging[d] = 0,
                      NEW d \in Device, NEW e \in Device, Missing(d) = Missing(e)
               PROVE  state[d] = state[e]
    BY DEF AlikeOnceServed
  <2>1. \A f \in Device : applied[f] = 1..Len(ops) \ Missing(f)
    <3>1. \A f \in Device : 1..Len(ops) \subseteq applied[f] \cup cut[f] \cup {0}
      BY <1>1 DEF SharedTime
    <3>2. \A f \in Device : applied[f] \subseteq 1..Len(ops) /\ 0 \notin 1..Len(ops)
      BY DEF TypeOK
    <3>3. ASSUME NEW f \in Device PROVE applied[f] = 1..Len(ops) \ Missing(f)
      <4> DEFINE all == 1..Len(ops)
      <4>1. all \subseteq applied[f] \cup cut[f] \cup {0} /\ applied[f] \subseteq all /\ 0 \notin all
        BY <3>1, <3>2
      <4> HIDE DEF all
      <4>2. applied[f] = all \ (cut[f] \ applied[f])
        BY <4>1
      <4>3. QED
        BY <4>2 DEF all, Missing
    <3>4. QED
      BY <3>3
  <2>2. applied[d] = applied[e]
    BY <2>1
  <2>3. QED
    BY <2>2 DEF Convergence
<1>2. CASE WallClocks = "shared"
  <2>1. Spec => []Convergence
    BY <1>2, DevicesConverge DEF RelaunchesMoveOn
  <2>2. TypeOK /\ SharedTime /\ Convergence => AlikeOnceServed
    BY <1>1, <1>2
  <2>3. QED
    BY <2>1, <2>2, TypeCorrect, SharedTimeInvariant, PTL
<1>3. CASE WallClocks # "shared"
  <2>1. AlikeOnceServed
    BY <1>3 DEF AlikeOnceServed
  <2>2. QED
    BY <2>1, PTL
<1>4. QED
  BY <1>2, <1>3

\* A local write is later than everything its device shows, so long as no process starts
\* over behind what it gave out (HlcClock.send and receive, SyncClient.capture).
THEOREM LocalWritesWin ==
  ASSUME RelaunchesMoveOn
  PROVE  Spec => LocalWriteWins
<1>1. TypeOK /\ ClocksInv /\ StateIsJoin /\ [Next]_vars =>
        \A d \in Device : merging[d] = 0 =>
          \A o \in drafts'[d] \ drafts[d] : \A c \in Cell :
            state[d][c] # Blank => Later(o.hlc, state[d][c].clock)
  <2> SUFFICES ASSUME TypeOK, ClocksInv, StateIsJoin, [Next]_vars,
                      NEW d \in Device, merging[d] = 0, NEW o \in drafts'[d] \ drafts[d],
                      NEW c \in Cell, state[d][c] # Blank
               PROVE  Later(o.hlc, state[d][c].clock)
    OBVIOUS
  <2>1. PICK e \in Edit : Capture(d, e) /\ o = Draft(d, e)
    <3>1. ASSUME NEW f \in Device, NEW e \in Edit, Capture(f, e)
          PROVE  f = d /\ o = Draft(d, e)
      <4>1. drafts' = drafts \/ drafts' = [drafts EXCEPT ![f] = @ \cup {Draft(f, e)}]
        BY <3>1 DEF Capture
      <4>2. drafts \in [Device -> SUBSET OpRecord] /\ o \in drafts'[d] /\ o \notin drafts[d]
        BY DEF TypeOK
      <4>3. QED
        BY <4>1, <4>2
    <3>2. ASSUME NEW f \in Device, NEW p \in drafts[f], Queue(f, p) PROVE FALSE
      BY <3>2 DEF Queue, TypeOK
    <3>3. ASSUME NEW f \in Device, NEW i \in queued[f], ApplyOwn(f, i) PROVE FALSE
      BY <3>3 DEF ApplyOwn
    <3>4. ASSUME NEW f \in Device, NEW i \in 1..Len(ops), Deliver(f, i) PROVE FALSE
      BY <3>4 DEF Deliver
    <3>5. ASSUME NEW f \in Device, MergeClock(f) PROVE FALSE
      BY <3>5 DEF MergeClock
    <3>6. ASSUME NEW f \in Device, Relaunch(f) PROVE FALSE
      BY <3>6 DEF Relaunch
    <3>7. ASSUME SetWallClock PROVE FALSE
      BY <3>7 DEF SetWallClock
    <3>8. ASSUME UNCHANGED vars PROVE FALSE
      BY <3>8 DEF vars
    <3>9. ASSUME NEW f \in Device, NEW p \in drafts[f], RefuseToAuthor(f, p) PROVE FALSE
      BY <3>9 DEF RefuseToAuthor, TypeOK
    <3>9a. ASSUME NEW f \in Device, Reduce(f) \/ ReducerFails(f) PROVE FALSE
      BY <3>9a DEF Reduce, ReducerFails
    <3>10. QED
      BY <3>9a, <3>1, <3>2, <3>3, <3>4, <3>5, <3>6, <3>7, <3>8, <3>9 DEF Next, Step
  <2>2. PICK i \in applied[d] : state[d][c].clock = ops[i].hlc
    <3>1. PICK w \in AppliedTo(d, c) : state[d][c].clock = w.clock
      BY DEF StateIsJoin, IsJoin, IsLatest
    <3>2. PICK i \in applied[d] : w = Writes(ops[i])[c] /\ ops[i].edit[c] # Blank
      BY DEF AppliedTo
    <3>3. w.clock = ops[i].hlc
      BY <3>2, WritesOfOp DEF TypeOK
    <3>4. QED
      BY <3>1, <3>2, <3>3
  <2>3. i \in 1..Len(ops) /\ i # merging[d] /\ ops[i].hlc \in Clock
    BY WritesOfOp DEF TypeOK
  <2>4. Passed(ops[i].hlc, clock[d], now[d])
    BY <2>3 DEF ClocksInv, Merged
  <2>5. clock[d] \in [wall : Nat, count : Nat] /\ now[d] \in Nat
    BY DEF TypeOK
  <2>6. Later([wall |-> Sent(clock[d], now[d]).wall, count |-> Sent(clock[d], now[d]).count,
               by |-> d], ops[i].hlc)
    BY <2>3, <2>4, <2>5, ClockAdvances
  <2>7. QED
    BY <2>1, <2>2, <2>6 DEF Draft
<1>2. QED
  BY <1>1, TypeCorrect, ClocksInvariant, ReductionIsJoin, PTL DEF Spec, LocalWriteWins

-----------------------------------------------------------------------------
(* How far a clock may run ahead. *)

\* The op a device is about to merge passed its guard.
MergesInTime ==
  WallClocks # "any" => \A d \in Device : merging[d] # 0 => InTime(d, ops[merging[d]])

\* No peer, however far its clock runs ahead, and no relaunch brings a device's clock further
\* ahead of its own wall clock than the skew bound, while wall clocks only advance
\* (guardPayload, HlcClock.receive).
THEOREM ClocksStayWithinSkew == Spec => []ClockWithinSkew
<1>1. Init => MergesInTime /\ ClockWithinSkew
  BY ReplicasConstants DEF Init, MergesInTime, ClockWithinSkew, NewClock
<1>2. ASSUME TypeOK, TypeOK', MergesInTime, ClockWithinSkew, [Next]_vars
      PROVE  MergesInTime' /\ ClockWithinSkew'
  <2> SUFFICES ASSUME WallClocks # "any" PROVE MergesInTime' /\ ClockWithinSkew'
    BY DEF MergesInTime, ClockWithinSkew
  <2> USE <1>2
  <2>0. /\ \A d \in Device : now[d] \in Nat /\ now'[d] \in Nat
        /\ \A d \in Device : clock[d] \in [wall : Nat, count : Nat] /\ clock[d].wall \in Nat
        /\ \A d \in Device : merging[d] # 0 => merging[d] \in 1..Len(ops)
        /\ \A i \in 1..Len(ops) : ops[i].hlc \in Clock /\ ops[i].hlc.wall \in Nat
        /\ SkewBound \in Nat
    <3>1. \A i \in 1..Len(ops) : ops[i].hlc \in Clock /\ ops[i].hlc.wall \in Nat
      BY WritesOfOp, ClockParts
    <3>2. QED
      BY <3>1, ReplicasConstants DEF TypeOK
  <2>1. ASSUME NEW d \in Device, NEW e \in Edit, Capture(d, e)
        PROVE  MergesInTime' /\ ClockWithinSkew'
    <3>1. Sent(clock[d], now[d]).wall <= now[d] + SkewBound
      <4>1. /\ clock[d].wall <= now[d] + SkewBound /\ now[d] <= now[d] + SkewBound
            /\ now[d] + SkewBound \in Nat
        BY <2>0 DEF ClockWithinSkew
      <4>2. QED
        BY <2>0, <4>1, WallOfClock
    <3>2. clock'[d] = Sent(clock[d], now[d]) /\ \A f \in Device : f # d => clock'[f] = clock[f]
      BY <2>1 DEF Capture, TypeOK
    <3>3. ClockWithinSkew'
      BY <2>1, <3>1, <3>2 DEF Capture, ClockWithinSkew
    <3>4. MergesInTime'
      BY <2>1 DEF Capture, MergesInTime, InTime
    <3>5. QED
      BY <3>3, <3>4
  <2>2. ASSUME NEW d \in Device, NEW o \in drafts[d], Queue(d, o)
        PROVE  MergesInTime' /\ ClockWithinSkew'
    <3>1. o \in OpRecord
      BY DEF TypeOK
    <3>2. \A i \in 1..Len(ops) : ops'[i] = ops[i]
      BY <2>2, <3>1, OpsStay DEF Queue
    <3>3. QED
      BY <2>0, <2>2, <3>2 DEF Queue, MergesInTime, ClockWithinSkew, InTime
  <2>3. ASSUME NEW d \in Device, NEW i \in queued[d], ApplyOwn(d, i)
        PROVE  MergesInTime' /\ ClockWithinSkew'
    BY <2>3 DEF ApplyOwn, MergesInTime, ClockWithinSkew, InTime
  <2>4. ASSUME NEW d \in Device, Reduce(d) PROVE MergesInTime' /\ ClockWithinSkew'
    <3> DEFINE i == judging[d]
    <3>1. /\ UNCHANGED <<ops, clock, now>>
          /\ merging' = merging \/ (InTime(d, ops[i]) /\ merging' = [merging EXCEPT ![d] = i])
      BY <2>4 DEF Reduce
    <3> HIDE DEF i
    <3>2. MergesInTime'
      BY <3>1 DEF MergesInTime, InTime, TypeOK
    <3>3. QED
      BY <3>1, <3>2 DEF ClockWithinSkew
  <2>4a. ASSUME UNCHANGED <<ops, clock, merging, now>> PROVE MergesInTime' /\ ClockWithinSkew'
    BY <2>4a DEF MergesInTime, ClockWithinSkew, InTime
  <2>4b. ASSUME NEW d \in Device, NEW i \in 1..Len(ops), Deliver(d, i)
         PROVE  MergesInTime' /\ ClockWithinSkew'
    BY <2>4a, <2>4b DEF Deliver
  <2>4c. ASSUME NEW d \in Device, ReducerFails(d) PROVE MergesInTime' /\ ClockWithinSkew'
    BY <2>4a, <2>4c DEF ReducerFails
  <2>5. ASSUME NEW d \in Device, MergeClock(d) PROVE MergesInTime' /\ ClockWithinSkew'
    <3> DEFINE r == ops[merging[d]].hlc
               h == Received(clock[d], r, now[d])
    <3>1. /\ clock'[d] = h /\ \A f \in Device : f # d => clock'[f] = clock[f]
          /\ merging'[d] = 0 /\ \A f \in Device : f # d => merging'[f] = merging[f]
          /\ UNCHANGED <<ops, now>> /\ merging[d] # 0
      BY <2>5 DEF MergeClock, TypeOK
    <3>2. r \in Clock /\ r.wall <= now[d] + SkewBound
      BY <2>0, <3>1 DEF MergesInTime, InTime
    <3>3. h.wall <= now[d] + SkewBound
      BY <2>0, <3>2, WallOfClock DEF ClockWithinSkew
    <3> HIDE DEF h
    <3>4. ClockWithinSkew'
      BY <3>1, <3>3 DEF ClockWithinSkew
    <3>5. MergesInTime'
      BY <3>1 DEF MergesInTime, InTime
    <3>6. QED
      BY <3>4, <3>5
  <2>6. ASSUME \A d \in Device : now'[d] >= now[d],
               UNCHANGED <<ops, clock, merging>>
        PROVE  MergesInTime' /\ ClockWithinSkew'
    <3>1. ClockWithinSkew'
      BY <2>0, <2>6 DEF ClockWithinSkew
    <3>2. MergesInTime'
      BY <2>0, <2>6 DEF MergesInTime, InTime
    <3>3. QED
      BY <3>1, <3>2
  <2>7. CASE SetWallClock
    <3>1. \A d \in Device : now'[d] >= now[d]
      BY <2>0, <2>7, ReplicasConstants DEF SetWallClock
    <3>2. QED
      BY <2>6, <2>7, <3>1 DEF SetWallClock
  <2>8. ASSUME NEW d \in Device, Relaunch(d) PROVE MergesInTime' /\ ClockWithinSkew'
    <3>1. \A f \in Device : now'[f] >= now[f]
      BY <2>0, <2>8 DEF Relaunch, TypeOK
    <3>2. /\ clock'[d].wall = 0 /\ \A f \in Device : f # d => clock'[f] = clock[f]
          /\ merging'[d] = 0 /\ \A f \in Device : f # d => merging'[f] = merging[f]
          /\ ops' = ops
      BY <2>8 DEF Relaunch, TypeOK, NewClock
    <3>3. ClockWithinSkew'
      BY <2>0, <3>1, <3>2 DEF ClockWithinSkew
    <3>4. ASSUME NEW f \in Device, merging'[f] # 0 PROVE InTime(f, ops[merging[f]])'
      <4>1. /\ f # d /\ merging'[f] = merging[f] /\ merging[f] # 0
            /\ ops[merging[f]].hlc.wall \in Nat
        BY <2>0, <3>2, <3>4
      <4>2. ops[merging[f]].hlc.wall <= now[f] + SkewBound
        BY <4>1 DEF MergesInTime, InTime
      <4>3. QED
        BY <2>0, <3>1, <3>2, <4>1, <4>2 DEF InTime
    <3>5. QED
      BY <3>3, <3>4 DEF MergesInTime
  <2>9. CASE UNCHANGED vars
    BY <2>9 DEF vars, MergesInTime, ClockWithinSkew, InTime
  <2>10. ASSUME NEW d \in Device, NEW o \in drafts[d], RefuseToAuthor(d, o)
         PROVE  MergesInTime' /\ ClockWithinSkew'
    BY <2>10 DEF RefuseToAuthor, MergesInTime, ClockWithinSkew, InTime
  <2>11. QED
    BY <2>1, <2>2, <2>3, <2>4, <2>4b, <2>4c, <2>5, <2>7, <2>8, <2>9, <2>10 DEF Next, Step
<1>3. QED
  BY <1>1, <1>2, TypeCorrect, PTL DEF Spec
=============================================================================
