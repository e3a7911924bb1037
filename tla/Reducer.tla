------------------------------ MODULE Reducer ------------------------------
(***************************************************************************)
(* Hybrid logical clocks and the reduction of ops to the state a device     *)
(* shows: per cell, the join of every write it applied.                     *)
(*                                                                          *)
(* A cell is one field of one entity, or the tombstone of one entity.  What *)
(* an op writes and what a device holds have the same shape: a function     *)
(* from cells to a value with a clock, or Blank.  Member ids are numbers:   *)
(* 32 lowercase hex digits compare as strings the way they do as numbers.   *)
(***************************************************************************)
EXTENDS Naturals

CONSTANTS
  Device,     \* the members: their ids, as numbers
  Cell,       \* fields and tombstones
  Strategy,   \* "lww", "max_timestamp_value" or "set_merge", per cell
  Element,    \* what a set-valued cell may contain
  Blank       \* a cell nobody wrote

ASSUME ReducerConstants ==
  /\ Device \subseteq Nat
  /\ Strategy \in [Cell -> {"lww", "max_timestamp_value", "set_merge"}]

\* Timestamps and plain values are numbers, in the order maxTimestampValue gives them.
ValueOf(c) == IF Strategy[c] = "set_merge" THEN SUBSET Element ELSE Nat

Clock    == [wall : Nat, count : Nat, by : Device]
Write(c) == [value : ValueOf(c), clock : Clock]

\* The reduced state of a device, and the writes of an op.
IsState(st) == \A c \in Cell : st[c] = Blank \/ st[c] \in Write(c)

ASSUME BlankIsNoWrite == \A c \in Cell : Blank \notin Write(c)

-----------------------------------------------------------------------------
(* Hlc and HlcClock. *)

\* Mutant: the order stops at the wall clock and the counter.
LaterUntied(a, b) == a.wall > b.wall \/ (a.wall = b.wall /\ a.count > b.count)

\* Hlc.compareTo: by wall clock, then counter, then member id.
Later(a, b) ==
  \/ a.wall > b.wall
  \/ a.wall = b.wall /\ a.count > b.count
  \/ a.wall = b.wall /\ a.count = b.count /\ a.by > b.by

Latest(a, b) == IF Later(a, b) THEN a ELSE b

\* HlcClock holds the last wall clock and counter it gave out, from <<0, 0>> on.
NewClock == [wall |-> 0, count |-> 0]

Sent(h, now) ==
  IF now > h.wall THEN [wall |-> now, count |-> 0]
  ELSE [wall |-> h.wall, count |-> h.count + 1]

\* Mutant: the remote clock is taken over, and not stepped past.
ReceivedAsIs(h, remote, now) ==
  IF remote.wall > h.wall /\ remote.wall >= now
  THEN [wall |-> remote.wall, count |-> 0]
  ELSE IF now > h.wall THEN [wall |-> now, count |-> 0] ELSE h

Received(h, remote, now) ==
  LET merged == IF h.wall >= remote.wall /\ h.wall >= now THEN h.wall
                ELSE IF remote.wall >= now THEN remote.wall ELSE now
      count == IF merged = h.wall /\ merged = remote.wall
               THEN (IF h.count > remote.count THEN h.count ELSE remote.count) + 1
               ELSE IF merged = h.wall      THEN h.count + 1
               ELSE IF merged = remote.wall THEN remote.count + 1
               ELSE 0
  IN  [wall |-> merged, count |-> count]

-----------------------------------------------------------------------------
(* FieldMergeStrategy: the join of a stored write and an incoming one. *)

LwwJoin(old, new) == IF Later(new.clock, old.clock) THEN new ELSE old

\* Mutant: the clock that arrived last is stored, whichever is later.
MaxJoinLastClock(old, new) ==
  [value |-> IF new.value >= old.value THEN new.value ELSE old.value,
   clock |-> new.clock]

MaxJoin(old, new) ==
  [value |-> IF new.value >= old.value THEN new.value ELSE old.value,
   clock |-> Latest(new.clock, old.clock)]

\* Mutant: the later set replaces the earlier one.
SetJoinReplaces(old, new) == IF Later(new.clock, old.clock) THEN new ELSE old

SetJoin(old, new) ==
  [value |-> old.value \cup new.value, clock |-> Latest(new.clock, old.clock)]

Join(c, old, new) ==
  IF new = Blank THEN old
  ELSE IF old = Blank THEN new
  ELSE CASE Strategy[c] = "lww"                 -> LwwJoin(old, new)
         [] Strategy[c] = "max_timestamp_value" -> MaxJoin(old, new)
         [] Strategy[c] = "set_merge"           -> SetJoin(old, new)

\* Reducer.apply: every field and the tombstone of one op, in one transaction.
Reduced(st, writes) == [c \in Cell |-> Join(c, st[c], writes[c])]

\* Mutant: a field the edit leaves out is written as null.
WritesAbsent(edit, h) == [c \in Cell |-> [value |-> edit[c], clock |-> h]]

\* An edit (values only) as an op at clock h writes it.
WritesAt(edit, h) ==
  [c \in Cell |-> IF edit[c] = Blank THEN Blank ELSE [value |-> edit[c], clock |-> h]]

-----------------------------------------------------------------------------
(* What a reduction is meant to be, with no order of arrival in it. *)

IsLatest(h, H) == h \in H /\ \A g \in H : ~Later(g, h)

\* w is the least upper bound of the writes W to a cell: the write with the latest clock;
\* or the greatest value, or the union of the values, with the latest clock.
IsJoin(c, W, w) ==
  IF W = {} THEN w = Blank
  ELSE /\ w \in Write(c)
       /\ IsLatest(w.clock, {v.clock : v \in W})
       /\ Strategy[c] = "lww" => w \in W
       /\ Strategy[c] = "max_timestamp_value" =>
            /\ \E v \in W : w.value = v.value
            /\ \A v \in W : w.value >= v.value
       /\ Strategy[c] = "set_merge" => w.value = UNION {v.value : v \in W}

\* No two writes of W to a cell carry the same clock.
DistinctClocks(W) == \A v, w \in W : v.clock = w.clock => v = w
=============================================================================
