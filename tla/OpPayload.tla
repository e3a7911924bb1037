------------------------------ MODULE OpPayload ------------------------------
(***************************************************************************)
(* The payload of a content or compaction op as the Python codec reads it: *)
(* the clock, the optional clocks of fields and of the tombstone, and the  *)
(* shape rules of compactions.  A JSON object is a record; a key may be    *)
(* absent or null.  Ids of members are numbers, ordered as their hex is.   *)
(***************************************************************************)
EXTENDS Envelope

Absent == [json |-> "absent"]
JsonNull == [json |-> "null"]
Missing == {Absent, JsonNull}

\* The clock (wall_ms, counter, member), compared as a tuple.
Hlc == [wall_ms : Int, counter : Int, member : Nat]

HlcLess(a, b) ==
  \/ a.wall_ms < b.wall_ms
  \/ a.wall_ms = b.wall_ms /\ a.counter < b.counter
  \/ a.wall_ms = b.wall_ms /\ a.counter = b.counter /\ a.member < b.member

FromJson(raw) == FirstFault(<< <<raw \notin Hlc, "malformed_payload">> >>)

\* A field's clock is read when the key is there, null included, while for
\* fields, tombstone and tombstone_hlc null reads like a missing key.
OrElse(raw, default) == IF raw \in Missing THEN default ELSE raw

NoFields == [name \in {} |-> Absent]

Decode(raw) ==
  [hlc           |-> raw.hlc,
   fields        |-> OrElse(raw.fields, NoFields),
   tombstone     |-> OrElse(raw.tombstone, FALSE),
   tombstone_hlc |-> OrElse(raw.tombstone_hlc, Absent)]

DecodeFault(raw) ==
  LET payload == Decode(raw)
      badField == \E name \in DOMAIN payload.fields :
                    /\ payload.fields[name].hlc # Absent
                    /\ FromJson(payload.fields[name].hlc) # Ok
  IN FirstFault(<<
       <<~raw.collection_named, "malformed_payload">>,
       <<badField, "malformed_payload">>,
       <<payload.tombstone_hlc # Absent /\ FromJson(payload.tombstone_hlc) # Ok,
         "malformed_payload">>,
       <<FromJson(raw.hlc) # Ok, "malformed_payload">> >>)

\* The clock the tombstone applies at.
EffectiveTombstoneHlc(payload) ==
  IF payload.tombstone_hlc = Absent THEN payload.hlc ELSE payload.tombstone_hlc

\* guard_op_class_shape: a compaction asserts nothing at its own clock, and no
\* other class carries a tombstone's.
GuardOpClassShape(payload, op_class) ==
  IF op_class # OP_CLASS_COMPACTION
  THEN FirstFault(<<
    <<payload.tombstone_hlc # Absent, "tombstone_hlc_outside_compaction">> >>)
  ELSE FirstFault(<<
    <<\E name \in DOMAIN payload.fields : payload.fields[name].hlc = Absent,
      "compaction_field_without_hlc">>,
    <<payload.tombstone /\ payload.tombstone_hlc = Absent,
      "compaction_tombstone_without_hlc">> >>)
=============================================================================
