---------------------------- MODULE PrunePayload ----------------------------
(***************************************************************************)
(* The payload of a prune: the compaction it vouches for and the log rows  *)
(* it attests, each with the transport seq, the author's position and the  *)
(* envelope (the hash of it, which stands for the bytes).                  *)
(***************************************************************************)
EXTENDS Envelope, FiniteSets

CONSTANT MaxPruneTargets    \* MAX_PRUNE_TARGETS

ASSUME MaxPruneTargetsAssumption == MaxPruneTargets \in Nat

Targets(payload) ==
  {payload.targets[i] : i \in DOMAIN payload.targets}

\* One target: seq and author_seq are positive.
PruneTargetFault(target) == FirstFault(<<
  <<target.seq < 1, "malformed_prune_payload">>,
  <<target.author_seq < 1, "malformed_prune_payload">> >>)

\* require_prune_shape: some target, not too many, no seq and no author
\* position named twice.
PruneShapeFault(payload) ==
  LET n == Len(payload.targets)
      seqs == {t.seq : t \in Targets(payload)}
      positions == {<<t.author_member_id, t.author_seq>> : t \in Targets(payload)}
  IN FirstFault(<<
       <<n = 0, "prune_targets_empty">>,
       <<n > MaxPruneTargets, "prune_targets_too_many">>,
       <<Cardinality(seqs) # n, "prune_duplicate_target">>,
       <<Cardinality(positions) # n, "prune_duplicate_target">> >>)

PruneDecodeFault(payload) == FirstFault(<<
  <<\E t \in Targets(payload) : PruneTargetFault(t) # Ok,
    "malformed_prune_payload">>,
  <<PruneShapeFault(payload) # Ok, PruneShapeFault(payload)>> >>)
=============================================================================
