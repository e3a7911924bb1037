------------------------------ MODULE MCOutbox ------------------------------
(***************************************************************************)
(* Instances of Outbox: a workspace another device has founded, or may      *)
(* found first.  LossyFounding says whether answers may be lost where the   *)
(* device itself may be the founder.                                        *)
(***************************************************************************)
EXTENDS Outbox

CONSTANT LossyFounding

MCOutboxInit == OutboxInit /\ (FoundsWithoutLoss \/ LossyFounding)

MCOutboxSpec == MCOutboxInit /\ [][OutboxNext]_outboxVars /\ OutboxFairness
=============================================================================
