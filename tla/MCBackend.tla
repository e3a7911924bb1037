----------------------------- MODULE MCBackend ------------------------------
(***************************************************************************)
(* One instance of the parts of the system that share no state with one    *)
(* another: a behaviour lives in the plane its initial state picks and the *)
(* other planes stand still, so their state spaces add up.                 *)
(***************************************************************************)
EXTENDS Access, MemberRegistry, RecoveryEscrow, KeyWrapStore, SignalChannel, MCOutbox, TLC

CONSTANTS g1, g2, b1, b2, k1, k2

\* Two devices, alone and together, sealed to twice.
MCProposal == {[wraps |-> g1 :> b1 @@ g2 :> b1, escrow |-> b1],
               [wraps |-> g1 :> b2 @@ g2 :> b1, escrow |-> b1],
               [wraps |-> g1 :> b1, escrow |-> b1],
               [wraps |-> [m \in {} |-> b1], escrow |-> b2]}

\* Two devices with a socket each.
MCOwner == k1 :> g1 @@ k2 :> g2

VARIABLE plane

backendVars == <<plane, accessVars, registryVars, escrowVars, keyWrapVars, signalVars, outboxVars>>

BackendInit == /\ plane \in {"access", "registry", "escrow", "wraps", "signal", "outbox"}
               /\ AccessInit /\ RegistryInit /\ EscrowInit /\ KeyWrapInit /\ SignalInit
               /\ MCOutboxInit /\ (plane # "outbox" => founder = Nobody /\ faults = MaxFaults)

BackendNext ==
  /\ UNCHANGED plane
  /\ \/ plane = "access" /\ AccessNext
     \/ plane # "access" /\ UNCHANGED accessVars
  /\ \/ plane = "registry" /\ RegistryNext
     \/ plane # "registry" /\ UNCHANGED registryVars
  /\ \/ plane = "escrow" /\ EscrowNext
     \/ plane # "escrow" /\ UNCHANGED escrowVars
  /\ \/ plane = "wraps" /\ KeyWrapNext
     \/ plane # "wraps" /\ UNCHANGED keyWrapVars
  /\ \/ plane = "signal" /\ SignalNext
     \/ plane # "signal" /\ UNCHANGED signalVars
  /\ \/ plane = "outbox" /\ OutboxNext
     \/ plane # "outbox" /\ UNCHANGED outboxVars

\* The steps that fairness is about are disabled outside their own planes.
BackendSpec == BackendInit /\ [][BackendNext]_backendVars
                 /\ SignalFairness /\ OutboxFairness

\* The type invariants of the planes.
BackendTypeOK == /\ AccessTypeOK /\ RegistryTypeOK /\ EscrowTypeOK /\ KeyWrapTypeOK
                 /\ SignalTypeOK /\ OutboxTypeOK
=============================================================================
