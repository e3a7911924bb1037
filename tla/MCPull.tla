------------------------------- MODULE MCPull -------------------------------
(***************************************************************************)
(* A device that pulls while others post: the server with the cursor of one *)
(* puller.  Its pages hold what has committed past the cursor; how a page   *)
(* is received and stored is SyncReceiver's matter.                         *)
(***************************************************************************)
EXTENDS MCServer

VARIABLES since,   \* the puller's cursor
          served   \* the seqs it has been served

pullVars == <<histVars, since, served>>

\* pull_ops, page after page to the last: the committed rows past the cursor
\* that no prune hides.
PullOps ==
  LET rows == {q \in DOMAIN log : q > since /\ stamp[q] = Null}
  IN /\ rows # {}
     /\ served' = served \cup rows
     /\ since' = Max(rows)
     /\ UNCHANGED histVars

PullInit == MCInit /\ since = 0 /\ served = {}
PullNext == PullOps \/ (HistNext /\ UNCHANGED <<since, served>>)
PullSpec == PullInit /\ [][PullNext]_pullVars

\* routes.py, signal_socket: "whatever was appended while this client was away
\* is swept up by the pull it provokes, so the server needs no memory of who has
\* seen what": a row of the log has been served or lies past the cursor, where the
\* next pull finds it.
AppendedIsSweptUp ==
  \A q \in DOMAIN log : q \in served \/ q > since \/ stamp[q] # Null
=============================================================================
