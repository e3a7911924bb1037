--------------------------- MODULE SignalChannel ---------------------------
(***************************************************************************)
(* The "there is news" sockets of one workspace: the in-process SignalHub, *)
(* the handshake and the pump of each socket, and the two things a POST    *)
(* does to the hub after its commit.  A poke carries nothing; the device   *)
(* that gets one pulls everything committed past its cursor.  The pump and *)
(* the POST handlers are coroutines of one process, so a step runs from    *)
(* one await to the next, and a death of the process forgets the hub.  A   *)
(* pull that fails is not tried again until the next poke.                 *)
(***************************************************************************)
EXTENDS Naturals, FiniteSets

CONSTANTS Socket,      \* sockets a device may hold, each used again after it ends
          Owner,       \* the member whose token a socket presents
          MaxAppends,  \* bound on the seqs committed
          MaxMishaps   \* bound on deaths of the process and pulls that fail

ASSUME SignalAssumption == MaxAppends \in Nat /\ MaxMishaps \in Nat

VARIABLES head,       \* the last committed seq
          shut,       \* members whose last live grant a committed revoke took
          unpoked,    \* commits whose hub.notify has not run yet
          untripped,  \* revoked members whose hub.revoke has not run yet
          sock,       \* the server side of each socket
          event,      \* SignalSubscription._event
          tripped,    \* SignalSubscription._revoked
          poked,      \* a poke has arrived that the device did not act on yet
          cursor,     \* what the device holding the socket has pulled
          missed,     \* history: the head when the last pull on this socket failed, or 0
          mishaps

signalVars == <<head, shut, unpoked, untripped, sock, event, tripped, poked,
                cursor, missed, mishaps>>

\* away, through the door but not in the hub, in the hub and greeting,
\* waiting in the pump, about to send a poke.
SocketPc == {"away", "checked", "greeting", "waiting", "sending"}

Subscribed(s) == sock[s] \in {"greeting", "waiting", "sending"}
Open(s) == sock[s] # "away"

-----------------------------------------------------------------------------
(* What a POST does after its commit.                                      *)

AppendBatch ==
  /\ head < MaxAppends
  /\ head' = head + 1
  /\ unpoked' = unpoked \cup {head'}
  /\ UNCHANGED <<shut, untripped, sock, event, tripped, poked, cursor, missed, mishaps>>

\* mutant: one waiter is woken
NotifyOne(n) ==
  /\ n \in unpoked
  /\ unpoked' = unpoked \ {n}
  /\ event' = [s \in Socket |-> event[s] \/ (Subscribed(s) /\ s = CHOOSE o \in Socket : TRUE)]
  /\ UNCHANGED <<head, shut, untripped, sock, tripped, poked, cursor, missed, mishaps>>

\* SignalHub.notify: one event per subscriber, so pokes coalesce.
Notify(n) ==
  /\ n \in unpoked
  /\ unpoked' = unpoked \ {n}
  /\ event' = [s \in Socket |-> event[s] \/ Subscribed(s)]
  /\ UNCHANGED <<head, shut, untripped, sock, tripped, poked, cursor, missed, mishaps>>

Revoke(m) ==
  /\ m \notin shut
  /\ shut' = shut \cup {m}
  /\ untripped' = untripped \cup {m}
  /\ UNCHANGED <<head, unpoked, sock, event, tripped, poked, cursor, missed, mishaps>>

\* SignalHub.revoke: the sockets of exactly that member.
HubRevoke(m) ==
  /\ m \in untripped
  /\ untripped' = untripped \ {m}
  /\ tripped' = [s \in Socket |-> tripped[s] \/ (Subscribed(s) /\ Owner[s] = m)]
  /\ UNCHANGED <<head, shut, unpoked, sock, event, poked, cursor, missed, mishaps>>

-----------------------------------------------------------------------------
(* signal_socket: the handshake.                                           *)

\* A socket whose member is revoked is refused and stays away.
Handshake(s) ==
  /\ sock[s] = "away"
  /\ Owner[s] \notin shut
  /\ sock' = [sock EXCEPT ![s] = "checked"]
  /\ UNCHANGED <<head, shut, unpoked, untripped, event, tripped, poked, cursor,
                 missed, mishaps>>

\* mutant: no greeting covers what fell before the subscription
SubscribeUngreeted(s) ==
  /\ sock[s] = "checked"
  /\ sock' = [sock EXCEPT ![s] = "waiting"]
  /\ event' = [event EXCEPT ![s] = FALSE]
  /\ tripped' = [tripped EXCEPT ![s] = FALSE]
  /\ UNCHANGED <<head, shut, unpoked, untripped, poked, cursor, missed, mishaps>>

\* The session is closed (an await) between the check and the subscription.
Subscribe(s) ==
  /\ sock[s] = "checked"
  /\ sock' = [sock EXCEPT ![s] = "greeting"]
  /\ event' = [event EXCEPT ![s] = FALSE]
  /\ tripped' = [tripped EXCEPT ![s] = FALSE]
  /\ UNCHANGED <<head, shut, unpoked, untripped, poked, cursor, missed, mishaps>>

Send(s) ==
  /\ sock[s] \in {"greeting", "sending"}
  /\ sock' = [sock EXCEPT ![s] = "waiting"]
  /\ poked' = [poked EXCEPT ![s] = TRUE]
  /\ UNCHANGED <<head, shut, unpoked, untripped, event, tripped, cursor, missed, mishaps>>

-----------------------------------------------------------------------------
(* _pump_signals.  The keepalive of an idle wait changes nothing.          *)

\* The event is cleared before the poke is sent.
WakeForNews(s) ==
  /\ sock[s] = "waiting" /\ event[s] /\ ~tripped[s]
  /\ event' = [event EXCEPT ![s] = FALSE]
  /\ sock' = [sock EXCEPT ![s] = "sending"]
  /\ UNCHANGED <<head, shut, unpoked, untripped, tripped, poked, cursor, missed, mishaps>>

Away(s) == /\ sock' = [sock EXCEPT ![s] = "away"]
           /\ event' = [event EXCEPT ![s] = FALSE]
           /\ tripped' = [tripped EXCEPT ![s] = FALSE]
           /\ poked' = [poked EXCEPT ![s] = FALSE]
           /\ missed' = [missed EXCEPT ![s] = 0]

WakeRevoked(s) ==
  /\ sock[s] = "waiting" /\ tripped[s]
  /\ Away(s)
  /\ UNCHANGED <<head, shut, unpoked, untripped, cursor, mishaps>>

\* The peer goes away; the drained reader ends the pump wherever it is.
Disconnect(s) ==
  /\ Open(s)
  /\ Away(s)
  /\ UNCHANGED <<head, shut, unpoked, untripped, cursor, mishaps>>

Restart ==
  /\ mishaps < MaxMishaps
  /\ mishaps' = mishaps + 1
  /\ sock' = [s \in Socket |-> "away"]
  /\ event' = [s \in Socket |-> FALSE]
  /\ tripped' = [s \in Socket |-> FALSE]
  /\ poked' = [s \in Socket |-> FALSE]
  /\ missed' = [s \in Socket |-> 0]
  /\ unpoked' = {}
  /\ untripped' = {}
  /\ UNCHANGED <<head, shut, cursor>>

\* A poke means a pull, one at a time; pull_ops refuses a revoked member.
PullOps(s) ==
  /\ poked[s] /\ Owner[s] \notin shut
  /\ poked' = [poked EXCEPT ![s] = FALSE]
  /\ cursor' = [cursor EXCEPT ![s] = head]
  /\ missed' = [missed EXCEPT ![s] = 0]
  /\ UNCHANGED <<head, shut, unpoked, untripped, sock, event, tripped, mishaps>>

\* One that fails drops the pokes that came in meanwhile with it, and is not tried again.
PullFails(s) ==
  /\ mishaps < MaxMishaps
  /\ mishaps' = mishaps + 1
  /\ poked[s]
  /\ poked' = [poked EXCEPT ![s] = FALSE]
  /\ \E c \in cursor[s] .. head : cursor' = [cursor EXCEPT ![s] = c]
  /\ missed' = [missed EXCEPT ![s] = head]
  /\ UNCHANGED <<head, shut, unpoked, untripped, sock, event, tripped>>

SignalInit ==
  /\ head = 0 /\ shut = {} /\ unpoked = {} /\ untripped = {} /\ mishaps = 0
  /\ sock = [s \in Socket |-> "away"]
  /\ event = [s \in Socket |-> FALSE]
  /\ tripped = [s \in Socket |-> FALSE]
  /\ poked = [s \in Socket |-> FALSE]
  /\ cursor = [s \in Socket |-> 0] /\ missed = [s \in Socket |-> 0]

\* What the process and the device run on their own.
AfterCommit == \/ \E n \in unpoked : Notify(n)
               \/ \E m \in untripped : HubRevoke(m)
ActOnPoke(s) == PullOps(s) \/ PullFails(s)
Serve(s) == \/ Subscribe(s) \/ Send(s) \/ WakeForNews(s) \/ WakeRevoked(s)

SignalNext == \/ AppendBatch \/ AfterCommit \/ Restart
              \/ \E s \in Socket : \/ Handshake(s) \/ Serve(s) \/ Disconnect(s)
                                   \/ ActOnPoke(s) \/ Revoke(Owner[s])

\* The event loop runs what it holds; a device acts on a poke it got, not always with
\* success.
SignalFairness == /\ WF_signalVars(AfterCommit)
                  /\ \A s \in Socket : WF_signalVars(Serve(s)) /\ WF_signalVars(ActOnPoke(s))

SignalSpec == SignalInit /\ [][SignalNext]_signalVars /\ SignalFairness

-----------------------------------------------------------------------------
(* Properties.                                                             *)

\* The type invariant.
SignalTypeOK ==
  /\ head \in 0 .. MaxAppends /\ mishaps \in 0 .. MaxMishaps
  /\ unpoked \subseteq 1 .. head
  /\ shut \subseteq {Owner[s] : s \in Socket} /\ untripped \subseteq shut
  /\ sock \in [Socket -> SocketPc]
  /\ event \in [Socket -> BOOLEAN] /\ tripped \in [Socket -> BOOLEAN]
  /\ poked \in [Socket -> BOOLEAN] /\ cursor \in [Socket -> 0 .. head]
  /\ missed \in [Socket -> 0 .. head]

\* No poke is lost: a device whose cursor is behind, by more than it missed when a pull
\* of its own failed, has the news on its way at every moment of the handshake and the
\* pump, whatever it slept through: a commit still to be notified, a set event, a poke
\* about to be sent or received, or a greeting ahead of it.
NewsIsOnItsWay ==
  \A s \in Socket :
    Open(s) /\ cursor[s] < head /\ missed[s] < head /\ Owner[s] \notin shut
      => \/ unpoked \cap (cursor[s] + 1) .. head # {}
         \/ event[s] \/ poked[s]
         \/ sock[s] \in {"checked", "greeting", "sending"}

\* "The next poke or a manual sync retries naturally": a device that stays connected
\* catches up with whatever was committed, unless a pull fails once it was; what that one
\* missed waits for the poke of the next commit (SignalListener._runOrQueueSync).
NewsArrives ==
  \A s \in Socket :
    (Open(s) /\ cursor[s] < head)
      ~> (~Open(s) \/ head \in {cursor[s], missed[s]} \/ Owner[s] \in shut)
=============================================================================
