------------------------------ MODULE ChainLog ------------------------------
(***************************************************************************)
(* What the op log promises to the devices that write it: one chain per    *)
(* author that only ever grows at its end, and nothing acknowledged that   *)
(* is not in it.  How a chain is stored, numbered, raced for or retried is *)
(* not visible here.                                                       *)
(***************************************************************************)
EXTENDS Naturals, Sequences

CONSTANT Author

VARIABLES chain,    \* the ops stored of each author, in author_seq order
          acked     \* the ops whose author was told they are stored

Stored == UNION {{chain[a][i] : i \in DOMAIN chain[a]} : a \in Author}

Extends(longer, shorter) ==
  /\ Len(shorter) <= Len(longer)
  /\ \A i \in 1 .. Len(shorter) : longer[i] = shorter[i]

\* The log is met at any point of its life, empty or not.
Init == /\ DOMAIN chain = Author
        /\ acked \subseteq Stored

\* One author's chain grows; nothing is rewritten, nobody else is touched.
Grow(a) == /\ Extends(chain'[a], chain[a])
             /\ chain' = [chain EXCEPT ![a] = chain'[a]]
             /\ UNCHANGED acked

\* An author is told that ops the log holds are stored.
Acknowledge == /\ acked \subseteq acked'
               /\ acked' \subseteq Stored
               /\ UNCHANGED chain

Next == (\E a \in Author : Grow(a)) \/ Acknowledge

Spec == Init /\ [][Next]_<<chain, acked>>

\* A device that reads the log may take an op in and act on it in one transaction;
\* what it has acted on takes the place of what was acknowledged.
TakeIn(a) == /\ Extends(chain'[a], chain[a])
             /\ chain' = [chain EXCEPT ![a] = chain'[a]]
             /\ acked \subseteq acked'
             /\ acked' \subseteq Stored'

ReaderNext == (\E a \in Author : TakeIn(a)) \/ Acknowledge

ReaderSpec == Init /\ [][ReaderNext]_<<chain, acked>>
=============================================================================
