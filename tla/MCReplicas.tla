----------------------------- MODULE MCReplicas -----------------------------
(***************************************************************************)
(* Instances of Replicas: two devices, and one cell per merge strategy.     *)
(***************************************************************************)
EXTENDS Replicas

CONSTANTS NoWrite, Red, Green

Devices == {1, 2}

\* A plain field, the tombstone (its value says nothing), the snooze floor, a set.
AllCells      == {"title", "tombstone", "floor", "tags"}
AllStrategies == [c \in AllCells |-> CASE c = "floor" -> "max_timestamp_value"
                                       [] c = "tags"  -> "set_merge"
                                       [] OTHER       -> "lww"]

Nothing == [c \in AllCells |-> NoWrite]

\* Two edits that write several cells and disagree about each they share, and one of a
\* field alone.
AllEdits == {[Nothing EXCEPT !["title"] = 1, !["floor"] = 2, !["tags"] = {Red}],
             [Nothing EXCEPT !["title"] = 2, !["floor"] = 1, !["tags"] = {Green},
                              !["tombstone"] = 0],
             [Nothing EXCEPT !["title"] = 1]}

\* One plain field is enough where time and relaunches are what matters.
OneCell     == {"title"}
OneStrategy == [c \in OneCell |-> "lww"]
TwoEdits    == {[c \in OneCell |-> v] : v \in {1, 2}}
=============================================================================
