--------------------------- MODULE MCSourceStore ---------------------------
(***************************************************************************)
(* SourceStore for TLC: an issue synced, pushed and rebuilt at once.       *)
(***************************************************************************)
EXTENDS SourceStore, TLC

CONSTANTS sync, push, again, rebuild,   \* calls
          P1, P2                        \* link targets
AllCalls == {sync, push, again, rebuild}
SyncAndPush == {sync, push}
Rebuilds == {rebuild}
TwoTargets == {P1, P2}
\* Two copies of different length and one without text, and links in a different order.
Chunked == [c \in Calls |-> CASE c = sync -> 3 [] c = push -> 0 [] c = again -> 2 [] OTHER -> 0]
Linked == [c \in Calls |-> CASE c = sync -> <<P1, P2>> [] c = push -> <<P2, P1>>
                             [] c = again -> << >> [] OTHER -> <<P1>>]
\* One link each, not the same.
Apart == [c \in Calls |-> IF c = sync THEN <<P1>> ELSE <<P2>>]
=============================================================================
