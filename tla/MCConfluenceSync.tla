-------------------------- MODULE MCConfluenceSync --------------------------
(***************************************************************************)
(* ConfluenceSync for TLC: pages that link to each other.                  *)
(***************************************************************************)
EXTENDS ConfluenceSync, TLC

CONSTANTS Home, Guide, Team, Product, w1, w2
TwoPages  == {Home, Guide}
OneSpace  == {Team}
TwoSpaces == {Team, Product}
OneWorker == {w1}
TwoWorkers == {w1, w2}
OneBehind == -1
InTeam    == [p \in Pages |-> Team]
SameWorkers == Permutations(TwoWorkers)
EachOther == [p \in Pages |-> Pages \ {p}]
=============================================================================
