----------------------------- MODULE MCJiraSync -----------------------------
(***************************************************************************)
(* JiraSync for TLC.  Big has more comments than a search returns.         *)
(***************************************************************************)
EXTENDS JiraSync, TLC

CONSTANTS Small, Other, Big, w1, w2
TwoIssues   == {Small, Big}
ThreeIssues == {Small, Other, Big}
OneWorker   == {w1}
TwoWorkers  == {w1, w2}
MCTruncated == {Big}

\* The workers are interchangeable, and so are Small and Other.
Interchangeable == Permutations(TwoWorkers) \cup Permutations({Small, Other})
=============================================================================
