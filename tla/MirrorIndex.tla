---------------------------- MODULE MirrorIndex ----------------------------
(***************************************************************************)
(* What an ingest promises its readers, with every mechanism left out: the *)
(* index is a mirror of the items of an external system.  Items move       *)
(* forward there at will; the mirror republishes an item at a newer        *)
(* version, never at an older one and never at one the external system has *)
(* not had; and an item that differs from its original does not stay so    *)
(* for ever.                                                               *)
(***************************************************************************)
EXTENDS Naturals

CONSTANTS Issues,       \* the items of the external system
          MaxVersions   \* bound: an item is changed at most this often

VARIABLES latest,    \* latest[i]: version in the external system, 0 = not created
          visible    \* visible[i]: version the readers of the index see, 0 = none

vars == <<latest, visible>>

Init == /\ latest = [i \in Issues |-> 0]
        /\ visible = [i \in Issues |-> 0]

Update(i) == /\ latest[i] < MaxVersions
             /\ latest' = [latest EXCEPT ![i] = @ + 1]
             /\ UNCHANGED visible

Publish(i) == /\ \E v \in (visible[i] + 1) .. latest[i] :
                   visible' = [visible EXCEPT ![i] = v]
              /\ UNCHANGED latest

Next == \E i \in Issues : Update(i) \/ Publish(i)

Spec == Init /\ [][Next]_vars /\ \A i \in Issues : WF_vars(Publish(i))
=============================================================================
