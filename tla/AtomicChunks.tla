---------------------------- MODULE AtomicChunks ----------------------------
(***************************************************************************)
(* What ReplaceChunks promises the readers and the writers of one source,  *)
(* with every mechanism left out: no rows, no locks, no statements.  The   *)
(* chunks are one value, which a call replaces by its copy, whole, once,   *)
(* and at one moment.  It is promised the value it found when it began:    *)
(* what a call replaces it has found, and a call that finds something else *)
(* there at its end has failed.  Only nothing is no obstacle: a call may   *)
(* come after another that left no chunks, and a call that brings none may *)
(* leave those of another that came first.                                 *)
(***************************************************************************)
CONSTANTS Calls,   \* the calls that replace the chunks
          Copy     \* Copy[c]: the chunks that c brings

VARIABLES chunks,  \* what readers find
          stage,   \* stage[c]: "before" c's replacement, in it ("open"), "over", or "failed"
          found    \* found[c]: what c found when it began

vars == <<chunks, stage, found>>

Init == /\ chunks = {}
        /\ stage = [c \in Calls |-> "before"]
        /\ found = [c \in Calls |-> {}]

Begin(c) == /\ stage[c] = "before"
            /\ stage' = [stage EXCEPT ![c] = "open"]
            /\ found' = [found EXCEPT ![c] = chunks]
            /\ UNCHANGED chunks

End(c, as) == /\ stage' = [stage EXCEPT ![c] = as]
              /\ found' = [found EXCEPT ![c] = {}]

Replace(c) == /\ stage[c] = "open"
              /\ chunks \in {found[c], {}}
              /\ chunks' = Copy[c]
              /\ End(c, "over")

\* A call that brings nothing goes by what it found: it might have come just before
\* the call that replaced that.
Overtaken(c) == /\ stage[c] = "open"
                /\ chunks \notin {found[c], {}}
                /\ Copy[c] = {}
                /\ End(c, "over")
                /\ UNCHANGED chunks

\* An error leaves no trace; one that comes when the chunks are replaced, in what else
\* the call does, leaves them replaced.
Fail(c) == /\ stage[c] # "failed"
           /\ End(c, "failed")
           /\ UNCHANGED chunks

Next == \E c \in Calls : Begin(c) \/ Replace(c) \/ Overtaken(c) \/ Fail(c)

Spec == Init /\ [][Next]_vars
=============================================================================
