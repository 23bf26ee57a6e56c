---------------------------- MODULE LinkRebuild ----------------------------
(***************************************************************************)
(* `ingest jira --rebuild-links`: RebuildJiraLinks of                      *)
(* internal/ingest/jira.go.  The stored issues are listed page by page, by *)
(* their ids, and handed to workers that fetch each issue and replace its  *)
(* links; meanwhile new ones are stored.  Calls fail and the context may be *)
(* cancelled at any time.                                                  *)
(***************************************************************************)
EXTENDS Naturals, FiniteSets

CONSTANTS
  Ids,         \* ids of rows: the first ones are there at the start
  Initially,   \* how many are
  Reachable,   \* those whose issues Jira still has, 404 otherwise
  Workers, PageSize,
  MaxFailures  \* bound of the model

LinkRebuildAssumption ==
  /\ Ids \subseteq Nat \ {0} /\ Reachable \subseteq Ids /\ PageSize \in Nat \ {0}
  /\ {Initially, MaxFailures} \subseteq Nat /\ 1 .. Initially \subseteq Ids
  /\ IsFiniteSet(Workers)

VARIABLES
  indexed,     \* ids of the table sources
  linked,      \* those whose links this run has stored
  producer,    \* "list", "hand", then "wait" for the workers, and "done"
  batch,       \* what of the listed page is to be handed out
  afterID,
  worker,      \* worker[w]: where it is and its issue
  processed, skipped, failed,
  firstErr,
  ended,       \* ctx.Err
  failures     \* faults so far

rebuildVars == <<indexed, linked, producer, batch, afterID, worker, processed, skipped, failed,
                 firstErr, ended, failures>>
counts == <<processed, skipped, failed>>
world == <<indexed, ended>>

Idle == [at |-> "idle"]

RebuildInit ==
  /\ indexed = {i \in Ids : i <= Initially}
  /\ linked = {}
  /\ producer = "list" /\ batch = {} /\ afterID = 0
  /\ worker = [w \in Workers |-> Idle]
  /\ processed = 0 /\ skipped = 0 /\ failed = 0
  /\ firstErr = FALSE /\ ended = FALSE /\ failures = 0

\* A call fails, as every call does once the context is cancelled.
Fault == IF ended THEN UNCHANGED failures ELSE failures < MaxFailures /\ failures' = failures + 1

Beyond(i) == i > afterID
PageOf(ids) == {i \in ids : Cardinality({j \in ids : j < i}) < PageSize}
ListSourceKeysByType ==
  LET ids == {i \in indexed : Beyond(i)} IN
  /\ producer = "list" /\ batch = {} /\ ~ended
  /\ batch' = PageOf(ids)
  /\ producer' = IF ids = {} THEN "wait" ELSE "hand"
  /\ UNCHANGED <<world, linked, afterID, worker, counts, firstErr, failures>>

\* The listing fails, or the context ends while a job waits for a worker: the workers
\* end what they have, and the result is an error.
GiveUp ==
  /\ \/ producer = "list" /\ Fault
     \/ producer = "hand" /\ ended /\ UNCHANGED failures
  /\ producer' = "wait" /\ firstErr' = TRUE
  /\ UNCHANGED <<world, linked, batch, afterID, worker, counts>>

HandOut(w) ==
  /\ producer = "hand" /\ worker[w] = Idle
  /\ \E i \in batch :
       /\ \A j \in batch : i <= j
       /\ worker' = [worker EXCEPT ![w] = [at |-> "taken", id |-> i]]
       /\ afterID' = i /\ batch' = batch \ {i}
       /\ producer' = IF batch = {i} THEN "list" ELSE "hand"
  /\ UNCHANGED <<world, linked, counts, firstErr, failures>>

\* A worker that finds the context cancelled leaves with its issue.
LookAtContext(w) ==
  /\ worker[w].at = "taken"
  /\ worker' = [worker EXCEPT ![w].at = IF ended THEN "gone" ELSE "fetch"]
  /\ UNCHANGED <<world, linked, producer, batch, afterID, counts, firstErr, failures>>

GetIssue(w) ==
  LET i == worker[w].id IN
  /\ worker[w].at = "fetch"
  /\ IF i \in Reachable
     THEN /\ worker' = [worker EXCEPT ![w] = [at |-> "write", id |-> i]]
          /\ UNCHANGED skipped
     ELSE /\ worker' = [worker EXCEPT ![w] = Idle]
          /\ skipped' = skipped + 1
  /\ UNCHANGED <<world, linked, producer, batch, afterID, processed, failed, firstErr, failures>>

ReplaceSourceLinks(w) ==
  /\ worker[w].at = "write"
  /\ linked' = linked \cup {worker[w].id}
  /\ worker' = [worker EXCEPT ![w] = Idle]
  /\ processed' = processed + 1
  /\ UNCHANGED <<world, producer, batch, afterID, skipped, failed, firstErr, failures>>

\* The fetch, the conversion or the write fails, and the worker goes on.
IssueFails(w) ==
  /\ worker[w].at \in {"fetch", "write"} /\ Fault
  /\ firstErr' = TRUE /\ failed' = failed + 1
  /\ worker' = [worker EXCEPT ![w] = Idle]
  /\ UNCHANGED <<world, linked, producer, batch, afterID, processed, skipped>>

Return ==
  /\ producer = "wait" /\ \A w \in Workers : worker[w].at \in {"idle", "gone"}
  /\ producer' = "done"
  /\ UNCHANGED <<world, linked, batch, afterID, worker, counts, firstErr, failures>>

CancelRebuild ==
  /\ producer # "done" /\ ~ended /\ ended' = TRUE
  /\ UNCHANGED <<indexed, linked, producer, batch, afterID, worker, counts, firstErr, failures>>

\* A sync stores a new issue; its id may be lower than one already listed.
NewSource(i) ==
  /\ i \notin indexed /\ indexed' = indexed \cup {i}
  /\ UNCHANGED <<linked, producer, batch, afterID, worker, counts, firstErr, ended, failures>>

RebuildNext ==
  \/ ListSourceKeysByType \/ GiveUp \/ Return \/ CancelRebuild
  \/ \E w \in Workers : HandOut(w) \/ LookAtContext(w) \/ GetIssue(w) \/ ReplaceSourceLinks(w) \/ IssueFails(w)
  \/ \E i \in Ids : NewSource(i)

RebuildSpec == RebuildInit /\ [][RebuildNext]_rebuildVars

\* A rebuild that reports no error has rewritten the links of every issue that was there
\* at its start and that Jira still has; all that it did is in its counts, each issue
\* once.  Only a cancellation after the last page was listed takes issues from it
\* unreported, at most one for each worker.
RebuildIsComplete ==
  producer = "done" =>
    LET gone == {w \in Workers : worker[w].at = "gone"}
    IN  /\ processed = Cardinality(linked) /\ linked \subseteq Reachable
        /\ failed > 0 => firstErr
        /\ gone # {} => ended
        /\ ~firstErr => /\ {i \in Reachable : i <= Initially} \subseteq linked \cup {worker[w].id : w \in gone}
                        /\ processed + skipped + Cardinality(gone) >= Initially
=============================================================================
