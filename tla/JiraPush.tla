------------------------------ MODULE JiraPush ------------------------------
(***************************************************************************)
(* POST /ingest/jira (internal/http/ingest.go): a feeder pushes a batch of *)
(* issues, which go one after the other through the writes of the sync     *)
(* (IngestJiraNormalized, internal/ingest/jira.go).  An issue that fails   *)
(* is reported and the batch goes on.  Requests overlap; calls fail.       *)
(***************************************************************************)
EXTENDS Naturals, Sequences

CONSTANTS
  Pushed,     \* requests
  Issues,     \* keys
  Batches,    \* Batches[r]: the issues of r: [key, valid]; a copy is known by r and its place
  MaxBatch, MaxPushFaults  \* the last is a bound of the model

JiraPushAssumption ==
  /\ \A r \in Pushed : Batches[r] \in Seq([key : Issues, valid : BOOLEAN])
  /\ MaxBatch \in Nat /\ MaxPushFaults \in Nat

VARIABLES
  stored,     \* stored[k]: the copies in the row, the chunks and the links of the issue k
  push,       \* push[r]: where r is, at which issue, and which it reports as failed
  pushStatus, \* of the response, 0 before it
  pushFaults  \* so far

pushVars == <<stored, push, pushStatus, pushFaults>>

NoCopy == [by |-> "none", n |-> 0]
Copy(r) == [by |-> r, n |-> push[r].n]
Item(r) == Batches[r][push[r].n]

PushInit ==
  /\ stored = [k \in Issues |-> [row |-> NoCopy, chunks |-> NoCopy, links |-> NoCopy]]
  /\ push = [r \in Pushed |-> [at |-> "new", n |-> 1, errors |-> {}]]
  /\ pushStatus = [r \in Pushed |-> 0]
  /\ pushFaults = 0

\* A body that cannot be read is a batch of none.
HandleIngestJira(r) ==
  /\ push[r].at = "new"
  /\ IF Len(Batches[r]) \in 1 .. MaxBatch
     THEN push' = [push EXCEPT ![r].at = "row"] /\ UNCHANGED pushStatus
     ELSE push' = [push EXCEPT ![r].at = "answered"] /\ pushStatus' = [pushStatus EXCEPT ![r] = 400]
  /\ UNCHANGED <<stored, pushFaults>>

\* On to the next issue; 502 only if every one failed.
AtFirstError(r, errors) == push[r].n = Len(Batches[r]) \/ errors # {}
AtEnd(r, errors) == push[r].n = Len(Batches[r])
NextIssue(r, errors) ==
  IF AtEnd(r, errors)
  THEN /\ push' = [push EXCEPT ![r] = [at |-> "answered", n |-> push[r].n, errors |-> errors]]
       /\ pushStatus' = [pushStatus EXCEPT ![r] = IF errors = DOMAIN Batches[r] THEN 502 ELSE 200]
  ELSE /\ push' = [push EXCEPT ![r] = [at |-> "row", n |-> push[r].n + 1, errors |-> errors]]
       /\ UNCHANGED pushStatus
FailedToo(r) == push[r].errors \cup {push[r].n}

\* buildNormalizedIssue: no key, title or time.
RejectIssue(r) ==
  /\ push[r].at = "row" /\ ~Item(r).valid
  /\ NextIssue(r, FailedToo(r))
  /\ UNCHANGED <<stored, pushFaults>>

\* The issue has been chunked and embedded; the writes follow.
Write(r, part) ==
  LET k == Item(r).key IN stored' = [stored EXCEPT ![k] = [@ EXCEPT ![part] = Copy(r)]]
WriteRow(r) ==
  /\ push[r].at = "row" /\ Item(r).valid
  /\ Write(r, "row")
  /\ push' = [push EXCEPT ![r].at = "chunks"]
  /\ UNCHANGED <<pushStatus, pushFaults>>
WriteChunks(r) ==
  /\ push[r].at = "chunks"
  /\ Write(r, "chunks")
  /\ push' = [push EXCEPT ![r].at = "links"]
  /\ UNCHANGED <<pushStatus, pushFaults>>
WriteLinks(r) ==
  /\ push[r].at = "links"
  /\ Write(r, "links")
  /\ NextIssue(r, push[r].errors)
  /\ UNCHANGED pushFaults

\* Chunking, embedding or a write fails.
IngestFails(r) ==
  /\ push[r].at \in {"row", "chunks", "links"} /\ Item(r).valid
  /\ pushFaults < MaxPushFaults /\ pushFaults' = pushFaults + 1
  /\ NextIssue(r, FailedToo(r))
  /\ UNCHANGED stored

PushNext == \E r \in Pushed :
  HandleIngestJira(r) \/ RejectIssue(r) \/ WriteRow(r) \/ WriteChunks(r) \/ WriteLinks(r) \/ IngestFails(r)

PushSpec == PushInit /\ [][PushNext]_pushVars

\* What a response does not report as failed is in the index as a whole: the row, the
\* chunks and the links of an issue are those of the last of its copies in the batch,
\* although an earlier one may have failed half-way; unless another request has written
\* the issue.  An issue that is reported is not complete from this copy.
ReportIsTrue ==
  \A r \in Pushed : pushStatus[r] \in {200, 502} =>
    /\ (pushStatus[r] = 502 <=> push[r].errors = DOMAIN Batches[r])
    /\ \A n \in DOMAIN Batches[r] :
         LET s == stored[Batches[r][n].key]
             copy == [by |-> r, n |-> n]
             last == \A m \in n + 1 .. Len(Batches[r]) : Batches[r][m].key # Batches[r][n].key
             own == {s.row, s.chunks, s.links} \subseteq {NoCopy} \cup {[by |-> r, n |-> m] : m \in DOMAIN Batches[r]}
         IN  /\ n \in push[r].errors => copy # s.links
             /\ n \notin push[r].errors /\ last /\ own => s = [row |-> copy, chunks |-> copy, links |-> copy]
=============================================================================
