----------------------------- MODULE Documents -----------------------------
(***************************************************************************)
(* Uploaded and pushed documents: POST /upload (internal/http/upload.go),  *)
(* POST /ingest/document (ingest_document.go), the job `ingest docs`       *)
(* (cmd/rag-svc/main.go) and the download of a file (web/web.go), over the *)
(* blob store and the two tables a document lives in.                      *)
(*                                                                         *)
(* A call is one request.  Its documents are taken one after the other;    *)
(* each step below is one statement or one call to the blob store, so that *)
(* calls, the job and a reader interleave between any two of them.  The    *)
(* client repeats an upload by another call with the same file.            *)
(***************************************************************************)
EXTENDS Naturals, Sequences, FiniteSets

CONSTANTS
  Uploads, Pushes,  \* the calls
  Docs,             \* Docs[c]: the documents of c: [key, copy, ext]; an upload has one
  Keys,             \* source keys: hashes of files and keys chosen by feeders
  Copies,           \* texts: what extraction makes of a file, or a pushed body
  ChunkCount,       \* ChunkCount[copy]: how many chunks the text has
  NoCopy, NoFile,
  MaxJobs, MaxFaults \* bounds of the model

Calls == Uploads \cup Pushes
ASSUME CallsAssumption ==
  /\ Uploads \cap Pushes = {}
  /\ \A c \in Calls : /\ Docs[c] \in Seq([key : Keys, copy : Copies, ext : STRING])
                      /\ Docs[c] # << >>
  /\ \A c \in Uploads : Len(Docs[c]) = 1
ASSUME CopiesAssumption ==
  /\ ChunkCount \in [Copies -> Nat]
  /\ NoCopy \notin Copies
  /\ MaxJobs \in Nat /\ MaxFaults \in Nat

VARIABLES
  row,     \* row[k]: the text and the blob key of the sources row, or NoRow
  chunks,  \* chunks[k]: the text whose chunks are stored, NoCopy when there are none
  blobs,   \* objects of the bucket
  at,      \* at[c]: what c does next
  pos,     \* pos[c]: the document c is at
  stored,  \* stored[c]: documents that c reports as upserted
  answer,  \* answer[c]: status of c's response, 0 before it
  before,  \* before[c]: calls that had been answered when c came (auxiliary)
  job,     \* the running `ingest docs`: what it has listed and not yet done
  jobs,    \* runs of the job, bounded by MaxJobs
  reader,  \* a download: the blob key it read from the row, and its outcome
  torn,    \* keys whose writes overlapped or broke off (auxiliary)
  faults   \* faults so far, bounded by MaxFaults

vars == <<row, chunks, blobs, at, pos, stored, answer, before, job, jobs,
          reader, torn, faults>>
data == <<row, chunks, blobs>>

NoRow == [copy |-> NoCopy, blob |-> NoFile]
NoJob == [on |-> FALSE, todo |-> {}, stale |-> {}]
Blobs == {[key |-> Docs[c][1].key, ext |-> Docs[c][1].ext] : c \in Uploads}

Doc(c) == Docs[c][pos[c]]
\* Uploads record where the file is; pushed documents have no file.
BlobOf(c) == IF c \in Uploads THEN [key |-> Doc(c).key, ext |-> Doc(c).ext] ELSE NoFile

\* An empty text has no chunks, any other one has at least one.
ChunksOf(copy) == IF ChunkCount[copy] = 0 THEN NoCopy ELSE copy

\* Writers that have yet to write the chunks of k.
Halfway(c, k) == at[c] = "chunks" /\ Doc(c).key = k
Listed(k) == job.on /\ \E j \in job.todo : j.key = k
Busy(k) == Listed(k) \/ \E c \in Calls : Halfway(c, k)

Init ==
  /\ row = [k \in Keys |-> NoRow]
  /\ chunks = [k \in Keys |-> NoCopy]
  /\ blobs = {}
  /\ at = [c \in Calls |-> "new"]
  /\ pos = [c \in Calls |-> 1]
  /\ stored = [c \in Calls |-> {}]
  /\ answer = [c \in Calls |-> 0]
  /\ before = [c \in Calls |-> {}]
  /\ job = NoJob /\ jobs = 0
  /\ reader = [at |-> "idle", blob |-> NoFile]
  /\ torn = {}
  /\ faults = 0

Answer(c, status) ==
  /\ at' = [at EXCEPT ![c] = "answered"]
  /\ answer' = [answer EXCEPT ![c] = status]

\* POST /upload up to the lookup: the body is a file of a known type, or is refused
\* (malformed, more than 50 MB, unsupported).
ReceiveUpload(c) ==
  /\ at[c] = "new" /\ c \in Uploads
  /\ before' = [before EXCEPT ![c] = {d \in Calls : at[d] = "answered"}]
  /\ \/ /\ at' = [at EXCEPT ![c] = "lookup"]
        /\ UNCHANGED answer
     \/ \E s \in {400, 413, 415} : Answer(c, s)
  /\ UNCHANGED <<data, job, jobs, reader, pos, stored, torn, faults>>

\* The row of a file with the same hash, whatever became of its chunks.
KnownByBlobKey(c) == row[Doc(c).key].blob = BlobOf(c)
Known(c) == row[Doc(c).key] # NoRow

\* The lookup answers at once when the hash is known; otherwise the text is
\* extracted, which can fail (400) or find a scanned PDF (422).
FindDocumentBySHA(c) ==
  /\ at[c] = "lookup"
  /\ IF Known(c)
     THEN Answer(c, 200)
     ELSE \/ /\ at' = [at EXCEPT ![c] = "blob"]
             /\ UNCHANGED answer
          \/ \E s \in {400, 422} : Answer(c, s)
  /\ UNCHANGED <<data, job, jobs, reader, pos, stored, before, torn, faults>>

\* The object is named by the hash and the extension: writing it twice is harmless.
PutErrorIgnored(c) ==
  /\ at[c] = "blob"
  /\ blobs' \in {blobs, blobs \cup {BlobOf(c)}}
  /\ at' = [at EXCEPT ![c] = "row"]
  /\ UNCHANGED <<row, chunks, job, jobs, reader, pos, stored, answer, before, torn, faults>>
PutBlob(c) ==
  /\ at[c] = "blob"
  /\ blobs' = blobs \cup {BlobOf(c)}
  /\ at' = [at EXCEPT ![c] = "row"]
  /\ UNCHANGED <<row, chunks, job, jobs, reader, pos, stored, answer, before, torn, faults>>

\* POST /ingest/document: the batch is not empty and not too long, or is refused.
ReceivePush(c) ==
  /\ at[c] = "new" /\ c \in Pushes
  /\ before' = [before EXCEPT ![c] = {d \in Calls : at[d] = "answered"}]
  /\ \/ /\ at' = [at EXCEPT ![c] = "row"]
        /\ UNCHANGED answer
     \/ Answer(c, 400)
  /\ UNCHANGED <<data, job, jobs, reader, pos, stored, torn, faults>>

\* The document of c is done, well or not: an upload answers, a push goes on with
\* its next document and answers 502 only if none was stored.
Status(c, all) ==
  CASE all = {} -> IF c \in Uploads THEN 500 ELSE 502
    [] OTHER    -> IF c \in Uploads THEN 201 ELSE 200
NoLastDocument(c, all) ==
  /\ stored' = [stored EXCEPT ![c] = all]
  /\ pos' = [pos EXCEPT ![c] = @ + 1]
  /\ Answer(c, Status(c, all))
NextDocument(c, all) ==
  /\ stored' = [stored EXCEPT ![c] = all]
  /\ IF pos[c] < Len(Docs[c])
     THEN /\ pos' = [pos EXCEPT ![c] = @ + 1]
          /\ at' = [at EXCEPT ![c] = "row"]
          /\ UNCHANGED answer
     ELSE /\ UNCHANGED pos
          /\ Answer(c, Status(c, all))

\* The text has been chunked and embedded; one statement writes the row.
UpsertSource(c) ==
  LET k == Doc(c).key IN
  /\ at[c] = "row"
  /\ row' = [row EXCEPT ![k] = [copy |-> Doc(c).copy, blob |-> BlobOf(c)]]
  /\ at' = [at EXCEPT ![c] = "chunks"]
  /\ torn' = IF Busy(k) THEN torn \cup {k} ELSE torn \ {k}
  /\ job' = [job EXCEPT !.stale = IF Listed(k) THEN @ \cup {k} ELSE @]
  /\ UNCHANGED <<chunks, blobs, jobs, reader, pos, stored, answer, before, faults>>

\* One transaction replaces the chunks.  (SourceStore shows that two overlapping ones
\* take effect one after the other, or that one fails, as in CallFails.)
MayReplaceAlone(c) == at[c] = "chunks" /\ \A d \in Calls \ {c} : ~Halfway(d, Doc(c).key)
MayReplace(c) == at[c] = "chunks"
NewChunksOrOld(c) == IF ChunkCount[Doc(c).copy] = 0 THEN chunks[Doc(c).key] ELSE Doc(c).copy
NewChunks(c) == ChunksOf(Doc(c).copy)
ReplaceChunks(c) ==
  /\ MayReplace(c)
  /\ chunks' = [chunks EXCEPT ![Doc(c).key] = NewChunks(c)]
  /\ NextDocument(c, stored[c] \cup {pos[c]})
  /\ UNCHANGED <<row, blobs, job, jobs, reader, before, torn, faults>>

\* A call to Postgres, the blob store or the embedder fails, with or without effect;
\* so does everything after the client has gone, for its context is cancelled.  A
\* push goes on with the next document.
CallFails(c) ==
  /\ faults < MaxFaults /\ faults' = faults + 1
  /\ \/ /\ at[c] \in {"lookup", "blob"}
        /\ blobs' \in {blobs, blobs \cup (IF at[c] = "blob" THEN {BlobOf(c)} ELSE {})}
        /\ Answer(c, 500)
        /\ UNCHANGED <<pos, stored, torn>>
     \/ /\ at[c] \in {"row", "chunks"}
        /\ NextDocument(c, stored[c])
        /\ torn' = IF at[c] = "chunks" THEN torn \cup {Doc(c).key} ELSE torn
        /\ UNCHANGED blobs
  /\ UNCHANGED <<row, chunks, job, jobs, reader, before>>

InFlight(c) == at[c] \in {"lookup", "blob", "row", "chunks"}

\* The process of the server ends: nobody gets an answer.
Crash ==
  /\ faults < MaxFaults /\ faults' = faults + 1
  /\ \E c \in Calls : InFlight(c)
  /\ at' = [c \in Calls |-> IF InFlight(c) THEN "lost" ELSE at[c]]
  /\ torn' = torn \cup {k \in Keys : \E c \in Calls : Halfway(c, k)}
  /\ UNCHANGED <<data, job, jobs, reader, pos, stored, answer, before>>

-----------------------------------------------------------------------------
\* `ingest docs` lists all documents with their texts in one query ...
StartJob ==
  /\ ~job.on /\ jobs < MaxJobs
  /\ jobs' = jobs + 1
  /\ job' = [on |-> TRUE, stale |-> {},
             todo |-> {[key |-> k, copy |-> row[k].copy] : k \in {k \in Keys : row[k] # NoRow}}]
  /\ UNCHANGED <<data, at, pos, stored, answer, before, reader, torn, faults>>

Done(j) == job' = [job EXCEPT !.todo = @ \ {j}]

\* ... chunks and embeds each of them and replaces its chunks; a text without chunks
\* is skipped.
IndexAgain(j) ==
  /\ j \in job.todo
  /\ Done(j)
  /\ IF ChunkCount[j.copy] = 0
     THEN UNCHANGED <<chunks, torn>>
     ELSE /\ chunks' = [chunks EXCEPT ![j.key] = j.copy]
          /\ torn' = IF j.key \in job.stale \/ \E c \in Calls : Halfway(c, j.key)
                     THEN torn ELSE torn \ {j.key}
  /\ UNCHANGED <<row, blobs, at, pos, stored, answer, before, jobs, reader, faults>>

\* An error of one document is logged and the job goes on.
IndexAgainFails(j) ==
  /\ faults < MaxFaults /\ faults' = faults + 1
  /\ j \in job.todo
  /\ Done(j)
  /\ UNCHANGED <<data, at, pos, stored, answer, before, jobs, reader, torn>>

EndJob ==
  /\ job.on /\ job.todo = {}
  /\ job' = NoJob
  /\ UNCHANGED <<data, at, pos, stored, answer, before, jobs, reader, torn, faults>>

-----------------------------------------------------------------------------
\* GET /documents/{sha}: the row names the object, which is then fetched.
LookUpFile(k) ==
  /\ reader.at = "idle"
  /\ reader' = IF row[k].blob = NoFile THEN [at |-> "404", blob |-> NoFile]
               ELSE [at |-> "get", blob |-> row[k].blob]
  /\ UNCHANGED <<data, at, pos, stored, answer, before, job, jobs, torn, faults>>
GetFile ==
  /\ reader.at = "get"
  /\ reader' = [reader EXCEPT !.at = IF reader.blob \in blobs THEN "200" ELSE "500"]
  /\ UNCHANGED <<data, at, pos, stored, answer, before, job, jobs, torn, faults>>

Next ==
  \/ \E c \in Calls :
       \/ ReceiveUpload(c) \/ FindDocumentBySHA(c) \/ PutBlob(c)
       \/ ReceivePush(c) \/ UpsertSource(c) \/ ReplaceChunks(c) \/ CallFails(c)
  \/ Crash
  \/ StartJob \/ EndJob \/ \E j \in job.todo : IndexAgain(j) \/ IndexAgainFails(j)
  \/ GetFile \/ \E k \in Keys : LookUpFile(k)

\* The server goes on with the calls it has, the job with what it has listed.
Fairness ==
  /\ \A c \in Calls : WF_vars(FindDocumentBySHA(c) \/ PutBlob(c) \/ UpsertSource(c) \/ ReplaceChunks(c))
  /\ WF_vars(EndJob \/ \E j \in job.todo : IndexAgain(j))

Spec == Init /\ [][Next]_vars /\ Fairness

-----------------------------------------------------------------------------
TypeOK ==
  /\ row \in [Keys -> [copy : Copies \cup {NoCopy}, blob : Blobs \cup {NoFile}]]
  /\ chunks \in [Keys -> Copies \cup {NoCopy}]
  /\ blobs \subseteq Blobs
  /\ at \in [Calls -> {"new", "lookup", "blob", "row", "chunks", "answered", "lost"}]
  /\ \A c \in Calls : pos[c] \in DOMAIN Docs[c] /\ stored[c] \subseteq 1 .. pos[c]
  /\ answer \in [Calls -> {0, 200, 201, 400, 413, 415, 422, 500, 502}]
  /\ before \in [Calls -> SUBSET Calls]
  /\ job.on \in BOOLEAN /\ job.todo \subseteq [key : Keys, copy : Copies] /\ job.stale \subseteq Keys
  /\ jobs \in 0 .. MaxJobs /\ faults \in 0 .. MaxFaults
  /\ reader \in [at : {"idle", "get", "200", "404", "500"}, blob : Blobs \cup {NoFile}]
  /\ torn \subseteq Keys

\* A row never names a file that is not in the bucket: a download that finds the row
\* gets the file, whatever failed or crashed on the way and under whichever
\* extension the file was sent (web.go handleDocumentDownload answers 500 otherwise).
ListedFileCanBeRead == reader.at # "500"

\* Unless two writers of a document overlapped, or one stopped between its two
\* writes, and nobody has written it in one go since, the chunks that search reads
\* are those of the text in the row; one undisturbed run of `ingest docs` brings a
\* torn document back.
RowAndChunksAgree ==
  \A k \in Keys : (row[k] # NoRow /\ k \notin torn /\ ~Busy(k)) => chunks[k] = ChunksOf(row[k].copy)

\* A file that was accepted once is not stored again: an upload that comes after the
\* answer 201 to another upload of the same bytes is never answered 201 itself, also
\* when the file has another name, and when the first one's chunks have gone.
StoredOnce ==
  \A c, d \in Uploads :
    (d \in before[c] /\ answer[d] = 201 /\ Docs[c][1].key = Docs[d][1].key) => answer[c] # 201

\* Every call ends, and so does the job, although writers of one document overlap.
EverythingEnds == <>[](~job.on /\ \A c \in Calls : ~InFlight(c))
=============================================================================
