-------------------------- MODULE DocumentsProofs --------------------------
(***************************************************************************)
(* Documents, for any calls, documents and keys, any number of runs of the *)
(* job and any number of faults.                                           *)
(***************************************************************************)
EXTENDS Documents, SequenceTheorems, TLAPS

\* What is there of the places a call and its documents can be in.
Places ==
  /\ row \in [Keys -> [copy : Copies, blob : Blobs \cup {NoFile}] \cup {NoRow}]
  /\ chunks \in [Keys -> Copies \cup {NoCopy}]
  /\ at \in [Calls -> {"new", "lookup", "blob", "row", "chunks", "answered", "lost"}]
  /\ pos \in [Calls -> Nat] /\ \A c \in Calls : pos[c] \in DOMAIN Docs[c]
  /\ stored \in [Calls -> SUBSET Nat]
  /\ answer \in [Calls -> Nat] /\ before \in [Calls -> SUBSET Calls]
  /\ job.todo \subseteq [key : Keys, copy : Copies]
  /\ job = [on |-> job.on, todo |-> job.todo, stale |-> job.stale]
  /\ reader = [at |-> reader.at, blob |-> reader.blob]
  /\ job.todo # {} => job.on

\* A file is in the bucket before anything names it.
FilesStored ==
  /\ \A k \in Keys : row[k].blob \in blobs \cup {NoFile}
  /\ \A c \in Uploads : at[c] \in {"row", "chunks"} => BlobOf(c) \in blobs
  /\ reader.at = "get" => reader.blob \in blobs
  /\ reader.at # "500"

\* Who is about to write the chunks of a document that is not torn has the text of its row.
WritersAgree ==
  /\ \A j \in job.todo : IF j.key \in job.stale THEN j.key \in torn ELSE j.copy = row[j.key].copy
  /\ \A k \in Keys \ torn :
       /\ \A c \in Calls : Halfway(c, k) => Doc(c).copy = row[k].copy
       /\ row[k] # NoRow /\ (\A c \in Calls : ~Halfway(c, k)) => chunks[k] = ChunksOf(row[k].copy)

\* Rows stay, so that an upload that comes after an accepted one finds its row.
FoundByLater ==
  /\ \A c \in Uploads : at[c] # "answered" => stored[c] = {} /\ answer[c] = 0
  /\ \A c \in Calls : /\ at[c] = "new" => before[c] = {}
                      /\ at[c] = "chunks" => row[Doc(c).key] # NoRow
                      /\ \A d \in before[c] : at[d] = "answered"
  /\ \A d \in Uploads : answer[d] = 201 =>
       /\ row[Docs[d][1].key] # NoRow
       /\ \A c \in Uploads : d \in before[c] /\ Docs[c][1].key = Docs[d][1].key =>
            at[c] \notin {"blob", "row", "chunks"} /\ answer[c] # 201

Inv == Places /\ FilesStored /\ WritersAgree /\ FoundByLater

-----------------------------------------------------------------------------
\* The document a call is at has a key, a text and, for an upload, the file it came with.
LEMMA DocIsListed ==
  ASSUME Places, NEW c \in Calls
  PROVE  /\ Doc(c).key \in Keys /\ Doc(c).copy \in Copies
         /\ BlobOf(c) \in Blobs \cup {NoFile}
         /\ c \in Uploads => Doc(c) = Docs[c][1] /\ pos[c] = 1 /\ pos[c] = Len(Docs[c])
  <1>1. Docs[c] \in Seq([key : Keys, copy : Copies, ext : STRING]) /\ pos[c] \in DOMAIN Docs[c]
    BY CallsAssumption DEF Places
  <1>2. Doc(c) \in [key : Keys, copy : Copies, ext : STRING]
    <2> DEFINE Documents1 == [key : Keys, copy : Copies, ext : STRING]
    <2>1. Docs[c] \in Seq(Documents1) /\ pos[c] \in 1 .. Len(Docs[c])
      BY <1>1
    <2> HIDE DEF Documents1
    <2>2. Docs[c][pos[c]] \in Documents1
      BY <2>1, ElementOfSeq
    <2>3. QED
      BY <2>2 DEF Doc, Documents1
  <1>3. c \in Uploads => pos[c] = 1 /\ Len(Docs[c]) = 1
    BY <1>1, CallsAssumption
  <1>4. BlobOf(c) \in Blobs \cup {NoFile}
    BY <1>3 DEF BlobOf, Blobs, Doc
  <1>5. QED
    BY <1>2, <1>3, <1>4 DEF Doc

\* A call that stays at its document keeps it.
LEMMA SamePosSameDoc ==
  ASSUME NEW c \in Calls, pos'[c] = pos[c]
  PROVE  Doc(c)' = Doc(c) /\ BlobOf(c)' = BlobOf(c)
  BY DEF Doc, BlobOf

\* At the start there is nothing that could disagree.
LEMMA InitInv == Init => Inv
  <1> SUFFICES ASSUME Init PROVE Inv
    OBVIOUS
  <1>1. Places
    <2>1. \A c \in Calls : pos[c] = 1 /\ 1 \in DOMAIN Docs[c]
      BY CallsAssumption DEF Init
    <2>2. QED
      BY <2>1 DEF Init, Places, NoRow, NoJob
  <1>2. FilesStored
    BY DEF Init, FilesStored, NoRow, Calls
  <1>3. WritersAgree
    BY DEF Init, WritersAgree, NoJob, Halfway
  <1>4. FoundByLater
    BY DEF Init, FoundByLater, Calls
  <1>5. QED
    BY <1>1, <1>2, <1>3, <1>4 DEF Inv

\* A call that comes moves on or is refused; it has come after every answered call.
LEMMA ReceiveKeeps ==
  ASSUME Inv, NEW c \in Calls, ReceiveUpload(c) \/ ReceivePush(c)
  PROVE  Inv'
  <1> USE DEF Inv
  <1>1. /\ at[c] = "new" /\ before' = [before EXCEPT ![c] = {d \in Calls : at[d] = "answered"}]
        /\ \/ c \in Uploads /\ at' = [at EXCEPT ![c] = "lookup"] /\ answer' = answer
           \/ c \in Pushes /\ at' = [at EXCEPT ![c] = "row"] /\ answer' = answer
           \/ \E s \in {400, 413, 415} :
                at' = [at EXCEPT ![c] = "answered"] /\ answer' = [answer EXCEPT ![c] = s]
        /\ UNCHANGED <<row, chunks, blobs, job, jobs, reader, pos, stored, torn, faults>>
    BY DEF ReceiveUpload, ReceivePush, Answer, data
  <1>2. \A d \in Calls : Doc(d)' = Doc(d) /\ BlobOf(d)' = BlobOf(d)
    BY <1>1, SamePosSameDoc
  <1>3. Places'
    BY <1>1 DEF Places
  <1>4. FilesStored'
    BY <1>1, <1>2, CallsAssumption DEF FilesStored, Places, Calls
  <1>5. WritersAgree'
    BY <1>1, <1>2 DEF WritersAgree, Places, Halfway, NoRow, ChunksOf
  <1>6. FoundByLater'
    <2>1. /\ at \in [Calls -> {"new", "lookup", "blob", "row", "chunks", "answered", "lost"}]
          /\ answer \in [Calls -> Nat] /\ before \in [Calls -> SUBSET Calls]
      BY DEF Places
    <2>2. Uploads \subseteq Calls /\ Uploads \cap Pushes = {}
      BY CallsAssumption DEF Calls
    <2>3. QED
      BY <1>1, <1>2, <2>1, <2>2 DEF FoundByLater, NoRow
  <1>7. QED
    BY <1>3, <1>4, <1>5, <1>6

\* The lookup sends on only a file whose row there is not yet.
LEMMA FindDocumentBySHAKeeps ==
  ASSUME Inv, NEW c \in Calls, FindDocumentBySHA(c)
  PROVE  Inv'
  <1> USE DEF Inv
  <1>1. /\ at[c] = "lookup"
        /\ \/ /\ row[Doc(c).key] = NoRow
              /\ at' = [at EXCEPT ![c] = "blob"] /\ answer' = answer
           \/ \E s \in {200, 400, 422} :
                at' = [at EXCEPT ![c] = "answered"] /\ answer' = [answer EXCEPT ![c] = s]
        /\ UNCHANGED <<row, chunks, blobs, job, jobs, reader, pos, stored, before, torn, faults>>
    BY DEF FindDocumentBySHA, Known, Answer, data
  <1>2. \A d \in Calls : Doc(d)' = Doc(d) /\ BlobOf(d)' = BlobOf(d)
    BY <1>1, SamePosSameDoc
  <1>3. Places'
    <2>1. /\ at' \in [Calls -> {"new", "lookup", "blob", "row", "chunks", "answered", "lost"}]
          /\ answer' \in [Calls -> Nat]
      BY <1>1 DEF Places
    <2>2. QED
      BY <1>1, <2>1 DEF Places
  <1>4. FilesStored'
    BY <1>1, <1>2 DEF FilesStored, Places, Calls
  <1>5. WritersAgree'
    BY <1>1, <1>2 DEF WritersAgree, Places, Halfway, NoRow, ChunksOf
  <1>6. FoundByLater'
    <2>1. /\ at \in [Calls -> {"new", "lookup", "blob", "row", "chunks", "answered", "lost"}]
          /\ answer \in [Calls -> Nat] /\ before \in [Calls -> SUBSET Calls]
      BY DEF Places
    <2>2. Uploads \subseteq Calls /\ (c \in Uploads => Doc(c) = Docs[c][1])
      BY DocIsListed DEF Calls
    <2>3. QED
      BY <1>1, <1>2, <2>1, <2>2 DEF FoundByLater, NoRow
  <1>7. QED
    BY <1>3, <1>4, <1>5, <1>6

\* The file is in the bucket before its row is written.
LEMMA PutBlobKeeps ==
  ASSUME Inv, NEW c \in Calls, PutBlob(c)
  PROVE  Inv'
  <1> USE DEF Inv
  <1>1. /\ at[c] = "blob" /\ at' = [at EXCEPT ![c] = "row"]
        /\ blobs' = blobs \cup {BlobOf(c)}
        /\ UNCHANGED <<row, chunks, job, jobs, reader, pos, stored, answer, before, torn, faults>>
    BY DEF PutBlob
  <1>2. \A d \in Calls : Doc(d)' = Doc(d) /\ BlobOf(d)' = BlobOf(d)
    BY <1>1, SamePosSameDoc
  <1>3. Places'
    BY <1>1 DEF Places
  <1>4. FilesStored'
    BY <1>1, <1>2 DEF FilesStored, Places, Calls
  <1>5. WritersAgree'
    BY <1>1, <1>2 DEF WritersAgree, Places, Halfway, NoRow, ChunksOf
  <1>6. FoundByLater'
    BY <1>1, <1>2 DEF FoundByLater, Places, NoRow, Calls
  <1>7. QED
    BY <1>3, <1>4, <1>5, <1>6

\* A writer that starts on a document nobody else is writing has the text of its row.
LEMMA UpsertSourceKeeps ==
  ASSUME Inv, NEW c \in Calls, UpsertSource(c)
  PROVE  Inv'
  <1> USE DEF Inv
  <1> DEFINE k == Doc(c).key
             new == [copy |-> Doc(c).copy, blob |-> BlobOf(c)]
  <1>1. /\ at[c] = "row" /\ at' = [at EXCEPT ![c] = "chunks"]
        /\ row' = [row EXCEPT ![k] = new]
        /\ torn' = IF Busy(k) THEN torn \cup {k} ELSE torn \ {k}
        /\ job' = [job EXCEPT !.stale = IF Listed(k) THEN @ \cup {k} ELSE @]
        /\ UNCHANGED <<chunks, blobs, jobs, reader, pos, stored, answer, before, faults>>
    BY DEF UpsertSource
  <1>2. \A d \in Calls : Doc(d)' = Doc(d) /\ BlobOf(d)' = BlobOf(d)
    BY <1>1, SamePosSameDoc
  <1>3. /\ k \in Keys /\ Doc(c).copy \in Copies /\ BlobOf(c) \in Blobs \cup {NoFile}
        /\ BlobOf(c) \in blobs \cup {NoFile}
    BY <1>1, DocIsListed DEF FilesStored, BlobOf
  <1>4. /\ new \in [copy : Copies, blob : Blobs \cup {NoFile}]
        /\ new # NoRow /\ new.copy = Doc(c).copy /\ new.blob = BlobOf(c)
    BY <1>3, CopiesAssumption DEF NoRow
  <1>5. /\ job'.on = job.on /\ job'.todo = job.todo
        /\ job'.stale = IF Listed(k) THEN job.stale \cup {k} ELSE job.stale
        /\ job' = [on |-> job'.on, todo |-> job'.todo, stale |-> job'.stale]
    BY <1>1 DEF Places
  <1>6. /\ row'[k] = new /\ row' \in [Keys -> [copy : Copies, blob : Blobs \cup {NoFile}] \cup {NoRow}]
        /\ \A l \in Keys \ {k} : row'[l] = row[l]
        /\ at'[c] = "chunks" /\ \A d \in Calls \ {c} : at'[d] = at[d]
    BY <1>1, <1>3, <1>4 DEF Places
  <1>7. \A l \in Keys : row[l] # NoRow => row'[l] # NoRow
    BY <1>4, <1>6
  <1> HIDE DEF k, new
  <1>8. Places'
    BY <1>1, <1>5, <1>6 DEF Places
  <1>9. FilesStored'
    BY <1>1, <1>2, <1>3, <1>4, <1>6 DEF FilesStored, Places, Calls
  <1>10. WritersAgree'
    <2>1. \A j \in job.todo : j.key = k => Listed(k)
      BY DEF Places, Listed
    <2>2. \A d \in Calls, l \in Keys \ {k} : Halfway(d, l)' <=> Halfway(d, l)
      BY <1>1, <1>2, <1>6 DEF Halfway, k
    <2>3. \A l \in Keys : l = k => Halfway(c, l)'
      BY <1>2, <1>6 DEF Halfway, k
    <2>4. \A d \in Calls, l \in Keys : l = k /\ Halfway(d, l)' /\ ~Busy(k) => d = c
      BY <1>2, <1>6 DEF Halfway, Busy
    <2>5. ASSUME NEW j \in job'.todo
          PROVE  IF j.key \in job'.stale THEN j.key \in torn' ELSE j.copy = row'[j.key].copy
      <3>1. CASE j.key = k
        BY <1>1, <1>5, <2>1, <3>1 DEF Busy
      <3>2. CASE j.key # k
        BY <1>1, <1>5, <1>6, <3>2 DEF Places, WritersAgree
      <3>3. QED
        BY <3>1, <3>2
    <2>6. ASSUME NEW l \in Keys \ torn'
          PROVE  /\ \A d \in Calls : Halfway(d, l)' => Doc(d)'.copy = row'[l].copy
                 /\ (row'[l] # NoRow /\ \A d \in Calls : ~Halfway(d, l)')
                      => chunks'[l] = ChunksOf(row'[l].copy)
      <3>1. CASE l = k
        BY <1>1, <1>2, <1>4, <1>6, <2>3, <2>4, <3>1
      <3>2. CASE l # k
        <4>1. l \in Keys \ torn /\ row'[l] = row[l] /\ chunks'[l] = chunks[l]
          BY <1>1, <1>6, <3>2
        <4>2. QED
          BY <1>2, <2>2, <3>2, <4>1 DEF WritersAgree
      <3>3. QED
        BY <3>1, <3>2
    <2>7. QED
      BY <2>5, <2>6 DEF WritersAgree, ChunksOf
  <1>11. FoundByLater'
    <2>1. Doc(c)'.key = k /\ row'[k] # NoRow
      BY <1>2, <1>4, <1>6 DEF k
    <2>2. \A d \in Calls : at'[d] = "chunks" => row'[Doc(d)'.key] # NoRow
      BY <1>2, <1>6, <1>7, <2>1, DocIsListed DEF FoundByLater
    <2>3. \A d \in Uploads : Docs[d][1].key \in Keys
      <3>1. \A d \in Uploads : d \in Calls
        BY DEF Calls
      <3>2. QED
        BY <3>1, DocIsListed
    <2>4. QED
      BY <1>1, <1>6, <1>7, <2>2, <2>3, DocIsListed DEF FoundByLater, Places, Calls
  <1>12. QED
    BY <1>8, <1>9, <1>10, <1>11

\* What becomes of a call when it is done with a document.
LEMMA NextDocumentIs ==
  ASSUME Places, NEW c \in Calls, at[c] \in {"row", "chunks"}, NEW all \in SUBSET Nat, NextDocument(c, all)
  PROVE  /\ stored' = [stored EXCEPT ![c] = all]
         /\ \A d \in Calls \ {c} : at'[d] = at[d] /\ answer'[d] = answer[d] /\ pos'[d] = pos[d]
         /\ at'[c] \in {"row", "answered"} /\ (at'[c] = "row" => c \notin Uploads)
         /\ c \in Uploads => pos'[c] = pos[c] /\ answer'[c] = IF all = {} THEN 500 ELSE 201
         /\ at' \in [Calls -> {"new", "lookup", "blob", "row", "chunks", "answered", "lost"}]
         /\ answer' \in [Calls -> Nat]
         /\ pos' \in [Calls -> Nat] /\ \A d \in Calls : pos'[d] \in DOMAIN Docs[d]
  <1>1. /\ pos[c] \in Nat /\ Len(Docs[c]) \in Nat /\ DOMAIN Docs[c] = 1 .. Len(Docs[c])
        /\ pos[c] >= 1 /\ pos[c] <= Len(Docs[c])
    BY CallsAssumption DEF Places
  <1>2. /\ Status(c, all) \in Nat
        /\ c \in Uploads => Status(c, all) = IF all = {} THEN 500 ELSE 201
    BY DEF Status
  <1>3. CASE pos[c] < Len(Docs[c])
    <2>1. /\ stored' = [stored EXCEPT ![c] = all] /\ pos' = [pos EXCEPT ![c] = @ + 1]
          /\ at' = [at EXCEPT ![c] = "row"] /\ answer' = answer
      BY <1>3 DEF NextDocument
    <2>2. c \notin Uploads
      BY <1>3, DocIsListed
    <2>3. pos'[c] \in DOMAIN Docs[c]
      BY <1>1, <1>3, <2>1 DEF Places
    <2>4. QED
      BY <2>1, <2>2, <2>3 DEF Places
  <1>4. CASE ~(pos[c] < Len(Docs[c]))
    <2>1. /\ stored' = [stored EXCEPT ![c] = all] /\ pos' = pos
          /\ at' = [at EXCEPT ![c] = "answered"] /\ answer' = [answer EXCEPT ![c] = Status(c, all)]
      BY <1>4 DEF NextDocument, Answer
    <2>2. QED
      BY <1>2, <2>1 DEF Places
  <1>5. QED
    BY <1>3, <1>4

\* The chunks a writer of a document that is not torn writes are those of its row.
LEMMA ReplaceChunksKeeps ==
  ASSUME Inv, NEW c \in Calls, ReplaceChunks(c)
  PROVE  Inv'
  <1> USE DEF Inv
  <1> DEFINE k == Doc(c).key
             all == stored[c] \cup {pos[c]}
             now == ChunksOf(Doc(c).copy)
  <1>1. /\ at[c] = "chunks" /\ NextDocument(c, all)
        /\ chunks' = [chunks EXCEPT ![k] = now]
        /\ UNCHANGED <<row, blobs, job, jobs, reader, before, torn, faults>>
    BY DEF ReplaceChunks, MayReplace, NewChunks
  <1>2. all \in SUBSET Nat /\ all # {}
    BY DEF Places
  <1>3. k \in Keys /\ Doc(c).copy \in Copies /\ now \in Copies \cup {NoCopy}
    BY DocIsListed DEF ChunksOf
  <1> HIDE DEF k, all, now
  <1>4. /\ stored' = [stored EXCEPT ![c] = all]
        /\ \A d \in Calls \ {c} : at'[d] = at[d] /\ answer'[d] = answer[d] /\ pos'[d] = pos[d]
        /\ at'[c] \in {"row", "answered"} /\ (at'[c] = "row" => c \notin Uploads)
        /\ c \in Uploads => pos'[c] = pos[c] /\ answer'[c] = 201
        /\ at' \in [Calls -> {"new", "lookup", "blob", "row", "chunks", "answered", "lost"}]
        /\ answer' \in [Calls -> Nat]
        /\ pos' \in [Calls -> Nat] /\ \A d \in Calls : pos'[d] \in DOMAIN Docs[d]
    <2>1. Places /\ at[c] \in {"row", "chunks"}
      BY <1>1
    <2> HIDE DEF Inv
    <2>2. c \in Uploads => answer'[c] = IF all = {} THEN 500 ELSE 201
      BY <1>1, <1>2, <2>1, NextDocumentIs
    <2>3. QED
      BY <1>1, <1>2, <2>1, <2>2, NextDocumentIs
  <1>5. /\ \A d \in Calls \ {c} : Doc(d)' = Doc(d) /\ BlobOf(d)' = BlobOf(d)
        /\ c \in Uploads => Doc(c)' = Doc(c) /\ BlobOf(c)' = BlobOf(c)
    BY <1>4, SamePosSameDoc
  <1>6. Places'
    BY <1>1, <1>2, <1>3, <1>4 DEF Places
  <1>7. FilesStored'
    <2>1. \A d \in Uploads : at'[d] \in {"row", "chunks"} =>
            BlobOf(d)' = BlobOf(d) /\ at[d] \in {"row", "chunks"}
      BY <1>1, <1>4, <1>5 DEF Calls
    <2>2. QED
      BY <1>1, <2>1 DEF FilesStored
  <1>8. WritersAgree'
    <2>1. \A l \in Keys, d \in Calls \ {c} : Halfway(d, l)' <=> Halfway(d, l)
      BY <1>4, <1>5 DEF Halfway
    <2>2. \A l \in Keys : ~Halfway(c, l)' /\ (Halfway(c, l) <=> l = k)
      BY <1>1, <1>4 DEF Halfway, k
    <2>3. ASSUME NEW l \in Keys \ torn
          PROVE  /\ \A d \in Calls : Halfway(d, l)' => Doc(d)'.copy = row'[l].copy
                 /\ (row'[l] # NoRow /\ \A d \in Calls : ~Halfway(d, l)')
                      => chunks'[l] = ChunksOf(row'[l].copy)
      <3>1. \A d \in Calls : Halfway(d, l)' => Doc(d)'.copy = row'[l].copy
        BY <1>1, <1>5, <2>1, <2>2 DEF WritersAgree
      <3>2. CASE l = k
        <4>1. chunks'[l] = now
          BY <1>1, <1>3, <3>2 DEF Places
        <4>2. Doc(c).copy = row[l].copy
          BY <2>2, <3>2 DEF WritersAgree
        <4>3. QED
          BY <1>1, <3>1, <4>1, <4>2 DEF now
      <3>3. CASE l # k
        <4>1. chunks'[l] = chunks[l]
          BY <1>1, <1>3, <3>3 DEF Places
        <4>2. (\A d \in Calls : ~Halfway(d, l)') => \A d \in Calls : ~Halfway(d, l)
          BY <2>1, <2>2, <3>3
        <4>3. QED
          BY <1>1, <3>1, <4>1, <4>2 DEF WritersAgree
      <3>4. QED
        BY <3>2, <3>3
    <2>4. QED
      BY <1>1, <2>3 DEF WritersAgree, ChunksOf
  <1>9. FoundByLater'
    <2>1. \A d \in Uploads : d \in Calls
      BY DEF Calls
    <2>2. \A d \in Calls : at'[d] = "chunks" => row'[Doc(d)'.key] # NoRow
      BY <1>1, <1>4, <1>5 DEF FoundByLater
    <2>3. \A d \in Calls : at[d] = "answered" => d # c /\ at'[d] = "answered"
      BY <1>1, <1>4
    <2>4. \A d \in Uploads : at'[d] # "answered" => stored'[d] = {} /\ answer'[d] = 0
      BY <1>4, <2>1 DEF FoundByLater, Places
    <2>5. \A d \in Calls : /\ at'[d] = "new" => before'[d] = {}
                           /\ \A e \in before'[d] : at'[e] = "answered"
      BY <1>1, <1>4, <2>3 DEF FoundByLater, Places
    <2>6. ASSUME NEW d \in Uploads, answer'[d] = 201
          PROVE  /\ row'[Docs[d][1].key] # NoRow
                 /\ \A e \in Uploads : d \in before'[e] /\ Docs[e][1].key = Docs[d][1].key =>
                      at'[e] \notin {"blob", "row", "chunks"} /\ answer'[e] # 201
      <3>1. CASE d = c
        <4>1. row[Docs[d][1].key] # NoRow
          BY <1>1, <3>1, DocIsListed DEF FoundByLater
        <4>2. \A e \in Uploads : d \notin before[e]
          BY <1>1, <2>1, <3>1 DEF FoundByLater
        <4>3. QED
          BY <1>1, <4>1, <4>2
      <3>2. CASE d # c
        <4>1. answer[d] = 201
          BY <1>4, <2>1, <2>6, <3>2
        <4>2. QED
          BY <1>1, <1>4, <2>1, <4>1 DEF FoundByLater
      <3>3. QED
        BY <3>1, <3>2
    <2>7. QED
      BY <2>2, <2>4, <2>5, <2>6 DEF FoundByLater, NoRow
  <1>10. QED
    BY <1>6, <1>7, <1>8, <1>9

\* A call that fails leaves files behind at most, and tears a document it was writing.
LEMMA CallFailsKeeps ==
  ASSUME Inv, NEW c \in Calls, CallFails(c)
  PROVE  Inv'
  <1> USE DEF Inv
  <1>1. UNCHANGED <<row, chunks, job, jobs, reader, before>>
    BY DEF CallFails
  <1>2. CASE /\ at[c] \in {"lookup", "blob"} /\ Answer(c, 500)
             /\ blobs' \in {blobs, blobs \cup (IF at[c] = "blob" THEN {BlobOf(c)} ELSE {})}
             /\ UNCHANGED <<pos, stored, torn>>
    <2>1. \A d \in Calls : Doc(d)' = Doc(d) /\ BlobOf(d)' = BlobOf(d)
      BY <1>2, SamePosSameDoc
    <2>2. blobs \subseteq blobs'
      BY <1>2
    <2>3. at' = [at EXCEPT ![c] = "answered"] /\ answer' = [answer EXCEPT ![c] = 500]
      BY <1>2 DEF Answer
    <2>4. Places'
      BY <1>1, <1>2, <2>3 DEF Places
    <2>5. FilesStored'
      BY <1>1, <2>1, <2>2, <2>3 DEF FilesStored, Places, Calls
    <2>6. WritersAgree'
      BY <1>1, <1>2, <2>1, <2>3 DEF WritersAgree, Places, Halfway, NoRow, ChunksOf
    <2>7. FoundByLater'
      BY <1>1, <1>2, <2>1, <2>3 DEF FoundByLater, Places, NoRow, Calls
    <2>8. QED
      BY <2>4, <2>5, <2>6, <2>7
  <1>3. CASE /\ at[c] \in {"row", "chunks"} /\ NextDocument(c, stored[c])
             /\ torn' = (IF at[c] = "chunks" THEN torn \cup {Doc(c).key} ELSE torn)
             /\ UNCHANGED blobs
    <2> DEFINE k == Doc(c).key
    <2>1. stored[c] \in SUBSET Nat /\ (c \in Uploads => stored[c] = {})
      BY <1>3 DEF Places, FoundByLater
    <2>2. /\ stored' = [stored EXCEPT ![c] = stored[c]]
          /\ \A d \in Calls \ {c} : at'[d] = at[d] /\ answer'[d] = answer[d] /\ pos'[d] = pos[d]
          /\ at'[c] \in {"row", "answered"} /\ (at'[c] = "row" => c \notin Uploads)
          /\ c \in Uploads => pos'[c] = pos[c] /\ answer'[c] = IF stored[c] = {} THEN 500 ELSE 201
          /\ at' \in [Calls -> {"new", "lookup", "blob", "row", "chunks", "answered", "lost"}]
          /\ answer' \in [Calls -> Nat]
          /\ pos' \in [Calls -> Nat] /\ \A d \in Calls : pos'[d] \in DOMAIN Docs[d]
      BY <1>3, <2>1, NextDocumentIs
    <2>3. \A d \in Calls \ {c} : Doc(d)' = Doc(d) /\ BlobOf(d)' = BlobOf(d)
      BY <2>2, SamePosSameDoc
    <2>4. Places'
      BY <1>1, <2>1, <2>2 DEF Places
    <2>5. FilesStored'
      <3>1. \A d \in Uploads : at'[d] \in {"row", "chunks"} =>
              BlobOf(d)' = BlobOf(d) /\ at[d] \in {"row", "chunks"}
        BY <2>2, <2>3 DEF Calls
      <3>2. QED
        BY <1>1, <1>3, <3>1 DEF FilesStored
    <2>6. WritersAgree'
      <3>1. \A l \in Keys, d \in Calls \ {c} : Halfway(d, l)' <=> Halfway(d, l)
        BY <2>2, <2>3 DEF Halfway
      <3>2. \A l \in Keys : ~Halfway(c, l)' /\ (Halfway(c, l) => l \in torn')
        BY <1>3, <2>2 DEF Halfway
      <3>3. torn \subseteq torn'
        BY <1>3
      <3>4. QED
        BY <1>1, <3>1, <3>2, <3>3, <2>3 DEF WritersAgree, NoRow, ChunksOf
    <2>7. FoundByLater'
      <3>1. \A d \in Uploads : d \in Calls
        BY DEF Calls
      <3>2. \A d \in Calls : at'[d] = "chunks" => row'[Doc(d)'.key] # NoRow
        BY <1>1, <2>2, <2>3 DEF FoundByLater
      <3>3. \A d \in Calls : at[d] = "answered" => d # c /\ at'[d] = "answered"
        BY <1>3, <2>2
      <3>4. \A d \in Uploads : at'[d] # "answered" => stored'[d] = {} /\ answer'[d] = 0
        BY <2>2, <3>1 DEF FoundByLater, Places
      <3>5. \A d \in Calls : /\ at'[d] = "new" => before'[d] = {}
                             /\ \A e \in before'[d] : at'[e] = "answered"
        BY <1>1, <2>2, <3>3 DEF FoundByLater, Places
      <3>6. \A d \in Uploads : answer'[d] = 201 => answer[d] = 201
        BY <2>1, <2>2, <3>1
      <3>7. \A e \in Uploads : at'[e] \in {"blob", "row", "chunks"} => at[e] \in {"blob", "row", "chunks"}
        BY <1>3, <2>2, <3>1
      <3>8. QED
        BY <1>1, <3>2, <3>4, <3>5, <3>6, <3>7 DEF FoundByLater, NoRow
    <2>8. QED
      BY <2>4, <2>5, <2>6, <2>7
  <1>4. QED
    BY <1>2, <1>3 DEF CallFails

\* A crash tears the documents that were being written, and loses nothing else.
LEMMA CrashKeeps == Inv /\ Crash => Inv'
  <1> SUFFICES ASSUME Inv, Crash PROVE Inv'
    OBVIOUS
  <1> USE DEF Inv
  <1>1. /\ at' = [c \in Calls |-> IF InFlight(c) THEN "lost" ELSE at[c]]
        /\ torn' = torn \cup {k \in Keys : \E c \in Calls : Halfway(c, k)}
        /\ UNCHANGED <<row, chunks, blobs, job, jobs, reader, pos, stored, answer, before>>
    BY DEF Crash, data
  <1>2. \A d \in Calls : Doc(d)' = Doc(d) /\ BlobOf(d)' = BlobOf(d)
    BY <1>1, SamePosSameDoc
  <1>3. \A d \in Calls : \/ at'[d] = "lost" /\ at[d] # "new" /\ at[d] # "answered"
                         \/ at'[d] = at[d] /\ at[d] \notin {"lookup", "blob", "row", "chunks"}
    BY <1>1 DEF InFlight
  <1>4. Places'
    BY <1>1, <1>3 DEF Places
  <1>5. FilesStored'
    BY <1>1, <1>3 DEF FilesStored, Calls
  <1>6. WritersAgree'
    <2>1. \A l \in Keys, d \in Calls : ~Halfway(d, l)'
      BY <1>3 DEF Halfway
    <2>2. \A l \in Keys, d \in Calls : Halfway(d, l) => l \in torn'
      BY <1>1
    <2>3. QED
      BY <1>1, <2>1, <2>2 DEF WritersAgree, NoRow, ChunksOf
  <1>7. FoundByLater'
    <2>1. \A d \in Uploads : d \in Calls
      BY DEF Calls
    <2>2. \A d \in Calls : /\ at'[d] \notin {"blob", "row", "chunks"}
                           /\ at'[d] = "new" => at[d] = "new"
                           /\ at'[d] = "answered" <=> at[d] = "answered"
      BY <1>3
    <2>3. before \in [Calls -> SUBSET Calls]
      BY DEF Places
    <2>4. QED
      BY <1>1, <2>1, <2>2, <2>3 DEF FoundByLater, NoRow
  <1>8. QED
    BY <1>4, <1>5, <1>6, <1>7

\* The job starts with the texts of the rows.
LEMMA StartJobKeeps == Inv /\ StartJob => Inv'
  <1> SUFFICES ASSUME Inv, StartJob PROVE Inv'
    OBVIOUS
  <1> USE DEF Inv
  <1> DEFINE listed == {[key |-> k, copy |-> row[k].copy] : k \in {k \in Keys : row[k] # NoRow}}
  <1>1. /\ ~job.on /\ job' = [on |-> TRUE, stale |-> {}, todo |-> listed]
        /\ UNCHANGED <<row, chunks, blobs, at, pos, stored, answer, before, reader, torn, faults>>
    BY DEF StartJob, data
  <1>2. \A d \in Calls : Doc(d)' = Doc(d) /\ BlobOf(d)' = BlobOf(d)
    BY <1>1, SamePosSameDoc
  <1>3. job'.on = TRUE /\ job'.stale = {} /\ job'.todo = listed
    BY <1>1
  <1>4. listed \subseteq [key : Keys, copy : Copies]
    BY DEF Places
  <1>5. \A j \in listed : j.copy = row[j.key].copy
    OBVIOUS
  <1> HIDE DEF listed
  <1>6. Places'
    BY <1>1, <1>3, <1>4 DEF Places
  <1>7. FilesStored'
    BY <1>1, <1>2 DEF FilesStored, Calls
  <1>8. WritersAgree'
    BY <1>1, <1>2, <1>3, <1>5 DEF WritersAgree, Halfway, NoRow, ChunksOf
  <1>9. FoundByLater'
    BY <1>1, <1>2 DEF FoundByLater, NoRow
  <1>10. QED
    BY <1>6, <1>7, <1>8, <1>9

\* The job makes a document whole again when nobody has written its row since the
\* job listed it, and nobody is about to write its chunks.
LEMMA IndexAgainKeeps ==
  ASSUME Inv, NEW j \in job.todo, IndexAgain(j)
  PROVE  Inv'
  <1> USE DEF Inv
  <1>1. /\ job' = [job EXCEPT !.todo = @ \ {j}]
        /\ UNCHANGED <<row, blobs, at, pos, stored, answer, before, reader>>
        /\ \/ chunks' = chunks /\ torn' = torn
           \/ /\ ChunkCount[j.copy] # 0
              /\ chunks' = [chunks EXCEPT ![j.key] = j.copy]
              /\ torn' = IF j.key \in job.stale \/ \E c \in Calls : Halfway(c, j.key)
                         THEN torn ELSE torn \ {j.key}
    BY DEF IndexAgain, Done
  <1>2. \A d \in Calls : Doc(d)' = Doc(d) /\ BlobOf(d)' = BlobOf(d)
    BY <1>1, SamePosSameDoc
  <1>3. \A d \in Calls, l \in Keys : Halfway(d, l)' <=> Halfway(d, l)
    BY <1>1, <1>2 DEF Halfway
  <1>4. /\ job'.on = job.on /\ job'.stale = job.stale /\ job'.todo = job.todo \ {j}
        /\ job' = [on |-> job'.on, todo |-> job'.todo, stale |-> job'.stale]
    BY <1>1 DEF Places
  <1>5. j.key \in Keys /\ j.copy \in Copies
    BY DEF Places
  <1>6. /\ chunks' \in [Keys -> Copies \cup {NoCopy}]
        /\ \A l \in Keys \ {j.key} : chunks'[l] = chunks[l] /\ (l \in torn' <=> l \in torn)
    BY <1>1, <1>5 DEF Places
  <1>7. Places'
    BY <1>1, <1>4, <1>6 DEF Places
  <1>8. FilesStored'
    BY <1>1, <1>2 DEF FilesStored, Calls
  <1>9. WritersAgree'
    <2>1. ASSUME NEW i \in job'.todo
          PROVE  IF i.key \in job'.stale THEN i.key \in torn' ELSE i.copy = row'[i.key].copy
      BY <1>1, <1>4 DEF WritersAgree
    <2>2. ASSUME NEW l \in Keys \ torn'
          PROVE  /\ \A d \in Calls : Halfway(d, l)' => Doc(d)'.copy = row'[l].copy
                 /\ (row'[l] # NoRow /\ \A d \in Calls : ~Halfway(d, l)')
                      => chunks'[l] = ChunksOf(row'[l].copy)
      <3>1. CASE l # j.key \/ (chunks' = chunks /\ torn' = torn)
        <4>1. l \notin torn /\ chunks'[l] = chunks[l]
          BY <1>6, <3>1
        <4>2. QED
          BY <1>1, <1>2, <1>3, <4>1 DEF WritersAgree
      <3>2. CASE l = j.key /\ ~(chunks' = chunks /\ torn' = torn)
        <4>1. ChunkCount[j.copy] # 0 /\ chunks'[l] = j.copy
          BY <1>1, <1>5, <3>2 DEF Places
        <4>2. \/ l \notin torn
              \/ l \notin job.stale /\ \A d \in Calls : ~Halfway(d, l)
          BY <1>1, <3>2
        <4>3. l \notin job.stale
          BY <3>2, <4>2 DEF WritersAgree
        <4>4. j.copy = row[l].copy
          BY <3>2, <4>3 DEF WritersAgree
        <4>5. chunks'[l] = ChunksOf(row'[l].copy)
          BY <1>1, <4>1, <4>4 DEF ChunksOf
        <4>6. QED
          BY <1>1, <1>2, <1>3, <4>2, <4>5 DEF WritersAgree
      <3>3. QED
        BY <3>1, <3>2
    <2>3. QED
      BY <2>1, <2>2 DEF WritersAgree, ChunksOf
  <1>10. FoundByLater'
    BY <1>1, <1>2 DEF FoundByLater, NoRow
  <1>11. QED
    BY <1>7, <1>8, <1>9, <1>10

\* A document the job fails on, and the end of the job, change no document.
LEMMA JobStepKeeps ==
  ASSUME Inv, (\E j \in job.todo : IndexAgainFails(j)) \/ EndJob
  PROVE  Inv'
  <1> USE DEF Inv
  <1>1. /\ job'.todo \subseteq job.todo /\ (job'.todo # {} => job'.on /\ job'.stale = job.stale)
        /\ job' = [on |-> job'.on, todo |-> job'.todo, stale |-> job'.stale]
        /\ UNCHANGED <<row, chunks, blobs, at, pos, stored, answer, before, reader, torn>>
    BY DEF IndexAgainFails, Done, EndJob, NoJob, data, Places
  <1>2. \A d \in Calls : Doc(d)' = Doc(d) /\ BlobOf(d)' = BlobOf(d)
    BY <1>1, SamePosSameDoc
  <1>3. Places'
    BY <1>1 DEF Places
  <1>4. FilesStored'
    BY <1>1, <1>2 DEF FilesStored, Calls
  <1>5. WritersAgree'
    BY <1>1, <1>2 DEF WritersAgree, Halfway, NoRow, ChunksOf
  <1>6. FoundByLater'
    BY <1>1, <1>2 DEF FoundByLater, NoRow
  <1>7. QED
    BY <1>3, <1>4, <1>5, <1>6

\* A download reads, and the file it looks for is there.
LEMMA ReaderKeeps ==
  ASSUME Inv, GetFile \/ \E k \in Keys : LookUpFile(k)
  PROVE  Inv'
  <1> USE DEF Inv
  <1>1. UNCHANGED <<row, chunks, blobs, at, pos, stored, answer, before, job, torn>>
    BY DEF GetFile, LookUpFile, data
  <1>2. \A d \in Calls : Doc(d)' = Doc(d) /\ BlobOf(d)' = BlobOf(d)
    BY <1>1, SamePosSameDoc
  <1>3. /\ reader' = [at |-> reader'.at, blob |-> reader'.blob]
        /\ reader'.at = "get" => reader'.blob \in blobs
        /\ reader'.at # "500"
    <2>1. CASE GetFile
      <3>1. reader.blob \in blobs
        BY <2>1 DEF GetFile, FilesStored
      <3>2. reader' = [reader EXCEPT !.at = "200"]
        BY <2>1, <3>1 DEF GetFile
      <3>3. QED
        BY <3>1, <3>2 DEF Places
    <2>2. ASSUME NEW k \in Keys, LookUpFile(k)
          PROVE  reader' = [at |-> "404", blob |-> NoFile] \/
                   (reader' = [at |-> "get", blob |-> row[k].blob] /\ row[k].blob \in blobs)
      BY <2>2 DEF LookUpFile, FilesStored
    <2>3. QED
      BY <2>1, <2>2
  <1>4. Places'
    BY <1>1, <1>3 DEF Places
  <1>5. FilesStored'
    BY <1>1, <1>2, <1>3 DEF FilesStored, Calls
  <1>6. WritersAgree'
    BY <1>1, <1>2 DEF WritersAgree, Halfway, NoRow, ChunksOf
  <1>7. FoundByLater'
    BY <1>1, <1>2 DEF FoundByLater, NoRow
  <1>8. QED
    BY <1>4, <1>5, <1>6, <1>7

-----------------------------------------------------------------------------
\* Uploads, pushes, the job and downloads, with failures and crashes between any two
\* of their steps, keep the invariant: files come before rows, rows before chunks, and
\* a later call with the same bytes finds the row.
THEOREM DocumentsInvariant == Spec => []Inv
  <1>1. Init => Inv
    BY InitInv
  <1>2. Inv /\ [Next]_vars => Inv'
    <2> SUFFICES ASSUME Inv, [Next]_vars PROVE Inv'
      OBVIOUS
    <2>1. ASSUME NEW c \in Calls,
                 \/ ReceiveUpload(c) \/ FindDocumentBySHA(c) \/ PutBlob(c)
                 \/ ReceivePush(c) \/ UpsertSource(c) \/ ReplaceChunks(c) \/ CallFails(c)
          PROVE  Inv'
      BY <2>1, ReceiveKeeps, FindDocumentBySHAKeeps, PutBlobKeeps, UpsertSourceKeeps,
         ReplaceChunksKeeps, CallFailsKeeps
    <2>2. ASSUME Crash \/ StartJob \/ EndJob
                   \/ \E j \in job.todo : IndexAgain(j) \/ IndexAgainFails(j)
          PROVE  Inv'
      BY <2>2, CrashKeeps, StartJobKeeps, IndexAgainKeeps, JobStepKeeps
    <2>3. ASSUME GetFile \/ \E k \in Keys : LookUpFile(k)
          PROVE  Inv'
      BY <2>3, ReaderKeeps
    <2>4. CASE UNCHANGED vars
      <3>1. \A d \in Calls : Doc(d)' = Doc(d) /\ BlobOf(d)' = BlobOf(d)
        BY <2>4, SamePosSameDoc DEF vars
      <3>2. QED
        BY <2>4, <3>1 DEF vars, Inv, Places, FilesStored, WritersAgree, FoundByLater,
           Halfway, NoRow, ChunksOf, Calls
    <2>5. QED
      BY <2>1, <2>2, <2>3, <2>4 DEF Next
  <1>3. QED
    BY <1>1, <1>2, PTL DEF Spec

\* A row never names a file that is not in the bucket, so that a download that finds
\* the row gets the file (upload.go puts the object before it writes the row).
THEOREM FilesAreThere == Spec => []ListedFileCanBeRead
  <1>1. Inv => ListedFileCanBeRead
    BY DEF Inv, FilesStored, ListedFileCanBeRead
  <1>2. QED
    BY <1>1, DocumentsInvariant, PTL

\* The chunks of a document are those of the text in its row unless two writers of it
\* overlapped or one broke off, and nobody has written it in one go since.
THEOREM RowsMatchChunks == Spec => []RowAndChunksAgree
  <1>1. Inv => RowAndChunksAgree
    BY DEF Inv, WritersAgree, RowAndChunksAgree, Busy
  <1>2. QED
    BY <1>1, DocumentsInvariant, PTL

\* A file that was accepted once is not accepted as new by a later upload of the same
\* bytes (the lookup by hash in upload.go).
THEOREM AcceptedOnce == Spec => []StoredOnce
  <1>1. Inv => StoredOnce
    BY DEF Inv, FoundByLater, StoredOnce
  <1>2. QED
    BY <1>1, DocumentsInvariant, PTL
-----------------------------------------------------------------------------
\* What TypeOK says beyond Places; only uploads are looked up and have files.
Bounded ==
  /\ blobs \subseteq Blobs
  /\ \A c \in Calls : stored[c] \subseteq 1 .. pos[c]
  /\ \A c \in Calls : at[c] \in {"lookup", "blob"} => c \in Uploads
  /\ answer \in [Calls -> {0, 200, 201, 400, 413, 415, 422, 500, 502}]
  /\ job.on \in BOOLEAN /\ job.stale \subseteq Keys
  /\ jobs \in 0 .. MaxJobs /\ faults \in 0 .. MaxFaults
  /\ reader \in [at : {"idle", "get", "200", "404", "500"}, blob : Blobs \cup {NoFile}]
  /\ torn \subseteq Keys

\* The file of an upload is one of the files there can be.
LEMMA FilesAreBlobs ==
  ASSUME Places, NEW c \in Uploads
  PROVE  BlobOf(c) \in Blobs
  <1>1. c \in Calls
    BY DEF Calls
  <1>2. Doc(c) = Docs[c][1]
    BY <1>1, DocIsListed
  <1>3. QED
    BY <1>2 DEF BlobOf, Blobs

\* A call that is done with a document has stored no document it has not come to.
LEMMA NextDocumentBounds ==
  ASSUME Places, Bounded, NEW c \in Calls, NEW all \in SUBSET (1 .. pos[c]), NextDocument(c, all)
  PROVE  /\ \A d \in Calls : stored'[d] \subseteq 1 .. pos'[d]
         /\ \A d \in Calls : at'[d] \in {"lookup", "blob"} => d \in Uploads
         /\ answer' \in [Calls -> {0, 200, 201, 400, 413, 415, 422, 500, 502}]
  <1>1. /\ at \in [Calls -> {"new", "lookup", "blob", "row", "chunks", "answered", "lost"}]
        /\ pos \in [Calls -> Nat] /\ stored \in [Calls -> SUBSET Nat]
        /\ answer \in [Calls -> {0, 200, 201, 400, 413, 415, 422, 500, 502}]
    BY DEF Places, Bounded
  <1>2. Status(c, all) \in {200, 201, 500, 502}
    BY DEF Status
  <1>3. CASE pos[c] < Len(Docs[c])
    <2>1. /\ stored' = [stored EXCEPT ![c] = all] /\ pos' = [pos EXCEPT ![c] = @ + 1]
          /\ at' = [at EXCEPT ![c] = "row"] /\ answer' = answer
      BY <1>3 DEF NextDocument
    <2>2. 1 .. pos[c] \subseteq 1 .. pos[c] + 1
      BY <1>1
    <2>3. ASSUME NEW d \in Calls PROVE stored'[d] \subseteq 1 .. pos'[d]
      <3>1. CASE d = c
        <4>1. stored'[d] = all /\ pos'[d] = pos[c] + 1
          BY <1>1, <2>1, <3>1
        <4>2. QED
          BY <2>2, <4>1
      <3>2. CASE d # c
        BY <1>1, <2>1, <3>2 DEF Bounded
      <3>3. QED
        BY <3>1, <3>2
    <2>4. QED
      BY <1>1, <2>1, <2>3 DEF Bounded
  <1>4. CASE ~(pos[c] < Len(Docs[c]))
    <2>1. /\ stored' = [stored EXCEPT ![c] = all] /\ pos' = pos
          /\ at' = [at EXCEPT ![c] = "answered"]
          /\ answer' = [answer EXCEPT ![c] = Status(c, all)]
      BY <1>4 DEF NextDocument, Answer
    <2>2. ASSUME NEW d \in Calls PROVE stored'[d] \subseteq 1 .. pos'[d]
      <3>1. CASE d = c
        <4>1. stored'[d] = all /\ pos'[d] = pos[c]
          BY <1>1, <2>1, <3>1
        <4>2. QED
          BY <4>1
      <3>2. CASE d # c
        BY <1>1, <2>1, <3>2 DEF Bounded
      <3>3. QED
        BY <3>1, <3>2
    <2>3. ASSUME NEW d \in Calls, at'[d] \in {"lookup", "blob"} PROVE d \in Uploads
      BY <1>1, <2>1, <2>3 DEF Bounded
    <2>4. answer' \in [Calls -> {0, 200, 201, 400, 413, 415, 422, 500, 502}]
      BY <1>1, <1>2, <2>1
    <2>5. QED
      BY <2>2, <2>3, <2>4
  <1>5. QED
    BY <1>3, <1>4

\* Every step keeps what TypeOK says beyond Places.
LEMMA BoundedStep ==
  ASSUME Inv, Bounded, [Next]_vars
  PROVE  Bounded'
  <1> USE CopiesAssumption DEF data, Inv
  <1>1. Places /\ Uploads \subseteq Calls
    BY DEF Calls
  <1>2. ASSUME NEW c \in Calls, ReceiveUpload(c) \/ ReceivePush(c) \/ FindDocumentBySHA(c)
        PROVE  Bounded'
    <2>1. /\ UNCHANGED <<blobs, job, jobs, reader, pos, stored, torn, faults>>
          /\ \/ at' = [at EXCEPT ![c] = "lookup"] /\ c \in Uploads /\ answer' = answer
             \/ at' = [at EXCEPT ![c] = "row"] /\ answer' = answer
             \/ at' = [at EXCEPT ![c] = "blob"] /\ c \in Uploads /\ answer' = answer
             \/ \E s \in {200, 400, 413, 415, 422} :
                  at' = [at EXCEPT ![c] = "answered"] /\ answer' = [answer EXCEPT ![c] = s]
      BY <1>2 DEF ReceiveUpload, ReceivePush, FindDocumentBySHA, Answer, Bounded
    <2>2. QED
      BY <1>1, <2>1 DEF Bounded, Places
  <1>3. ASSUME NEW c \in Calls, PutBlob(c) PROVE Bounded'
    <2>1. /\ UNCHANGED <<job, jobs, reader, pos, stored, answer, torn, faults>>
          /\ at' = [at EXCEPT ![c] = "row"] /\ blobs' = blobs \cup {BlobOf(c)} /\ c \in Uploads
      BY <1>3 DEF PutBlob, Bounded
    <2>2. BlobOf(c) \in Blobs
      BY <1>1, <2>1, FilesAreBlobs
    <2>3. QED
      BY <1>1, <2>1, <2>2 DEF Bounded, Places
  <1>4. ASSUME NEW c \in Calls, UpsertSource(c) PROVE Bounded'
    <2>1. Doc(c).key \in Keys
      BY <1>1, DocIsListed
    <2>2. /\ UNCHANGED <<blobs, jobs, reader, pos, stored, answer, faults>>
          /\ at' = [at EXCEPT ![c] = "chunks"] /\ torn' \subseteq torn \cup {Doc(c).key}
          /\ job' = [job EXCEPT !.stale = IF Listed(Doc(c).key) THEN @ \cup {Doc(c).key} ELSE @]
      BY <1>4 DEF UpsertSource
    <2>3. job'.on = job.on /\ job'.stale \subseteq job.stale \cup {Doc(c).key}
      BY <1>1, <2>2 DEF Places
    <2>4. QED
      BY <1>1, <2>1, <2>2, <2>3 DEF Bounded, Places
  <1>5. ASSUME NEW c \in Calls, ReplaceChunks(c) PROVE Bounded'
    <2>1. /\ UNCHANGED <<blobs, job, jobs, reader, torn, faults>>
          /\ NextDocument(c, stored[c] \cup {pos[c]})
      BY <1>5 DEF ReplaceChunks
    <2>2. stored[c] \cup {pos[c]} \in SUBSET (1 .. pos[c])
      <3>1. pos[c] \in 1 .. Len(Docs[c]) /\ Len(Docs[c]) \in Nat
        BY CallsAssumption DEF Places
      <3>2. pos[c] \in 1 .. pos[c]
        BY <3>1
      <3>3. QED
        BY <3>2 DEF Bounded
    <2>3. /\ \A d \in Calls : stored'[d] \subseteq 1 .. pos'[d]
          /\ \A d \in Calls : at'[d] \in {"lookup", "blob"} => d \in Uploads
          /\ answer' \in [Calls -> {0, 200, 201, 400, 413, 415, 422, 500, 502}]
      BY <1>1, <2>1, <2>2, NextDocumentBounds
    <2>4. QED
      BY <2>1, <2>3 DEF Bounded
  <1>6. ASSUME NEW c \in Calls, CallFails(c) PROVE Bounded'
    <2>1. UNCHANGED <<job, jobs, reader>> /\ faults < MaxFaults /\ faults' = faults + 1
      BY <1>6 DEF CallFails
    <2>2. faults' \in 0 .. MaxFaults
      BY <2>1 DEF Bounded
    <2>3. CASE /\ at[c] \in {"lookup", "blob"}
               /\ blobs' \in {blobs, blobs \cup (IF at[c] = "blob" THEN {BlobOf(c)} ELSE {})}
               /\ Answer(c, 500) /\ UNCHANGED <<pos, stored, torn>>
      <3>1. BlobOf(c) \in Blobs
        BY <1>1, <2>3, FilesAreBlobs DEF Bounded
      <3>2. /\ blobs' \subseteq Blobs /\ at' = [at EXCEPT ![c] = "answered"]
            /\ answer' = [answer EXCEPT ![c] = 500]
        BY <2>3, <3>1 DEF Answer, Bounded
      <3>3. QED
        BY <1>1, <2>1, <2>2, <2>3, <3>2 DEF Bounded, Places
    <2>4. CASE /\ at[c] \in {"row", "chunks"} /\ NextDocument(c, stored[c])
               /\ torn' = (IF at[c] = "chunks" THEN torn \cup {Doc(c).key} ELSE torn)
               /\ UNCHANGED blobs
      <3>1. stored[c] \in SUBSET (1 .. pos[c])
        BY DEF Bounded
      <3>2. /\ \A d \in Calls : stored'[d] \subseteq 1 .. pos'[d]
            /\ \A d \in Calls : at'[d] \in {"lookup", "blob"} => d \in Uploads
            /\ answer' \in [Calls -> {0, 200, 201, 400, 413, 415, 422, 500, 502}]
        BY <1>1, <2>4, <3>1, NextDocumentBounds
      <3>3. torn' \subseteq Keys
        BY <1>1, <2>4, DocIsListed DEF Bounded
      <3>4. QED
        BY <2>1, <2>2, <2>4, <3>2, <3>3 DEF Bounded
    <2>5. QED
      BY <1>6, <2>3, <2>4 DEF CallFails
  <1>7. CASE Crash
    <2>1. /\ UNCHANGED <<blobs, job, jobs, reader, pos, stored, answer>>
          /\ at' = [c \in Calls |-> IF InFlight(c) THEN "lost" ELSE at[c]]
          /\ torn' \subseteq torn \cup Keys /\ faults < MaxFaults /\ faults' = faults + 1
      BY <1>7 DEF Crash
    <2>2. QED
      BY <2>1 DEF Bounded
  <1>8. CASE StartJob \/ EndJob \/ \E j \in job.todo : IndexAgain(j) \/ IndexAgainFails(j)
    <2>1. /\ UNCHANGED <<blobs, at, pos, stored, answer, reader>>
          /\ job'.on \in BOOLEAN /\ job'.stale \subseteq job.stale
          /\ jobs' = jobs \/ (jobs < MaxJobs /\ jobs' = jobs + 1)
          /\ faults' = faults \/ (faults < MaxFaults /\ faults' = faults + 1)
          /\ torn' \subseteq torn
      <3>1. CASE StartJob \/ EndJob
        <4>1. /\ UNCHANGED <<blobs, at, pos, stored, answer, reader, torn, faults>>
              /\ jobs' = jobs \/ (jobs < MaxJobs /\ jobs' = jobs + 1)
          BY <3>1 DEF StartJob, EndJob
        <4>2. job'.on \in BOOLEAN /\ job'.stale = {}
          <5> DEFINE listed == {[key |-> k, copy |-> row[k].copy] : k \in {k \in Keys : row[k] # NoRow}}
          <5>1. job' = [on |-> TRUE, stale |-> {}, todo |-> listed] \/ job' = NoJob
            BY <3>1 DEF StartJob, EndJob
          <5> HIDE DEF listed
          <5>2. CASE job' = [on |-> TRUE, stale |-> {}, todo |-> listed]
            BY <5>2
          <5>3. CASE job' = NoJob
            BY <5>3 DEF NoJob
          <5>4. QED
            BY <5>1, <5>2, <5>3
        <4>3. QED
          BY <4>1, <4>2
      <3>2. ASSUME NEW j \in job.todo, IndexAgain(j) \/ IndexAgainFails(j)
            PROVE  /\ UNCHANGED <<blobs, at, pos, stored, answer, reader, jobs>>
                   /\ job' = [job EXCEPT !.todo = @ \ {j}] /\ torn' \subseteq torn
                   /\ faults' = faults \/ (faults < MaxFaults /\ faults' = faults + 1)
        <4>1. CASE IndexAgain(j)
          BY <4>1 DEF IndexAgain, Done
        <4>2. CASE IndexAgainFails(j)
          BY <4>2 DEF IndexAgainFails, Done
        <4>3. QED
          BY <3>2, <4>1, <4>2
      <3>3. ASSUME NEW j \in job.todo, job' = [job EXCEPT !.todo = @ \ {j}]
            PROVE  job'.on \in BOOLEAN /\ job'.stale = job.stale
        BY <1>1, <3>3 DEF Places, Bounded
      <3>4. CASE \E j \in job.todo : IndexAgain(j) \/ IndexAgainFails(j)
        BY <3>2, <3>3, <3>4
      <3>5. QED
        BY <1>8, <3>1, <3>4
    <2>2. QED
      BY <2>1 DEF Bounded
  <1>9. CASE GetFile \/ \E k \in Keys : LookUpFile(k)
    <2>1. UNCHANGED <<blobs, at, pos, stored, answer, job, jobs, torn, faults>>
      BY <1>9 DEF GetFile, LookUpFile
    <2>2. reader' \in [at : {"idle", "get", "200", "404", "500"}, blob : Blobs \cup {NoFile}]
      <3>1. CASE GetFile
        BY <3>1 DEF GetFile, Bounded
      <3>2. ASSUME NEW k \in Keys, LookUpFile(k)
            PROVE  reader' \in [at : {"idle", "get", "200", "404", "500"}, blob : Blobs \cup {NoFile}]
        <4>1. row[k].blob \in Blobs \cup {NoFile}
          BY DEF Places, NoRow
        <4>2. QED
          BY <3>2, <4>1 DEF LookUpFile
      <3>3. QED
        BY <1>9, <3>1, <3>2
    <2>3. QED
      BY <2>1, <2>2 DEF Bounded
  <1>10. CASE UNCHANGED vars
    BY <1>10 DEF vars, Bounded
  <1>11. QED
    BY <1>2, <1>3, <1>4, <1>5, <1>6, <1>7, <1>8, <1>9, <1>10 DEF Next

\* Every variable keeps its type; a call never reports a document it has not come to,
\* and answers with one of the statuses that upload.go and ingest_document.go write.
THEOREM DocumentsTypes == Spec => []TypeOK
  <1>1. Init => Bounded
    <2>1. \A c \in Calls : pos[c] = 1 => 1 .. pos[c] = {1}
      OBVIOUS
    <2>2. QED
      BY CopiesAssumption DEF Init, Bounded, NoJob
  <1>2. Inv /\ Bounded /\ [Next]_vars => Bounded'
    BY BoundedStep
  <1>3. Inv /\ Bounded => TypeOK
    <2> SUFFICES ASSUME Inv, Bounded PROVE TypeOK
      OBVIOUS
    <2>1. row \in [Keys -> [copy : Copies \cup {NoCopy}, blob : Blobs \cup {NoFile}]]
      BY DEF Inv, Places, NoRow
    <2>2. QED
      BY <2>1 DEF Inv, Places, Bounded, TypeOK
  <1>4. QED
    BY <1>1, <1>2, <1>3, DocumentsInvariant, PTL DEF Spec
=============================================================================
