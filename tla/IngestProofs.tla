---------------------------- MODULE IngestProofs ----------------------------
(***************************************************************************)
(* What is ingested outside a sync: the rebuild of links and the push of   *)
(* issues, and what they report; and the chunks that all texts are cut     *)
(* into.                                                                   *)
(***************************************************************************)
EXTENDS IngestReports, Chunking, FiniteSetTheorems, WellFoundedInduction, TLAPS

(***************************************************************************)
(* LinkRebuild, for any ids, workers, page size and number of failures.    *)
(***************************************************************************)
WithIssue == [at : {"taken", "fetch", "write", "gone"}, id : Ids]
WorkerRecord == {Idle} \cup WithIssue
Busy == {w \in Workers : worker[w].at # "idle"}
Lower(i, j) == IF i < j THEN i ELSE j

\* Types; the first ids stay, as nothing is deleted.
RebuildTypes ==
  /\ 1 .. Initially \subseteq indexed /\ indexed \subseteq Ids
  /\ producer \in {"list", "hand", "wait", "done"}
  /\ batch \subseteq Ids /\ afterID \in Nat
  /\ worker \in [Workers -> WorkerRecord]
  /\ linked \subseteq Reachable /\ IsFiniteSet(linked)
  /\ {processed, skipped, failed} \subseteq Nat
  /\ firstErr \in BOOLEAN /\ ended \in BOOLEAN

\* What is to be handed out is after all that has been, and no issue of the start that is
\* not among it comes before it.
PageFollows ==
  /\ \A j \in batch : j > afterID
  /\ \A i \in 1 .. Initially, j \in batch : i > afterID /\ i \notin batch => j < i

\* An issue is with one worker at most, and linked by none before it.
EachOnce ==
  /\ \A i \in linked : i <= afterID
  /\ \A w \in Busy : worker[w].id <= afterID /\ worker[w].id \notin linked
  /\ \A w, v \in Busy : worker[w].id = worker[v].id => w = v
  /\ \A w \in Workers : worker[w].at = "write" => worker[w].id \in Reachable

\* What was handed out is counted or still with a worker.
AllCounted ==
  /\ processed = Cardinality(linked)
  /\ Lower(afterID, Initially) <= processed + skipped + failed + Cardinality(Busy)
  /\ failed > 0 => firstErr
  /\ \A w \in Workers : worker[w].at = "gone" => ended

\* Without an error nothing that Jira still has is left out, and the listing went to its end.
NoneLeftOut ==
  ~firstErr =>
    /\ \A i \in Reachable : i <= Initially /\ i <= afterID => i \in linked \/ \E w \in Busy : worker[w].id = i
    /\ producer \in {"wait", "done"} => Initially <= afterID

AtRest == producer = "done" => \A w \in Workers : worker[w].at \in {"idle", "gone"}

RebuildInv ==
  /\ RebuildTypes /\ PageFollows /\ EachOnce /\ AllCounted /\ NoneLeftOut /\ AtRest

-----------------------------------------------------------------------------
\* The numbers, and the workers that have an issue.
LEMMA RebuildFacts ==
  ASSUME LinkRebuildAssumption, RebuildTypes
  PROVE  /\ Ids \subseteq Nat /\ Initially \in Nat /\ afterID \in Nat
         /\ processed \in Nat /\ skipped \in Nat /\ failed \in Nat
         /\ IsFiniteSet(Busy) /\ Cardinality(Busy) \in Nat
         /\ \A w \in Busy : worker[w].id \in Ids
         /\ \A w \in Workers : w \notin Busy <=> worker[w] = Idle
  <1>1. IsFiniteSet(Busy) /\ Cardinality(Busy) \in Nat
    BY FS_Subset, FS_CardinalityType DEF Busy, LinkRebuildAssumption
  <1>2. ASSUME NEW w \in Workers
        PROVE  /\ w \in Busy => worker[w].id \in Ids
               /\ w \notin Busy <=> worker[w] = Idle
    <2>1. CASE worker[w] = Idle
      BY <2>1 DEF Busy, Idle
    <2>2. CASE worker[w] \in WithIssue
      BY <2>2 DEF Busy, Idle, WithIssue
    <2>3. QED
      BY <2>1, <2>2 DEF RebuildTypes, WorkerRecord
  <1>3. QED
    BY <1>1, <1>2 DEF LinkRebuildAssumption, RebuildTypes, Busy

\* A worker takes an issue.
LEMMA OneTakes ==
  ASSUME LinkRebuildAssumption, RebuildTypes, NEW w \in Workers, worker[w] = Idle, NEW i \in Ids,
         worker' = [worker EXCEPT ![w] = [at |-> "taken", id |-> i]]
  PROVE  /\ worker' \in [Workers -> WorkerRecord]
         /\ worker'[w] = [at |-> "taken", id |-> i]
         /\ \A v \in Workers : v # w => worker'[v] = worker[v]
         /\ w \notin Busy /\ Busy' = Busy \cup {w} /\ Cardinality(Busy') = Cardinality(Busy) + 1
  <1>1. /\ worker' \in [Workers -> WorkerRecord]
        /\ worker'[w] = [at |-> "taken", id |-> i]
        /\ \A v \in Workers : v # w => worker'[v] = worker[v]
    BY DEF RebuildTypes, WorkerRecord, WithIssue
  <1>2. w \notin Busy /\ Busy' = Busy \cup {w}
    BY <1>1 DEF Busy, Idle
  <1>3. IsFiniteSet(Busy)
    BY RebuildFacts
  <1>4. Cardinality(Busy \cup {w}) = Cardinality(Busy) + 1
    BY <1>2, <1>3, FS_AddElement
  <1>5. QED
    BY <1>1, <1>2, <1>4

\* A worker is done with its issue.
LEMMA OneEnds ==
  ASSUME LinkRebuildAssumption, RebuildTypes, NEW w \in Busy,
         worker' = [worker EXCEPT ![w] = Idle]
  PROVE  /\ worker' \in [Workers -> WorkerRecord]
         /\ worker'[w] = Idle
         /\ \A v \in Workers : v # w => worker'[v] = worker[v]
         /\ Busy' = Busy \ {w} /\ Cardinality(Busy') = Cardinality(Busy) - 1
  <1>1. w \in Workers
    BY DEF Busy
  <1>2. /\ worker' \in [Workers -> WorkerRecord]
        /\ worker'[w] = Idle
        /\ \A v \in Workers : v # w => worker'[v] = worker[v]
    BY <1>1 DEF RebuildTypes, WorkerRecord
  <1>3. Busy' = Busy \ {w}
    BY <1>1, <1>2 DEF Busy, Idle
  <1>4. IsFiniteSet(Busy)
    BY RebuildFacts
  <1>5. Cardinality(Busy \ {w}) = Cardinality(Busy) - 1
    BY <1>4, FS_RemoveElement
  <1>6. QED
    BY <1>2, <1>3, <1>5

\* A worker goes on with its issue.
LEMMA OneGoesOn ==
  ASSUME LinkRebuildAssumption, RebuildTypes, NEW w \in Busy, NEW at \in {"fetch", "write", "gone"},
         NEW to, to = [at |-> at, id |-> worker[w].id], worker' = [worker EXCEPT ![w] = to]
  PROVE  /\ worker' \in [Workers -> WorkerRecord]
         /\ worker'[w].at = at /\ worker'[w].id = worker[w].id
         /\ \A v \in Workers : v # w => worker'[v] = worker[v]
         /\ Busy' = Busy
  <1>1. w \in Workers /\ worker[w].id \in Ids
    BY RebuildFacts DEF Busy
  <1>2. to \in WithIssue
    BY <1>1 DEF WithIssue
  <1>3. /\ worker' \in [Workers -> WorkerRecord]
        /\ worker'[w] = to
        /\ \A v \in Workers : v # w => worker'[v] = worker[v]
    BY <1>1, <1>2 DEF RebuildTypes, WorkerRecord, WithIssue
  <1>4. worker'[w].at = at /\ worker'[w].id = worker[w].id
    BY <1>3
  <1>5. Busy' = Busy
    BY <1>1, <1>3, <1>4 DEF Busy
  <1>6. QED
    BY <1>3, <1>4, <1>5

\* Nothing has been handed out at the start.
LEMMA RebuildStart == LinkRebuildAssumption /\ RebuildInit => RebuildInv
  <1> SUFFICES ASSUME LinkRebuildAssumption, RebuildInit PROVE RebuildInv
    OBVIOUS
  <1>1. /\ linked = {} /\ batch = {} /\ afterID = 0 /\ producer = "list"
        /\ processed = 0 /\ skipped = 0 /\ failed = 0 /\ firstErr = FALSE /\ ended = FALSE
        /\ worker = [w \in Workers |-> Idle] /\ indexed = {i \in Ids : i <= Initially}
    BY DEF RebuildInit
  <1>2. /\ Ids \subseteq Nat \ {0} /\ Initially \in Nat /\ 1 .. Initially \subseteq Ids
    BY DEF LinkRebuildAssumption
  <1>3. Busy = {} /\ Cardinality({}) = 0 /\ IsFiniteSet({})
    BY <1>1, FS_EmptySet DEF Busy, Idle
  <1>4. RebuildTypes
    <2>1. 1 .. Initially \subseteq indexed /\ indexed \subseteq Ids
      BY <1>1, <1>2
    <2>2. worker \in [Workers -> WorkerRecord]
      BY <1>1 DEF WorkerRecord
    <2>3. linked \subseteq Reachable /\ IsFiniteSet(linked) /\ batch \subseteq Ids
      BY <1>1, <1>3
    <2>4. {processed, skipped, failed} \subseteq Nat
      BY <1>1
    <2>5. firstErr \in BOOLEAN /\ ended \in BOOLEAN
      BY <1>1
    <2>6. producer \in {"list", "hand", "wait", "done"} /\ afterID \in Nat
      BY <1>1
    <2>7. QED
      BY <2>1, <2>2, <2>3, <2>4, <2>5, <2>6 DEF RebuildTypes
  <1>5. PageFollows /\ EachOnce
    BY <1>1, <1>3 DEF PageFollows, EachOnce, Idle
  <1>6. AllCounted
    BY <1>1, <1>2, <1>3 DEF AllCounted, Lower, Idle
  <1>7. NoneLeftOut /\ AtRest
    BY <1>1, <1>2 DEF NoneLeftOut, AtRest, LinkRebuildAssumption
  <1>8. QED
    BY <1>4, <1>5, <1>6, <1>7 DEF RebuildInv

\* repo.go: a page is the lowest ids there are: none that is left out is below one of it.
LEMMA PageIsLowest ==
  ASSUME LinkRebuildAssumption, NEW ids \in SUBSET Ids, NEW i \in ids, i \notin PageOf(ids),
         NEW j \in PageOf(ids)
  PROVE  j < i
  <1> DEFINE Below(n) == {m \in ids : m < n}
  <1>1. i \in Nat /\ j \in Nat /\ j \in ids /\ PageSize \in Nat /\ ids \subseteq Nat
    BY DEF PageOf, LinkRebuildAssumption
  <1>2. Cardinality(Below(j)) < PageSize /\ ~(Cardinality(Below(i)) < PageSize)
    BY DEF PageOf
  <1>3. IsFiniteSet(Below(i)) /\ IsFiniteSet(Below(j))
    <2>1. Below(i) \subseteq 0 .. i /\ Below(j) \subseteq 0 .. j
      <3>1. ASSUME NEW m \in ids, NEW n \in Nat, m < n
            PROVE  m \in 0 .. n
        <4>1. m \in Nat
          BY <1>1
        <4>2. QED
          BY <3>1, <4>1
      <3>2. QED
        BY <1>1, <3>1
    <2>2. IsFiniteSet(0 .. i) /\ IsFiniteSet(0 .. j)
      BY <1>1, FS_Interval
    <2>3. QED
      BY <2>1, <2>2, FS_Subset
  <1>4. Cardinality(Below(i)) \in Nat /\ Cardinality(Below(j)) \in Nat
    BY <1>3, FS_CardinalityType
  <1>5. ASSUME i <= j
        PROVE  FALSE
    <2>1. Below(i) \subseteq Below(j)
      <3>1. \A m \in ids : m \in Nat /\ (m < i => m < j)
        BY <1>1, <1>5
      <3>2. QED
        BY <3>1
    <2>2. Cardinality(Below(i)) <= Cardinality(Below(j))
      BY <1>3, <2>1, FS_Subset
    <2>3. QED
      BY <1>1, <1>2, <1>4, <2>2
  <1>6. QED
    BY <1>1, <1>5

\* A page follows what was handed out; without one, everything was.
LEMMA ListingKeeps ==
  ASSUME LinkRebuildAssumption, RebuildInv, ListSourceKeysByType
  PROVE  RebuildInv'
  <1> DEFINE ids == {i \in indexed : i > afterID}
  <1>1. /\ producer = "list" /\ batch' = PageOf(ids) /\ producer' = IF ids = {} THEN "wait" ELSE "hand"
        /\ UNCHANGED <<indexed, ended, linked, afterID, worker, processed, skipped, failed, firstErr>>
    BY DEF ListSourceKeysByType, Beyond, world, counts
  <1>2. Busy' = Busy
    BY <1>1 DEF Busy
  <1>3. /\ 1 .. Initially \subseteq indexed /\ indexed \subseteq Ids /\ Ids \subseteq Nat
        /\ afterID \in Nat /\ Initially \in Nat
    BY DEF RebuildInv, RebuildTypes, LinkRebuildAssumption
  <1>4. PageOf(ids) \subseteq ids /\ ids \in SUBSET Ids
    BY <1>3 DEF PageOf
  <1>5. RebuildTypes'
    BY <1>1, <1>4 DEF RebuildInv, RebuildTypes
  <1>6. PageFollows'
    <2>1. ASSUME NEW i \in 1 .. Initially, NEW j \in batch', i > afterID, i \notin batch'
          PROVE  j < i
      BY <1>1, <1>3, <1>4, <2>1, PageIsLowest
    <2>2. QED
      BY <1>1, <1>4, <2>1 DEF PageFollows
  <1>7. EachOnce' /\ AllCounted' /\ AtRest'
    BY <1>1, <1>2 DEF RebuildInv, EachOnce, AllCounted, AtRest
  <1>8. NoneLeftOut'
    <2>1. ids = {} => Initially <= afterID
      <3> SUFFICES ASSUME ids = {}, ~(Initially <= afterID) PROVE FALSE
        OBVIOUS
      <3>1. Initially \in 1 .. Initially /\ Initially > afterID
        BY <1>3
      <3>2. QED
        BY <1>3, <3>1
    <2>2. QED
      BY <1>1, <1>2, <2>1 DEF RebuildInv, NoneLeftOut
  <1>9. QED
    BY <1>5, <1>6, <1>7, <1>8 DEF RebuildInv

\* The lowest id of the page is handed out: no issue of the start is passed over.
LEMMA HandOutKeeps ==
  ASSUME LinkRebuildAssumption, RebuildInv, NEW w \in Workers, HandOut(w)
  PROVE  RebuildInv'
  <1>1. PICK i \in batch :
          /\ \A j \in batch : i <= j
          /\ worker' = [worker EXCEPT ![w] = [at |-> "taken", id |-> i]]
          /\ afterID' = i /\ batch' = batch \ {i}
          /\ producer' = IF batch = {i} THEN "list" ELSE "hand"
    BY DEF HandOut
  <1>2. /\ producer = "hand" /\ worker[w] = Idle
        /\ UNCHANGED <<indexed, ended, linked, processed, skipped, failed, firstErr>>
    BY DEF HandOut, world, counts
  <1>3. /\ Ids \subseteq Nat /\ Initially \in Nat /\ afterID \in Nat
        /\ processed \in Nat /\ skipped \in Nat /\ failed \in Nat /\ Cardinality(Busy) \in Nat
        /\ \A v \in Busy : worker[v].id \in Ids
        /\ i \in Ids /\ i \in Nat /\ i > afterID /\ Reachable \subseteq Ids
    BY RebuildFacts DEF RebuildInv, RebuildTypes, PageFollows, LinkRebuildAssumption
  <1>4. /\ worker' \in [Workers -> WorkerRecord]
        /\ worker'[w] = [at |-> "taken", id |-> i]
        /\ \A v \in Workers : v # w => worker'[v] = worker[v]
        /\ w \notin Busy /\ Busy' = Busy \cup {w} /\ Cardinality(Busy') = Cardinality(Busy) + 1
    BY <1>1, <1>2, <1>3, OneTakes DEF RebuildInv
  <1>5. \A m \in 1 .. Initially : m > afterID => m >= i
    BY <1>1, <1>3 DEF RebuildInv, PageFollows, RebuildTypes
  <1>6. RebuildTypes'
    BY <1>1, <1>2, <1>3, <1>4 DEF RebuildInv, RebuildTypes
  <1>7. PageFollows'
    BY <1>1, <1>3 DEF RebuildInv, PageFollows, RebuildTypes
  <1>8. EachOnce'
    <2>1. \A m \in linked : m < i
      BY <1>3 DEF RebuildInv, EachOnce, RebuildTypes
    <2>2. \A v \in Busy : worker'[v] = worker[v] /\ worker[v].id < i /\ worker[v].id <= i
      <3>1. \A v \in Busy : v \in Workers /\ worker[v].id \in Nat /\ worker[v].id <= afterID
        BY <1>3 DEF RebuildInv, EachOnce, Busy
      <3>2. QED
        BY <1>3, <1>4, <3>1
    <2>3. worker'[w].id = i /\ worker'[w].at = "taken"
      BY <1>4
    <2>4. \A v \in Workers : worker'[v].at = "write" => worker'[v].id \in Reachable
      BY <1>4, <2>3 DEF RebuildInv, EachOnce
    <2>5. \A v \in Busy' : worker'[v].id <= i /\ worker'[v].id \notin linked
      <3>1. i \notin linked
        BY <1>3, <2>1
      <3>2. \A v \in Busy : worker'[v].id <= i /\ worker'[v].id \notin linked
        <4>1. \A v \in Busy : worker[v].id \notin linked
          BY DEF RebuildInv, EachOnce
        <4>2. QED
          BY <2>2, <4>1
      <3>3. QED
        BY <1>3, <1>4, <2>3, <3>1, <3>2
    <2>6. \A v, u \in Busy' : worker'[v].id = worker'[u].id => v = u
      BY <1>3, <1>4, <2>2, <2>3 DEF RebuildInv, EachOnce
    <2>7. QED
      <3>1. \A m \in linked : m <= i
        BY <1>3, <2>1 DEF RebuildInv, RebuildTypes
      <3>2. QED
        BY <1>1, <1>2, <2>4, <2>5, <2>6, <3>1 DEF EachOnce
  <1>9. AllCounted'
    <2>1. Lower(i, Initially) <= Lower(afterID, Initially) + 1
      <3>1. CASE afterID >= Initially
        BY <1>3, <3>1 DEF Lower
      <3>2. CASE afterID < Initially
        <4>1. afterID + 1 \in 1 .. Initially /\ afterID + 1 > afterID
          BY <1>3, <3>2
        <4>2. i <= afterID + 1
          BY <1>5, <4>1
        <4>3. QED
          BY <1>3, <3>2, <4>2 DEF Lower
      <3>3. QED
        BY <1>3, <3>1, <3>2
    <2>2. Lower(afterID, Initially) <= processed + skipped + failed + Cardinality(Busy)
      BY DEF RebuildInv, AllCounted
    <2>3. Lower(i, Initially) <= processed + skipped + failed + Cardinality(Busy')
      BY <1>3, <1>4, <2>1, <2>2 DEF Lower
    <2>4. \A v \in Workers : worker'[v].at = "gone" => ended
      BY <1>4 DEF RebuildInv, AllCounted
    <2>5. QED
      BY <1>1, <1>2, <2>3, <2>4 DEF RebuildInv, AllCounted
  <1>10. NoneLeftOut'
    <2>1. \A v \in Busy : worker'[v].id = worker[v].id
      BY <1>4 DEF Busy
    <2>2. ASSUME NEW m \in Reachable, m <= Initially, m <= i, ~firstErr
          PROVE  m \in linked \/ \E v \in Busy' : worker'[v].id = m
      <3>1. m \in Nat \ {0}
        BY <1>3 DEF LinkRebuildAssumption
      <3>2. CASE m <= afterID
        BY <1>4, <2>1, <2>2, <3>2 DEF RebuildInv, NoneLeftOut
      <3>3. CASE ~(m <= afterID)
        <4>1. m \in 1 .. Initially /\ m > afterID
          BY <1>3, <2>2, <3>1, <3>3
        <4>2. m = i
          BY <1>3, <1>5, <2>2, <3>1, <4>1
        <4>3. QED
          BY <1>4, <4>2
      <3>4. QED
        BY <3>2, <3>3
    <2>3. QED
      BY <1>1, <1>2, <2>2 DEF NoneLeftOut
  <1>11. AtRest'
    BY <1>1 DEF AtRest
  <1>12. QED
    BY <1>6, <1>7, <1>8, <1>9, <1>10, <1>11 DEF RebuildInv

\* A worker goes on, to fetch, to write what Jira has, or away.
LEMMA GoingOnKeeps ==
  ASSUME LinkRebuildAssumption, RebuildInv, NEW w \in Busy, NEW at \in {"fetch", "write", "gone"},
         NEW to, to = [at |-> at, id |-> worker[w].id], worker' = [worker EXCEPT ![w] = to],
         at = "write" => worker[w].id \in Reachable, at = "gone" => ended,
         producer = "done" => at = "gone",
         UNCHANGED <<indexed, ended, linked, producer, batch, afterID, processed, skipped, failed, firstErr>>
  PROVE  RebuildInv'
  <1>1. /\ worker' \in [Workers -> WorkerRecord]
        /\ worker'[w].at = at /\ worker'[w].id = worker[w].id
        /\ \A v \in Workers : v # w => worker'[v] = worker[v]
        /\ Busy' = Busy
    BY OneGoesOn DEF RebuildInv
  <1>2. \A v \in Busy : worker'[v].id = worker[v].id
    BY <1>1 DEF Busy
  <1>3. RebuildTypes' /\ PageFollows'
    BY <1>1 DEF RebuildInv, RebuildTypes, PageFollows
  <1>4. \A v \in Workers : /\ worker'[v].at = "write" => worker'[v].id \in Reachable
                           /\ worker'[v].at = "gone" => ended
    BY <1>1 DEF RebuildInv, EachOnce, AllCounted
  <1>5. EachOnce'
    BY <1>1, <1>2, <1>4 DEF RebuildInv, EachOnce
  <1>6. AllCounted'
    BY <1>1, <1>4 DEF RebuildInv, AllCounted
  <1>7. NoneLeftOut'
    BY <1>1, <1>2 DEF RebuildInv, NoneLeftOut
  <1>8. AtRest'
    BY <1>1 DEF RebuildInv, AtRest
  <1>9. QED
    BY <1>3, <1>5, <1>6, <1>7, <1>8 DEF RebuildInv

\* A worker ends its issue: it is linked, not in Jira any more, or failed.
LEMMA EndingKeeps ==
  ASSUME LinkRebuildAssumption, RebuildInv, NEW w \in Busy, worker' = [worker EXCEPT ![w] = Idle],
         \/ /\ linked' = linked \cup {worker[w].id} /\ worker[w].id \in Reachable
            /\ processed' = processed + 1 /\ UNCHANGED <<skipped, failed, firstErr>>
         \/ /\ worker[w].id \notin Reachable
            /\ skipped' = skipped + 1 /\ UNCHANGED <<linked, processed, failed, firstErr>>
         \/ /\ firstErr' = TRUE /\ failed' = failed + 1 /\ UNCHANGED <<linked, processed, skipped>>,
         UNCHANGED <<indexed, ended, producer, batch, afterID>>
  PROVE  RebuildInv'
  <1> DEFINE i == worker[w].id
  <1>1. /\ worker' \in [Workers -> WorkerRecord]
        /\ worker'[w] = Idle
        /\ \A v \in Workers : v # w => worker'[v] = worker[v]
        /\ Busy' = Busy \ {w} /\ Cardinality(Busy') = Cardinality(Busy) - 1
    BY OneEnds DEF RebuildInv
  <1>2. /\ Ids \subseteq Nat /\ Initially \in Nat /\ afterID \in Nat
        /\ processed \in Nat /\ skipped \in Nat /\ failed \in Nat /\ Cardinality(Busy) \in Nat
        /\ i \in Ids /\ i <= afterID /\ i \notin linked
        /\ IsFiniteSet(linked) /\ linked \subseteq Reachable /\ processed = Cardinality(linked)
    BY RebuildFacts DEF RebuildInv, EachOnce, RebuildTypes, AllCounted
  <1>3. \A v \in Busy' : v \in Busy /\ v # w /\ worker'[v] = worker[v]
    BY <1>1 DEF Busy
  <1>4. worker'[w].at = "idle"
    BY <1>1 DEF Idle
  <1>5. /\ linked' \in {linked, linked \cup {i}} /\ IsFiniteSet(linked') /\ linked' \subseteq Reachable
        /\ processed' = Cardinality(linked')
        /\ processed' + skipped' + failed' = processed + skipped + failed + 1
        /\ processed' \in Nat /\ skipped' \in Nat /\ failed' \in Nat /\ firstErr' \in BOOLEAN
        /\ failed' > 0 => firstErr'
        /\ ~firstErr' => ~firstErr /\ (i \in linked' \/ i \notin Reachable)
    <2>1. Cardinality(linked \cup {i}) = Cardinality(linked) + 1 /\ IsFiniteSet(linked \cup {i})
      BY <1>2, FS_AddElement
    <2>2. firstErr \in BOOLEAN /\ (failed > 0 => firstErr)
      BY DEF RebuildInv, RebuildTypes, AllCounted
    <2>3. CASE /\ linked' = linked \cup {i} /\ processed' = processed + 1
               /\ UNCHANGED <<skipped, failed, firstErr>>  /\ i \in Reachable
      BY <1>2, <2>1, <2>2, <2>3
    <2>4. CASE skipped' = skipped + 1 /\ UNCHANGED <<linked, processed, failed, firstErr>> /\ i \notin Reachable
      BY <1>2, <2>2, <2>4
    <2>5. CASE firstErr' = TRUE /\ failed' = failed + 1 /\ UNCHANGED <<linked, processed, skipped>>
      BY <1>2, <2>2, <2>5
    <2>6. QED
      BY <2>3, <2>4, <2>5
  <1>6. RebuildTypes' /\ PageFollows'
    BY <1>1, <1>5 DEF RebuildInv, RebuildTypes, PageFollows
  <1>7. EachOnce'
    <2>1. \A m \in linked' : m <= afterID
      BY <1>2, <1>5 DEF RebuildInv, EachOnce
    <2>2. \A v \in Busy' : worker'[v].id <= afterID /\ worker'[v].id \notin linked'
      BY <1>3, <1>5 DEF RebuildInv, EachOnce
    <2>3. \A v, u \in Busy' : worker'[v].id = worker'[u].id => v = u
      BY <1>3 DEF RebuildInv, EachOnce
    <2>4. \A v \in Workers : worker'[v].at = "write" => worker'[v].id \in Reachable
      BY <1>1, <1>4 DEF RebuildInv, EachOnce
    <2>5. QED
      BY <2>1, <2>2, <2>3, <2>4 DEF EachOnce
  <1>8. AllCounted'
    <2>1. Lower(afterID, Initially) \in Nat
      BY <1>2 DEF Lower
    <2>2. Lower(afterID, Initially) <= processed' + skipped' + failed' + Cardinality(Busy')
      BY <1>1, <1>2, <1>5, <2>1 DEF RebuildInv, AllCounted
    <2>3. \A v \in Workers : worker'[v].at = "gone" => ended
      BY <1>1, <1>4 DEF RebuildInv, AllCounted
    <2>4. QED
      BY <1>5, <2>2, <2>3 DEF AllCounted, Lower
  <1>9. NoneLeftOut'
    <2>1. ASSUME NEW m \in Reachable, m <= Initially, m <= afterID, ~firstErr'
          PROVE  m \in linked' \/ \E v \in Busy' : worker'[v].id = m
      <3>1. m \in linked \/ \E v \in Busy : worker[v].id = m
        BY <1>5, <2>1 DEF RebuildInv, NoneLeftOut
      <3>2. CASE m \in linked
        BY <1>5, <3>2
      <3>3. ASSUME NEW v \in Busy, worker[v].id = m
            PROVE  m \in linked' \/ \E u \in Busy' : worker'[u].id = m
        BY <1>1, <1>3, <1>5, <2>1, <3>3
      <3>4. QED
        BY <3>1, <3>2, <3>3
    <2>2. QED
      BY <1>5, <2>1 DEF RebuildInv, NoneLeftOut
  <1>10. AtRest'
    BY <1>1, <1>4 DEF RebuildInv, AtRest
  <1>11. QED
    BY <1>6, <1>7, <1>8, <1>9, <1>10 DEF RebuildInv

\* The steps of a worker.
LEMMA WorkerKeeps ==
  ASSUME LinkRebuildAssumption, RebuildInv, NEW w \in Workers,
         LookAtContext(w) \/ GetIssue(w) \/ ReplaceSourceLinks(w) \/ IssueFails(w)
  PROVE  RebuildInv'
  <1>1. w \in Busy /\ worker[w].at \in {"taken", "fetch", "write"}
    BY DEF LookAtContext, GetIssue, ReplaceSourceLinks, IssueFails, Busy
  <1>2. producer # "done"
    BY <1>1 DEF RebuildInv, AtRest
  <1>3. worker[w] \in WithIssue
    BY <1>1, RebuildFacts DEF RebuildInv, RebuildTypes, WorkerRecord
  <1>4. CASE LookAtContext(w)
    <2> DEFINE at == IF ended THEN "gone" ELSE "fetch"
               to == [at |-> at, id |-> worker[w].id]
    <2>1. worker' = [worker EXCEPT ![w] = [worker[w] EXCEPT !.at = at]]
      BY <1>4 DEF LookAtContext
    <2>2. [worker[w] EXCEPT !.at = at] = to
      BY <1>3 DEF WithIssue
    <2>3. UNCHANGED <<indexed, ended, linked, producer, batch, afterID, processed, skipped, failed, firstErr>>
      BY <1>4 DEF LookAtContext, world, counts
    <2>4. worker' = [worker EXCEPT ![w] = to] /\ at \in {"fetch", "gone"} /\ (at = "gone" => ended)
      BY <2>1, <2>2
    <2>5. QED
      BY <1>1, <1>2, <2>3, <2>4, GoingOnKeeps
  <1>5. CASE GetIssue(w)
    <2>1. UNCHANGED <<indexed, ended, linked, producer, batch, afterID, processed, failed, firstErr>>
      BY <1>5 DEF GetIssue, world
    <2>2. CASE worker[w].id \in Reachable
      <3>1. worker' = [worker EXCEPT ![w] = [at |-> "write", id |-> worker[w].id]] /\ UNCHANGED skipped
        BY <1>5, <2>2 DEF GetIssue
      <3>2. QED
        BY <1>1, <1>2, <2>1, <2>2, <3>1, GoingOnKeeps
    <2>3. CASE worker[w].id \notin Reachable
      <3>1. worker' = [worker EXCEPT ![w] = Idle] /\ skipped' = skipped + 1
        BY <1>5, <2>3 DEF GetIssue
      <3>2. QED
        BY <1>1, <2>1, <2>3, <3>1, EndingKeeps
    <2>4. QED
      BY <2>2, <2>3
  <1>6. CASE ReplaceSourceLinks(w)
    <2>1. worker[w].id \in Reachable
      BY <1>6 DEF ReplaceSourceLinks, RebuildInv, EachOnce
    <2>2. QED
      BY <1>1, <1>6, <2>1, EndingKeeps DEF ReplaceSourceLinks, world
  <1>7. CASE IssueFails(w)
    BY <1>1, <1>7, EndingKeeps DEF IssueFails, world
  <1>8. QED
    BY <1>4, <1>5, <1>6, <1>7

\* The listing fails or the context ends, the result is returned, a sync stores a new issue:
\* the workers keep what they have.
LEMMA AroundKeeps ==
  ASSUME LinkRebuildAssumption, RebuildInv,
         UNCHANGED <<linked, batch, afterID, worker, processed, skipped, failed>>,
         indexed \subseteq indexed', indexed' \subseteq Ids, ended' \in BOOLEAN, ended => ended',
         firstErr' \in BOOLEAN, firstErr => firstErr',
         \/ UNCHANGED producer
         \/ producer' = "wait" /\ firstErr'
         \/ producer = "wait" /\ producer' = "done" /\ \A w \in Workers : worker[w].at \in {"idle", "gone"}
  PROVE  RebuildInv'
  <1>1. Busy' = Busy
    BY DEF Busy
  <1>2. RebuildTypes'
    BY DEF RebuildInv, RebuildTypes
  <1>3. PageFollows' /\ EachOnce'
    BY <1>1 DEF RebuildInv, PageFollows, EachOnce
  <1>4. AllCounted' /\ NoneLeftOut'
    BY <1>1 DEF RebuildInv, AllCounted, NoneLeftOut
  <1>5. AtRest'
    BY DEF RebuildInv, AtRest
  <1>6. QED
    BY <1>2, <1>3, <1>4, <1>5 DEF RebuildInv

-----------------------------------------------------------------------------
\* The inductive invariant of the rebuild of links.
THEOREM RebuildInvariant ==
  ASSUME LinkRebuildAssumption
  PROVE  RebuildSpec => []RebuildInv
  <1>1. RebuildInit => RebuildInv
    BY RebuildStart
  <1>2. ASSUME RebuildInv, [RebuildNext]_rebuildVars
        PROVE  RebuildInv'
    <2>1. indexed \subseteq Ids /\ firstErr \in BOOLEAN /\ ended \in BOOLEAN
      BY <1>2 DEF RebuildInv, RebuildTypes
    <2>2. CASE ListSourceKeysByType
      BY <1>2, <2>2, ListingKeeps
    <2>3. CASE GiveUp
      BY <1>2, <2>1, <2>3, AroundKeeps DEF GiveUp, world, counts
    <2>4. CASE Return
      BY <1>2, <2>1, <2>4, AroundKeeps DEF Return, world, counts
    <2>5. CASE CancelRebuild
      BY <1>2, <2>1, <2>5, AroundKeeps DEF CancelRebuild, counts
    <2>6. ASSUME NEW w \in Workers,
                 HandOut(w) \/ LookAtContext(w) \/ GetIssue(w) \/ ReplaceSourceLinks(w) \/ IssueFails(w)
          PROVE  RebuildInv'
      BY <1>2, <2>6, HandOutKeeps, WorkerKeeps
    <2>7. ASSUME NEW i \in Ids, NewSource(i)
          PROVE  RebuildInv'
      BY <1>2, <2>1, <2>7, AroundKeeps DEF NewSource, counts
    <2>8. CASE UNCHANGED rebuildVars
      BY <1>2, <2>1, <2>8, AroundKeeps DEF rebuildVars
    <2>9. QED
      BY <1>2, <2>2, <2>3, <2>4, <2>5, <2>6, <2>7, <2>8 DEF RebuildNext
  <1>3. QED
    BY <1>1, <1>2, PTL DEF RebuildSpec

\* jira.go: for any issues, workers, pages and failures, a rebuild that reports no error has
\* the links of all that was there, but for what a late cancellation took with a worker.
LEMMA RebuildIsTrue ==
  ASSUME LinkRebuildAssumption, RebuildInv
  PROVE  RebuildIsComplete
  <1> SUFFICES ASSUME producer = "done" PROVE RebuildIsComplete
    BY DEF RebuildIsComplete
  <1> DEFINE gone == {w \in Workers : worker[w].at = "gone"}
  <1>1. gone = Busy
    BY DEF RebuildInv, AtRest, Busy
  <1>2. /\ Initially \in Nat /\ afterID \in Nat /\ processed \in Nat /\ skipped \in Nat /\ failed \in Nat
        /\ Cardinality(Busy) \in Nat
    BY RebuildFacts DEF RebuildInv
  <1>3. /\ processed = Cardinality(linked) /\ linked \subseteq Reachable
        /\ failed > 0 => firstErr
        /\ gone # {} => ended
    BY DEF RebuildInv, RebuildTypes, AllCounted
  <1>4. ASSUME ~firstErr
        PROVE  /\ {i \in Reachable : i <= Initially} \subseteq linked \cup {worker[w].id : w \in gone}
               /\ processed + skipped + Cardinality(gone) >= Initially
    <2>1. Initially <= afterID
      BY <1>4 DEF RebuildInv, NoneLeftOut
    <2>2. \A i \in Reachable : i <= Initially => i <= afterID
      <3>1. Reachable \subseteq Nat
        BY DEF LinkRebuildAssumption
      <3>2. QED
        BY <1>2, <2>1, <3>1
    <2>3. {i \in Reachable : i <= Initially} \subseteq linked \cup {worker[w].id : w \in gone}
      BY <1>1, <1>4, <2>2 DEF RebuildInv, NoneLeftOut
    <2>4. Lower(afterID, Initially) = Initially /\ failed = 0
      BY <1>2, <1>3, <1>4, <2>1 DEF Lower
    <2>5. processed + skipped + Cardinality(gone) >= Initially
      <3>1. Lower(afterID, Initially) <= processed + skipped + failed + Cardinality(Busy)
        BY DEF RebuildInv, AllCounted
      <3>2. QED
        <4> HIDE DEF gone
        <4>1. QED
          BY <1>1, <1>2, <2>4, <3>1
    <2>6. QED
      BY <2>3, <2>5
  <1>5. QED
    BY <1>3, <1>4 DEF RebuildIsComplete

-----------------------------------------------------------------------------
(***************************************************************************)
(* JiraPush, for any requests, batches and number of failures.             *)
(***************************************************************************)
Copies == {NoCopy} \cup [by : Pushed, n : Nat]
Written == {"row", "chunks", "links"}
InProgress == {"row", "chunks", "links"}
PushRecord == [at : {"new", "answered"} \cup InProgress, n : Nat, errors : SUBSET Nat]

\* Types.
PushTypes ==
  /\ stored \in [Issues -> [Written -> Copies]]
  /\ push \in [Pushed -> PushRecord]
  /\ pushStatus \in [Pushed -> {0, 200, 400, 502}]

\* 502 is for a batch of which every issue failed.
AllFailed(r) == push[r].errors = DOMAIN Batches[r]

\* Where a request is: at its first issue, in its batch, or answered after the last.
PushPlace(r) ==
  /\ push[r].at = "new" => push[r].n = 1 /\ push[r].errors = {} /\ pushStatus[r] = 0
  /\ push[r].at \in InProgress =>
       /\ push[r].n \in DOMAIN Batches[r] /\ push[r].errors \subseteq 1 .. push[r].n - 1
       /\ pushStatus[r] = 0
  /\ pushStatus[r] \in {200, 502} =>
       /\ push[r].at = "answered" /\ push[r].errors \subseteq DOMAIN Batches[r]
       /\ (pushStatus[r] = 502 <=> AllFailed(r))

\* The issues of a batch that it is done with, well or not.
Done(r) == {n \in DOMAIN Batches[r] : n < push[r].n \/ pushStatus[r] \in {200, 502}}
DoneWell(r) == Done(r) \ push[r].errors

\* What is stored is a copy of its issue; links come last, and of no copy that failed.
CopiesOfIssues ==
  \A k \in Issues, p \in Written : stored[k][p] # NoCopy =>
    LET c == stored[k][p] IN
    /\ c.n \in DOMAIN Batches[c.by] /\ Batches[c.by][c.n].key = k
    /\ p = "links" => c.n \in DoneWell(c.by)

\* A part of an issue is there, and not from an earlier copy of r than its n-th.
IsSince(r, n, p) ==
  LET c == stored[Batches[r][n].key][p] IN c # NoCopy /\ (c.by = r => c.n >= n)

\* A copy that was done well is in the index, as far as no later one is.
Kept(r) ==
  /\ \A n \in DoneWell(r), p \in Written : IsSince(r, n, p)
  /\ push[r].at \in {"chunks", "links"} => IsSince(r, push[r].n, "row")
  /\ push[r].at = "links" => IsSince(r, push[r].n, "chunks")

PushInv == PushTypes /\ CopiesOfIssues /\ \A r \in Pushed : PushPlace(r) /\ Kept(r)

-----------------------------------------------------------------------------
\* The issue a request is at is one of its batch.
LEMMA ItemIsIssue ==
  ASSUME JiraPushAssumption, PushTypes, NEW r \in Pushed, NEW n \in DOMAIN Batches[r]
  PROVE  /\ n \in Nat /\ n > 0 /\ Len(Batches[r]) \in Nat /\ DOMAIN Batches[r] = 1 .. Len(Batches[r])
         /\ Batches[r][n].key \in Issues
  <1> DEFINE Fed == [key : Issues, valid : BOOLEAN]
  <1>1. Batches[r] \in Seq(Fed)
    BY DEF JiraPushAssumption
  <1>2. /\ Len(Batches[r]) \in Nat /\ DOMAIN Batches[r] = 1 .. Len(Batches[r])
        /\ Batches[r][n] \in Fed
    <2> HIDE DEF Fed
    <2>1. QED
      BY <1>1
  <1>3. QED
    BY <1>2

\* One part of one issue becomes the copy at which the request is.
LEMMA WriteChanges ==
  ASSUME JiraPushAssumption, PushTypes, NEW r \in Pushed, push[r].n \in DOMAIN Batches[r],
         NEW p \in Written, Write(r, p)
  PROVE  /\ stored' \in [Issues -> [Written -> Copies]]
         /\ Copy(r) # NoCopy /\ Copy(r).by = r /\ Copy(r).n = push[r].n
         /\ \A k \in Issues, q \in Written :
              stored'[k][q] = IF k = Item(r).key /\ q = p THEN Copy(r) ELSE stored[k][q]
  <1>1. push[r].n \in Nat /\ push[r].n > 0 /\ Item(r).key \in Issues
    BY ItemIsIssue DEF Item
  <1>2. Copy(r) \in Copies /\ Copy(r).by = r /\ Copy(r).n = push[r].n
    BY <1>1 DEF Copy, Copies
  <1>3. Copy(r) # NoCopy
    BY <1>1, <1>2 DEF NoCopy
  <1>4. stored' = [stored EXCEPT ![Item(r).key] = [@ EXCEPT ![p] = Copy(r)]]
    BY DEF Write
  <1>5. QED
    BY <1>1, <1>2, <1>3, <1>4 DEF PushTypes

\* The request goes on to its next issue, or answers after the last.
LEMMA NextIssueChanges ==
  ASSUME JiraPushAssumption, PushTypes, NEW r \in Pushed, PushPlace(r), push[r].at \in InProgress,
         NEW errors \in {push[r].errors, FailedToo(r)}, NextIssue(r, errors)
  PROVE  /\ push' \in [Pushed -> PushRecord]
         /\ pushStatus' \in [Pushed -> {0, 200, 400, 502}]
         /\ PushPlace(r)' /\ push'[r].at \in {"row", "answered"} /\ push'[r].errors = errors
         /\ Done(r)' = Done(r) \cup {push[r].n} /\ push[r].n \notin Done(r)
         /\ \A q \in Pushed : q # r => push'[q] = push[q] /\ pushStatus'[q] = pushStatus[q]
  <1> DEFINE n == push[r].n
             b == Len(Batches[r])
             Answered == [at |-> "answered", n |-> n, errors |-> errors]
             AtNext == [at |-> "row", n |-> n + 1, errors |-> errors]
  <1>1. /\ n \in Nat /\ n > 0 /\ b \in Nat /\ DOMAIN Batches[r] = 1 .. b /\ n \in 1 .. b
        /\ push[r].errors \subseteq 1 .. n - 1 /\ pushStatus[r] = 0
    BY ItemIsIssue DEF PushPlace
  <1>2. errors \subseteq 1 .. n /\ errors \in SUBSET Nat
    BY <1>1 DEF FailedToo
  <1>3. Done(r) = 1 .. n - 1
    BY <1>1 DEF Done
  <1>4. CASE n = b
    <2>1. /\ push' = [push EXCEPT ![r] = Answered]
          /\ pushStatus' = [pushStatus EXCEPT ![r] = IF errors = DOMAIN Batches[r] THEN 502 ELSE 200]
      BY <1>4 DEF NextIssue, AtEnd
    <2>2. Answered \in PushRecord
      BY <1>1, <1>2 DEF PushRecord
    <2>3. /\ push' \in [Pushed -> PushRecord]
          /\ pushStatus' \in [Pushed -> {0, 200, 400, 502}]
          /\ push'[r] = Answered
          /\ pushStatus'[r] = IF errors = DOMAIN Batches[r] THEN 502 ELSE 200
          /\ \A q \in Pushed : q # r => push'[q] = push[q] /\ pushStatus'[q] = pushStatus[q]
      BY <2>1, <2>2 DEF PushTypes
    <2>4. push'[r].at = "answered" /\ push'[r].n = n /\ push'[r].errors = errors
      BY <2>3
    <2>5. PushPlace(r)'
      BY <1>1, <1>2, <1>4, <2>3, <2>4 DEF PushPlace, AllFailed, InProgress
    <2>6. Done(r)' = 1 .. b
      BY <1>1, <2>3 DEF Done
    <2>7. QED
      BY <1>1, <1>3, <1>4, <2>3, <2>4, <2>5, <2>6
  <1>5. CASE n # b
    <2>1. push' = [push EXCEPT ![r] = AtNext] /\ UNCHANGED pushStatus
      BY <1>5 DEF NextIssue, AtEnd
    <2>2. AtNext \in PushRecord
      BY <1>1, <1>2 DEF InProgress, PushRecord
    <2>3. /\ push' \in [Pushed -> PushRecord]
          /\ push'[r] = AtNext
          /\ \A q \in Pushed : q # r => push'[q] = push[q]
      BY <2>1, <2>2 DEF PushTypes
    <2>4. push'[r].at = "row" /\ push'[r].n = n + 1 /\ push'[r].errors = errors
      BY <2>3
    <2>5. PushPlace(r)'
      <3>1. n + 1 \in DOMAIN Batches[r] /\ (n + 1) - 1 = n
        BY <1>1, <1>5
      <3>2. QED
        <4>1. push'[r].errors \subseteq 1 .. push'[r].n - 1 /\ push'[r].n \in DOMAIN Batches[r]
          BY <1>2, <2>4, <3>1
        <4>2. pushStatus'[r] = 0
          BY <1>1, <2>1
        <4>3. QED
          BY <2>4, <4>1, <4>2 DEF PushPlace
    <2>6. Done(r)' = 1 .. n
      BY <1>1, <1>5, <2>1, <2>4 DEF Done
    <2>7. QED
      BY <1>1, <1>3, <2>1, <2>3, <2>4, <2>5, <2>6 DEF PushTypes
  <1>6. QED
    BY <1>4, <1>5

\* What another request does leaves a copy of this one as it is, or puts its own there.
LEMMA OthersKeep ==
  ASSUME JiraPushAssumption, PushInv, NEW r \in Pushed, NEW q \in Pushed, q # r,
         push'[q] = push[q], pushStatus'[q] = pushStatus[q],
         \A k \in Issues, p \in Written :
           stored'[k][p] = stored[k][p] \/ (stored'[k][p] # NoCopy /\ stored'[k][p].by = r)
  PROVE  (PushPlace(q) /\ Kept(q))' /\ DoneWell(q)' = DoneWell(q)
  <1>1. PushPlace(q) /\ Kept(q)
    BY DEF PushInv
  <1>2. PushPlace(q)'
    BY <1>1 DEF PushPlace, AllFailed
  <1>3. DoneWell(q)' = DoneWell(q)
    BY DEF DoneWell, Done
  <1>4. ASSUME NEW n \in DOMAIN Batches[q], NEW p \in Written, IsSince(q, n, p)
        PROVE  IsSince(q, n, p)'
    <2>1. Batches[q][n].key \in Issues
      BY ItemIsIssue DEF PushInv
    <2>2. QED
      BY <1>4, <2>1 DEF IsSince
  <1>5. DoneWell(q) \subseteq DOMAIN Batches[q]
    BY DEF DoneWell, Done
  <1>6. push[q].at \in InProgress => push[q].n \in DOMAIN Batches[q]
    BY <1>1 DEF PushPlace
  <1>7. Kept(q)'
    BY <1>1, <1>3, <1>4, <1>5, <1>6 DEF Kept, Written, InProgress
  <1>8. QED
    BY <1>2, <1>3, <1>7

\* Nothing is stored at the start.
LEMMA PushStart == JiraPushAssumption /\ PushInit => PushInv
  <1> SUFFICES ASSUME JiraPushAssumption, PushInit PROVE PushInv
    OBVIOUS
  <1>1. PushTypes
    <2>1. [row |-> NoCopy, chunks |-> NoCopy, links |-> NoCopy] \in [Written -> Copies]
      BY DEF Written, Copies
    <2>2. QED
      BY <2>1 DEF PushInit, PushTypes, PushRecord, InProgress
  <1>2. \A k \in Issues, p \in Written : stored[k][p] = NoCopy
    BY DEF PushInit, Written
  <1>3. CopiesOfIssues
    BY <1>2 DEF CopiesOfIssues
  <1>4. ASSUME NEW r \in Pushed
        PROVE  PushPlace(r) /\ Kept(r)
    <2>1. push[r] = [at |-> "new", n |-> 1, errors |-> {}] /\ pushStatus[r] = 0
      BY DEF PushInit
    <2>2. Batches[r] \in Seq([key : Issues, valid : BOOLEAN])
      BY DEF JiraPushAssumption
    <2>3. DoneWell(r) = {}
      BY <2>1, <2>2 DEF DoneWell, Done
    <2>4. QED
      BY <2>1, <2>3 DEF PushPlace, AllFailed, Kept, InProgress
  <1>5. QED
    BY <1>1, <1>3, <1>4 DEF PushInv

\* A batch is taken up, or refused.
LEMMA HandleKeeps ==
  ASSUME JiraPushAssumption, PushInv, NEW r \in Pushed, HandleIngestJira(r)
  PROVE  PushInv'
  <1> DEFINE Ok == Len(Batches[r]) \in 1 .. MaxBatch
  <1>1. /\ push[r].at = "new" /\ UNCHANGED stored
        /\ push' = [push EXCEPT ![r].at = IF Ok THEN "row" ELSE "answered"]
        /\ pushStatus' = IF Ok THEN pushStatus ELSE [pushStatus EXCEPT ![r] = 400]
    BY DEF HandleIngestJira
  <1>2. PushTypes /\ PushPlace(r)
    BY DEF PushInv
  <1>3. PushTypes'
    BY <1>1, <1>2 DEF PushTypes, InProgress, PushRecord
  <1>4. /\ push[r].n = 1 /\ push[r].errors = {} /\ pushStatus[r] = 0
        /\ Batches[r] \in Seq([key : Issues, valid : BOOLEAN]) /\ MaxBatch \in Nat
    BY <1>1, <1>2 DEF PushPlace, JiraPushAssumption
  <1>5. /\ push'[r].at = IF Ok THEN "row" ELSE "answered"
        /\ push'[r].n = 1 /\ push'[r].errors = {}
        /\ pushStatus'[r] = IF Ok THEN 0 ELSE 400
        /\ \A q \in Pushed : q # r => push'[q] = push[q] /\ pushStatus'[q] = pushStatus[q]
    BY <1>1, <1>2, <1>4 DEF PushTypes
  <1>6. DoneWell(r) = {} /\ DoneWell(r)' = {}
    BY <1>4, <1>5 DEF DoneWell, Done
  <1>7. PushPlace(r)' /\ Kept(r)'
    BY <1>4, <1>5, <1>6 DEF PushPlace, AllFailed, Kept, InProgress
  <1>8. ASSUME NEW q \in Pushed
        PROVE  (PushPlace(q) /\ Kept(q))' /\ DoneWell(q)' = DoneWell(q)
    BY <1>1, <1>5, <1>6, <1>7, OthersKeep
  <1>9. CopiesOfIssues'
    BY <1>1, <1>2, <1>8 DEF PushInv, CopiesOfIssues, PushTypes, Copies
  <1>10. QED
    BY <1>3, <1>8, <1>9 DEF PushInv

\* An issue that fails is done, and none of its copies has been linked.
LEMMA FailingKeeps ==
  ASSUME JiraPushAssumption, PushInv, NEW r \in Pushed, push[r].at \in InProgress,
         NextIssue(r, FailedToo(r)), UNCHANGED stored
  PROVE  PushInv'
  <1>1. PushTypes /\ PushPlace(r) /\ Kept(r)
    BY DEF PushInv
  <1>2. /\ push' \in [Pushed -> PushRecord]
        /\ pushStatus' \in [Pushed -> {0, 200, 400, 502}]
        /\ PushPlace(r)' /\ push'[r].at \in {"row", "answered"} /\ push'[r].errors = FailedToo(r)
        /\ Done(r)' = Done(r) \cup {push[r].n} /\ push[r].n \notin Done(r)
        /\ \A q \in Pushed : q # r => push'[q] = push[q] /\ pushStatus'[q] = pushStatus[q]
    BY <1>1, NextIssueChanges
  <1>3. PushTypes'
    BY <1>1, <1>2 DEF PushTypes
  <1>4. DoneWell(r)' = DoneWell(r)
    BY <1>2 DEF DoneWell, FailedToo
  <1>5. Kept(r)'
    <2>1. \A n, p : IsSince(r, n, p)' = IsSince(r, n, p)
      BY DEF IsSince
    <2>2. QED
      BY <1>1, <1>2, <1>4, <2>1 DEF Kept
  <1>6. ASSUME NEW q \in Pushed
        PROVE  (PushPlace(q) /\ Kept(q))' /\ DoneWell(q)' = DoneWell(q)
    BY <1>2, <1>4, <1>5, OthersKeep
  <1>7. CopiesOfIssues'
    BY <1>1, <1>6 DEF PushInv, CopiesOfIssues, PushTypes, Copies
  <1>8. QED
    BY <1>3, <1>6, <1>7 DEF PushInv

\* The row, then the chunks, are those of the copy at which the request is.
LEMMA PartKeeps ==
  ASSUME JiraPushAssumption, PushInv, NEW r \in Pushed, NEW p \in {"row", "chunks"},
         push[r].at = p, Write(r, p), UNCHANGED pushStatus,
         push' = [push EXCEPT ![r].at = IF p = "row" THEN "chunks" ELSE "links"]
  PROVE  PushInv'
  <1>1. PushTypes /\ PushPlace(r) /\ Kept(r) /\ CopiesOfIssues
    BY DEF PushInv
  <1>2. PICK n \in DOMAIN Batches[r] : n = push[r].n
    BY <1>1 DEF PushPlace, InProgress
  <1>3. n \in Nat /\ Item(r).key = Batches[r][n].key /\ Item(r).key \in Issues
    BY <1>1, <1>2, ItemIsIssue DEF Item
  <1>4. /\ stored' \in [Issues -> [Written -> Copies]]
        /\ Copy(r) # NoCopy /\ Copy(r).by = r /\ Copy(r).n = n
        /\ \A k \in Issues, q \in Written :
             stored'[k][q] = IF k = Item(r).key /\ q = p THEN Copy(r) ELSE stored[k][q]
    BY <1>1, <1>2, WriteChanges DEF Written
  <1>5. /\ push' \in [Pushed -> PushRecord]
        /\ push'[r].at = IF p = "row" THEN "chunks" ELSE "links"
        /\ push'[r].n = n /\ push'[r].errors = push[r].errors
        /\ \A q \in Pushed : q # r => push'[q] = push[q]
    BY <1>1, <1>2 DEF PushTypes, InProgress, PushRecord
  <1>6. PushTypes'
    BY <1>1, <1>4, <1>5 DEF PushTypes
  <1>7. PushPlace(r)' /\ DoneWell(r)' = DoneWell(r)
    BY <1>1, <1>2, <1>5 DEF PushPlace, AllFailed, InProgress, DoneWell, Done
  <1>8. ASSUME NEW m \in DOMAIN Batches[r], NEW q \in Written, IsSince(r, m, q), m <= n
        PROVE  IsSince(r, m, q)'
    BY <1>1, <1>3, <1>4, <1>8, ItemIsIssue DEF IsSince
  <1>9. IsSince(r, n, p)'
    BY <1>3, <1>4 DEF IsSince, Written
  <1>10. \A m \in DoneWell(r) : m \in DOMAIN Batches[r] /\ m <= n
    BY <1>1, <1>2, <1>3, ItemIsIssue DEF DoneWell, Done, PushPlace, InProgress
  <1>11. Kept(r)'
    BY <1>1, <1>2, <1>3, <1>5, <1>7, <1>8, <1>9, <1>10 DEF Kept, Written
  <1>12. ASSUME NEW q \in Pushed
         PROVE  (PushPlace(q) /\ Kept(q))' /\ DoneWell(q)' = DoneWell(q)
    BY <1>4, <1>5, <1>7, <1>11, OthersKeep
  <1>13. CopiesOfIssues'
    <2> SUFFICES ASSUME NEW k \in Issues, NEW q \in Written, NEW c, c = stored'[k][q], c # NoCopy
                 PROVE  /\ c.n \in DOMAIN Batches[c.by] /\ Batches[c.by][c.n].key = k
                        /\ q = "links" => c.n \in DoneWell(c.by)'
      BY DEF CopiesOfIssues
    <2>1. CASE k = Item(r).key /\ q = p
      <3>1. c = Copy(r) /\ q # "links"
        BY <1>4, <2>1
      <3>2. QED
        BY <1>2, <1>3, <1>4, <2>1, <3>1
    <2>2. CASE ~(k = Item(r).key /\ q = p)
      <3>1. c = stored[k][q]
        BY <1>4, <2>2
      <3>2. c.by \in Pushed
        BY <1>1, <3>1 DEF PushTypes, Copies
      <3>3. QED
        BY <1>1, <1>12, <3>1, <3>2 DEF CopiesOfIssues
    <2>3. QED
      BY <2>1, <2>2
  <1>14. QED
    BY <1>6, <1>12, <1>13 DEF PushInv

\* The links come last: with them the copy is done.
LEMMA LinksKeep ==
  ASSUME JiraPushAssumption, PushInv, NEW r \in Pushed, WriteLinks(r)
  PROVE  PushInv'
  <1>1. PushTypes /\ PushPlace(r) /\ Kept(r) /\ CopiesOfIssues
    BY DEF PushInv
  <1>2. push[r].at = "links" /\ Write(r, "links") /\ NextIssue(r, push[r].errors)
    BY DEF WriteLinks
  <1>3. PICK n \in DOMAIN Batches[r] : n = push[r].n
    BY <1>1, <1>2 DEF PushPlace, InProgress
  <1>4. n \in Nat /\ Item(r).key = Batches[r][n].key /\ Item(r).key \in Issues
    BY <1>1, <1>3, ItemIsIssue DEF Item
  <1>5. /\ stored' \in [Issues -> [Written -> Copies]]
        /\ Copy(r) # NoCopy /\ Copy(r).by = r /\ Copy(r).n = n
        /\ \A k \in Issues, q \in Written :
             stored'[k][q] = IF k = Item(r).key /\ q = "links" THEN Copy(r) ELSE stored[k][q]
    BY <1>1, <1>2, <1>3, WriteChanges DEF Written
  <1>6. /\ push' \in [Pushed -> PushRecord]
        /\ pushStatus' \in [Pushed -> {0, 200, 400, 502}]
        /\ PushPlace(r)' /\ push'[r].at \in {"row", "answered"} /\ push'[r].errors = push[r].errors
        /\ Done(r)' = Done(r) \cup {n} /\ n \notin Done(r)
        /\ \A q \in Pushed : q # r => push'[q] = push[q] /\ pushStatus'[q] = pushStatus[q]
    BY <1>1, <1>2, <1>3, NextIssueChanges DEF InProgress
  <1>7. PushTypes'
    BY <1>5, <1>6 DEF PushTypes
  <1>8. DoneWell(r)' = DoneWell(r) \cup {n}
    <2>1. n \notin push[r].errors
      BY <1>1, <1>2, <1>3, <1>4 DEF PushPlace, InProgress
    <2>2. QED
      BY <1>6, <2>1 DEF DoneWell
  <1>9. ASSUME NEW m \in DOMAIN Batches[r], NEW q \in Written, IsSince(r, m, q), m <= n
        PROVE  IsSince(r, m, q)'
    BY <1>1, <1>4, <1>5, <1>9, ItemIsIssue DEF IsSince
  <1>10. \A q \in Written : IsSince(r, n, q)'
    <2>1. IsSince(r, n, "links")'
      BY <1>4, <1>5 DEF IsSince, Written
    <2>2. IsSince(r, n, "row") /\ IsSince(r, n, "chunks")
      BY <1>1, <1>2, <1>3 DEF Kept
    <2>3. QED
      BY <1>4, <1>9, <2>1, <2>2 DEF Written
  <1>11. \A m \in DoneWell(r) : m \in DOMAIN Batches[r] /\ m <= n
    BY <1>1, <1>2, <1>3, <1>4, ItemIsIssue DEF DoneWell, Done, PushPlace, InProgress
  <1>12. Kept(r)'
    BY <1>1, <1>6, <1>8, <1>9, <1>10, <1>11 DEF Kept
  <1>13. ASSUME NEW q \in Pushed, q # r
         PROVE  (PushPlace(q) /\ Kept(q))' /\ DoneWell(q)' = DoneWell(q)
    BY <1>5, <1>6, <1>13, OthersKeep
  <1>14. CopiesOfIssues'
    <2> SUFFICES ASSUME NEW k \in Issues, NEW q \in Written, NEW c, c = stored'[k][q], c # NoCopy
                 PROVE  /\ c.n \in DOMAIN Batches[c.by] /\ Batches[c.by][c.n].key = k
                        /\ q = "links" => c.n \in DoneWell(c.by)'
      BY DEF CopiesOfIssues
    <2>1. CASE k = Item(r).key /\ q = "links"
      BY <1>3, <1>4, <1>5, <1>8, <2>1
    <2>2. CASE ~(k = Item(r).key /\ q = "links")
      <3>1. c = stored[k][q]
        BY <1>5, <2>2
      <3>2. c.by \in Pushed
        BY <1>1, <3>1 DEF PushTypes, Copies
      <3>3. DoneWell(c.by) \subseteq DoneWell(c.by)'
        BY <1>8, <1>13, <3>2
      <3>4. QED
        BY <1>1, <3>1, <3>3 DEF CopiesOfIssues
    <2>3. QED
      BY <2>1, <2>2
  <1>15. QED
    BY <1>6, <1>7, <1>12, <1>13, <1>14 DEF PushInv

-----------------------------------------------------------------------------
\* The inductive invariant of the push of issues.
THEOREM PushInvariant ==
  ASSUME JiraPushAssumption
  PROVE  PushSpec => []PushInv
  <1>1. PushInit => PushInv
    BY PushStart
  <1>2. ASSUME PushInv, [PushNext]_pushVars
        PROVE  PushInv'
    <2>1. ASSUME NEW r \in Pushed, HandleIngestJira(r) \/ WriteLinks(r)
          PROVE  PushInv'
      BY <1>2, <2>1, HandleKeeps, LinksKeep
    <2>2. ASSUME NEW r \in Pushed, RejectIssue(r) \/ IngestFails(r)
          PROVE  PushInv'
      BY <1>2, <2>2, FailingKeeps DEF RejectIssue, IngestFails, InProgress
    <2>3. ASSUME NEW r \in Pushed, WriteRow(r)
          PROVE  PushInv'
      BY <1>2, <2>3, PartKeeps DEF WriteRow
    <2>4. ASSUME NEW r \in Pushed, WriteChunks(r)
          PROVE  PushInv'
      BY <1>2, <2>4, PartKeeps DEF WriteChunks
    <2>5. CASE UNCHANGED pushVars
      <3>1. UNCHANGED <<stored, push, pushStatus>>
        BY <2>5 DEF pushVars
      <3>2. \A r \in Pushed : Done(r)' = Done(r) /\ DoneWell(r)' = DoneWell(r)
        BY <3>1 DEF DoneWell, Done
      <3>3. PushTypes' /\ CopiesOfIssues'
        BY <1>2, <3>1, <3>2 DEF PushInv, PushTypes, CopiesOfIssues, Copies
      <3>4. ASSUME NEW r \in Pushed
            PROVE  PushPlace(r)' /\ Kept(r)'
        <4>1. PushPlace(r) /\ Kept(r)
          BY <1>2 DEF PushInv
        <4>2. PushPlace(r)'
          BY <3>1, <4>1 DEF PushPlace, AllFailed
        <4>3. \A n, p : IsSince(r, n, p)' = IsSince(r, n, p)
          BY <3>1 DEF IsSince
        <4>4. QED
          BY <3>1, <3>2, <4>1, <4>2, <4>3 DEF Kept
      <3>5. QED
        BY <3>3, <3>4 DEF PushInv
    <2>6. QED
      BY <1>2, <2>1, <2>2, <2>3, <2>4, <2>5 DEF PushNext
  <1>3. QED
    BY <1>1, <1>2, PTL DEF PushSpec

\* ReportIsTrue for the n-th issue of r, its abbreviations as definitions.
IsLast(r, n) == \A m \in n + 1 .. Len(Batches[r]) : Batches[r][m].key # Batches[r][n].key
IsOwn(r, s) ==
  {s.row, s.chunks, s.links} \subseteq {NoCopy} \cup {[by |-> r, n |-> m] : m \in DOMAIN Batches[r]}
Reported(r, n) ==
  LET s == stored[Batches[r][n].key]
      copy == [by |-> r, n |-> n]
  IN  /\ n \in push[r].errors => copy # s.links
      /\ n \notin push[r].errors /\ IsLast(r, n) /\ IsOwn(r, s)
           => s = [row |-> copy, chunks |-> copy, links |-> copy]

LEMMA ReportExpanded ==
  ReportIsTrue <=>
    \A r \in Pushed : pushStatus[r] \in {200, 502} =>
      /\ (pushStatus[r] = 502 <=> AllFailed(r))
      /\ \A n \in DOMAIN Batches[r] : Reported(r, n)
  BY Zenon DEF ReportIsTrue, AllFailed, Reported, IsLast, IsOwn

\* ingest.go, jira.go: for any batches and requests and any failures, an answered push has
\* stored what it does not report, from the last copy, as a whole.
LEMMA PushIsTrue ==
  ASSUME JiraPushAssumption, PushInv
  PROVE  ReportIsTrue
  <1> SUFFICES ASSUME NEW r \in Pushed, pushStatus[r] \in {200, 502},
                      NEW n \in DOMAIN Batches[r]
               PROVE  Reported(r, n)
    <2>1. \A q \in Pushed : pushStatus[q] \in {200, 502} =>
            (pushStatus[q] = 502 <=> AllFailed(q))
      BY DEF PushInv, PushPlace
    <2>2. QED
      BY <2>1, ReportExpanded
  <1> DEFINE k == Batches[r][n].key
             copy == [by |-> r, n |-> n]
  <1>1. PushTypes /\ CopiesOfIssues /\ PushPlace(r) /\ Kept(r)
    BY DEF PushInv
  <1>2. k \in Issues /\ n \in Nat /\ n > 0 /\ DOMAIN Batches[r] = 1 .. Len(Batches[r]) /\ Len(Batches[r]) \in Nat
    BY <1>1, ItemIsIssue
  <1>3. DoneWell(r) = DOMAIN Batches[r] \ push[r].errors
    BY DEF DoneWell, Done
  <1>4. /\ stored[k].row = stored[k]["row"] /\ stored[k].chunks = stored[k]["chunks"]
        /\ stored[k].links = stored[k]["links"]
        /\ stored[k] = [row |-> stored[k].row, chunks |-> stored[k].chunks, links |-> stored[k].links]
    BY <1>1, <1>2 DEF PushTypes, Written
  <1>5. ASSUME n \in push[r].errors
        PROVE  copy # stored[k].links
    <2> SUFFICES ASSUME copy = stored[k].links PROVE FALSE
      OBVIOUS
    <2>1. copy # NoCopy /\ copy.by = r /\ copy.n = n
      BY <1>2 DEF NoCopy
    <2>2. stored[k]["links"].n \in DoneWell(stored[k]["links"].by)
      BY <1>1, <1>2, <1>4, <2>1 DEF CopiesOfIssues, Written
    <2>3. QED
      BY <1>3, <1>4, <1>5, <2>1, <2>2
  <1>6. ASSUME n \notin push[r].errors, NEW p \in Written,
               IsLast(r, n),
               stored[k][p] \in {NoCopy} \cup {[by |-> r, n |-> m] : m \in DOMAIN Batches[r]}
        PROVE  stored[k][p] = copy
    <2>1. stored[k][p] # NoCopy /\ (stored[k][p].by = r => stored[k][p].n >= n)
      BY <1>1, <1>3, <1>6 DEF Kept, IsSince
    <2>2. PICK m \in DOMAIN Batches[r] : stored[k][p] = [by |-> r, n |-> m]
      BY <1>6, <2>1
    <2>3. m >= n /\ Batches[r][m].key = k
      BY <1>1, <1>2, <2>1, <2>2 DEF CopiesOfIssues
    <2>4. m = n
      BY <1>2, <1>6, <2>3 DEF IsLast
    <2>5. QED
      BY <2>2, <2>4
  <1>7. QED
    BY <1>4, <1>5, <1>6 DEF Written, Reported, IsOwn

-----------------------------------------------------------------------------
\* The inductive invariants of both, of behaviours in which issues are pushed and links are
\* rebuilt at once.
THEOREM IngestInvariant ==
  ASSUME LinkRebuildAssumption, JiraPushAssumption
  PROVE  RebuildSpec /\ PushSpec => [](RebuildInv /\ PushInv)
  BY RebuildInvariant, PushInvariant, PTL

\* jira.go, ingest.go: for any issues, workers, requests and failures, what a rebuild of links
\* or a push of issues does not report as failed is in the index.
THEOREM UnreportedWasDone ==
  ASSUME LinkRebuildAssumption, JiraPushAssumption
  PROVE  RebuildSpec /\ PushSpec => []UnreportedIsDone
  <1>1. RebuildInv /\ PushInv => UnreportedIsDone
    BY RebuildIsTrue, PushIsTrue DEF UnreportedIsDone
  <1>2. QED
    BY <1>1, RebuildInvariant, PushInvariant, PTL

---------------------------------------------------------------------------
(***************************************************************************)
(* Chunks, for any texts, any budget and any overlap below it.             *)
(***************************************************************************)
\* Of a chunk.
Kinds == {"body", "comment", "section"}
BufferRecord == [text : Seq(Nat), count : Nat, over : Nat]
ChunkRecord == [text : Seq(Nat), over : Nat, kind : Kinds]

\* A buffer that counts its words, and chunks.
IsBuffer(b) == b \in BufferRecord /\ b.over <= Len(b.text) /\ Cardinality(Words(b.text)) <= b.count
AreChunks(done) == done \in Seq(ChunkRecord) /\ \A i \in DOMAIN done : done[i].over <= Len(done[i].text)

\* Of the words of c that are not of its overlap: their order, and the first n tokens.
Has(c, n) == \E k \in Fresh(c) : c.text[k] = n
Rising(c) == \A k, l \in Fresh(c) : k < l => c.text[k] < c.text[l]
Precedes(c, d) == \A k \in Fresh(c), l \in Fresh(d) : c.text[k] < d.text[l]
IsUpTo(c, n) == \A k \in Fresh(c) : c.text[k] <= n

\* The overlap of c is the end of the i-th chunk.
Follows(c, done, i) ==
  /\ c.over > 0 => i > 0
  /\ \A k \in 1 .. c.over : c.text[k] = done[i].text[Len(done[i].text) - c.over + k]

\* The first n tokens are in the chunks and the buffer b, but for those that may be lost.
AreIn(lost, done, b, n) == \A m \in (1 .. n) \ lost : Has(b, m) \/ \E i \in DOMAIN done : Has(done[i], m)
InOrder(done, n) ==
  /\ \A i \in DOMAIN done : Rising(done[i]) /\ IsUpTo(done[i], n) /\ Fresh(done[i]) # {} /\ Follows(done[i], done, i - 1)
  /\ \A i, j \in DOMAIN done : i < j => Precedes(done[i], done[j])
FitsAtEnd(done, b, n) ==
  Rising(b) /\ IsUpTo(b, n) /\ Follows(b, done, Len(done)) /\ \A i \in DOMAIN done : Precedes(done[i], b)
Collected(lost, done, b, n) == AreIn(lost, done, b, n) /\ InOrder(done, n) /\ FitsAtEnd(done, b, n)

---------------------------------------------------------------------------
\* The places of words are finitely many, and no more than there are places.
LEMMA WordsAreCounted ==
  ASSUME NEW t \in Seq(Nat)
  PROVE  IsFiniteSet(Words(t)) /\ Cardinality(Words(t)) \in Nat /\ Cardinality(Words(t)) <= Len(t)
<1>1. Len(t) \in Nat /\ Words(t) \subseteq 1 .. Len(t)
  BY DEF Words
<1>2. IsFiniteSet(1 .. Len(t)) /\ Cardinality(1 .. Len(t)) = Len(t)
  <2>1. Len(t) \in Int /\ 1 \in Int
    BY <1>1
  <2>2. IsFiniteSet(1 .. Len(t)) /\ Cardinality(1 .. Len(t)) = IF 1 > Len(t) THEN 0 ELSE Len(t) - 1 + 1
    BY <2>1, FS_Interval
  <2> QED
    BY <2>2, <1>1
<1> QED
  BY <1>1, <1>2, FS_Subset, FS_CardinalityType

\* n words are added at the end of a text.
LEMMA SpanCounts ==
  ASSUME NEW t \in Seq(Nat), NEW u \in Seq(Nat), NEW n \in Nat, Len(u) = Len(t) + n,
         \A k \in 1 .. Len(t) : u[k] = t[k], \A k \in 1 .. n : u[Len(t) + k] # Separator
  PROVE  Cardinality(Words(u)) = Cardinality(Words(t)) + n
<1> DEFINE N == Len(t) + 1 .. Len(t) + n
<1>1. Len(t) \in Nat /\ Len(t) + 1 \in Int /\ Len(t) + n \in Int
  OBVIOUS
<1>2. IsFiniteSet(N) /\ Cardinality(N) = n
  BY <1>1, FS_Interval
<1>3. ASSUME NEW k \in N PROVE u[k] # Separator
  <2>1. k - Len(t) \in 1 .. n /\ k = Len(t) + (k - Len(t))
    BY <1>1
  <2> QED
    BY <2>1
<1>4. Words(u) = Words(t) \cup N
  <2>1. DOMAIN u = 1 .. Len(t) + n /\ DOMAIN t = 1 .. Len(t)
    OBVIOUS
  <2> QED
    BY <1>1, <1>3, <2>1 DEF Words
<1>5. Words(t) \cap N = {}
  BY <1>1 DEF Words
<1>6. Cardinality(Words(t) \cap N) = 0
  BY <1>5, FS_EmptySet
<1> HIDE DEF N
<1>7. Cardinality(Words(t) \cup N) = Cardinality(Words(t)) + Cardinality(N) - Cardinality(Words(t) \cap N)
  <2>1. IsFiniteSet(Words(t)) /\ IsFiniteSet(N)
    BY <1>2, WordsAreCounted
  <2> QED
    BY <2>1, FS_Union
<1>8. Cardinality(Words(t)) \in Nat
  BY WordsAreCounted
<1> QED
  BY <1>2, <1>4, <1>6, <1>7, <1>8

\* The length of two texts, one after the other.
LEMMA LengthsAdd ==
  ASSUME NEW t \in Seq(Nat), NEW u \in Seq(Nat)
  PROVE  t \o u \in Seq(Nat) /\ Len(t \o u) = Len(t) + Len(u)
OBVIOUS

\* p is the buffer b and after it the tokens from n to m.
Adds(b, p, n, m) ==
  /\ IsBuffer(p) /\ p.over = b.over /\ p.count = b.count + (m - n)
  /\ Len(b.text) \in Nat /\ Len(p.text) = Len(b.text) + (m - n)
  /\ \A k \in 1 .. Len(b.text) : p.text[k] = b.text[k]
  /\ \A k \in 1 .. m - n : p.text[Len(b.text) + k] = n + k
  /\ \A k \in Fresh(b) : k \in Fresh(p) /\ p.text[k] = b.text[k] /\ k <= Len(b.text)
  /\ \A k \in Fresh(p) : k \in Fresh(b) \/ (k > Len(b.text) /\ p.text[k] = n + (k - Len(b.text)))
  /\ \A k \in 1 .. m - n : Len(b.text) + k \in Fresh(p)

\* Plus adds these tokens.
LEMMA PlusAdds ==
  ASSUME NEW b, IsBuffer(b), NEW n \in Nat, NEW m \in Nat, n <= m, NEW p, p = Plus(b, n, m)
  PROVE  Adds(b, p, n, m)
<1> DEFINE s == Span(n, m)
           t == b.text
<1>1. b \in [text : Seq(Nat), count : Nat, over : Nat] /\ t \in Seq(Nat) /\ Len(t) \in Nat /\ b.over <= Len(t)
      /\ b.over \in Nat /\ b.count \in Nat
  BY DEF IsBuffer, BufferRecord
<1>2. s \in Seq(Nat) /\ Len(s) = m - n /\ \A k \in 1 .. m - n : s[k] = n + k
  BY DEF Span
<1>3. p = [text |-> t \o s, count |-> b.count + (m - n), over |-> b.over]
  BY <1>1 DEF Plus
<1> HIDE DEF s
<1>4. p.text \in Seq(Nat) /\ Len(p.text) = Len(t) + (m - n) /\ p.over = b.over /\ p.count = b.count + (m - n)
  <2>1. p.text = t \o s /\ p.over = b.over /\ p.count = b.count + (m - n)
    BY <1>3
  <2>2. t \in Seq(Nat) /\ s \in Seq(Nat) /\ Len(s) = m - n
    BY <1>1, <1>2
  <2>3. t \o s \in Seq(Nat) /\ Len(t \o s) = Len(t) + Len(s)
    BY <2>2, LengthsAdd
  <2> QED
    BY <2>1, <2>2, <2>3
<1>5. \A k \in 1 .. Len(t) : p.text[k] = t[k]
  BY <1>1, <1>2, <1>3
<1>6. \A k \in 1 .. m - n : p.text[Len(t) + k] = n + k
  BY <1>1, <1>2, <1>3
<1>7. \A k \in 1 .. m - n : p.text[Len(t) + k] # Separator
  <2> SUFFICES ASSUME NEW k \in 1 .. m - n PROVE p.text[Len(t) + k] # Separator
    OBVIOUS
  <2>1. n + k # 0
    OBVIOUS
  <2> QED
    BY <2>1, <1>6 DEF Separator
<1>8. Cardinality(Words(p.text)) = Cardinality(Words(t)) + (m - n)
  <2>1. m - n \in Nat
    OBVIOUS
  <2> QED
    BY <1>1, <1>4, <1>5, <1>7, <2>1, SpanCounts
<1>9. IsBuffer(p)
  <2>1. p \in BufferRecord
    BY <1>1, <1>3, <1>4 DEF BufferRecord
  <2>2. Cardinality(Words(p.text)) <= p.count
    BY <1>1, <1>4, <1>8, WordsAreCounted DEF IsBuffer
  <2> QED
    BY <2>1, <2>2, <1>1, <1>4 DEF IsBuffer
<1>10. DOMAIN p.text = 1 .. Len(t) + (m - n) /\ DOMAIN t = 1 .. Len(t)
  BY <1>1, <1>4
<1>11. \A k \in Fresh(b) : k \in Fresh(p) /\ p.text[k] = t[k] /\ k <= Len(t)
  <2> SUFFICES ASSUME NEW k \in Fresh(b) PROVE k \in Fresh(p) /\ p.text[k] = t[k] /\ k <= Len(t)
    OBVIOUS
  <2>1. k \in 1 .. Len(t) /\ t[k] # Separator /\ k > b.over
    BY <1>10 DEF Fresh, Words
  <2>2. k \in DOMAIN p.text /\ p.text[k] = t[k]
    BY <2>1, <1>1, <1>5, <1>10
  <2> QED
    BY <2>1, <2>2, <1>1, <1>4 DEF Fresh, Words
<1>12. ASSUME NEW k \in Fresh(p) PROVE k \in Fresh(b) \/ (k > Len(t) /\ p.text[k] = n + (k - Len(t)))
  <2>1. k \in 1 .. Len(t) + (m - n) /\ p.text[k] # Separator /\ k > b.over
    BY <1>4, <1>10 DEF Fresh, Words
  <2>2. CASE k <= Len(t)
    BY <2>1, <2>2, <1>1, <1>5, <1>10 DEF Fresh, Words
  <2>3. CASE k > Len(t)
    <3>1. k - Len(t) \in 1 .. m - n /\ k = Len(t) + (k - Len(t))
      BY <2>1, <2>3, <1>1
    <3> QED
      BY <3>1, <2>3, <1>6
  <2> QED
    BY <2>1, <2>2, <2>3, <1>1
<1>13. \A k \in 1 .. m - n : Len(t) + k \in Fresh(p)
  <2> SUFFICES ASSUME NEW k \in 1 .. m - n PROVE Len(t) + k \in Fresh(p)
    OBVIOUS
  <2>1. Len(t) + k \in DOMAIN p.text /\ Len(t) + k > b.over
    BY <1>1, <1>10
  <2> QED
    BY <2>1, <1>4, <1>7 DEF Fresh, Words
<1> QED
  BY <1>1, <1>4, <1>5, <1>6, <1>9, <1>11, <1>12, <1>13 DEF Adds

\* What WithGap adds to a buffer is no word.
LEMMA GapAdds ==
  ASSUME NEW b, IsBuffer(b), NEW g, g = WithGap(b)
  PROVE  /\ IsBuffer(g) /\ g.over = b.over /\ g.count = b.count
         /\ Fresh(g) = Fresh(b)
         /\ \A k \in 1 .. Len(b.text) : g.text[k] = b.text[k]
<1>1. CASE b.text = <<>>
  BY <1>1 DEF WithGap
<1>2. CASE b.text # <<>>
  <2>1. b \in [text : Seq(Nat), count : Nat, over : Nat] /\ b.text \in Seq(Nat) /\ Len(b.text) \in Nat
        /\ b.over <= Len(b.text) /\ b.over \in Nat /\ b.count \in Nat
    BY DEF IsBuffer, BufferRecord
  <2>2. g = [text |-> Append(b.text, 0), count |-> b.count, over |-> b.over]
    BY <1>2, <2>1 DEF WithGap, Separator
  <2>3. g.text \in Seq(Nat) /\ Len(g.text) = Len(b.text) + 1 /\ g.text[Len(b.text) + 1] = 0
    BY <2>1, <2>2
  <2>4. \A k \in 1 .. Len(b.text) : g.text[k] = b.text[k]
    BY <2>1, <2>2
  <2>5. DOMAIN b.text = 1 .. Len(b.text) /\ DOMAIN g.text = 1 .. Len(b.text) + 1
    BY <2>1, <2>3
  <2>6. Words(g.text) = Words(b.text)
    BY <2>1, <2>3, <2>4, <2>5 DEF Words, Separator
  <2>7. Fresh(g) = Fresh(b)
    BY <2>2, <2>4, <2>6 DEF Fresh
  <2>8. g \in BufferRecord
    BY <2>1, <2>2, <2>3 DEF BufferRecord
  <2>9. IsBuffer(g)
    BY <2>1, <2>2, <2>3, <2>6, <2>8 DEF IsBuffer
  <2> QED
    BY <2>2, <2>4, <2>7, <2>9
<1> QED
  BY <1>1, <1>2

\* Tokens are added to a buffer in their order.
LEMMA PlusCollects ==
  ASSUME NEW done, AreChunks(done), NEW b, IsBuffer(b), NEW n \in Nat, NEW m \in Nat, n <= m,
         Collected(Unscanned, done, b, n), NEW p, p = Plus(b, n, m)
  PROVE  Collected(Unscanned, done, p, m)
<1> DEFINE z == Len(b.text)
<1>1. /\ IsBuffer(p) /\ p.over = b.over
      /\ z \in Nat /\ Len(p.text) = z + (m - n)
      /\ \A k \in 1 .. z : p.text[k] = b.text[k]
      /\ \A k \in 1 .. m - n : p.text[z + k] = n + k
      /\ \A k \in Fresh(b) : k \in Fresh(p) /\ p.text[k] = b.text[k] /\ k <= z
      /\ \A k \in Fresh(p) : k \in Fresh(b) \/ (k > z /\ p.text[k] = n + (k - z))
      /\ \A k \in 1 .. m - n : z + k \in Fresh(p)
  <2>1. Adds(b, p, n, m)
    BY PlusAdds
  <2> QED
    BY <2>1 DEF Adds
<1>2. p.text \in Seq(Nat) /\ b.text \in Seq(Nat) /\ b.over \in Nat /\ b.over <= z
  BY <1>1 DEF IsBuffer, BufferRecord
<1> HIDE DEF z
<1>3. Fresh(p) \subseteq 1 .. z + (m - n) /\ Fresh(b) \subseteq 1 .. z
  <2>1. DOMAIN p.text = 1 .. z + (m - n) /\ DOMAIN b.text = 1 .. z
    BY <1>1, <1>2 DEF z
  <2> QED
    BY <2>1 DEF Fresh, Words
<1>4. \A k \in Fresh(p) : p.text[k] \in Nat /\ p.text[k] <= m /\ (k \notin Fresh(b) => p.text[k] > n)
  <2> SUFFICES ASSUME NEW k \in Fresh(p)
               PROVE  p.text[k] \in Nat /\ p.text[k] <= m /\ (k \notin Fresh(b) => p.text[k] > n)
    OBVIOUS
  <2>1. CASE k \in Fresh(b)
    <3>1. k \in DOMAIN b.text
      BY <2>1 DEF Fresh, Words
    <3>2. b.text[k] \in Nat
      BY <3>1, <1>2
    <3>3. b.text[k] <= n
      BY <2>1 DEF Collected, FitsAtEnd, IsUpTo
    <3>4. p.text[k] = b.text[k] /\ b.text[k] <= m
      BY <3>2, <3>3, <2>1, <1>1
    <3> QED
      BY <3>2, <3>4, <2>1
  <2>2. CASE k \notin Fresh(b)
    <3>1. k \in 1 .. z + (m - n) /\ k > z /\ p.text[k] = n + (k - z) /\ z \in Nat
      BY <2>2, <1>1, <1>3
    <3>2. n + (k - z) \in Nat /\ n + (k - z) <= m /\ n + (k - z) > n
      BY <3>1
    <3> QED
      BY <3>1, <3>2
  <2> QED
    BY <2>1, <2>2
<1>5. \A i \in DOMAIN done : \A k \in Fresh(done[i]) : done[i].text[k] \in Nat /\ done[i].text[k] <= n
  <2> SUFFICES ASSUME NEW i \in DOMAIN done, NEW k \in Fresh(done[i])
               PROVE  done[i].text[k] \in Nat /\ done[i].text[k] <= n
    OBVIOUS
  <2>1. done[i] \in ChunkRecord
    BY DEF AreChunks
  <2>2. done[i].text \in Seq(Nat)
    BY <2>1 DEF ChunkRecord
  <2>3. k \in DOMAIN done[i].text
    BY DEF Fresh, Words
  <2>4. done[i].text[k] \in Nat
    BY <2>2, <2>3
  <2> QED
    BY <2>4 DEF Collected, InOrder, IsUpTo
<1>6. AreIn(Unscanned, done, p, m)
  <2> SUFFICES ASSUME NEW x \in (1 .. m) \ Unscanned PROVE Has(p, x) \/ \E i \in DOMAIN done : Has(done[i], x)
    BY DEF AreIn
  <2>1. CASE x <= n
    <3>1. Has(b, x) \/ \E i \in DOMAIN done : Has(done[i], x)
      BY <2>1 DEF Collected, AreIn
    <3>2. Has(b, x) => Has(p, x)
      BY <1>1 DEF Has
    <3> QED
      BY <3>1, <3>2
  <2>2. CASE x > n
    <3>1. x - n \in 1 .. m - n /\ x = n + (x - n)
      BY <2>2
    <3>2. z + (x - n) \in Fresh(p) /\ p.text[z + (x - n)] = x
      BY <3>1, <1>1
    <3> QED
      BY <3>2 DEF Has
  <2> QED
    BY <2>1, <2>2
<1>7. InOrder(done, m)
  <2>1. \A i \in DOMAIN done : IsUpTo(done[i], m)
    BY <1>5 DEF IsUpTo
  <2> QED
    BY <2>1 DEF Collected, InOrder
<1>8. Rising(p)
  <2> SUFFICES ASSUME NEW k \in Fresh(p), NEW l \in Fresh(p), k < l PROVE p.text[k] < p.text[l]
    BY DEF Rising
  <2>1. CASE l \in Fresh(b)
    <3>1. k \in Fresh(b)
      BY <2>1, <1>1, <1>3
    <3>2. b.text[k] < b.text[l]
      BY <3>1, <2>1 DEF Collected, FitsAtEnd, Rising
    <3> QED
      BY <3>1, <3>2, <2>1, <1>1
  <2>2. CASE l \notin Fresh(b) /\ k \in Fresh(b)
    <3>1. p.text[k] = b.text[k] /\ b.text[k] <= n /\ p.text[l] > n
      BY <2>2, <1>1, <1>4 DEF Collected, FitsAtEnd, IsUpTo
    <3> QED
      BY <3>1, <1>4
  <2>3. CASE l \notin Fresh(b) /\ k \notin Fresh(b)
    <3>1. p.text[k] = n + (k - z) /\ p.text[l] = n + (l - z) /\ z \in Nat /\ k \in Int /\ l \in Int
      BY <2>3, <1>1, <1>3
    <3> QED
      BY <3>1
  <2> QED
    BY <2>1, <2>2, <2>3
<1>9. IsUpTo(p, m)
  BY <1>4 DEF IsUpTo
<1>10. Follows(p, done, Len(done))
  <2>1. Follows(b, done, Len(done))
    BY DEF Collected, FitsAtEnd
  <2>2. z \in Nat /\ p.over = b.over /\ \A k \in 1 .. z : p.text[k] = b.text[k]
    BY <1>1
  <2>3. \A k \in 1 .. b.over : k \in 1 .. z
    BY <2>2, <1>2
  <2>4. \A k \in 1 .. p.over : p.text[k] = b.text[k]
    BY <2>2, <2>3
  <2> QED
    BY <2>1, <2>2, <2>4 DEF Follows
<1>11. ASSUME NEW i \in DOMAIN done PROVE Precedes(done[i], p)
  <2> SUFFICES ASSUME NEW k \in Fresh(done[i]), NEW l \in Fresh(p) PROVE done[i].text[k] < p.text[l]
    BY DEF Precedes
  <2>1. CASE l \in Fresh(b)
    BY <2>1, <1>1 DEF Collected, FitsAtEnd, Precedes
  <2>2. CASE l \notin Fresh(b)
    BY <2>2, <1>4, <1>5
  <2> QED
    BY <2>1, <2>2
<1> QED
  BY <1>6, <1>7, <1>8, <1>9, <1>10, <1>11 DEF Collected, FitsAtEnd

\* An empty line is no token.
LEMMA GapCollects ==
  ASSUME NEW done, NEW b, IsBuffer(b), NEW n \in Nat, Collected(Unscanned, done, b, n), NEW g, g = WithGap(b)
  PROVE  Collected(Unscanned, done, g, n)
<1>1. /\ IsBuffer(g) /\ g.over = b.over /\ Fresh(g) = Fresh(b)
      /\ \A k \in 1 .. Len(b.text) : g.text[k] = b.text[k]
  BY GapAdds
<1>2. b.text \in Seq(Nat) /\ b.over \in Nat /\ b.over <= Len(b.text) /\ Len(b.text) \in Nat
  BY DEF IsBuffer, BufferRecord
<1>3. Fresh(b) \subseteq 1 .. Len(b.text)
  BY <1>2 DEF Fresh, Words
<1>4. \A k \in Fresh(b) : g.text[k] = b.text[k]
  BY <1>1, <1>3
<1>5. AreIn(Unscanned, done, g, n)
  BY <1>1, <1>4 DEF Collected, AreIn, Has
<1>6. Rising(g)
  BY <1>1, <1>4 DEF Collected, FitsAtEnd, Rising
<1>7. IsUpTo(g, n)
  BY <1>1, <1>4 DEF Collected, FitsAtEnd, IsUpTo
<1>8. \A i \in DOMAIN done : Precedes(done[i], g)
  BY <1>1, <1>4 DEF Collected, FitsAtEnd, Precedes
<1>9. Follows(g, done, Len(done))
  <2>1. \A k \in 1 .. b.over : k \in 1 .. Len(b.text)
    BY <1>2
  <2>2. \A k \in 1 .. g.over : g.text[k] = b.text[k]
    BY <1>1, <2>1
  <2> QED
    BY <1>1, <2>2 DEF Collected, FitsAtEnd, Follows
<1> QED
  BY <1>5, <1>6, <1>7, <1>8, <1>9 DEF Collected, FitsAtEnd

\* The empty buffer.
LEMMA NothingCollected ==
  /\ IsBuffer(Empty) /\ Fresh(Empty) = {} /\ Empty.text = <<>> /\ Empty.count = 0 /\ Empty.over = 0
  /\ \A done, n : AreIn(Unscanned, done, Empty, n) /\ InOrder(done, n) => Collected(Unscanned, done, Empty, n)
<1>1. Empty.text = <<>> /\ Empty.count = 0 /\ Empty.over = 0 /\ Empty \in BufferRecord
  BY DEF Empty, BufferRecord
<1>2. Words(Empty.text) = {} /\ Fresh(Empty) = {} /\ Len(Empty.text) = 0
  BY <1>1 DEF Words, Fresh
<1>3. Cardinality({}) = 0
  BY FS_EmptySet
<1>4. IsBuffer(Empty)
  <2>1. Cardinality(Words(Empty.text)) = 0
    BY <1>2, <1>3
  <2> QED
    BY <1>1, <1>2, <2>1 DEF IsBuffer
<1>5. ASSUME NEW done, NEW n, AreIn(Unscanned, done, Empty, n), InOrder(done, n) PROVE Collected(Unscanned, done, Empty, n)
  <2>1. Rising(Empty) /\ IsUpTo(Empty, n) /\ \A i \in DOMAIN done : Precedes(done[i], Empty)
    BY <1>2 DEF Rising, IsUpTo, Precedes
  <2>2. Follows(Empty, done, Len(done))
    BY <1>1 DEF Follows
  <2> QED
    BY <1>5, <2>1, <2>2 DEF Collected, FitsAtEnd
<1> QED
  BY <1>1, <1>2, <1>4, <1>5

\* The chunks after a flush.
FlushOf(done, b, k) == IF b.text = <<>> THEN done ELSE Append(done, [text |-> b.text, over |-> b.over, kind |-> k])

\* A flush collects the tokens of the buffer in a chunk.
LEMMA FlushCollects ==
  ASSUME NEW done, AreChunks(done), NEW b, IsBuffer(b), NEW n \in Nat, Collected(Unscanned, done, b, n),
         b.text = <<>> \/ Fresh(b) # {}, NEW kind \in Kinds, NEW new, new = FlushOf(done, b, kind)
  PROVE  AreChunks(new) /\ Collected(Unscanned, new, Empty, n)
<1>1. CASE b.text = <<>>
  <2>1. new = done /\ Fresh(b) = {}
    BY <1>1 DEF FlushOf, Fresh, Words
  <2>2. \A m : ~Has(b, m)
    BY <2>1 DEF Has
  <2>3. AreIn(Unscanned, done, Empty, n)
    BY <2>2 DEF Collected, AreIn
  <2> QED
    BY <2>1, <2>3, NothingCollected DEF Collected
<1>2. CASE b.text # <<>>
  <2> DEFINE c == [text |-> b.text, over |-> b.over, kind |-> kind]
             z == Len(done)
  <2>1. done \in Seq(ChunkRecord) /\ z \in Nat /\ b.text \in Seq(Nat) /\ b.over \in Nat /\ b.over <= Len(b.text)
    BY DEF AreChunks, IsBuffer, BufferRecord
  <2>2. c.text = b.text /\ c.over = b.over /\ c \in ChunkRecord /\ Fresh(c) = Fresh(b)
    BY <2>1 DEF ChunkRecord, Fresh
  <2>3. new = Append(done, c)
    BY <1>2 DEF FlushOf
  <2> HIDE DEF c
  <2>4. /\ new \in Seq(ChunkRecord) /\ Len(new) = z + 1 /\ new[z + 1] = c
        /\ \A i \in 1 .. z : new[i] = done[i]
    BY <2>1, <2>2, <2>3
  <2>5. DOMAIN new = 1 .. z + 1 /\ DOMAIN done = 1 .. z
    BY <2>1, <2>4
  <2> HIDE DEF z
  <2>6. \A i \in DOMAIN new : i = z + 1 \/ (i \in DOMAIN done /\ new[i] = done[i])
    BY <2>1, <2>4, <2>5
  <2>7. \A i \in DOMAIN done : i \in DOMAIN new /\ new[i] = done[i]
    BY <2>1, <2>4, <2>5
  <2>8. AreChunks(new)
    BY <2>1, <2>2, <2>4, <2>6 DEF AreChunks
  <2>9. AreIn(Unscanned, new, Empty, n)
    <3> SUFFICES ASSUME NEW m \in (1 .. n) \ Unscanned PROVE \E i \in DOMAIN new : Has(new[i], m)
      BY DEF AreIn
    <3>1. CASE Has(b, m)
      <4>1. Has(c, m)
        BY <3>1, <2>2 DEF Has
      <4>2. z + 1 \in DOMAIN new
        BY <2>1, <2>5
      <4> QED
        BY <4>1, <4>2, <2>4
    <3>2. CASE \E i \in DOMAIN done : Has(done[i], m)
      BY <3>2, <2>7
    <3> QED
      BY <3>1, <3>2 DEF Collected, AreIn
  <2>10. Rising(c) /\ IsUpTo(c, n) /\ Fresh(c) # {} /\ \A i \in DOMAIN done : Precedes(done[i], c)
    BY <1>2, <2>2 DEF Collected, FitsAtEnd, Rising, IsUpTo, Precedes
  <2>11. Follows(c, done, z)
    BY <2>2 DEF Collected, FitsAtEnd, Follows, z
  <2>12. ASSUME NEW i \in DOMAIN new PROVE Follows(new[i], new, i - 1)
    <3>1. CASE i = z + 1
      <4>1. i - 1 = z
        BY <3>1, <2>1
      <4>2. c.over > 0 => z > 0
        BY <2>11 DEF Follows
      <4>3. c.over > 0 => new[z] = done[z]
        BY <4>2, <2>1, <2>4
      <4>4. \A k \in 1 .. c.over : c.over > 0
        BY <2>1, <2>2
      <4>5. Follows(c, new, z)
        BY <4>2, <4>3, <4>4, <2>11 DEF Follows
      <4> QED
        BY <3>1, <4>1, <4>5, <2>4
    <3>2. CASE i \in DOMAIN done
      <4>1. Follows(done[i], done, i - 1) /\ done[i] \in ChunkRecord
        BY <3>2, <2>1 DEF Collected, InOrder
      <4>2. new[i] = done[i] /\ done[i].over \in Nat
        BY <3>2, <2>7, <4>1 DEF ChunkRecord
      <4>3. done[i].over > 0 => i - 1 \in DOMAIN done
        BY <4>1, <3>2, <2>1, <2>5 DEF Follows
      <4>4. done[i].over > 0 => new[i - 1] = done[i - 1]
        BY <4>3, <2>7
      <4>5. \A k \in 1 .. done[i].over : done[i].over > 0
        BY <4>2
      <4>6. Follows(done[i], new, i - 1)
        BY <4>1, <4>4, <4>5 DEF Follows
      <4> QED
        BY <4>2, <4>6
    <3> QED
      BY <3>1, <3>2, <2>6
  <2>13. ASSUME NEW i \in DOMAIN new PROVE Rising(new[i]) /\ IsUpTo(new[i], n) /\ Fresh(new[i]) # {}
    BY <2>4, <2>6, <2>10 DEF Collected, InOrder
  <2>14. ASSUME NEW i \in DOMAIN new, NEW j \in DOMAIN new, i < j PROVE Precedes(new[i], new[j])
    <3>1. i \in DOMAIN done /\ new[i] = done[i]
      BY <2>14, <2>1, <2>4, <2>5
    <3>2. CASE j = z + 1
      BY <3>1, <3>2, <2>4, <2>10
    <3>3. CASE j \in DOMAIN done
      BY <3>1, <3>3, <2>7, <2>14 DEF Collected, InOrder
    <3> QED
      BY <3>2, <3>3, <2>6
  <2>15. InOrder(new, n)
    BY <2>12, <2>13, <2>14 DEF InOrder
  <2> QED
    BY <2>8, <2>9, <2>15, NothingCollected
<1> QED
  BY <1>1, <1>2

\* The last tokens of a text, and where they are in it.
LEMMA LastOnes ==
  ASSUME OverlapTokens \in Nat, NEW t \in Seq(Nat), NEW l, l = LastTokens(t)
  PROVE  /\ l \in Seq(Nat) /\ Len(l) <= OverlapTokens /\ Len(l) <= Len(t)
         /\ \A k \in 1 .. Len(l) : l[k] = t[Len(t) - Len(l) + k]
<1>1. Len(t) \in Nat
  OBVIOUS
<1>2. CASE Len(t) <= OverlapTokens
  <2>1. l = t
    BY <1>2 DEF LastTokens
  <2>2. \A k \in 1 .. Len(t) : Len(t) - Len(t) + k = k
    BY <1>1
  <2> QED
    BY <1>1, <1>2, <2>1, <2>2
<1>3. CASE ~(Len(t) <= OverlapTokens)
  <2>1. l = SubSeq(t, Len(t) - OverlapTokens + 1, Len(t))
    BY <1>3 DEF LastTokens
  <2>2. Len(t) - OverlapTokens + 1 \in 1 .. Len(t) + 1
    BY <1>1, <1>3
  <2>3. l \in Seq(Nat) /\ Len(l) = OverlapTokens
    BY <2>1, <2>2, <1>1, <1>3
  <2>4. \A k \in 1 .. Len(l) : l[k] = t[(Len(t) - OverlapTokens + 1) + k - 1]
    BY <2>1, <2>2, <2>3, <1>1
  <2>5. \A k \in 1 .. Len(l) : (Len(t) - OverlapTokens + 1) + k - 1 = Len(t) - Len(l) + k
    BY <2>3, <1>1
  <2> QED
    BY <2>3, <2>4, <2>5, <1>1, <1>3
<1> QED
  BY <1>2, <1>3

\* An overlap is no more than the end of the chunk before.
LEMMA TailCollects ==
  ASSUME OverlapTokens \in Nat, first \in Nat,
         NEW done, AreChunks(done), NEW n \in Nat, Collected(Unscanned, done, Empty, n), NEW o, o = Overlap(done)
  PROVE  /\ IsBuffer(o) /\ o.count <= OverlapTokens /\ Fresh(o) = {}
         /\ Collected(Unscanned, done, o, n)
<1> DEFINE l == IF Len(done) <= first THEN <<>> ELSE LastTokens(done[Len(done)].text)
<1>1. o = [text |-> l, count |-> Len(l), over |-> Len(l)]
  BY DEF Overlap
<1>2. done \in Seq(ChunkRecord) /\ Len(done) \in Nat
  BY DEF AreChunks
<1>3. /\ l \in Seq(Nat) /\ Len(l) <= OverlapTokens
      /\ Len(l) > 0 => Len(done) > 0
      /\ \A k \in 1 .. Len(l) : l[k] = done[Len(done)].text[Len(done[Len(done)].text) - Len(l) + k]
  <2>1. CASE Len(done) <= first
    <3>1. l = <<>>
      BY <2>1
    <3> HIDE DEF l
    <3> QED
      BY <3>1
  <2>2. CASE ~(Len(done) <= first)
    <3>1. l = LastTokens(done[Len(done)].text) /\ Len(done) > 0
      BY <2>2, <1>2
    <3>2. done[Len(done)] \in ChunkRecord
      BY <3>1, <1>2
    <3>3. done[Len(done)].text \in Seq(Nat)
      BY <3>2 DEF ChunkRecord
    <3> HIDE DEF l
    <3> QED
      BY <3>1, <3>3, LastOnes
  <2> QED
    BY <2>1, <2>2
<1> HIDE DEF l
<1>4. o.text = l /\ o.count = Len(l) /\ o.over = Len(l) /\ Len(l) \in Nat /\ DOMAIN l = 1 .. Len(l)
  BY <1>1, <1>3
<1>5. Fresh(o) = {}
  BY <1>4 DEF Fresh, Words
<1>6. IsBuffer(o)
  <2>1. o \in BufferRecord
    BY <1>1, <1>3, <1>4 DEF BufferRecord
  <2>2. Cardinality(Words(l)) <= Len(l)
    BY <1>3, WordsAreCounted
  <2> QED
    BY <2>1, <2>2, <1>4 DEF IsBuffer
<1>7. AreIn(Unscanned, done, o, n)
  BY NothingCollected DEF Collected, AreIn, Has
<1>8. Rising(o) /\ IsUpTo(o, n) /\ \A i \in DOMAIN done : Precedes(done[i], o)
  BY <1>5 DEF Rising, IsUpTo, Precedes
<1>9. Follows(o, done, Len(done))
  BY <1>3, <1>4 DEF Follows
<1> QED
  BY <1>3, <1>4, <1>5, <1>6, <1>7, <1>8, <1>9 DEF Collected, FitsAtEnd

\* The order of the numbers, as a relation.
Less == {p \in Nat \X Nat : p[1] < p[2]}

\* Of numbers there is a least one.
LEMMA LeastNumber ==
  ASSUME NEW S, S \subseteq Nat, S # {}
  PROVE  \E n \in S : \A m \in S : n <= m
<1>1. Less = OpToRel(<, Nat)
  BY Zenon DEF Less, OpToRel
<1>2. IsWellFoundedOn(Less, Nat)
  BY <1>1, NatLessThanWellFounded
<1>3. PICK n \in S : \A m \in S : ~(<<m, n>> \in Less)
  BY <1>2, WFMin
<1>4. ASSUME NEW m \in S PROVE n <= m
  <2>1. ~(m < n)
    BY <1>3 DEF Less
  <2> QED
    BY <2>1
<1> QED
  BY <1>4

\* The next end comes after read, and no other between them.
LEMMA NextEndFollows ==
  ASSUME read \in Nat, NEW ends, ends \subseteq Nat, NEW e \in ends, e > read
  PROVE  /\ NextEnd(ends) \in ends /\ NextEnd(ends) > read /\ NextEnd(ends) <= e
         /\ \A f \in ends : f > read => NextEnd(ends) <= f
<1> DEFINE S == {f \in ends : f > read}
<1>1. PICK n \in S : \A m \in S : n <= m
  <2>1. S \subseteq Nat /\ S # {}
    OBVIOUS
  <2> QED
    BY <2>1, LeastNumber
<1>2. \E x \in ends : x > read /\ \A f \in ends : f > read => x <= f
  BY <1>1
<1> QED
  BY <1>2 DEF NextEnd

---------------------------------------------------------------------------
\* The tokens of the first part.
InFirst(n, parts) == \A e \in parts : n <= e
\* A chunk of an issue that is of the kind of the segment it begins with.
KindFits(c, kind, parts) == kind = "body" <=> \E k \in Fresh(c) : InFirst(c.text[k], parts)

\* Types, and where a text is between its ends.
TextTypes ==
  /\ strategy \in {"none", "jira", "section"}
  /\ strategy = "none" => text = NoText /\ partEnd = 0 /\ curKind = "body" /\ buffer = Empty /\ chunks = <<>>
  /\ strategy = "jira" => text \in IssueTexts
  /\ strategy = "section" => text \in PageTexts
  /\ read \in Nat /\ partEnd \in Nat /\ paragraphEnd \in Nat /\ first \in Nat
  /\ curKind \in Kinds

\* No part ends between read and partEnd, no paragraph between read and paragraphEnd.
PlaceInText ==
  /\ read <= partEnd /\ partEnd <= text.size /\ paragraphEnd <= partEnd
  /\ partEnd > 0 => partEnd \in text.parts
  /\ read < partEnd => \A e \in text.parts : e <= read \/ partEnd <= e
  /\ read < paragraphEnd => /\ strategy = "section" /\ paragraphEnd \in text.paragraphs
                            /\ \A q \in text.paragraphs : q <= read \/ paragraphEnd <= q

\* Only while a segment is split, its chunk may be an overlap that nothing follows yet.
BufferPlaces ==
  /\ Fresh(buffer) # {} \/ buffer = Empty \/ (strategy = "jira" /\ read < partEnd /\ buffer.count <= OverlapTokens)
  /\ strategy = "jira" /\ buffer = Empty /\ read = partEnd => read = text.size \/ (read = 0 /\ curKind = "body")

TextCollected == IsBuffer(buffer) /\ AreChunks(chunks) /\ Collected(Unscanned, chunks, buffer, read)

Bound == MaxTokens + IF strategy = "jira" THEN 0 ELSE OverlapTokens
SizesBounded ==
  /\ buffer.count <= Bound
  /\ \A i \in DOMAIN chunks : Cardinality(Words(chunks[i].text)) <= Bound

KindsFollow ==
  strategy = "jira" =>
    /\ \A i \in DOMAIN chunks : KindFits(chunks[i], chunks[i].kind, text.parts)
    /\ Fresh(buffer) # {} => KindFits(buffer, curKind, text.parts)
    /\ read < partEnd => (curKind = "body" <=> InFirst(partEnd, text.parts))

ChunkingInv == TextTypes /\ PlaceInText /\ BufferPlaces /\ TextCollected /\ SizesBounded /\ KindsFollow

\* A text that is being cut ends at its last part.
LEMMA TextEnds ==
  ASSUME ChunkingAssumption, TextTypes, strategy # "none"
  PROVE  /\ text.size \in Nat \ {0} /\ text.parts \subseteq 1 .. text.size /\ text.size \in text.parts
         /\ strategy = "section" =>
              /\ text.parts \subseteq text.paragraphs /\ text.paragraphs \subseteq text.sentences
              /\ text.sentences \subseteq 1 .. text.size /\ text.huge \subseteq text.sentences
<1>1. CASE strategy = "jira"
  BY <1>1 DEF ChunkingAssumption, TextTypes
<1>2. CASE strategy = "section"
  BY <1>2 DEF ChunkingAssumption, TextTypes
<1> QED
  BY <1>1, <1>2 DEF TextTypes

\* What may be given up depends on the text alone.
LEMMA UnscannedStays == ASSUME UNCHANGED <<strategy, text>> PROVE Unscanned' = Unscanned
BY DEF Unscanned

\* The next part, while there is one.
LEMMA NextPart ==
  ASSUME ChunkingAssumption, TextTypes, PlaceInText, strategy # "none", read < text.size
  PROVE  /\ NextEnd(text.parts) \in text.parts /\ NextEnd(text.parts) \in Nat
         /\ NextEnd(text.parts) > read /\ NextEnd(text.parts) <= text.size
         /\ \A e \in text.parts : e <= read \/ NextEnd(text.parts) <= e
<1>1. /\ text.parts \subseteq Nat /\ text.parts \subseteq 1 .. text.size
      /\ text.size \in text.parts /\ text.size \in Nat /\ read \in Nat
  BY TextEnds DEF TextTypes
<1>2. /\ NextEnd(text.parts) \in text.parts /\ NextEnd(text.parts) > read /\ NextEnd(text.parts) <= text.size
      /\ \A f \in text.parts : f > read => NextEnd(text.parts) <= f
  BY <1>1, NextEndFollows
<1> QED
  BY <1>1, <1>2

\* A piece is a part of the section, and so is a paragraph that is split.
LEMMA NextPiece ==
  ASSUME ChunkingAssumption, TextTypes, PlaceInText, strategy = "section", read < partEnd
  PROVE  /\ NextEnd(text.paragraphs) \in text.paragraphs /\ NextEnd(text.paragraphs) \in Nat
         /\ NextEnd(text.paragraphs) > read /\ NextEnd(text.paragraphs) <= partEnd
         /\ \A q \in text.paragraphs : q <= read \/ NextEnd(text.paragraphs) <= q
         /\ PieceEnd \in Nat /\ PieceEnd > read /\ PieceEnd <= partEnd
<1>1. /\ text.parts \subseteq text.paragraphs /\ text.paragraphs \subseteq text.sentences /\ text.sentences \subseteq Nat
      /\ read \in Nat /\ partEnd \in Nat /\ paragraphEnd \in Nat /\ paragraphEnd <= partEnd /\ MaxTokens \in Nat \ {0}
  BY TextEnds DEF TextTypes, PlaceInText, ChunkingAssumption
<1>2. partEnd \in text.paragraphs
  BY <1>1 DEF PlaceInText
<1>3. /\ NextEnd(text.paragraphs) \in text.paragraphs /\ NextEnd(text.paragraphs) \in Nat
      /\ NextEnd(text.paragraphs) > read /\ NextEnd(text.paragraphs) <= partEnd
      /\ \A q \in text.paragraphs : q <= read \/ NextEnd(text.paragraphs) <= q
  <2>1. text.paragraphs \subseteq Nat
    BY <1>1
  <2>2. \A q \in text.paragraphs : q > read => NextEnd(text.paragraphs) <= q
    BY <1>1, <1>2, <2>1, NextEndFollows
  <2> QED
    BY <1>1, <1>2, <2>1, <2>2, NextEndFollows
<1>4. CASE read < paragraphEnd
  <2>1. paragraphEnd \in text.sentences
    BY <1>1, <1>4 DEF PlaceInText
  <2>2. /\ NextEnd(text.sentences) \in Nat /\ NextEnd(text.sentences) > read /\ NextEnd(text.sentences) <= paragraphEnd
    BY <1>1, <1>4, <2>1, NextEndFollows
  <2>3. PieceEnd = IF NextEnd(text.sentences) - read <= MaxTokens THEN NextEnd(text.sentences) ELSE read + MaxTokens
    BY <1>4 DEF PieceEnd, HardSplit
  <2> QED
    BY <1>1, <1>3, <2>2, <2>3
<1>5. CASE ~(read < paragraphEnd)
  <2>1. PieceEnd = NextEnd(text.paragraphs)
    BY <1>5 DEF PieceEnd
  <2> QED
    BY <1>3, <2>1
<1> QED
  BY <1>4, <1>5

\* What is flushed is not only an overlap.
LEMMA FlushKeeps ==
  ASSUME TextTypes, TextCollected, BufferPlaces, Fresh(buffer) # {} \/ buffer = Empty
  PROVE  AreChunks(Flushed) /\ Collected(Unscanned, Flushed, Empty, read)
<1>1. Flushed = FlushOf(chunks, buffer, curKind)
  BY DEF Flushed, FlushOf
<1>2. buffer.text = <<>> \/ Fresh(buffer) # {}
  BY NothingCollected
<1> QED
  BY <1>1, <1>2, FlushCollects DEF TextTypes, TextCollected

\* A flush adds a chunk with the words of the buffer, and changes no other.
LEMMA FlushedOnes ==
  ASSUME TextTypes, TextCollected, NEW i \in DOMAIN Flushed
  PROVE  \/ i \in DOMAIN chunks /\ Flushed[i] = chunks[i]
         \/ buffer.text # <<>> /\ Flushed[i] = [text |-> buffer.text, over |-> buffer.over, kind |-> curKind]
<1>1. chunks \in Seq(ChunkRecord)
  BY DEF TextCollected, AreChunks
<1>2. CASE buffer.text = <<>>
  BY <1>2 DEF Flushed
<1>3. CASE buffer.text # <<>>
  <2> DEFINE c == [text |-> buffer.text, over |-> buffer.over, kind |-> curKind]
  <2>1. Flushed = Append(chunks, c)
    BY <1>3 DEF Flushed
  <2> HIDE DEF c
  <2>2. Len(chunks) \in Nat /\ DOMAIN chunks = 1 .. Len(chunks) /\ DOMAIN Flushed = 1 .. Len(chunks) + 1
    BY <1>1, <2>1
  <2>3. i = Len(chunks) + 1 \/ i \in DOMAIN chunks
    BY <2>2
  <2>4. i = Len(chunks) + 1 => Flushed[i] = c
    BY <1>1, <2>1
  <2>5. i \in DOMAIN chunks => Flushed[i] = chunks[i]
    BY <1>1, <2>1, <2>2
  <2> QED
    BY <1>3, <2>3, <2>4, <2>5 DEF c
<1> QED
  BY <1>2, <1>3

\* It has the size and the kind of the buffer.
LEMMA FlushedFits ==
  ASSUME ChunkingAssumption, ChunkingInv, Fresh(buffer) # {} \/ buffer = Empty, NEW i \in DOMAIN Flushed
  PROVE  /\ Cardinality(Words(Flushed[i].text)) <= Bound
         /\ strategy = "jira" => KindFits(Flushed[i], Flushed[i].kind, text.parts)
<1>1. CASE i \in DOMAIN chunks /\ Flushed[i] = chunks[i]
  BY <1>1 DEF ChunkingInv, SizesBounded, KindsFollow
<1>2. CASE buffer.text # <<>> /\ Flushed[i] = [text |-> buffer.text, over |-> buffer.over, kind |-> curKind]
  <2>1. Flushed[i].text = buffer.text /\ Flushed[i].kind = curKind /\ Fresh(Flushed[i]) = Fresh(buffer)
    BY <1>2 DEF Fresh
  <2>2. Fresh(buffer) # {}
    BY <1>2, NothingCollected
  <2>3. Cardinality(Words(buffer.text)) <= buffer.count /\ buffer.count <= Bound
    BY DEF ChunkingInv, TextCollected, IsBuffer, SizesBounded
  <2>4. Cardinality(Words(buffer.text)) \in Nat /\ buffer.count \in Nat /\ Bound \in Int
    <3>1. buffer.text \in Seq(Nat) /\ buffer.count \in Nat
      BY DEF ChunkingInv, TextCollected, IsBuffer, BufferRecord
    <3>2. Bound \in Int
      BY DEF Bound, ChunkingAssumption
    <3> QED
      BY <3>1, <3>2, WordsAreCounted
  <2>5. strategy = "jira" => KindFits(Flushed[i], Flushed[i].kind, text.parts)
    BY <2>1, <2>2 DEF ChunkingInv, KindsFollow, KindFits
  <2> QED
    BY <2>1, <2>3, <2>4, <2>5
<1> QED
  BY <1>1, <1>2, FlushedOnes DEF ChunkingInv

\* Tokens added to a buffer that are of the first part as its kind says, or come after it.
LEMMA KindOfPlus ==
  ASSUME NEW b, IsBuffer(b), NEW n \in Nat, NEW m \in Nat, n < m, NEW p, p = Plus(b, n, m),
         NEW parts, parts \subseteq Nat, NEW kind, Fresh(b) # {} => KindFits(b, kind, parts),
         \/ kind = "body" /\ InFirst(m, parts)
         \/ (\E e \in parts : e <= n) /\ (Fresh(b) = {} => kind # "body")
  PROVE  KindFits(p, kind, parts)
<1>1. Adds(b, p, n, m)
  BY PlusAdds
<1> DEFINE z == Len(b.text)
<1>2. z \in Nat /\ z + 1 \in Fresh(p) /\ p.text[z + 1] = n + 1
  BY <1>1, 1 \in 1 .. m - n DEF Adds
<1>3. CASE kind = "body" /\ InFirst(m, parts)
  <2>1. InFirst(n + 1, parts)
    BY <1>3 DEF InFirst
  <2> QED
    BY <1>2, <1>3, <2>1 DEF KindFits
<1>4. CASE (\E e \in parts : e <= n) /\ (Fresh(b) = {} => kind # "body")
  <2>1. ASSUME NEW k \in Fresh(p), k \notin Fresh(b) PROVE ~InFirst(p.text[k], parts)
    <3>1. k > z /\ p.text[k] = n + (k - z) /\ k \in Int
      <4>1. p.text \in Seq(Nat)
        BY <1>1 DEF Adds, IsBuffer, BufferRecord
      <4>2. DOMAIN p.text \subseteq Int
        BY <4>1
      <4> QED
        BY <4>2, <2>1, <1>1 DEF Adds, Fresh, Words
    <3> HIDE DEF z
    <3>2. \A e \in parts : e <= n => ~(n + (k - z) <= e)
      BY <3>1, <1>2
    <3> QED
      BY <3>1, <3>2, <1>4 DEF InFirst
  <2>2. \A k \in Fresh(b) : k \in Fresh(p) /\ p.text[k] = b.text[k]
    BY <1>1 DEF Adds
  <2>3. (\E k \in Fresh(p) : InFirst(p.text[k], parts)) <=> (\E k \in Fresh(b) : InFirst(b.text[k], parts))
    BY <2>1, <2>2
  <2> QED
    BY <2>3, <1>4 DEF KindFits
<1> QED
  BY <1>3, <1>4

---------------------------------------------------------------------------
\* A text begins.
LEMMA BeginKeeps ==
  ASSUME ChunkingAssumption, ChunkingInv, ChunkIssue \/ ChunkBody
  PROVE  ChunkingInv'
<1>1. text'.size \in Nat /\ strategy' \in {"jira", "section"} /\ strategy = "none"
  BY DEF ChunkIssue, ChunkBody, ChunkingAssumption
<1>2. /\ partEnd = 0 /\ read = 0 /\ paragraphEnd \in Nat /\ paragraphEnd <= 0 /\ buffer = Empty /\ chunks = <<>>
      /\ curKind = "body" /\ first \in Nat
  BY <1>1 DEF ChunkingInv, TextTypes, PlaceInText
<1>3. UNCHANGED <<read, partEnd, paragraphEnd, buffer, first, chunks>>
  BY DEF ChunkIssue, ChunkBody
<1>4. TextTypes'
  BY <1>1, <1>2, <1>3 DEF ChunkIssue, ChunkBody, TextTypes, Kinds
<1>5. PlaceInText'
  BY <1>1, <1>2, <1>3 DEF PlaceInText
<1>6. BufferPlaces'
  BY <1>2, <1>3 DEF BufferPlaces, ChunkIssue, ChunkBody
<1>7. TextCollected'
  <2>1. AreIn(Unscanned', chunks', buffer', read')
    BY <1>2, <1>3 DEF AreIn
  <2>2. IsBuffer(buffer) /\ AreChunks(chunks) /\ InOrder(chunks, read) /\ FitsAtEnd(chunks, buffer, read)
    BY DEF ChunkingInv, TextCollected, Collected
  <2> QED
    BY <2>1, <2>2, <1>3 DEF TextCollected, Collected
<1>8. SizesBounded'
  <2>1. Bound' \in Nat
    BY DEF Bound, ChunkingAssumption
  <2>2. buffer'.count = 0 /\ DOMAIN chunks' = {}
    BY <1>2, <1>3, NothingCollected
  <2> QED
    BY <2>1, <2>2 DEF SizesBounded
<1>9. KindsFollow'
  <2>1. DOMAIN chunks' = {} /\ Fresh(buffer') = {}
    BY <1>2, <1>3, NothingCollected
  <2> QED
    BY <2>1, <1>2, <1>3 DEF KindsFollow
<1> QED
  BY <1>4, <1>5, <1>6, <1>7, <1>8, <1>9 DEF ChunkingInv

\* What Plus makes of a buffer.
LEMMA PlusKeeps ==
  ASSUME NEW done, AreChunks(done), NEW b, IsBuffer(b), NEW n \in Nat, NEW m \in Nat, n < m,
         Collected(Unscanned, done, b, n), NEW p, p = Plus(b, n, m)
  PROVE  /\ IsBuffer(p) /\ Collected(Unscanned, done, p, m) /\ p.count = b.count + (m - n)
         /\ Fresh(p) # {} /\ p # Empty
<1>1. Adds(b, p, n, m)
  BY PlusAdds
<1>2. Len(b.text) + 1 \in Fresh(p)
  BY <1>1, 1 \in 1 .. m - n DEF Adds
<1>3. Collected(Unscanned, done, p, m)
  BY PlusCollects
<1> QED
  BY <1>1, <1>2, <1>3, NothingCollected DEF Adds

\* Where the parts of an issue begin, its kinds change.
LEMMA KindOfNext ==
  ASSUME ChunkingAssumption, ChunkingInv, strategy = "jira", read = partEnd, read < text.size
  PROVE  /\ InFirst(NextEnd(text.parts), text.parts) <=> read = 0
         /\ read > 0 => \E e \in text.parts : e <= read
         /\ Fresh(buffer) # {} => read > 0
<1>1. /\ text.parts \subseteq 1 .. text.size /\ read \in Nat
      /\ NextEnd(text.parts) > read /\ NextEnd(text.parts) \in Nat
      /\ \A e \in text.parts : e <= read \/ NextEnd(text.parts) <= e
  BY TextEnds, NextPart DEF ChunkingInv, TextTypes
<1>2. read > 0 => read \in text.parts
  BY DEF ChunkingInv, PlaceInText
<1>3. read = 0 => InFirst(NextEnd(text.parts), text.parts)
  BY <1>1 DEF InFirst
<1>4. read > 0 => ~InFirst(NextEnd(text.parts), text.parts)
  BY <1>1, <1>2 DEF InFirst
<1>5. ASSUME Fresh(buffer) # {} PROVE read > 0
  <2>1. PICK k \in Fresh(buffer) : TRUE
    BY <1>5
  <2>2. buffer.text \in Seq(Nat)
    BY DEF ChunkingInv, TextCollected, IsBuffer, BufferRecord
  <2>3. k \in DOMAIN buffer.text /\ buffer.text[k] # 0
    BY DEF Fresh, Words, Separator
  <2>4. buffer.text[k] \in Nat
    BY <2>2, <2>3
  <2>5. buffer.text[k] <= read
    BY DEF ChunkingInv, TextCollected, Collected, FitsAtEnd, IsUpTo
  <2> QED
    BY <2>3, <2>4, <2>5, <1>1
<1> QED
  BY <1>1, <1>2, <1>3, <1>4, <1>5

\* A segment that fits is added.
LEMMA SegmentKeeps ==
  ASSUME ChunkingAssumption, ChunkingInv, AddSegment
  PROVE  ChunkingInv'
<1> DEFINE end == NextEnd(text.parts)
<1>1. /\ strategy = "jira" /\ read = partEnd /\ read < text.size /\ buffer.count + (end - read) <= MaxTokens
      /\ read' = end /\ partEnd' = end /\ buffer' = Plus(buffer, read, end)
      /\ UNCHANGED <<strategy, text, paragraphEnd, curKind, first, chunks>>
  BY DEF AddSegment, FitsSegment
<1>2. /\ end \in text.parts /\ end \in Nat /\ end > read /\ end <= text.size
      /\ \A e \in text.parts : e <= read \/ end <= e
  BY <1>1, NextPart DEF ChunkingInv
<1>3. /\ (InFirst(end, text.parts) <=> read = 0) /\ (Fresh(buffer) # {} => read > 0)
      /\ (read > 0 => \E e \in text.parts : e <= read)
  BY <1>1, KindOfNext
<1> HIDE DEF end
<1>4. read \in Nat /\ TextTypes /\ PlaceInText /\ BufferPlaces /\ TextCollected /\ SizesBounded /\ KindsFollow
  BY DEF ChunkingInv, TextTypes
<1>5. /\ IsBuffer(buffer') /\ Collected(Unscanned, chunks, buffer', end) /\ buffer'.count = buffer.count + (end - read)
      /\ Fresh(buffer') # {} /\ buffer' # Empty
  BY <1>1, <1>2, <1>4, PlusKeeps DEF TextCollected
<1>6. TextTypes'
  BY <1>1, <1>2, <1>4 DEF TextTypes
<1>7. PlaceInText'
  BY <1>1, <1>2, <1>4 DEF PlaceInText, TextTypes
<1>8. BufferPlaces'
  BY <1>5 DEF BufferPlaces
<1>9. TextCollected'
  BY <1>1, <1>4, <1>5, UnscannedStays DEF TextCollected
<1>10. SizesBounded'
  <2>1. Bound = MaxTokens /\ Bound' = MaxTokens
    BY <1>1 DEF Bound, ChunkingAssumption
  <2>2. buffer'.count <= MaxTokens
    BY <1>1, <1>5
  <2> QED
    BY <2>1, <2>2, <1>1, <1>4 DEF SizesBounded
<1>11. KindsFollow'
  <2>1. Fresh(buffer) = {} => read = 0 /\ curKind = "body"
    BY <1>1, <1>4 DEF BufferPlaces
  <2>2. Fresh(buffer) # {} => KindFits(buffer, curKind, text.parts)
    BY <1>1, <1>4 DEF KindsFollow
  <2>3. \/ curKind = "body" /\ InFirst(end, text.parts)
        \/ (\E e \in text.parts : e <= read) /\ (Fresh(buffer) = {} => curKind # "body")
    BY <1>3, <2>1
  <2>4. text.parts \subseteq Nat
    BY <1>1, <1>4, TextEnds
  <2>5. KindFits(buffer', curKind, text.parts)
    BY <1>1, <1>2, <1>4, <2>2, <2>3, <2>4, KindOfPlus DEF TextCollected
  <2> QED
    BY <1>1, <1>2, <1>4, <2>5 DEF KindsFollow
<1> QED
  BY <1>6, <1>7, <1>8, <1>9, <1>10, <1>11 DEF ChunkingInv

\* The chunk is closed for a segment that does not fit, and the next begins with its end.
LEMMA ClosingKeeps ==
  ASSUME ChunkingAssumption, ChunkingInv, CloseForSegment
  PROVE  ChunkingInv'
<1> DEFINE end == NextEnd(text.parts)
<1>1. /\ strategy = "jira" /\ read = partEnd /\ read < text.size
      /\ partEnd' = end /\ chunks' = Flushed /\ buffer' = Overlap(Flushed)
      /\ curKind' = IF read = 0 THEN "body" ELSE "comment"
      /\ UNCHANGED <<strategy, text, read, paragraphEnd, first>>
  BY DEF CloseForSegment
<1>2. /\ end \in text.parts /\ end \in Nat /\ end > read /\ end <= text.size
      /\ \A e \in text.parts : e <= read \/ end <= e
  BY <1>1, NextPart DEF ChunkingInv
<1>3. InFirst(end, text.parts) <=> read = 0
  BY <1>1, KindOfNext
<1> HIDE DEF end
<1>4. /\ read \in Nat /\ TextTypes /\ PlaceInText /\ BufferPlaces /\ TextCollected /\ SizesBounded /\ KindsFollow
      /\ OverlapTokens \in Nat /\ OverlapTokens < MaxTokens /\ MaxTokens \in Nat /\ first \in Nat
  BY DEF ChunkingInv, TextTypes, ChunkingAssumption
<1>5. Fresh(buffer) # {} \/ buffer = Empty
  BY <1>1, <1>4 DEF BufferPlaces
<1>6. AreChunks(chunks') /\ Collected(Unscanned, chunks', Empty, read)
  BY <1>1, <1>4, <1>5, FlushKeeps
<1>7. IsBuffer(buffer') /\ buffer'.count <= OverlapTokens /\ Fresh(buffer') = {} /\ Collected(Unscanned, chunks', buffer', read)
  BY <1>1, <1>4, <1>6, TailCollects
<1>8. \A i \in DOMAIN chunks' : /\ Cardinality(Words(chunks'[i].text)) <= Bound
                                /\ KindFits(chunks'[i], chunks'[i].kind, text.parts)
  BY <1>1, <1>5, FlushedFits
<1>9. TextTypes'
  BY <1>1, <1>2, <1>4 DEF TextTypes, Kinds
<1>10. PlaceInText'
  BY <1>1, <1>2, <1>4 DEF PlaceInText, TextTypes
<1>11. BufferPlaces'
  BY <1>1, <1>2, <1>7 DEF BufferPlaces
<1>12. TextCollected'
  BY <1>1, <1>6, <1>7, UnscannedStays DEF TextCollected
<1>13. SizesBounded'
  <2>1. buffer'.count \in Nat
    BY <1>7 DEF IsBuffer, BufferRecord
  <2> QED
    BY <2>1, <1>1, <1>4, <1>7, <1>8 DEF SizesBounded, Bound
<1>14. KindsFollow'
  BY <1>1, <1>3, <1>7, <1>8 DEF KindsFollow
<1> QED
  BY <1>9, <1>10, <1>11, <1>12, <1>13, <1>14 DEF ChunkingInv

\* A turn of the loop that drains a segment.
LEMMA DrainKeeps ==
  ASSUME ChunkingAssumption, ChunkingInv, DrainSegment
  PROVE  ChunkingInv'
<1> DEFINE full == BudgetOf(buffer) <= 0
           b == IF full THEN Overlap(Flushed) ELSE buffer
           done == IF full THEN Flushed ELSE chunks
           take == IF BudgetOf(b) < partEnd - read THEN BudgetOf(b) ELSE partEnd - read
           n == read + take
<1>1. /\ strategy = "jira" /\ read < partEnd
      /\ chunks' = done /\ read' = n /\ buffer' = Plus(b, read, n)
      /\ UNCHANGED <<strategy, text, partEnd, paragraphEnd, curKind, first>>
  BY DEF DrainSegment
<1>2. /\ read \in Nat /\ partEnd \in Nat
      /\ TextTypes /\ PlaceInText /\ BufferPlaces /\ TextCollected /\ SizesBounded /\ KindsFollow
      /\ OverlapTokens \in Nat /\ OverlapTokens < MaxTokens /\ MaxTokens \in Nat /\ MaxTokens > 0 /\ first \in Nat
      /\ buffer.count \in Nat
  BY DEF ChunkingInv, TextTypes, ChunkingAssumption, TextCollected, IsBuffer, BufferRecord
<1>3. ASSUME full PROVE Fresh(buffer) # {}
  <2>1. buffer.count >= MaxTokens
    BY <1>2, <1>3 DEF BudgetOf
  <2>2. buffer # Empty
    BY <2>1, <1>2, NothingCollected
  <2> QED
    BY <2>1, <2>2, <1>2 DEF BufferPlaces
<1>4. ASSUME full PROVE AreChunks(Flushed) /\ Collected(Unscanned, Flushed, Empty, read)
  BY <1>2, <1>3, <1>4, FlushKeeps
<1>5. ASSUME full
      PROVE  IsBuffer(b) /\ b.count <= OverlapTokens /\ Fresh(b) = {} /\ Collected(Unscanned, Flushed, b, read)
  <2>1. b = Overlap(Flushed)
    BY <1>5
  <2> HIDE DEF b
  <2> QED
    BY <2>1, <1>2, <1>4, <1>5, TailCollects
<1>6. /\ AreChunks(done) /\ IsBuffer(b) /\ Collected(Unscanned, done, b, read) /\ b.count < MaxTokens
      /\ Fresh(b) # {} => KindFits(b, curKind, text.parts)
  <2>1. CASE full
    <3>1. b.count \in Nat
      BY <2>1, <1>5 DEF IsBuffer, BufferRecord
    <3>2. done = Flushed
      BY <2>1
    <3> HIDE DEF b, done
    <3> QED
      BY <2>1, <3>1, <3>2, <1>2, <1>4, <1>5
  <2>2. CASE ~full
    <3>1. b = buffer /\ done = chunks
      BY <2>2
    <3>2. buffer.count < MaxTokens
      BY <2>2, <1>2 DEF BudgetOf
    <3> HIDE DEF b, done
    <3> QED
      BY <3>1, <3>2, <1>1, <1>2 DEF TextCollected, KindsFollow
  <2> QED
    BY <2>1, <2>2
<1>7. \A i \in DOMAIN done : Cardinality(Words(done[i].text)) <= Bound /\ KindFits(done[i], done[i].kind, text.parts)
  <2>1. CASE full
    <3>1. done = Flushed
      BY <2>1
    <3> HIDE DEF done
    <3> QED
      BY <3>1, <2>1, <1>1, <1>3, FlushedFits
  <2>2. CASE ~full
    <3>1. done = chunks
      BY <2>2
    <3> HIDE DEF done
    <3> QED
      BY <3>1, <1>1, <1>2 DEF SizesBounded, KindsFollow
  <2> QED
    BY <2>1, <2>2
<1> HIDE DEF b, done
<1>8. b.count \in Nat
  BY <1>6 DEF IsBuffer, BufferRecord
<1>9. take \in Nat /\ take > 0 /\ take <= partEnd - read /\ b.count + take <= MaxTokens
  BY <1>1, <1>2, <1>6, <1>8 DEF BudgetOf
<1> HIDE DEF take
<1>10. n \in Nat /\ read < n /\ n <= partEnd /\ n - read = take
  BY <1>2, <1>9
<1> HIDE DEF n
<1>11. /\ IsBuffer(buffer') /\ Collected(Unscanned, done, buffer', n) /\ buffer'.count = b.count + take
       /\ Fresh(buffer') # {} /\ buffer' # Empty
  BY <1>1, <1>2, <1>6, <1>10, PlusKeeps
<1>12. TextTypes'
  BY <1>1, <1>2, <1>10 DEF TextTypes
<1>13. PlaceInText'
  <2>1. \A e \in text.parts : e <= n \/ partEnd <= e
    <3>1. text.parts \subseteq Nat /\ \A e \in text.parts : e <= read \/ partEnd <= e
      BY <1>1, <1>2, TextEnds DEF PlaceInText
    <3>2. \A e \in Nat : e <= read => e <= n
      BY <1>2, <1>10
    <3> QED
      BY <3>1, <3>2
  <2>2. paragraphEnd \in Nat /\ (n < paragraphEnd => read < paragraphEnd)
    BY <1>2, <1>10 DEF TextTypes
  <2> QED
    BY <2>1, <2>2, <1>1, <1>2, <1>10 DEF PlaceInText
<1>14. BufferPlaces'
  BY <1>11 DEF BufferPlaces
<1>15. TextCollected'
  BY <1>1, <1>6, <1>11, UnscannedStays DEF TextCollected
<1>16. SizesBounded'
  <2>1. Bound = MaxTokens /\ Bound' = MaxTokens
    BY <1>1, <1>2 DEF Bound
  <2>2. buffer'.count <= MaxTokens
    BY <1>9, <1>11
  <2> QED
    BY <2>1, <2>2, <1>1, <1>7 DEF SizesBounded
<1>17. KindsFollow'
  <2>1. text.parts \subseteq Nat
    BY <1>1, <1>2, TextEnds
  <2>2. CASE InFirst(partEnd, text.parts)
    <3>1. curKind = "body"
      BY <2>2, <1>1, <1>2 DEF KindsFollow
    <3>2. InFirst(n, text.parts)
      BY <2>1, <2>2, <1>2, <1>10 DEF InFirst
    <3>3. KindFits(buffer', curKind, text.parts)
      BY <3>1, <3>2, <2>1, <1>1, <1>2, <1>6, <1>10, KindOfPlus
    <3> QED
      BY <3>3, <1>1, <1>2, <1>7 DEF KindsFollow
  <2>3. CASE ~InFirst(partEnd, text.parts)
    <3>1. curKind # "body"
      BY <2>3, <1>1, <1>2 DEF KindsFollow
    <3>2. \E e \in text.parts : e <= read
      BY <2>1, <2>3, <1>1, <1>2 DEF InFirst, PlaceInText
    <3>3. KindFits(buffer', curKind, text.parts)
      BY <3>1, <3>2, <2>1, <1>1, <1>2, <1>6, <1>10, KindOfPlus
    <3> QED
      BY <3>1, <3>3, <2>3, <1>1, <1>2, <1>7 DEF KindsFollow
  <2> QED
    BY <2>2, <2>3
<1> QED
  BY <1>12, <1>13, <1>14, <1>15, <1>16, <1>17 DEF ChunkingInv

\* A section that fits is a chunk; one that does not is to be split.
LEMMA SectionKeeps ==
  ASSUME ChunkingAssumption, ChunkingInv, TakeSection
  PROVE  ChunkingInv'
<1> DEFINE end == NextEnd(text.parts)
           gaps == {p \in text.paragraphs : read < p /\ p < end}
           p == Plus(Empty, read, end)
<1>1. /\ strategy = "section" /\ read = partEnd /\ buffer = Empty /\ read < text.size /\ partEnd' = end
      /\ UNCHANGED <<strategy, text, paragraphEnd, buffer, curKind>>
  BY DEF TakeSection
<1>2. \/ /\ (end - read) + Cardinality(gaps) <= MaxTokens
         /\ chunks' = Append(chunks, [text |-> Span(read, end), over |-> 0, kind |-> curKind])
         /\ read' = end /\ first' = first
      \/ first' = Len(chunks) /\ chunks' = chunks /\ read' = read
  BY DEF TakeSection
<1>3. /\ end \in text.parts /\ end \in Nat /\ end > read /\ end <= text.size
      /\ \A e \in text.parts : e <= read \/ end <= e
  BY <1>1, NextPart DEF ChunkingInv
<1>4. Cardinality(gaps) \in Nat
  <2>1. text.size \in Int /\ 1 \in Int /\ text.paragraphs \subseteq 1 .. text.size
    BY <1>1, TextEnds DEF ChunkingInv
  <2>2. IsFiniteSet(1 .. text.size) /\ gaps \subseteq 1 .. text.size
    BY <2>1, FS_Interval
  <2> QED
    BY <2>2, FS_Subset, FS_CardinalityType
<1>5. /\ read \in Nat /\ paragraphEnd \in Nat /\ TextTypes /\ PlaceInText /\ TextCollected /\ SizesBounded
      /\ AreChunks(chunks) /\ Collected(Unscanned, chunks, Empty, read) /\ Len(chunks) \in Nat
      /\ OverlapTokens \in Nat /\ MaxTokens \in Nat /\ curKind \in Kinds
  BY <1>1 DEF ChunkingInv, TextTypes, ChunkingAssumption, TextCollected, AreChunks
<1> HIDE DEF end, gaps
<1>6. TextTypes'
  BY <1>1, <1>2, <1>3, <1>5 DEF TextTypes
<1>7. PlaceInText'
  BY <1>1, <1>2, <1>3, <1>5 DEF PlaceInText
<1>8. BufferPlaces'
  BY <1>1 DEF BufferPlaces
<1>9. KindsFollow'
  BY <1>1 DEF KindsFollow
<1>10. Bound = MaxTokens + OverlapTokens /\ Bound' = Bound
  BY <1>1 DEF Bound
<1>11. CASE first' = Len(chunks) /\ chunks' = chunks /\ read' = read
  <2>1. TextCollected' /\ SizesBounded'
    BY <1>1, <1>5, <1>10, <1>11, UnscannedStays DEF TextCollected, SizesBounded
  <2> QED
    BY <2>1, <1>6, <1>7, <1>8, <1>9 DEF ChunkingInv
<1>12. CASE /\ (end - read) + Cardinality(gaps) <= MaxTokens
            /\ chunks' = Append(chunks, [text |-> Span(read, end), over |-> 0, kind |-> curKind])
            /\ read' = end
  <2>1. p.text = Span(read, end) /\ p.over = 0
    <3>1. p.text = <<>> \o Span(read, end) /\ p.over = 0
      BY DEF Plus, Empty
    <3>2. Span(read, end) \in Seq(Nat)
      BY <1>3, <1>5 DEF Span
    <3>3. <<>> \o Span(read, end) = Span(read, end)
      BY <3>2
    <3> QED
      BY <3>1, <3>3
  <2>2. IsBuffer(p) /\ Collected(Unscanned, chunks, p, end) /\ p.count = end - read /\ Fresh(p) # {}
    <3>1. p.count = Empty.count + (end - read) /\ IsBuffer(p) /\ Collected(Unscanned, chunks, p, end) /\ Fresh(p) # {}
      <4>1. p = Plus(Empty, read, end)
        OBVIOUS
      <4> HIDE DEF p
      <4> QED
        BY <4>1, <1>3, <1>5, PlusKeeps, NothingCollected
    <3>2. Empty.count = 0
      BY NothingCollected
    <3> QED
      BY <3>1, <3>2, <1>3, <1>5
  <2> HIDE DEF p
  <2>3. chunks' = FlushOf(chunks, p, curKind)
    <3>1. p.text # <<>>
      BY <2>2 DEF Fresh, Words
    <3> QED
      BY <3>1, <2>1, <1>12 DEF FlushOf
  <2>4. AreChunks(chunks') /\ Collected(Unscanned, chunks', Empty, end)
    BY <2>2, <2>3, <1>3, <1>5, FlushCollects
  <2>5. TextCollected'
    BY <2>4, <1>1, <1>12, NothingCollected, UnscannedStays DEF TextCollected
  <2>6. Cardinality(Words(p.text)) <= Bound
    <3>1. Cardinality(Words(p.text)) <= end - read /\ end - read <= MaxTokens
      BY <2>2, <1>3, <1>4, <1>5, <1>12 DEF IsBuffer
    <3>2. Cardinality(Words(p.text)) \in Nat
      BY <2>2, WordsAreCounted DEF IsBuffer, BufferRecord
    <3> QED
      BY <3>1, <3>2, <1>3, <1>5, <1>10
  <2>7. ASSUME NEW i \in DOMAIN chunks' PROVE Cardinality(Words(chunks'[i].text)) <= Bound
    <3>1. chunks \in Seq(ChunkRecord)
      BY <1>5 DEF AreChunks
    <3> DEFINE c == [text |-> p.text, over |-> 0, kind |-> curKind]
    <3>2. chunks' = Append(chunks, c)
      BY <2>1, <1>12
    <3>3. c.text = p.text
      OBVIOUS
    <3> HIDE DEF c
    <3>4. (i \in DOMAIN chunks /\ chunks'[i] = chunks[i]) \/ chunks'[i] = c
      BY <3>1, <3>2
    <3> QED
      BY <3>3, <3>4, <2>6, <1>5 DEF SizesBounded
  <2>8. SizesBounded'
    BY <2>7, <1>1, <1>5, <1>10 DEF SizesBounded
  <2> QED
    BY <2>5, <2>8, <1>6, <1>7, <1>8, <1>9 DEF ChunkingInv
<1> QED
  BY <1>2, <1>11, <1>12

\* A paragraph that is too long closes the chunk.
LEMMA SplittingKeeps ==
  ASSUME ChunkingAssumption, ChunkingInv, SplitBySentences
  PROVE  ChunkingInv'
<1>1. /\ strategy = "section" /\ read < partEnd /\ paragraphEnd' = NextEnd(text.paragraphs)
      /\ chunks' = Flushed /\ buffer' = Empty
      /\ UNCHANGED <<strategy, text, read, partEnd, curKind, first>>
  BY DEF SplitBySentences
<1>2. /\ NextEnd(text.paragraphs) \in text.paragraphs /\ NextEnd(text.paragraphs) \in Nat
      /\ NextEnd(text.paragraphs) <= partEnd
      /\ \A q \in text.paragraphs : q <= read \/ NextEnd(text.paragraphs) <= q
  BY <1>1, NextPiece DEF ChunkingInv
<1>3. TextTypes /\ PlaceInText /\ BufferPlaces /\ TextCollected /\ OverlapTokens \in Nat /\ MaxTokens \in Nat
  BY DEF ChunkingInv, ChunkingAssumption
<1>4. Fresh(buffer) # {} \/ buffer = Empty
  BY <1>1, <1>3 DEF BufferPlaces
<1>5. AreChunks(chunks') /\ Collected(Unscanned, chunks', Empty, read)
  BY <1>1, <1>3, <1>4, FlushKeeps
<1>6. TextTypes'
  BY <1>1, <1>2, <1>3 DEF TextTypes
<1>7. PlaceInText'
  BY <1>1, <1>2, <1>3 DEF PlaceInText
<1>8. BufferPlaces'
  BY <1>1 DEF BufferPlaces
<1>9. TextCollected'
  BY <1>1, <1>5, NothingCollected, UnscannedStays DEF TextCollected
<1>10. SizesBounded'
  <2>1. Bound' = Bound /\ Bound \in Nat
    BY <1>1, <1>3 DEF Bound
  <2>2. \A i \in DOMAIN chunks' : Cardinality(Words(chunks'[i].text)) <= Bound
    BY <1>1, <1>4, FlushedFits
  <2> QED
    BY <2>1, <2>2, <1>1, NothingCollected DEF SizesBounded
<1>11. KindsFollow'
  BY <1>1 DEF KindsFollow
<1> QED
  BY <1>6, <1>7, <1>8, <1>9, <1>10, <1>11 DEF ChunkingInv

\* Tokens that may be lost are read without being collected.
LEMMA GivenUp ==
  ASSUME NEW done, AreChunks(done), NEW b, IsBuffer(b), NEW n \in Nat, NEW m \in Nat, n <= m,
         Collected(Unscanned, done, b, n), n + 1 .. m \subseteq Unscanned
  PROVE  Collected(Unscanned, done, b, m)
<1>1. ASSUME NEW c, c.text \in Seq(Nat), IsUpTo(c, n) PROVE IsUpTo(c, m)
  <2> SUFFICES ASSUME NEW k \in Fresh(c) PROVE c.text[k] <= m
    BY DEF IsUpTo
  <2>1. c.text[k] \in Nat
    BY <1>1 DEF Fresh, Words
  <2>2. c.text[k] <= n
    BY <1>1 DEF IsUpTo
  <2> QED
    BY <2>1, <2>2
<1>2. b.text \in Seq(Nat) /\ \A i \in DOMAIN done : done[i].text \in Seq(Nat)
  <2>1. b.text \in Seq(Nat)
    BY DEF IsBuffer, BufferRecord
  <2>2. \A i \in DOMAIN done : done[i] \in ChunkRecord
    BY DEF AreChunks
  <2>3. \A c \in ChunkRecord : c.text \in Seq(Nat)
    BY DEF ChunkRecord
  <2> QED
    BY <2>1, <2>2, <2>3
<1>3. IsUpTo(b, m) /\ \A i \in DOMAIN done : IsUpTo(done[i], m)
  BY <1>1, <1>2 DEF Collected, InOrder, FitsAtEnd
<1>4. \A x \in (1 .. m) \ Unscanned : x \in (1 .. n) \ Unscanned
  OBVIOUS
<1>5. AreIn(Unscanned, done, b, m)
  BY <1>4 DEF Collected, AreIn
<1> QED
  BY <1>3, <1>5 DEF Collected, InOrder, FitsAtEnd

\* The scanner gives up a sentence, and the rest of its paragraph.
LEMMA ScanKeeps ==
  ASSUME ChunkingAssumption, ChunkingInv, StopScan
  PROVE  ChunkingInv'
<1> DEFINE e == NextEnd(text.sentences)
<1>1. /\ strategy = "section" /\ read < paragraphEnd /\ e \in text.huge /\ read' = paragraphEnd
      /\ UNCHANGED <<strategy, text, partEnd, paragraphEnd, buffer, curKind, first, chunks>>
  BY DEF StopScan, IsTooLong
<1>2. /\ TextTypes /\ PlaceInText /\ BufferPlaces /\ TextCollected /\ SizesBounded
      /\ read \in Nat /\ paragraphEnd \in Nat /\ partEnd \in Nat
  BY DEF ChunkingInv, TextTypes
<1>3. /\ text.paragraphs \subseteq text.sentences /\ text.sentences \subseteq Nat /\ text.size \in Nat
      /\ text.parts \subseteq Nat
  BY <1>1, <1>2, TextEnds
<1>4. /\ paragraphEnd \in text.paragraphs /\ paragraphEnd <= partEnd /\ partEnd <= text.size
      /\ \A q \in text.paragraphs : q <= read \/ paragraphEnd <= q
  BY <1>1, <1>2 DEF PlaceInText
<1>5. e \in Nat /\ e > read /\ \A s \in text.sentences : s > read => e <= s
  <2>1. paragraphEnd \in text.sentences
    BY <1>3, <1>4
  <2> QED
    BY <1>1, <1>2, <1>3, <2>1, NextEndFollows
<1> HIDE DEF e
<1>6. read + 1 .. paragraphEnd \subseteq Unscanned
  <2> SUFFICES ASSUME NEW n \in read + 1 .. paragraphEnd PROVE n \in Unscanned
    OBVIOUS
  <2>1. n \in 1 .. text.size /\ read < n /\ n <= paragraphEnd
    BY <1>2, <1>3, <1>4
  <2>2. \A s \in text.sentences : s < e => s < n
    BY <2>1, <1>2, <1>3, <1>5
  <2>3. \A q \in text.paragraphs : e <= q => n <= q
    BY <2>1, <1>2, <1>3, <1>4, <1>5
  <2> QED
    BY <2>1, <2>2, <2>3, <1>1 DEF Unscanned
<1>7. TextTypes'
  BY <1>1, <1>2 DEF TextTypes
<1>8. PlaceInText'
  <2>1. read < partEnd
    BY <1>1, <1>2, <1>4
  <2>2. \A p \in text.parts : p <= paragraphEnd \/ partEnd <= p
    <3>1. \A p \in text.parts : p <= read \/ partEnd <= p
      BY <2>1, <1>2 DEF PlaceInText
    <3>2. \A p \in Nat : p <= read => p <= paragraphEnd
      BY <1>1, <1>2
    <3> QED
      BY <3>1, <3>2, <1>3
  <2> QED
    BY <2>2, <1>1, <1>2, <1>4 DEF PlaceInText
<1>9. BufferPlaces'
  BY <1>1, <1>2 DEF BufferPlaces
<1>10. TextCollected'
  <2>1. Collected(Unscanned, chunks, buffer, paragraphEnd)
    BY <1>1, <1>2, <1>6, GivenUp DEF TextCollected
  <2> QED
    BY <2>1, <1>1, <1>2, UnscannedStays DEF TextCollected
<1>11. SizesBounded'
  BY <1>1, <1>2 DEF SizesBounded, Bound
<1>12. KindsFollow'
  BY <1>1 DEF KindsFollow
<1> QED
  BY <1>7, <1>8, <1>9, <1>10, <1>11, <1>12 DEF ChunkingInv

\* A paragraph, or a piece of one, is added after an empty line.
LEMMA PackKeeps ==
  ASSUME ChunkingAssumption, ChunkingInv, PackPiece
  PROVE  ChunkingInv'
<1> DEFINE closes == buffer.count + (PieceEnd - read) + 2 > MaxTokens
           o == Overlap(Flushed)
           b == IF closes THEN WithGap(o) ELSE buffer
           g == WithGap(b)
           done == IF closes THEN Flushed ELSE chunks
           n == PieceEnd
<1>1. /\ strategy = "section" /\ read < partEnd /\ n - read <= MaxTokens
      /\ chunks' = done /\ read' = n /\ buffer' = Plus(g, read, n)
      /\ UNCHANGED <<strategy, text, partEnd, paragraphEnd, curKind, first>>
  BY DEF PackPiece
<1>2. n \in Nat /\ read < n /\ n <= partEnd
  BY <1>1, NextPiece DEF ChunkingInv
<1>3. /\ read \in Nat /\ partEnd \in Nat /\ TextTypes /\ PlaceInText /\ BufferPlaces /\ TextCollected /\ SizesBounded
      /\ OverlapTokens \in Nat /\ MaxTokens \in Nat /\ first \in Nat /\ buffer.count \in Nat
  BY DEF ChunkingInv, TextTypes, ChunkingAssumption, TextCollected, IsBuffer, BufferRecord
<1>4. Fresh(buffer) # {} \/ buffer = Empty
  BY <1>1, <1>3 DEF BufferPlaces
<1>5. AreChunks(Flushed) /\ Collected(Unscanned, Flushed, Empty, read)
  BY <1>1, <1>3, <1>4, FlushKeeps
<1>6. IsBuffer(o) /\ o.count <= OverlapTokens /\ Collected(Unscanned, Flushed, o, read)
  <2> HIDE DEF o
  <2>1. o = Overlap(Flushed)
    BY DEF o
  <2> QED
    BY <2>1, <1>1, <1>3, <1>5, TailCollects
<1> HIDE DEF o, n
<1>7. Bound = MaxTokens + OverlapTokens /\ Bound' = Bound
  BY <1>1 DEF Bound
<1>8. /\ AreChunks(done) /\ IsBuffer(b) /\ Collected(Unscanned, done, b, read) /\ b.count + (n - read) <= Bound
      /\ \A i \in DOMAIN done : Cardinality(Words(done[i].text)) <= Bound
  <2>1. CASE closes
    <3>1. b = WithGap(o) /\ done = Flushed
      BY <2>1
    <3> HIDE DEF b, done
    <3>2. IsBuffer(b) /\ b.count = o.count /\ Collected(Unscanned, done, b, read)
      BY <3>1, <1>3, <1>6, GapAdds, GapCollects
    <3>3. b.count \in Nat
      BY <3>2 DEF IsBuffer, BufferRecord
    <3>4. b.count + (n - read) <= Bound
      BY <3>2, <3>3, <1>1, <1>2, <1>3, <1>6, <1>7
    <3> QED
      BY <3>1, <3>2, <3>4, <1>4, <1>5, FlushedFits
  <2>2. CASE ~closes
    <3>1. b = buffer /\ done = chunks
      BY <2>2
    <3>2. buffer.count + (n - read) <= Bound
      BY <2>2, <1>2, <1>3, <1>7 DEF n
    <3> HIDE DEF b, done, closes
    <3> QED
      BY <3>1, <3>2, <1>3 DEF TextCollected, SizesBounded
  <2> QED
    BY <2>1, <2>2
<1> HIDE DEF b, done
<1>9. IsBuffer(g) /\ g.count = b.count /\ Collected(Unscanned, done, g, read)
  BY <1>3, <1>8, GapAdds, GapCollects
<1> HIDE DEF g
<1>10. /\ IsBuffer(buffer') /\ Collected(Unscanned, done, buffer', n) /\ buffer'.count = g.count + (n - read)
       /\ Fresh(buffer') # {}
  BY <1>1, <1>2, <1>3, <1>8, <1>9, PlusKeeps
<1>11. TextTypes'
  BY <1>1, <1>2, <1>3 DEF TextTypes
<1>12. PlaceInText'
  <2>1. \A e \in text.parts : e <= n \/ partEnd <= e
    <3>1. text.parts \subseteq Nat /\ \A e \in text.parts : e <= read \/ partEnd <= e
      BY <1>1, <1>3, TextEnds DEF PlaceInText
    <3>2. \A e \in Nat : e <= read => e <= n
      BY <1>2, <1>3
    <3> QED
      BY <3>1, <3>2
  <2>2. paragraphEnd \in Nat /\ (n < paragraphEnd => read < paragraphEnd)
    BY <1>2, <1>3 DEF TextTypes
  <2>3. ASSUME n < paragraphEnd PROVE \A q \in text.paragraphs : q <= n \/ paragraphEnd <= q
    <3>1. text.paragraphs \subseteq Nat /\ \A q \in text.paragraphs : q <= read \/ paragraphEnd <= q
      BY <2>2, <2>3, <1>1, <1>3, TextEnds DEF PlaceInText
    <3>2. \A q \in Nat : q <= read => q <= n
      BY <1>2, <1>3
    <3> QED
      BY <3>1, <3>2
  <2> QED
    BY <2>1, <2>2, <2>3, <1>1, <1>2, <1>3 DEF PlaceInText
<1>13. BufferPlaces'
  BY <1>1, <1>10 DEF BufferPlaces
<1>14. TextCollected'
  BY <1>1, <1>8, <1>10, UnscannedStays DEF TextCollected
<1>15. SizesBounded'
  BY <1>1, <1>7, <1>8, <1>9, <1>10 DEF SizesBounded
<1>16. KindsFollow'
  BY <1>1 DEF KindsFollow
<1> QED
  BY <1>11, <1>12, <1>13, <1>14, <1>15, <1>16 DEF ChunkingInv

\* The last flush of an issue or a section.
LEMMA LastFlushKeeps ==
  ASSUME ChunkingAssumption, ChunkingInv, FlushLast
  PROVE  ChunkingInv'
<1>1. /\ read = partEnd /\ buffer # Empty /\ (strategy = "jira" => read = text.size)
      /\ chunks' = Flushed /\ buffer' = Empty
      /\ UNCHANGED <<strategy, text, read, partEnd, paragraphEnd, curKind, first>>
  BY DEF FlushLast
<1>2. /\ TextTypes /\ PlaceInText /\ BufferPlaces /\ TextCollected
      /\ read \in Nat /\ OverlapTokens \in Nat /\ MaxTokens \in Nat
  BY DEF ChunkingInv, TextTypes, ChunkingAssumption
<1>3. Fresh(buffer) # {}
  BY <1>1, <1>2 DEF BufferPlaces
<1>4. AreChunks(chunks') /\ Collected(Unscanned, chunks', Empty, read)
  BY <1>1, <1>2, <1>3, FlushKeeps
<1>5. TextTypes'
  <2>1. strategy # "none"
    BY <1>1, <1>2 DEF TextTypes
  <2> QED
    BY <2>1, <1>1, <1>2 DEF TextTypes
<1>6. PlaceInText'
  BY <1>1, <1>2 DEF PlaceInText
<1>7. BufferPlaces'
  BY <1>1 DEF BufferPlaces
<1>8. TextCollected'
  BY <1>1, <1>4, NothingCollected, UnscannedStays DEF TextCollected
<1>9. \A i \in DOMAIN chunks' : /\ Cardinality(Words(chunks'[i].text)) <= Bound
                                /\ strategy = "jira" => KindFits(chunks'[i], chunks'[i].kind, text.parts)
  BY <1>1, <1>3, FlushedFits
<1>10. SizesBounded'
  <2>1. Bound' = Bound /\ Bound \in Nat
    BY <1>1, <1>2 DEF Bound
  <2> QED
    BY <2>1, <1>1, <1>9, NothingCollected DEF SizesBounded
<1>11. KindsFollow'
  BY <1>1, <1>2, <1>9, NothingCollected DEF KindsFollow
<1> QED
  BY <1>5, <1>6, <1>7, <1>8, <1>10, <1>11 DEF ChunkingInv

\* The invariant, at the start.
LEMMA ChunkingStart == ChunkingAssumption /\ ChunkingInit => ChunkingInv
<1> SUFFICES ASSUME ChunkingAssumption, ChunkingInit PROVE ChunkingInv
  OBVIOUS
<1>1. /\ strategy = "none" /\ text = NoText /\ read = 0 /\ partEnd = 0 /\ paragraphEnd = 0
      /\ buffer = Empty /\ curKind = "body" /\ first = 0 /\ chunks = <<>>
  BY DEF ChunkingInit
<1>2. TextTypes /\ PlaceInText /\ BufferPlaces /\ KindsFollow
  BY <1>1 DEF TextTypes, PlaceInText, BufferPlaces, KindsFollow, Kinds, NoText
<1>3. AreChunks(<<>>) /\ AreIn(Unscanned, <<>>, Empty, 0) /\ InOrder(<<>>, 0)
  BY DEF AreChunks, AreIn, InOrder
<1>4. TextCollected
  BY <1>1, <1>3, NothingCollected DEF TextCollected
<1>5. SizesBounded
  <2>1. Bound \in Nat
    BY DEF Bound, ChunkingAssumption
  <2> QED
    BY <2>1, <1>1, NothingCollected DEF SizesBounded
<1> QED
  BY <1>2, <1>4, <1>5 DEF ChunkingInv

\* chunk.go, confluence.go: every turn of the loops keeps count of what it has read, and
\* gives up nothing but what is Unscanned.
THEOREM ChunkingInvariant ==
  ASSUME ChunkingAssumption
  PROVE  ChunkingSpec => []ChunkingInv
<1>1. ChunkingInit => ChunkingInv
  BY ChunkingStart
<1>2. ChunkingInv /\ [ChunkingNext]_chunkingVars => ChunkingInv'
  <2> SUFFICES ASSUME ChunkingInv, [ChunkingNext]_chunkingVars PROVE ChunkingInv'
    OBVIOUS
  <2>1. CASE ChunkIssue \/ ChunkBody
    BY <2>1, BeginKeeps
  <2>2. CASE AddSegment
    BY <2>2, SegmentKeeps
  <2>3. CASE CloseForSegment
    BY <2>3, ClosingKeeps
  <2>4. CASE DrainSegment
    BY <2>4, DrainKeeps
  <2>5. CASE TakeSection
    BY <2>5, SectionKeeps
  <2>6. CASE SplitBySentences
    BY <2>6, SplittingKeeps
  <2>7. CASE StopScan
    BY <2>7, ScanKeeps
  <2>8. CASE PackPiece
    BY <2>8, PackKeeps
  <2>9. CASE FlushLast
    BY <2>9, LastFlushKeeps
  <2>10. CASE UNCHANGED chunkingVars
    BY <2>10 DEF chunkingVars, ChunkingInv, TextTypes, PlaceInText, BufferPlaces, TextCollected, SizesBounded,
                 Bound, KindsFollow, Unscanned
  <2> QED
    BY <2>1, <2>2, <2>3, <2>4, <2>5, <2>6, <2>7, <2>8, <2>9, <2>10 DEF ChunkingNext
<1> QED
  BY <1>1, <1>2, PTL DEF ChunkingSpec

\* chunk.go, confluence.go: every token of a text that the scanner's limit does not cut off is
\* in one chunk, in its order, but for the overlaps, which are the end of the chunk before;
\* kinds are those of the segments.
THEOREM ChunksCover ==
  ASSUME ChunkingAssumption
  PROVE  ChunkingSpec => []ChunksCoverText
<1>1. ChunkingInv => ChunksCoverText
  <2> SUFFICES ASSUME ChunkingInv PROVE ChunksCoverText
    OBVIOUS
  <2>1. /\ AreIn(Unscanned, chunks, buffer, read) /\ InOrder(chunks, read) /\ KindsFollow /\ read <= partEnd /\ partEnd <= text.size
        /\ read \in Nat /\ partEnd \in Nat /\ chunks \in Seq(ChunkRecord)
    BY DEF ChunkingInv, TextCollected, Collected, PlaceInText, TextTypes, AreChunks
  <2>2. \A i \in DOMAIN chunks : chunks[i] \in ChunkRecord /\ i \in Nat
    BY <2>1
  <2>3. ASSUME IsDone, NEW n \in (1 .. text.size) \ Unscanned
        PROVE  \E i \in DOMAIN chunks : \E k \in Fresh(chunks[i]) : chunks[i].text[k] = n
    <3>1. read = text.size /\ Fresh(buffer) = {}
      BY <2>3, NothingCollected DEF IsDone
    <3>2. ~Has(buffer, n)
      BY <3>1 DEF Has
    <3> QED
      BY <3>1, <3>2, <2>1 DEF AreIn, Has
  <2>4. ASSUME NEW i \in DOMAIN chunks, NEW j \in DOMAIN chunks,
               NEW k \in Fresh(chunks[i]), NEW l \in Fresh(chunks[j]), i < j \/ (i = j /\ k < l)
        PROVE  chunks[i].text[k] < chunks[j].text[l]
    <3>1. CASE i < j
      BY <3>1, <2>1 DEF InOrder, Precedes
    <3>2. CASE i = j /\ k < l
      BY <3>2, <2>1 DEF InOrder, Rising
    <3> QED
      BY <3>1, <3>2, <2>4
  <2>5. ASSUME NEW i \in DOMAIN chunks
        PROVE  LET c == chunks[i] IN
               /\ Fresh(c) # {} /\ \A k \in Fresh(c) : c.text[k] <= text.size
               /\ c.over > 0 => i > 1
               /\ \A k \in 1 .. c.over : c.text[k] = chunks[i - 1].text[Len(chunks[i - 1].text) - c.over + k]
               /\ strategy = "jira" =>
                    (c.kind = "body" <=> \E k \in Fresh(c) : \A e \in text.parts : c.text[k] <= e)
    <3> DEFINE c == chunks[i]
    <3>1. Fresh(c) # {} /\ IsUpTo(c, read) /\ Follows(c, chunks, i - 1)
      BY <2>1 DEF InOrder
    <3>2. ASSUME NEW k \in Fresh(c) PROVE c.text[k] <= text.size
      <4>1. c.text \in Seq(Nat) /\ k \in DOMAIN c.text
        BY <2>2 DEF ChunkRecord, Fresh, Words
      <4>2. c.text[k] \in Nat /\ c.text[k] <= read
        BY <4>1, <3>1 DEF IsUpTo
      <4>3. text.size \in Int
        BY TextEnds DEF ChunkingInv, TextTypes, NoText
      <4> QED
        BY <4>2, <4>3, <2>1
    <3>3. c.over > 0 => i > 1
      BY <3>1, <2>2 DEF Follows
    <3>4. \A k \in 1 .. c.over : c.text[k] = chunks[i - 1].text[Len(chunks[i - 1].text) - c.over + k]
      BY <3>1 DEF Follows
    <3>5. strategy = "jira" => (c.kind = "body" <=> \E k \in Fresh(c) : \A e \in text.parts : c.text[k] <= e)
      BY <2>1 DEF KindsFollow, KindFits, InFirst
    <3> QED
      BY <3>1, <3>2, <3>3, <3>4, <3>5
  <2> QED
    BY <2>3, <2>4, <2>5 DEF ChunksCoverText
<1> QED
  BY <1>1, ChunkingInvariant, PTL

\* chunk.go, confluence.go: a chunk of an issue keeps the budget, and one of a section
\* exceeds it by the overlap at most.
THEOREM ChunksBounded ==
  ASSUME ChunkingAssumption
  PROVE  ChunkingSpec => []ChunksAreBounded
<1>1. ChunkingInv => ChunksAreBounded
  BY DEF ChunkingInv, SizesBounded, Bound, ChunksAreBounded
<1> QED
  BY <1>1, ChunkingInvariant, PTL
=============================================================================
