--------------------------- MODULE JiraSyncProofs ---------------------------
(***************************************************************************)
(* What holds of JiraSync for every set of issues, every number of         *)
(* workers, every page size, clock drift and bound.                        *)
(***************************************************************************)
EXTENDS JiraSync, FiniteSetTheorems, TLAPS

-----------------------------------------------------------------------------
(***************************************************************************)
(* The type invariant.                                                     *)
(***************************************************************************)

\* Both clocks start at one or later.
LEMMA BootIsPositive == Boot \in Nat \ {0} /\ Boot + Drift >= 1
BY ClockAssumption DEF Boot

\* The values at rest are well typed.
LEMMA RestType == NoDoc \in Doc /\ Unset \in Version
BY DEF NoDoc, Doc, Unset, Version

\* Initial states are well typed.
LEMMA InitType == Init => TypeOK
<1> SUFFICES ASSUME Init PROVE TypeOK
  OBVIOUS
<1> USE DEF Init, RunAtRest
<1>1. failed \in BOOLEAN /\ cancelled \in BOOLEAN
  OBVIOUS
<1>2. snap \in [Issues -> Version] /\ doc \in [Workers -> Doc]
  BY RestType
<1>3. QED
  BY BootIsPositive, <1>1, <1>2 DEF TypeOK, Phases, Stages, Working, Busy, ZeroTime

\* A run that is over leaves well-typed local variables.
LEMMA EndRunType ==
  ASSUME TypeOK, EndRun
  PROVE  /\ phase' \in Phases
         /\ start' \in Nat /\ asked' \in Nat
         /\ hits' \subseteq Issues
         /\ snap' \in [Issues -> Version]
         /\ fetched' \subseteq Issues
         /\ queue' \subseteq fetched'
         /\ stage' \in [Workers -> Stages]
         /\ doc' \in [Workers -> Doc]
         /\ \A w \in Workers : ~Busy(w)'
         /\ advanceMax' \in Int
         /\ failed' \in BOOLEAN /\ cancelled' \in BOOLEAN
<1>1. failed' \in BOOLEAN /\ cancelled' \in BOOLEAN
  BY DEF EndRun
<1>2. snap' \in [Issues -> Version] /\ doc' \in [Workers -> Doc]
  BY RestType DEF EndRun
<1>3. QED
  BY <1>1, <1>2 DEF EndRun, Phases, Stages, Working, Busy, ZeroTime

\* The result set and its contents are well typed before and after the query.
LEMMA SnapshotType ==
  ASSUME TypeOK
  PROVE  ResultSet \subseteq Issues /\ Snapshot \in [Issues -> Version]
BY DEF TypeOK, ResultSet, Snapshot, Matches, Version, Unset

\* Counting a fault keeps the count a number.
LEMMA FaultType ==
  ASSUME TypeOK, Fault
  PROVE  faults' \in Nat
BY DEF TypeOK, Fault

\* Every step keeps the types.
LEMMA NextType == TypeOK /\ [Next]_vars => TypeOK'
<1> SUFFICES ASSUME TypeOK, [Next]_vars PROVE TypeOK'
  OBVIOUS
<1> USE DEF TypeOK, Stages, Working, Busy
<1>1. ASSUME NEW i \in Issues, Update(i) PROVE TypeOK'
  BY <1>1, ClockAssumption DEF Update, JiraClock, storeVars, fetchVars, poolVars
<1>2. CASE Tick
  BY <1>2 DEF Tick, jiraVars, storeVars, fetchVars, poolVars
<1>3. CASE StartRun
  BY <1>3 DEF StartRun, InitialMax, Phases, jiraVars, storeVars
<1>4. ASSUME NEW page \in SUBSET ResultSet, SearchJQL(page) PROVE TypeOK'
  BY <1>4, SnapshotType DEF SearchJQL, Phases, jiraVars, storeVars
<1>5. CASE SafetyCap
  BY <1>5 DEF SafetyCap, Phases, jiraVars, storeVars, poolVars
<1>6. CASE TokenRejected
  BY <1>6 DEF TokenRejected, Phases, jiraVars, storeVars, poolVars
<1>7. CASE Cancel
  BY <1>7 DEF Cancel, jiraVars, storeVars, fetchVars, poolVars
<1>8. CASE Crash \/ SearchFails \/ SetWatermarkFails
  BY <1>8, EndRunType, FaultType DEF Crash, SearchFails, SetWatermarkFails, jiraVars, storeVars
<1>9. CASE NoNewIssues \/ RunAborts \/ RunFails
  BY <1>9, EndRunType DEF NoNewIssues, RunAborts, RunFails, jiraVars, storeVars
<1>10. CASE SetWatermark
  BY <1>10, EndRunType DEF SetWatermark, NewWatermark, Later, jiraVars
<1>11. CASE ProducerStops
  BY <1>11 DEF ProducerStops, Phases, jiraVars, storeVars, fetchVars
<1>12. ASSUME NEW w \in Workers, NEW i \in queue, TakeJob(w, i) PROVE TypeOK'
  <2>1. i \in Issues /\ snap[i] \in Version
    OBVIOUS
  <2>2. [key |-> i, ver |-> snap[i].ver, upd |-> snap[i].upd] \in Doc
    BY <2>1 DEF Doc, Version
  <2>3. doc' \in [Workers -> Doc] /\ stage' \in [Workers -> Stages] /\ queue' \subseteq fetched
    BY <1>12, <2>2 DEF TakeJob
  <2>4. \A v \in Workers : Busy(v)' => doc'[v].key \in Issues
    BY <1>12, <2>1 DEF TakeJob
  <2>5. QED
    BY <1>12, <2>3, <2>4 DEF TakeJob, jiraVars, storeVars, fetchVars
<1>13. ASSUME NEW w \in Workers, Refetch(w) PROVE TypeOK'
  <2>1. doc' \in [Workers -> Doc] /\ \A v \in Workers : doc'[v].key = doc[v].key
    BY <1>13 DEF Refetch, Doc
  <2>2. \A v \in Workers : Busy(v)' => doc'[v].key \in Issues
    BY <1>13, <2>1 DEF Refetch
  <2>3. QED
    BY <1>13, <2>1, <2>2 DEF Refetch, jiraVars, storeVars, fetchVars
<1>14. ASSUME NEW w \in Workers, WriteSource(w) PROVE TypeOK'
  BY <1>14 DEF Doc, WriteSource, jiraVars, fetchVars
<1>15. ASSUME NEW w \in Workers, WriteChunks(w) PROVE TypeOK'
  BY <1>15 DEF Doc, WriteChunks, jiraVars, fetchVars
<1>16. ASSUME NEW w \in Workers, WriteLinks(w) PROVE TypeOK'
  BY <1>16, RestType DEF Doc, WriteLinks, Later, jiraVars, fetchVars
<1>17. ASSUME NEW w \in Workers, StepFails(w) PROVE TypeOK'
  BY <1>17, FaultType, RestType DEF Doc, StepFails, jiraVars, storeVars, fetchVars
<1>18. CASE UNCHANGED vars
  BY <1>18 DEF vars, jiraVars, storeVars, fetchVars, poolVars
<1>19. QED
  BY <1>1, <1>2, <1>3, <1>4, <1>5, <1>6, <1>7, <1>8, <1>9, <1>10, <1>11, <1>12,
     <1>13, <1>14, <1>15, <1>16, <1>17, <1>18
  DEF Next, Progress, Faulty, Search, Work, Finish

\* Every reachable state is well typed: in particular the stored watermark is
\* never before the clocks' origin and only fetched issues are handed out.
THEOREM TypeCorrect == Spec => []TypeOK
<1>1. QED BY InitType, NextType, PTL DEF Spec

-----------------------------------------------------------------------------
(***************************************************************************)
(* The inductive invariant: what a run's local variables say about each    *)
(* other and about the database.                                           *)
(***************************************************************************)

\* A worker is on its way with issue i.
Carried(i) == \E w \in Workers : Busy(w) /\ doc[w].key = i

\* The phases of a run.
RunShape ==
  /\ phase = "idle" => asked = ZeroTime
  /\ asked = ZeroTime => /\ hits = {} /\ fetched = {}
                         /\ \A w \in Workers : ~Busy(w)
  /\ phase \in {"work", "abort"} => hits = {} /\ asked # ZeroTime
  /\ phase = "abort" => cancelled
  /\ phase # "idle" => watermark <= advanceMax

\* A fetched issue is in one place: undelivered, queued, or with one worker.
JobsApart ==
  /\ hits \cap fetched = {}
  /\ \A w \in Workers : Busy(w) => doc[w].key \in fetched \ queue
  /\ \A v, w \in Workers : Busy(v) /\ Busy(w) /\ doc[v].key = doc[w].key => v = w

\* No issue still to be written is older than what is stored of it.
VersionsInOrder ==
  /\ PartsInOrder
  /\ \A i \in hits \cup fetched : snap[i].ver <= latest[i]
  /\ \A i \in hits \cup queue : body[i] <= snap[i].ver
  /\ \A w \in Workers : Busy(w) =>
       LET i == doc[w].key IN
       /\ snap[i].ver <= doc[w].ver /\ doc[w].ver <= latest[i]
       /\ body[i] <= doc[w].ver
       /\ stage[w] \in {"chunks", "links"} => body[i] = doc[w].ver
       /\ stage[w] = "links" => chunks[i] = doc[w].ver

\* Until something goes wrong no fetched issue is lost on the way.
FetchedHandled ==
  ~failed /\ ~cancelled =>
    \A i \in fetched : i \in queue \/ Carried(i) \/ links[i] >= snap[i].ver

Inv == TypeOK /\ RunShape /\ JobsApart /\ VersionsInOrder /\ FetchedHandled

\* The steps of the specification, as the proofs below tell them apart: the
\* seven ways a run ends only differ in what they require.
LEMMA StepCases ==
  ASSUME [Next]_vars
  PROVE  \/ \E i \in Issues : Update(i)
         \/ Tick \/ StartRun \/ SafetyCap \/ TokenRejected \/ Cancel \/ ProducerStops
         \/ \E page \in SUBSET ResultSet : SearchJQL(page)
         \/ EndRun /\ UNCHANGED <<now, jiraVars, body, chunks, links>>
         \/ \E w \in Workers :
              \/ \E i \in queue : TakeJob(w, i)
              \/ Refetch(w) \/ WriteSource(w) \/ WriteChunks(w) \/ WriteLinks(w)
              \/ StepFails(w)
         \/ UNCHANGED vars
BY DEF Next, Progress, Faulty, Search, Work, Finish, Crash, SearchFails,
       SetWatermarkFails, NoNewIssues, RunAborts, RunFails, SetWatermark,
       jiraVars, storeVars

\* The phases of a run keep their shape: results are only carried after a query,
\* and the newest timestamp never falls behind the watermark the run started from.
LEMMA RunShapeStep == TypeOK /\ RunShape /\ [Next]_vars => RunShape'
<1> SUFFICES ASSUME TypeOK /\ RunShape, [Next]_vars PROVE RunShape'
  OBVIOUS
<1> USE DEF RunShape, TypeOK, Busy, Working, Stages, ZeroTime
<1>1. ASSUME NEW i \in Issues, Update(i) PROVE RunShape'
  BY <1>1 DEF Update, JiraClock, storeVars, fetchVars, poolVars
<1>2. CASE Tick
  BY <1>2 DEF Tick, jiraVars, storeVars, fetchVars, poolVars
<1>3. CASE StartRun
  BY <1>3 DEF StartRun, InitialMax, jiraVars, storeVars
<1>4. ASSUME NEW page \in SUBSET ResultSet, SearchJQL(page) PROVE RunShape'
  BY <1>4 DEF SearchJQL, jiraVars, storeVars
<1>5. CASE SafetyCap
  BY <1>5, BoundsAssumption, FS_EmptySet DEF SafetyCap, jiraVars, storeVars, poolVars
<1>6. CASE TokenRejected
  BY <1>6 DEF TokenRejected, jiraVars, storeVars, poolVars
<1>7. CASE Cancel
  BY <1>7 DEF Cancel, jiraVars, storeVars, fetchVars, poolVars
<1>8. CASE EndRun /\ UNCHANGED <<now, jiraVars, body, chunks, links>>
  BY <1>8 DEF EndRun, jiraVars
<1>9. CASE ProducerStops
  BY <1>9 DEF ProducerStops, jiraVars, storeVars, fetchVars
<1>10. ASSUME NEW w \in Workers, NEW i \in queue, TakeJob(w, i) PROVE RunShape'
  BY <1>10 DEF TakeJob, jiraVars, storeVars, fetchVars
<1>11. ASSUME NEW w \in Workers, Refetch(w) PROVE RunShape'
  BY <1>11 DEF Refetch, jiraVars, storeVars, fetchVars
<1>12. ASSUME NEW w \in Workers, WriteSource(w) PROVE RunShape'
  BY <1>12 DEF WriteSource, jiraVars, fetchVars
<1>13. ASSUME NEW w \in Workers, WriteChunks(w) PROVE RunShape'
  BY <1>13 DEF WriteChunks, jiraVars, fetchVars
<1>14. ASSUME NEW w \in Workers, WriteLinks(w) PROVE RunShape'
  BY <1>14 DEF WriteLinks, Doc, Later, jiraVars, fetchVars
<1>15. ASSUME NEW w \in Workers, StepFails(w) PROVE RunShape'
  BY <1>15 DEF StepFails, jiraVars, storeVars, fetchVars
<1>16. CASE UNCHANGED vars
  BY <1>16 DEF vars, jiraVars, storeVars, fetchVars, poolVars
<1>17. QED
  BY <1>1, <1>2, <1>3, <1>4, <1>5, <1>6, <1>7, <1>8, <1>9, <1>10, <1>11, <1>12,
     <1>13, <1>14, <1>15, <1>16, StepCases

\* No step puts a fetched issue in two hands.
LEMMA JobsApartStep == TypeOK /\ RunShape /\ JobsApart /\ [Next]_vars => JobsApart'
<1> SUFFICES ASSUME TypeOK /\ RunShape /\ JobsApart, [Next]_vars PROVE JobsApart'
  OBVIOUS
<1> USE DEF JobsApart, TypeOK, Busy, Working, Stages
<1>1. ASSUME NEW i \in Issues, Update(i) PROVE JobsApart'
  BY <1>1 DEF Update, JiraClock, storeVars, fetchVars, poolVars
<1>2. CASE Tick
  BY <1>2 DEF Tick, jiraVars, storeVars, fetchVars, poolVars
<1>3. CASE StartRun
  BY <1>3 DEF StartRun, InitialMax, jiraVars, storeVars
<1>4. ASSUME NEW page \in SUBSET ResultSet, SearchJQL(page) PROVE JobsApart'
  BY <1>4, SnapshotType DEF SearchJQL, RunShape, ResultSet, jiraVars, storeVars
<1>5. CASE SafetyCap
  BY <1>5 DEF SafetyCap, jiraVars, storeVars, poolVars
<1>6. CASE TokenRejected
  BY <1>6 DEF TokenRejected, jiraVars, storeVars, poolVars
<1>7. CASE Cancel
  BY <1>7 DEF Cancel, jiraVars, storeVars, fetchVars, poolVars
<1>8. CASE EndRun /\ UNCHANGED <<now, jiraVars, body, chunks, links>>
  BY <1>8 DEF EndRun, jiraVars
<1>9. CASE ProducerStops
  BY <1>9 DEF ProducerStops, jiraVars, storeVars, fetchVars
<1>10. ASSUME NEW w \in Workers, NEW i \in queue, TakeJob(w, i) PROVE JobsApart'
  BY <1>10 DEF TakeJob, jiraVars, storeVars, fetchVars
<1>11. ASSUME NEW w \in Workers, Refetch(w) PROVE JobsApart'
  BY <1>11 DEF Refetch, jiraVars, storeVars, fetchVars
<1>12. ASSUME NEW w \in Workers, WriteSource(w) PROVE JobsApart'
  BY <1>12 DEF WriteSource, jiraVars, fetchVars
<1>13. ASSUME NEW w \in Workers, WriteChunks(w) PROVE JobsApart'
  BY <1>13 DEF WriteChunks, jiraVars, fetchVars
<1>14. ASSUME NEW w \in Workers, WriteLinks(w) PROVE JobsApart'
  BY <1>14 DEF WriteLinks, Later, jiraVars, fetchVars
<1>15. ASSUME NEW w \in Workers, StepFails(w) PROVE JobsApart'
  BY <1>15 DEF StepFails, jiraVars, storeVars, fetchVars
<1>16. CASE UNCHANGED vars
  BY <1>16 DEF vars, jiraVars, storeVars, fetchVars, poolVars
<1>17. QED
  BY <1>1, <1>2, <1>3, <1>4, <1>5, <1>6, <1>7, <1>8, <1>9, <1>10, <1>11, <1>12,
     <1>13, <1>14, <1>15, <1>16, StepCases

\* No step carries, or writes over a stored version, an older one.
LEMMA VersionsInOrderStep ==
  TypeOK /\ RunShape /\ JobsApart /\ VersionsInOrder /\ [Next]_vars => VersionsInOrder'
<1> SUFFICES ASSUME TypeOK /\ RunShape /\ JobsApart /\ VersionsInOrder, [Next]_vars
             PROVE  VersionsInOrder'
  OBVIOUS
<1> USE DEF VersionsInOrder, PartsInOrder, TypeOK, Busy, Working, Stages
<1>1. ASSUME NEW i \in Issues, Update(i) PROVE VersionsInOrder'
  BY <1>1 DEF Update, Version, Doc, storeVars, fetchVars, poolVars
<1>2. CASE Tick
  BY <1>2 DEF Tick, jiraVars, storeVars, fetchVars, poolVars
<1>3. CASE StartRun
  BY <1>3 DEF StartRun, InitialMax, jiraVars, storeVars
<1>4. ASSUME NEW page \in SUBSET ResultSet, SearchJQL(page) PROVE VersionsInOrder'
  BY <1>4, SnapshotType DEF SearchJQL, RunShape, ResultSet, Snapshot, jiraVars, storeVars
<1>5. CASE SafetyCap
  BY <1>5 DEF SafetyCap, jiraVars, storeVars, poolVars
<1>6. CASE TokenRejected
  BY <1>6 DEF TokenRejected, jiraVars, storeVars, poolVars
<1>7. CASE Cancel
  BY <1>7 DEF Cancel, jiraVars, storeVars, fetchVars, poolVars
<1>8. CASE EndRun /\ UNCHANGED <<now, jiraVars, body, chunks, links>>
  BY <1>8 DEF EndRun, jiraVars
<1>9. CASE ProducerStops
  BY <1>9 DEF ProducerStops, jiraVars, storeVars, fetchVars
<1>10. ASSUME NEW w \in Workers, NEW i \in queue, TakeJob(w, i) PROVE VersionsInOrder'
  BY <1>10 DEF TakeJob, JobsApart, Version, Doc, jiraVars, storeVars, fetchVars
<1>11. ASSUME NEW w \in Workers, Refetch(w) PROVE VersionsInOrder'
  BY <1>11 DEF Refetch, JobsApart, Version, Doc, jiraVars, storeVars, fetchVars
<1>12. ASSUME NEW w \in Workers, WriteSource(w) PROVE VersionsInOrder'
  BY <1>12 DEF WriteSource, JobsApart, Version, Doc, jiraVars, fetchVars
<1>13. ASSUME NEW w \in Workers, WriteChunks(w) PROVE VersionsInOrder'
  BY <1>13 DEF WriteChunks, JobsApart, Version, Doc, jiraVars, fetchVars
<1>14. ASSUME NEW w \in Workers, WriteLinks(w) PROVE VersionsInOrder'
  BY <1>14 DEF WriteLinks, JobsApart, Version, Doc, Later, jiraVars, fetchVars
<1>15. ASSUME NEW w \in Workers, StepFails(w) PROVE VersionsInOrder'
  BY <1>15 DEF StepFails, jiraVars, storeVars, fetchVars
<1>16. CASE UNCHANGED vars
  BY <1>16 DEF vars, jiraVars, storeVars, fetchVars, poolVars
<1>17. QED
  BY <1>1, <1>2, <1>3, <1>4, <1>5, <1>6, <1>7, <1>8, <1>9, <1>10, <1>11, <1>12,
     <1>13, <1>14, <1>15, <1>16, StepCases

\* While nothing has failed, no step loses a fetched issue.
LEMMA FetchedHandledStep == Inv /\ [Next]_vars => FetchedHandled'
<1> SUFFICES ASSUME Inv, [Next]_vars PROVE FetchedHandled'
  OBVIOUS
<1> USE DEF Inv, FetchedHandled, Carried, TypeOK, Busy, Working, Stages
<1>1. ASSUME NEW i \in Issues, Update(i) PROVE FetchedHandled'
  BY <1>1 DEF Update, storeVars, fetchVars, poolVars
<1>2. CASE Tick
  BY <1>2 DEF Tick, jiraVars, storeVars, fetchVars, poolVars
<1>3. CASE StartRun
  BY <1>3 DEF StartRun, InitialMax, jiraVars, storeVars
<1>4. ASSUME NEW page \in SUBSET ResultSet, SearchJQL(page) PROVE FetchedHandled'
  <2>1. fetched' = fetched \cup page /\ queue' = queue \cup page
    BY <1>4 DEF SearchJQL
  <2>2. \A i \in fetched : snap'[i] = snap[i]
    BY <1>4 DEF SearchJQL, Snapshot, RunShape
  <2>3. UNCHANGED <<links, stage, doc, failed, cancelled>>
    BY <1>4 DEF SearchJQL, storeVars
  <2>4. QED
    BY <2>1, <2>2, <2>3
<1>5. CASE SafetyCap
  BY <1>5 DEF SafetyCap, jiraVars, storeVars, poolVars
<1>6. CASE TokenRejected
  BY <1>6 DEF TokenRejected, jiraVars, storeVars, poolVars
<1>7. CASE Cancel
  BY <1>7 DEF Cancel, jiraVars, storeVars, fetchVars, poolVars
<1>8. CASE EndRun /\ UNCHANGED <<now, jiraVars, body, chunks, links>>
  BY <1>8 DEF EndRun, jiraVars
<1>9. CASE ProducerStops
  BY <1>9 DEF ProducerStops, jiraVars, storeVars, fetchVars
<1>10. ASSUME NEW w \in Workers, NEW i \in queue, TakeJob(w, i) PROVE FetchedHandled'
  <2>1. CASE cancelled
    BY <1>10, <2>1 DEF TakeJob
  <2>2. CASE ~cancelled
    <3>1. /\ queue' = queue \ {i}
          /\ stage'[w] \in Working /\ doc'[w].key = i
          /\ \A v \in Workers \ {w} : stage'[v] = stage[v] /\ doc'[v] = doc[v]
          /\ UNCHANGED <<fetched, snap, links, failed, cancelled>>
      BY <1>10, <2>2 DEF TakeJob, Doc, storeVars, fetchVars
    <3>2. stage[w] = "ready"
      BY <1>10 DEF TakeJob
    <3>3. \A j \in Issues : Carried(j) => Carried(j)'
      BY <3>1, <3>2
    <3>4. Carried(i)'
      BY <3>1
    <3>5. QED
      BY <3>1, <3>3, <3>4
  <2>3. QED
    BY <2>1, <2>2
<1>11. ASSUME NEW w \in Workers, Refetch(w) PROVE FetchedHandled'
  BY <1>11 DEF Refetch, jiraVars, storeVars, fetchVars
<1>12. ASSUME NEW w \in Workers, WriteSource(w) PROVE FetchedHandled'
  BY <1>12 DEF WriteSource, jiraVars, fetchVars
<1>13. ASSUME NEW w \in Workers, WriteChunks(w) PROVE FetchedHandled'
  BY <1>13 DEF WriteChunks, jiraVars, fetchVars
<1>14. ASSUME NEW w \in Workers, WriteLinks(w) PROVE FetchedHandled'
  <2> DEFINE i == doc[w].key
  <2>1. /\ links' = [links EXCEPT ![i] = doc[w].ver]
        /\ \A v \in Workers \ {w} : stage'[v] = stage[v] /\ doc'[v] = doc[v]
        /\ UNCHANGED <<fetched, queue, snap, failed, cancelled>>
    BY <1>14 DEF WriteLinks, fetchVars
  <2>2. i \in Issues /\ doc[w].ver >= snap[i].ver
    BY <1>14 DEF WriteLinks, VersionsInOrder, JobsApart, Version, Doc
  <2>3. \A j \in Issues : j # i /\ Carried(j) => Carried(j)'
    BY <2>1
  <2>4. \A j \in Issues : j # i => links'[j] = links[j]
    BY <2>1
  <2>5. links'[i] >= snap'[i].ver
    BY <2>1, <2>2
  <2>6. QED
    BY <2>1, <2>3, <2>4, <2>5
<1>15. ASSUME NEW w \in Workers, StepFails(w) PROVE FetchedHandled'
  BY <1>15 DEF StepFails, jiraVars, storeVars, fetchVars
<1>16. CASE UNCHANGED vars
  BY <1>16 DEF vars, jiraVars, storeVars, fetchVars, poolVars
<1>17. QED
  BY <1>1, <1>2, <1>3, <1>4, <1>5, <1>6, <1>7, <1>8, <1>9, <1>10, <1>11, <1>12,
     <1>13, <1>14, <1>15, <1>16, StepCases

\* The invariant holds initially ...
LEMMA InitInv == Init => Inv
<1> SUFFICES ASSUME Init PROVE Inv
  OBVIOUS
<1>1. TypeOK
  BY InitType
<1>2. RunShape /\ JobsApart
  BY DEF Init, RunAtRest, RunShape, JobsApart, Busy, Working, ZeroTime
<1>3. VersionsInOrder /\ FetchedHandled
  BY DEF Init, RunAtRest, VersionsInOrder, PartsInOrder, FetchedHandled, Busy, Working
<1>4. QED
  BY <1>1, <1>2, <1>3 DEF Inv

\* ... and every step keeps it.
LEMMA NextInv == Inv /\ [Next]_vars => Inv'
BY NextType, RunShapeStep, JobsApartStep, VersionsInOrderStep, FetchedHandledStep
   DEF Inv

\* The inductive invariant holds in every reachable state.
THEOREM RunInvariant == Spec => []Inv
BY InitInv, NextInv, PTL DEF Spec

-----------------------------------------------------------------------------
(***************************************************************************)
(* The safety properties the invariant carries.                            *)
(***************************************************************************)

\* Chunks never run ahead of their row nor links ahead of the chunks, whatever
\* fails between the three transactions of an issue.
THEOREM PartsStayInOrder == Spec => []PartsInOrder
<1>1. Inv => PartsInOrder
  BY DEF Inv, VersionsInOrder
<1>2. QED
  BY <1>1, RunInvariant, PTL

\* Nothing but the last step of a clean run writes the watermark.
LEMMA OnlySetWatermark ==
  ASSUME [Next]_vars, watermark' # watermark
  PROVE  SetWatermark
BY DEF Next, Update, Tick, StartRun, Progress, Faulty, Search, Work, Finish,
  SearchJQL, SafetyCap, TokenRejected, Cancel, Crash, SearchFails,
  SetWatermarkFails, NoNewIssues, RunAborts, RunFails, ProducerStops, TakeJob,
  Refetch, WriteSource, WriteChunks, WriteLinks, StepFails, vars, storeVars

\* The watermark never moves back, whatever the drift between the clocks.
THEOREM WatermarkNeverBack == Spec => WatermarkMonotone
<1>1. Inv /\ [Next]_vars => [watermark' >= watermark]_vars
  <2> SUFFICES ASSUME Inv, [Next]_vars PROVE watermark' >= watermark
    OBVIOUS
  <2>1. CASE SetWatermark
    BY <2>1 DEF SetWatermark, AllHandled, AllHandedOut, NewWatermark, Later, Inv,
                RunShape, TypeOK
  <2>2. CASE watermark' = watermark
    BY <2>2 DEF Inv, TypeOK
  <2>3. QED
    BY <2>1, <2>2, OnlySetWatermark
<1>2. QED
  BY <1>1, RunInvariant, PTL DEF Spec, WatermarkMonotone

\* When the watermark moves, every issue the run fetched is completely in the
\* index, at the version the search returned or a newer one.
THEOREM WatermarkIsEarned == Spec => WatermarkEarned
<1> DEFINE Stored(i) == /\ body[i] >= snap[i].ver
                        /\ chunks[i] >= snap[i].ver
                        /\ links[i] >= snap[i].ver
<1>1. Inv /\ [Next]_vars => [watermark' # watermark => \A i \in fetched : Stored(i)]_vars
  <2> SUFFICES ASSUME Inv, [Next]_vars, watermark' # watermark, NEW i \in fetched
               PROVE  Stored(i)
    OBVIOUS
  <2>1. SetWatermark
    BY OnlySetWatermark
  <2>2. queue = {} /\ ~Carried(i) /\ ~failed /\ ~cancelled
    BY <2>1 DEF SetWatermark, AllHandled, AllHandedOut, PoolIdle, Carried
  <2>3. links[i] >= snap[i].ver
    BY <2>2 DEF Inv, FetchedHandled
  <2>4. links[i] <= chunks[i] /\ chunks[i] <= body[i] /\ i \in Issues
    BY DEF Inv, TypeOK, VersionsInOrder, PartsInOrder
  <2>5. QED
    BY <2>3, <2>4 DEF Inv, TypeOK, Version
<1>2. QED
  BY <1>1, RunInvariant, PTL DEF Spec, WatermarkEarned

-----------------------------------------------------------------------------
(***************************************************************************)
(* The incremental query misses nothing, as long as the surroundings stay  *)
(* within what the slack was made for.  Limit is what the slack leaves     *)
(* once the delay of the query is paid for: no watermark and no timestamp  *)
(* a run ingests is later than the evaluation of its query by more.        *)
(***************************************************************************)
SlackSuffices ==
  /\ IsFiniteSet(Issues) /\ Cardinality(Issues) < MaxIssuesPerRun
  /\ StaleTokens = FALSE
  /\ MaxQueryDelay <= Slack
  /\ Drift + MaxQueryDelay + MaxRefetchLag <= Slack

Limit == Slack - MaxQueryDelay

Clocks ==
  /\ JiraClock >= 1
  /\ \A i \in Issues : 0 <= updated[i] /\ updated[i] <= JiraClock
  /\ \A i \in Issues : latest[i] > 0 => updated[i] >= 1
  /\ phase # "idle" => start <= now
  /\ asked <= now /\ (asked # ZeroTime => start <= asked)
  /\ phase = "search" /\ asked = ZeroTime => now <= start + MaxQueryDelay
  /\ asked # ZeroTime =>
       \A i \in Truncated \cap (hits \cup queue) : now <= asked + MaxRefetchLag
  /\ \A w \in Workers : stage[w] = "refetch" => now <= asked + MaxRefetchLag

Timestamps ==
  /\ watermark <= now + Limit
  /\ phase # "idle" => advanceMax <= (IF asked = ZeroTime THEN now ELSE asked) + Limit
  /\ \A i \in hits \cup queue : snap[i].upd <= asked + Drift
  /\ \A w \in Workers : Busy(w) => doc[w].upd <= asked + Limit

\* Version v of i is its latest, or i was edited after the query.
UpToDate(i, v) == v = latest[i] \/ updated[i] >= asked + Drift

Fresh ==
  /\ \A i \in hits \cup queue : UpToDate(i, snap[i].ver)
  /\ \A w \in Workers : Busy(w) => UpToDate(doc[w].key, doc[w].ver)

\* The latest moment from which every future query still looks back to.
Horizon == IF watermark = ZeroTime THEN ZeroTime ELSE watermark + Drift - Limit

Covered == \A i \in Issues : Indexed(i) \/ updated[i] >= Horizon

Accounted ==
  asked # ZeroTime /\ ~failed /\ ~cancelled =>
    \A i \in Issues : \/ Indexed(i) \/ updated[i] >= asked + Drift
                      \/ i \in hits \cup queue \/ Carried(i)

Coverage == Clocks /\ Timestamps /\ Fresh /\ Covered /\ Accounted

\* Integer division, as the solver needs it stated.
LEMMA DivisionRemainder ==
  ASSUME NEW a \in Int, NEW n \in Nat \ {0}
  PROVE  /\ a \div n \in Int
         /\ a = n * (a \div n) + (a % n)
         /\ a % n \in 0 .. n - 1
OBVIOUS

\* Rounding the look-back up to whole minutes never shortens it.
LEMMA RoundingUp ==
  ASSUME TypeOK
  PROVE  Minute * LookBackMinutes >= start - watermark + Slack
<1> DEFINE age == start - (watermark - Slack)
           m == (age + Minute - 1) \div Minute
<1>1. age \in Int /\ Minute \in Nat \ {0}
  BY ClockAssumption DEF TypeOK
<1>2. m \in Int /\ age + Minute - 1 = Minute * m + ((age + Minute - 1) % Minute)
      /\ (age + Minute - 1) % Minute \in 0 .. Minute - 1
  <2> DEFINE d == age + Minute - 1
  <2>1. d \in Int
    BY <1>1
  <2> HIDE DEF d
  <2>2. d \div Minute \in Int /\ d = Minute * (d \div Minute) + (d % Minute)
        /\ d % Minute \in 0 .. Minute - 1
    BY <1>1, <2>1, DivisionRemainder
  <2>3. QED
    BY <2>2 DEF d
<1>3. Minute * m >= age
  BY <1>1, <1>2
<1>4. LookBackMinutes \in Int /\ LookBackMinutes >= m
  BY <1>2 DEF LookBackMinutes, Later
<1>5. Minute * LookBackMinutes >= Minute * m
  BY <1>1, <1>2, <1>4
<1>6. QED
  BY <1>1, <1>2, <1>3, <1>4, <1>5, ClockAssumption DEF TypeOK

\* Under SlackSuffices the fetch loop ends with the last page only.
LEMMA NoEarlyBreak ==
  ASSUME SlackSuffices, TypeOK
  PROVE  ~SafetyCap /\ ~TokenRejected
<1>1. Cardinality(fetched) <= Cardinality(Issues)
  BY FS_Subset DEF SlackSuffices, TypeOK
<1>2. Cardinality(Issues) \in Nat /\ Cardinality(fetched) \in Nat
  BY FS_CardinalityType, FS_Subset DEF SlackSuffices, TypeOK
<1>3. QED
  BY <1>1, <1>2, BoundsAssumption DEF SlackSuffices, SafetyCap, TokenRejected

\* The first query matches whatever is not completely indexed.
LEMMA FirstQueryMatches ==
  ASSUME SlackSuffices, Inv, Coverage, phase = "search", asked = ZeroTime,
         NEW i \in Issues, ~Indexed(i)
  PROVE  i \in Matches
<1>1. latest[i] > 0
  BY DEF Inv, TypeOK, VersionsInOrder, PartsInOrder, Indexed
<1>2. updated[i] >= Horizon /\ updated[i] >= 1
  BY <1>1 DEF Coverage, Covered, Clocks
<1>3. CASE watermark = ZeroTime
  BY <1>1, <1>2, <1>3 DEF Matches, Floor, ZeroTime, Inv, TypeOK
<1>4. CASE watermark # ZeroTime
  <2>1. now <= start + MaxQueryDelay
    BY DEF Coverage, Clocks
  <2>2. LookBackMinutes \in Int
    BY ClockAssumption DEF LookBackMinutes, Later, Inv, TypeOK
  <2> DEFINE back == Minute * LookBackMinutes
  <2>3. back \in Int /\ back >= start - watermark + Slack
    BY <2>2, RoundingUp, ClockAssumption DEF Inv
  <2>4. Floor = now + Drift - back
    BY <1>4, <2>2, ClockAssumption DEF Floor, JiraClock, Inv, TypeOK
  <2> HIDE DEF back
  <2>5. now + Drift - back <= Horizon
    BY <1>4, <2>1, <2>3, ClockAssumption
    DEF Horizon, Limit, SlackSuffices, Coverage, Clocks, Inv, TypeOK
  <2>6. now + Drift - back \in Int /\ Horizon \in Int /\ updated[i] \in Int
    BY <2>3, ClockAssumption DEF Horizon, Limit, ZeroTime, Inv, TypeOK
  <2>7. QED
    BY <1>1, <1>2, <2>4, <2>5, <2>6 DEF Matches
<1>5. QED
  BY <1>3, <1>4

\* The clocks keep their order, and delays their bounds.
LEMMA ClocksStep == SlackSuffices /\ Inv /\ Coverage /\ [Next]_vars => Clocks'
<1> SUFFICES ASSUME SlackSuffices /\ Inv /\ Coverage, [Next]_vars PROVE Clocks'
  OBVIOUS
<1> USE DEF Inv, Coverage, Clocks, TypeOK, Busy, Working, Stages, JiraClock, ZeroTime
<1>1. ASSUME NEW i \in Issues, Update(i) PROVE Clocks'
  BY <1>1, ClockAssumption DEF Update, JiraClock, storeVars, fetchVars, poolVars
<1>2. CASE Tick
  BY <1>2, ClockAssumption DEF Tick, JiraClock, jiraVars, storeVars, fetchVars, poolVars
<1>3. CASE StartRun
  BY <1>3, ClockAssumption DEF StartRun, RunShape, jiraVars, storeVars
<1>4. ASSUME NEW page \in SUBSET ResultSet, SearchJQL(page) PROVE Clocks'
  BY <1>4, ClockAssumption, SnapshotType DEF SearchJQL, ResultSet, RunShape, jiraVars, storeVars
<1>5. CASE SafetyCap
  BY <1>5, NoEarlyBreak DEF Inv
<1>6. CASE TokenRejected
  BY <1>6, NoEarlyBreak DEF Inv
<1>7. CASE Cancel
  BY <1>7, ClockAssumption DEF Cancel, jiraVars, storeVars, fetchVars, poolVars
<1>8. CASE EndRun /\ UNCHANGED <<now, jiraVars, body, chunks, links>>
  BY <1>8, ClockAssumption DEF EndRun, jiraVars
<1>9. CASE ProducerStops
  BY <1>9, ClockAssumption DEF ProducerStops, jiraVars, storeVars, fetchVars
<1>10. ASSUME NEW w \in Workers, NEW i \in queue, TakeJob(w, i) PROVE Clocks'
  BY <1>10, ClockAssumption DEF TakeJob, RunShape, jiraVars, storeVars, fetchVars
<1>11. ASSUME NEW w \in Workers, Refetch(w) PROVE Clocks'
  BY <1>11, ClockAssumption DEF Refetch, jiraVars, storeVars, fetchVars
<1>12. ASSUME NEW w \in Workers, WriteSource(w) PROVE Clocks'
  BY <1>12, ClockAssumption DEF WriteSource, jiraVars, fetchVars
<1>13. ASSUME NEW w \in Workers, WriteChunks(w) PROVE Clocks'
  BY <1>13, ClockAssumption DEF WriteChunks, jiraVars, fetchVars
<1>14. ASSUME NEW w \in Workers, WriteLinks(w) PROVE Clocks'
  BY <1>14, ClockAssumption DEF WriteLinks, Later, jiraVars, fetchVars
<1>15. ASSUME NEW w \in Workers, StepFails(w) PROVE Clocks'
  BY <1>15, ClockAssumption DEF StepFails, jiraVars, storeVars, fetchVars
<1>16. CASE UNCHANGED vars
  BY <1>16, ClockAssumption DEF vars, jiraVars, storeVars, fetchVars, poolVars
<1>17. QED
  BY <1>1, <1>2, <1>3, <1>4, <1>5, <1>6, <1>7, <1>8, <1>9, <1>10, <1>11, <1>12,
     <1>13, <1>14, <1>15, <1>16, StepCases

\* No timestamp a run collects is ahead of its query by more than Limit.
LEMMA TimestampsStep == SlackSuffices /\ Inv /\ Coverage /\ [Next]_vars => Timestamps'
<1> SUFFICES ASSUME SlackSuffices /\ Inv /\ Coverage, [Next]_vars PROVE Timestamps'
  OBVIOUS
<1> USE DEF Inv, Coverage, Timestamps, SlackSuffices, Limit, TypeOK, Busy, Working, Stages, ZeroTime
<1>1. ASSUME NEW i \in Issues, Update(i) PROVE Timestamps'
  BY <1>1, ClockAssumption DEF Update, JiraClock, storeVars, fetchVars, poolVars
<1>2. CASE Tick
  BY <1>2, ClockAssumption DEF Tick, jiraVars, storeVars, fetchVars, poolVars
<1>3. CASE StartRun
  BY <1>3, ClockAssumption DEF StartRun, InitialMax, RunShape, jiraVars, storeVars
<1>4. ASSUME NEW page \in SUBSET ResultSet, SearchJQL(page) PROVE Timestamps'
  BY <1>4, ClockAssumption, SnapshotType
  DEF SearchJQL, ResultSet, Snapshot, Clocks, JiraClock, Version, RunShape, jiraVars,
      storeVars
<1>5. CASE SafetyCap
  BY <1>5, NoEarlyBreak DEF Inv
<1>6. CASE TokenRejected
  BY <1>6, NoEarlyBreak DEF Inv
<1>7. CASE Cancel
  BY <1>7, ClockAssumption DEF Cancel, jiraVars, storeVars, fetchVars, poolVars
<1>8. CASE EndRun /\ UNCHANGED <<now, jiraVars, body, chunks, links>>
  <2>1. /\ UNCHANGED now /\ phase' = "idle" /\ hits' = {} /\ queue' = {}
        /\ \A w \in Workers : ~Busy(w)'
    BY <1>8 DEF EndRun
  <2>2. CASE UNCHANGED watermark
    BY <2>1, <2>2
  <2>3. CASE SetWatermark
    <3>1. phase = "work" /\ asked # ZeroTime
      BY <2>3 DEF SetWatermark, AllHandled, AllHandedOut, RunShape
    <3>2. advanceMax <= now + Limit /\ start <= now
      BY <3>1, ClockAssumption DEF Clocks
    <3>3. watermark' <= now + Limit
      BY <2>3, <3>2, ClockAssumption DEF SetWatermark, NewWatermark, Later
    <3>4. QED
      BY <2>1, <3>3
  <2>4. QED
    BY <2>2, <2>3, OnlySetWatermark
<1>9. CASE ProducerStops
  BY <1>9, ClockAssumption DEF ProducerStops, jiraVars, storeVars, fetchVars
<1>10. ASSUME NEW w \in Workers, NEW i \in queue, TakeJob(w, i) PROVE Timestamps'
  <2>1. CASE cancelled
    BY <1>10, <2>1 DEF TakeJob, jiraVars, storeVars, fetchVars
  <2>2. CASE ~cancelled
    <3>1. /\ queue' \subseteq queue
          /\ doc'[w].key = i /\ doc'[w].ver = snap[i].ver /\ doc'[w].upd = snap[i].upd
          /\ \A v \in Workers \ {w} : stage'[v] = stage[v] /\ doc'[v] = doc[v]
          /\ UNCHANGED <<now, latest, updated, watermark, phase, asked, hits, snap, advanceMax>>
      BY <1>10, <2>2 DEF TakeJob, Doc, jiraVars, storeVars, fetchVars
    <3>2. snap[i].upd <= asked + Limit
      BY ClockAssumption DEF Version
    <3>3. QED
      BY <3>1, <3>2
  <2>3. QED
    BY <2>1, <2>2
<1>11. ASSUME NEW w \in Workers, Refetch(w) PROVE Timestamps'
  BY <1>11, ClockAssumption
  DEF Refetch, Clocks, JiraClock, Doc, RunShape, jiraVars, storeVars, fetchVars
<1>12. ASSUME NEW w \in Workers, WriteSource(w) PROVE Timestamps'
  BY <1>12, ClockAssumption DEF WriteSource, jiraVars, fetchVars
<1>13. ASSUME NEW w \in Workers, WriteChunks(w) PROVE Timestamps'
  BY <1>13, ClockAssumption DEF WriteChunks, jiraVars, fetchVars
<1>14. ASSUME NEW w \in Workers, WriteLinks(w) PROVE Timestamps'
  BY <1>14, ClockAssumption DEF WriteLinks, RunShape, JobsApart, Doc, Later, jiraVars, fetchVars
<1>15. ASSUME NEW w \in Workers, StepFails(w) PROVE Timestamps'
  BY <1>15, ClockAssumption DEF StepFails, jiraVars, storeVars, fetchVars
<1>16. CASE UNCHANGED vars
  BY <1>16, ClockAssumption DEF vars, jiraVars, storeVars, fetchVars, poolVars
<1>17. QED
  BY <1>1, <1>2, <1>3, <1>4, <1>5, <1>6, <1>7, <1>8, <1>9, <1>10, <1>11, <1>12,
     <1>13, <1>14, <1>15, <1>16, StepCases

\* What is on its way is the latest version, or the issue was edited after the query.
LEMMA FreshStep == SlackSuffices /\ Inv /\ Coverage /\ [Next]_vars => Fresh'
<1> SUFFICES ASSUME SlackSuffices /\ Inv /\ Coverage, [Next]_vars PROVE Fresh'
  OBVIOUS
<1> USE DEF Inv, Coverage, Fresh, UpToDate, TypeOK, Busy, Working, Stages, ZeroTime
<1>1. ASSUME NEW i \in Issues, Update(i) PROVE Fresh'
  <2>1. asked <= now
    BY DEF Clocks
  <2>2. \A j \in Issues, v \in Nat : UpToDate(j, v) => UpToDate(j, v)'
    BY <1>1, <2>1, ClockAssumption DEF Update, JiraClock, fetchVars
  <2>3. \A w \in Workers : Busy(w) => doc[w].key \in Issues /\ doc[w].ver \in Nat
    BY DEF Doc
  <2>4. \A j \in hits \cup queue : j \in Issues /\ snap[j].ver \in Nat
    BY DEF Version
  <2>5. UNCHANGED <<hits, snap, queue, stage, doc>>
    BY <1>1 DEF Update, fetchVars, poolVars
  <2> HIDE DEF UpToDate
  <2>6. QED
    BY <2>2, <2>3, <2>4, <2>5
<1>2. CASE Tick
  BY <1>2, ClockAssumption DEF Tick, jiraVars, storeVars, fetchVars, poolVars
<1>3. CASE StartRun
  BY <1>3, ClockAssumption DEF StartRun, InitialMax, jiraVars, storeVars
<1>4. ASSUME NEW page \in SUBSET ResultSet, SearchJQL(page) PROVE Fresh'
  BY <1>4, ClockAssumption, SnapshotType
  DEF SearchJQL, ResultSet, Snapshot, Clocks, JiraClock, Version, RunShape, jiraVars,
      storeVars
<1>5. CASE SafetyCap
  BY <1>5, NoEarlyBreak DEF Inv
<1>6. CASE TokenRejected
  BY <1>6, NoEarlyBreak DEF Inv
<1>7. CASE Cancel
  BY <1>7, ClockAssumption DEF Cancel, jiraVars, storeVars, fetchVars, poolVars
<1>8. CASE EndRun /\ UNCHANGED <<now, jiraVars, body, chunks, links>>
  BY <1>8, ClockAssumption DEF EndRun, jiraVars
<1>9. CASE ProducerStops
  BY <1>9, ClockAssumption DEF ProducerStops, jiraVars, storeVars, fetchVars
<1>10. ASSUME NEW w \in Workers, NEW i \in queue, TakeJob(w, i) PROVE Fresh'
  <2>1. CASE cancelled
    BY <1>10, <2>1 DEF TakeJob, jiraVars, storeVars, fetchVars
  <2>2. CASE ~cancelled
    <3>1. /\ queue' \subseteq queue
          /\ doc'[w].key = i /\ doc'[w].ver = snap[i].ver /\ doc'[w].upd = snap[i].upd
          /\ \A v \in Workers \ {w} : stage'[v] = stage[v] /\ doc'[v] = doc[v]
          /\ UNCHANGED <<now, latest, updated, watermark, phase, asked, hits, snap, advanceMax>>
      BY <1>10, <2>2 DEF TakeJob, Doc, jiraVars, storeVars, fetchVars
    <3>2. UpToDate(i, snap[i].ver)
      OBVIOUS
    <3>3. QED
      BY <3>1, <3>2
  <2>3. QED
    BY <2>1, <2>2
<1>11. ASSUME NEW w \in Workers, Refetch(w) PROVE Fresh'
  BY <1>11, ClockAssumption
  DEF Refetch, Clocks, JiraClock, Doc, RunShape, jiraVars, storeVars, fetchVars
<1>12. ASSUME NEW w \in Workers, WriteSource(w) PROVE Fresh'
  BY <1>12, ClockAssumption DEF WriteSource, jiraVars, fetchVars
<1>13. ASSUME NEW w \in Workers, WriteChunks(w) PROVE Fresh'
  BY <1>13, ClockAssumption DEF WriteChunks, jiraVars, fetchVars
<1>14. ASSUME NEW w \in Workers, WriteLinks(w) PROVE Fresh'
  BY <1>14, ClockAssumption DEF WriteLinks, Later, jiraVars, fetchVars
<1>15. ASSUME NEW w \in Workers, StepFails(w) PROVE Fresh'
  BY <1>15, ClockAssumption DEF StepFails, jiraVars, storeVars, fetchVars
<1>16. CASE UNCHANGED vars
  BY <1>16, ClockAssumption DEF vars, jiraVars, storeVars, fetchVars, poolVars
<1>17. QED
  BY <1>1, <1>2, <1>3, <1>4, <1>5, <1>6, <1>7, <1>8, <1>9, <1>10, <1>11, <1>12,
     <1>13, <1>14, <1>15, <1>16, StepCases

\* No write of a worker takes an issue out of the index.
LEMMA IndexedStays ==
  ASSUME Inv, NEW w \in Workers, WriteSource(w) \/ WriteChunks(w) \/ WriteLinks(w),
         NEW i \in Issues, Indexed(i)
  PROVE  Indexed(i)'
<1> DEFINE k == doc[w].key
<1>1. /\ k \in Issues /\ doc[w].ver \in Nat
      /\ body[k] <= doc[w].ver /\ doc[w].ver <= latest[k]
  BY DEF Inv, TypeOK, Doc, VersionsInOrder, Busy, Working, WriteSource, WriteChunks, WriteLinks
<1>2. UNCHANGED latest
  BY DEF WriteSource, WriteChunks, WriteLinks, jiraVars
<1>3. CASE i = k
  BY <1>1, <1>2, <1>3 DEF Indexed, WriteSource, WriteChunks, WriteLinks, Inv, TypeOK
<1>4. CASE i # k
  BY <1>1, <1>2, <1>4 DEF Indexed, WriteSource, WriteChunks, WriteLinks, Inv, TypeOK
<1>5. QED
  BY <1>3, <1>4

\* An issue that is not completely in the index stays within sight of the next query;
\* the step that matters is the one that moves the watermark.
LEMMA CoveredStep == SlackSuffices /\ Inv /\ Coverage /\ [Next]_vars => Covered'
<1> SUFFICES ASSUME SlackSuffices /\ Inv /\ Coverage, [Next]_vars PROVE Covered'
  OBVIOUS
<1> USE DEF Inv, Coverage, Covered, Horizon, TypeOK, ZeroTime
<1>1. ASSUME NEW i \in Issues, Update(i) PROVE Covered'
  <2>1. /\ UNCHANGED <<body, chunks, links, watermark>>
        /\ \A j \in Issues \ {i} : latest'[j] = latest[j] /\ updated'[j] = updated[j]
    BY <1>1 DEF Update, storeVars
  <2>2. JiraClock >= Horizon
    BY ClockAssumption DEF Clocks, Timestamps, JiraClock, Limit
  <2>3. updated'[i] = JiraClock
    BY <1>1 DEF Update
  <2>4. QED
    BY <2>1, <2>2, <2>3 DEF Indexed
<1>2. CASE Tick
  BY <1>2 DEF Indexed, Tick, jiraVars, storeVars, fetchVars, poolVars
<1>3. CASE StartRun
  BY <1>3 DEF Indexed, StartRun, InitialMax, jiraVars, storeVars
<1>4. ASSUME NEW page \in SUBSET ResultSet, SearchJQL(page) PROVE Covered'
  BY <1>4 DEF Indexed, SearchJQL, jiraVars, storeVars
<1>5. CASE SafetyCap
  BY <1>5, NoEarlyBreak DEF Inv
<1>6. CASE TokenRejected
  BY <1>6, NoEarlyBreak DEF Inv
<1>7. CASE Cancel
  BY <1>7 DEF Indexed, Cancel, jiraVars, storeVars, fetchVars, poolVars
<1>8. CASE EndRun /\ UNCHANGED <<now, jiraVars, body, chunks, links>>
  <2>1. UNCHANGED <<updated, latest, body, chunks, links>>
    BY <1>8 DEF jiraVars
  <2>2. CASE UNCHANGED watermark
    BY <2>1, <2>2 DEF Indexed
  <2>3. CASE SetWatermark
    <3>1. phase = "work" /\ asked # ZeroTime /\ hits = {} /\ queue = {} /\ ~failed /\ ~cancelled
          /\ \A w \in Workers : ~Busy(w)
      BY <2>3 DEF SetWatermark, AllHandled, AllHandedOut, PoolIdle, RunShape
    <3>2. \A i \in Issues : Indexed(i) \/ updated[i] >= asked + Drift
      BY <3>1 DEF Accounted, Carried
    <3>3. advanceMax <= asked + Limit /\ start <= asked
      BY <3>1 DEF Timestamps, Clocks
    <3>4. watermark' <= asked + Limit
      BY <2>3, <3>3, ClockAssumption DEF SetWatermark, NewWatermark, Later, Limit, SlackSuffices
    <3>5. watermark' \in Int
      BY <2>3 DEF SetWatermark, NewWatermark, Later
    <3>6. \A i \in Issues : updated[i] >= asked + Drift => updated[i] >= Horizon'
      BY <3>4, <3>5, ClockAssumption DEF Limit, Clocks
    <3>7. QED
      BY <2>1, <3>2, <3>6 DEF Indexed
  <2>4. QED
    BY <2>2, <2>3, OnlySetWatermark
<1>9. CASE ProducerStops
  BY <1>9 DEF Indexed, ProducerStops, jiraVars, storeVars, fetchVars
<1>10. ASSUME NEW w \in Workers, NEW i \in queue, TakeJob(w, i) PROVE Covered'
  BY <1>10 DEF Indexed, TakeJob, jiraVars, storeVars, fetchVars
<1>11. ASSUME NEW w \in Workers, Refetch(w) PROVE Covered'
  BY <1>11 DEF Indexed, Refetch, jiraVars, storeVars, fetchVars
<1>12. ASSUME NEW w \in Workers, WriteSource(w) PROVE Covered'
  <2>1. UNCHANGED <<updated, watermark>>
    BY <1>12 DEF WriteSource, jiraVars
  <2>2. QED
    BY <1>12, <2>1, IndexedStays
<1>13. ASSUME NEW w \in Workers, WriteChunks(w) PROVE Covered'
  <2>1. UNCHANGED <<updated, watermark>>
    BY <1>13 DEF WriteChunks, jiraVars
  <2>2. QED
    BY <1>13, <2>1, IndexedStays
<1>14. ASSUME NEW w \in Workers, WriteLinks(w) PROVE Covered'
  <2>1. UNCHANGED <<updated, watermark>>
    BY <1>14 DEF WriteLinks, jiraVars
  <2>2. QED
    BY <1>14, <2>1, IndexedStays
<1>15. ASSUME NEW w \in Workers, StepFails(w) PROVE Covered'
  BY <1>15 DEF Indexed, StepFails, jiraVars, storeVars, fetchVars
<1>16. CASE UNCHANGED vars
  BY <1>16 DEF Indexed, vars, jiraVars, storeVars, fetchVars, poolVars
<1>17. QED
  BY <1>1, <1>2, <1>3, <1>4, <1>5, <1>6, <1>7, <1>8, <1>9, <1>10, <1>11, <1>12,
     <1>13, <1>14, <1>15, <1>16, StepCases

\* In a run without errors every issue is indexed, edited after the query, or on its way.
LEMMA AccountedStep == SlackSuffices /\ Inv /\ Coverage /\ [Next]_vars => Accounted'
<1> SUFFICES ASSUME SlackSuffices /\ Inv /\ Coverage, [Next]_vars PROVE Accounted'
  OBVIOUS
<1> USE DEF Inv, Coverage, Accounted, TypeOK, ZeroTime
<1>1. ASSUME NEW i \in Issues, Update(i) PROVE Accounted'
  <2>1. UNCHANGED <<body, chunks, links, asked, failed, cancelled, hits, queue, stage, doc>>
        /\ \A j \in Issues \ {i} : latest'[j] = latest[j] /\ updated'[j] = updated[j]
    BY <1>1 DEF Update, storeVars, fetchVars, poolVars
  <2>2. updated'[i] >= asked + Drift
    BY <1>1, ClockAssumption DEF Update, Clocks, JiraClock
  <2>3. QED
    BY <2>1, <2>2 DEF Indexed, Carried, Busy
<1>2. CASE Tick
  BY <1>2 DEF Indexed, Carried, Busy, Tick, jiraVars, storeVars, fetchVars, poolVars
<1>3. CASE StartRun
  BY <1>3 DEF StartRun, RunShape, Indexed, Carried, Busy, jiraVars, storeVars
<1>4. ASSUME NEW page \in SUBSET ResultSet, SearchJQL(page) PROVE Accounted'
  <2>1. UNCHANGED <<latest, updated, body, chunks, links, stage, doc, failed, cancelled>>
        /\ phase = "search"
        /\ hits' \cup queue' = ResultSet \cup queue
    BY <1>4 DEF SearchJQL, jiraVars, storeVars
  <2>2. CASE asked = ZeroTime
    <3>1. \A i \in Issues : Indexed(i) \/ i \in Matches
      BY <2>1, <2>2, FirstQueryMatches
    <3>2. QED
      BY <2>1, <2>2, <3>1 DEF ResultSet, Indexed
  <2>3. CASE asked # ZeroTime
    <3>1. asked' = asked /\ ResultSet = hits
      BY <1>4, <2>3 DEF SearchJQL, ResultSet
    <3>2. QED
      BY <2>1, <2>3, <3>1 DEF Indexed, Carried, Busy
  <2>4. QED
    BY <2>2, <2>3
<1>5. CASE SafetyCap
  BY <1>5, NoEarlyBreak DEF Inv
<1>6. CASE TokenRejected
  BY <1>6, NoEarlyBreak DEF Inv
<1>7. CASE Cancel
  BY <1>7 DEF Indexed, Carried, Busy, Cancel, jiraVars, storeVars, fetchVars, poolVars
<1>8. CASE EndRun /\ UNCHANGED <<now, jiraVars, body, chunks, links>>
  BY <1>8 DEF Indexed, Carried, Busy, EndRun, jiraVars
<1>9. CASE ProducerStops
  BY <1>9 DEF Indexed, Carried, Busy, ProducerStops, jiraVars, storeVars, fetchVars
<1>10. ASSUME NEW w \in Workers, NEW i \in queue, TakeJob(w, i) PROVE Accounted'
  <2>1. CASE cancelled
    BY <1>10, <2>1 DEF TakeJob
  <2>2. CASE ~cancelled
    <3>1. /\ queue' = queue \ {i}
          /\ Busy(w)' /\ doc'[w].key = i
          /\ \A v \in Workers \ {w} : stage'[v] = stage[v] /\ doc'[v] = doc[v]
          /\ UNCHANGED <<latest, updated, body, chunks, links, asked, hits, failed, cancelled>>
      BY <1>10, <2>2 DEF TakeJob, Doc, Busy, Working, Stages, jiraVars, storeVars, fetchVars
    <3>2. ~Busy(w)
      BY <1>10 DEF TakeJob, Busy, Working
    <3>3. \A j \in Issues : Carried(j) => Carried(j)'
      BY <3>1, <3>2 DEF Carried, Busy
    <3>4. Carried(i)'
      BY <3>1 DEF Carried
    <3>5. QED
      BY <3>1, <3>3, <3>4 DEF Indexed
  <2>3. QED
    BY <2>1, <2>2
<1>11. ASSUME NEW w \in Workers, Refetch(w) PROVE Accounted'
  <2>1. UNCHANGED <<latest, updated, body, chunks, links, asked, hits, queue, failed, cancelled>>
    BY <1>11 DEF Refetch, jiraVars, storeVars, fetchVars
  <2>2. \A v \in Workers : (Busy(v) => Busy(v)') /\ doc'[v].key = doc[v].key
    BY <1>11 DEF Refetch, Busy, Working, Stages, Doc
  <2>3. QED
    BY <2>1, <2>2 DEF Indexed, Carried
<1>12. ASSUME NEW w \in Workers, WriteSource(w) PROVE Accounted'
  <2>1. UNCHANGED <<updated, asked, hits, queue, failed, cancelled, doc>>
    BY <1>12 DEF WriteSource, jiraVars, fetchVars
  <2>2. \A v \in Workers : Busy(v) => Busy(v)'
    BY <1>12 DEF WriteSource, Busy, Working, Stages
  <2>3. QED
    BY <1>12, <2>1, <2>2, IndexedStays DEF Carried
<1>13. ASSUME NEW w \in Workers, WriteChunks(w) PROVE Accounted'
  <2>1. UNCHANGED <<updated, asked, hits, queue, failed, cancelled, doc>>
    BY <1>13 DEF WriteChunks, jiraVars, fetchVars
  <2>2. \A v \in Workers : Busy(v) => Busy(v)'
    BY <1>13 DEF WriteChunks, Busy, Working, Stages
  <2>3. QED
    BY <1>13, <2>1, <2>2, IndexedStays DEF Carried
<1>14. ASSUME NEW w \in Workers, WriteLinks(w) PROVE Accounted'
  <2>1. PICK k \in Issues : k = doc[w].key
    BY <1>14 DEF WriteLinks, Busy, Working
  <2>2. /\ UNCHANGED <<latest, updated, body, chunks, asked, hits, queue, failed, cancelled>>
        /\ links' = [links EXCEPT ![k] = doc[w].ver]
        /\ \A v \in Workers \ {w} : stage'[v] = stage[v] /\ doc'[v] = doc[v]
    BY <1>14, <2>1 DEF WriteLinks, jiraVars, fetchVars
  <2>3. Busy(w) /\ stage[w] = "links"
    BY <1>14 DEF WriteLinks, Busy, Working
  <2>4. body[k] = doc[w].ver /\ chunks[k] = doc[w].ver /\ UpToDate(k, doc[w].ver)
    BY <2>1, <2>3 DEF VersionsInOrder, Fresh
  <2>5. Indexed(k)' \/ updated'[k] >= asked' + Drift
    BY <2>2, <2>4 DEF UpToDate, Indexed
  <2>6. \A j \in Issues : j # k /\ Carried(j) => Carried(j)'
    BY <2>1, <2>2 DEF Carried, Busy
  <2>7. \A j \in Issues : Indexed(j) => Indexed(j)'
    BY <1>14, IndexedStays
  <2>8. QED
    BY <2>2, <2>5, <2>6, <2>7
<1>15. ASSUME NEW w \in Workers, StepFails(w) PROVE Accounted'
  BY <1>15 DEF Indexed, Carried, Busy, StepFails, jiraVars, storeVars, fetchVars
<1>16. CASE UNCHANGED vars
  BY <1>16 DEF Indexed, Carried, Busy, vars, jiraVars, storeVars, fetchVars, poolVars
<1>17. QED
  BY <1>1, <1>2, <1>3, <1>4, <1>5, <1>6, <1>7, <1>8, <1>9, <1>10, <1>11, <1>12,
     <1>13, <1>14, <1>15, <1>16, StepCases

\* Coverage holds initially ...
LEMMA InitCoverage == SlackSuffices /\ Init => Coverage
<1> SUFFICES ASSUME SlackSuffices, Init PROVE Coverage
  OBVIOUS
<1> USE DEF Init, RunAtRest, ZeroTime, Busy, Working
<1>1. Clocks
  BY BootIsPositive, ClockAssumption DEF Clocks, JiraClock
<1>2. Timestamps /\ Fresh
  BY BootIsPositive, ClockAssumption DEF Timestamps, Fresh, Limit, SlackSuffices
<1>3. Covered /\ Accounted
  BY DEF Covered, Accounted, Indexed
<1>4. QED
  BY <1>1, <1>2, <1>3 DEF Coverage

\* ... and every step keeps it, as long as the slack suffices.
LEMMA NextCoverage == SlackSuffices /\ Inv /\ Coverage /\ [Next]_vars => Coverage'
BY ClocksStep, TimestampsStep, FreshStep, CoveredStep, AccountedStep DEF Coverage

\* Nothing but a search sets the moment of the query.
LEMMA OnlySearchAsks ==
  ASSUME [Next]_vars, asked = ZeroTime, asked' # ZeroTime
  PROVE  \E page \in SUBSET ResultSet : SearchJQL(page)
BY DEF Next, Update, Tick, StartRun, Progress, Faulty, Search, Work, Finish,
  SafetyCap, TokenRejected, Cancel, Crash, SearchFails, SetWatermarkFails,
  NoNewIssues, RunAborts, RunFails, SetWatermark, ProducerStops, TakeJob, Refetch,
  WriteSource, WriteChunks, WriteLinks, StepFails, EndRun, vars, fetchVars

\* With a good token, a cap that is not reached, and a slack of at least the
\* clock drift plus the delays of the query and of the re-fetches, every query
\* returns every issue that is not completely in the index: nothing is ever lost
\* behind the watermark.  JiraStaleToken and JiraLateRefetch show the loss when
\* the token or the delay of the re-fetches is not as assumed.
THEOREM NoStaleIssueMissed == ASSUME SlackSuffices PROVE Spec => SearchSeesStale
<1>1. Init => Inv /\ Coverage
  BY InitInv, InitCoverage
<1>2. Inv /\ Coverage /\ [Next]_vars => (Inv /\ Coverage)'
  BY NextInv, NextCoverage
<1>3. Inv /\ Coverage /\ [Next]_vars =>
        [asked = ZeroTime /\ asked' # ZeroTime
           => \A i \in Issues : Indexed(i) \/ i \in fetched' \cup hits']_vars
  <2> SUFFICES ASSUME Inv, Coverage, [Next]_vars, asked = ZeroTime, asked' # ZeroTime,
                      NEW i \in Issues, ~Indexed(i)
               PROVE  i \in fetched' \cup hits'
    OBVIOUS
  <2>1. PICK page \in SUBSET ResultSet : SearchJQL(page)
    BY OnlySearchAsks
  <2>2. phase = "search" /\ ResultSet = Matches
    BY <2>1 DEF SearchJQL, ResultSet
  <2>3. i \in Matches
    BY <2>2, FirstQueryMatches
  <2>4. QED
    BY <2>1, <2>2, <2>3 DEF SearchJQL
<1>4. QED
  BY <1>1, <1>2, <1>3, PTL DEF Spec, SearchSeesStale

\* The same as a fact of every state, between runs too: once a watermark is stored, an
\* issue updated longer before it, in Jira's clock, than Limit is in the index with its
\* last version, row, chunks and links.
OldIsIndexed ==
  watermark # ZeroTime => \A i \in Issues : updated[i] < watermark + Drift - Limit => Indexed(i)

\* At no moment, whatever runs failed, were aborted or crashed before, is an issue so far
\* behind the watermark while the index lacks part of its last version.
THEOREM NothingStaleBehindWatermark == ASSUME SlackSuffices PROVE Spec => []OldIsIndexed
<1>1. Init => Inv /\ Coverage
  BY InitInv, InitCoverage
<1>2. Inv /\ Coverage /\ [Next]_vars => (Inv /\ Coverage)'
  BY NextInv, NextCoverage
<1>3. Inv /\ Coverage => OldIsIndexed
  <2> SUFFICES ASSUME Inv, Coverage, watermark # ZeroTime, NEW i \in Issues,
                      updated[i] < watermark + Drift - Limit, ~Indexed(i)
               PROVE  FALSE
    BY DEF OldIsIndexed
  <2>1. updated[i] >= watermark + Drift - Limit
    BY DEF Coverage, Covered, Horizon
  <2>2. updated[i] \in Int /\ watermark + Drift - Limit \in Int
    BY ClockAssumption DEF Inv, TypeOK, Limit
  <2>3. QED
    BY <2>1, <2>2
<1>4. QED
  BY <1>1, <1>2, <1>3, PTL DEF Spec

-----------------------------------------------------------------------------
(***************************************************************************)
(* The safety half of ImplementsMirror: every step of the sync is a step   *)
(* of the mirror or leaves it alone.                                       *)
(***************************************************************************)

\* What the last of the three writes makes visible is never older than what it
\* replaces, and always a version the issue has had.
LEMMA StepsOfMirror == Inv /\ [Next]_vars => [Mirror!Next]_(Mirror!vars)
<1> SUFFICES ASSUME Inv, [Next]_vars, ~UNCHANGED <<latest, links>> PROVE Mirror!Next
  BY DEF Mirror!vars
<1>1. ASSUME NEW i \in Issues, Update(i) PROVE Mirror!Next
  BY <1>1 DEF Update, storeVars, Mirror!Next, Mirror!Update
<1>2. ASSUME NEW w \in Workers, WriteLinks(w) PROVE Mirror!Next
  <2>1. PICK i \in Issues : i = doc[w].key
    BY <1>2 DEF WriteLinks, Busy, Working, Inv, TypeOK
  <2>2. doc[w].ver \in Nat /\ links[i] <= doc[w].ver /\ doc[w].ver <= latest[i]
    BY <1>2, <2>1 DEF WriteLinks, Busy, Working, Inv, TypeOK, Doc, VersionsInOrder, PartsInOrder
  <2>3. latest' = latest /\ links' = [links EXCEPT ![i] = doc[w].ver]
    BY <1>2, <2>1 DEF WriteLinks, jiraVars
  <2>4. links[i] # doc[w].ver
    BY <2>3 DEF Inv, TypeOK
  <2>5. doc[w].ver \in (links[i] + 1) .. latest[i]
    BY <2>2, <2>4 DEF Inv, TypeOK
  <2>6. Mirror!Publish(i)
    BY <2>3, <2>5 DEF Mirror!Publish
  <2>7. QED
    BY <2>6 DEF Mirror!Next
<1>3. QED
  BY <1>1, <1>2, StepCases
  DEF Tick, StartRun, SafetyCap, TokenRejected, Cancel, ProducerStops, SearchJQL,
      TakeJob, Refetch, WriteSource, WriteChunks, StepFails, jiraVars, storeVars, vars

\* The sync implements the mirror, liveness aside: readers never see an issue go
\* back to an older version, nor a version it never had.
THEOREM RefinesMirror == Spec => Mirror!Init /\ [][Mirror!Next]_(Mirror!vars)
<1>1. Init => Mirror!Init
  BY DEF Init, Mirror!Init
<1>2. QED
  BY <1>1, StepsOfMirror, RunInvariant, PTL DEF Spec
=============================================================================
