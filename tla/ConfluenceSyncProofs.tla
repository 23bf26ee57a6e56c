------------------------ MODULE ConfluenceSyncProofs ------------------------
(***************************************************************************)
(* What holds of ConfluenceSync for every set of pages and spaces, every   *)
(* number of workers, every length of a listing, clock drift and bound.    *)
(***************************************************************************)
EXTENDS ConfluenceSync, FiniteSetTheorems, TLAPS

-----------------------------------------------------------------------------
(***************************************************************************)
(* The type invariant.                                                     *)
(***************************************************************************)

\* Both clocks start at one or later.
LEMMA BootIsPositive == Boot \in Nat \ {0} /\ Boot + Drift >= 1
BY ClockAssumption DEF Boot

\* A document that is one has a page, and the empty one has none.
LEMMA DocHasPage == NoDoc \notin Doc /\ \A d \in Doc : d.page \in Pages
BY SetsAssumption DEF NoDoc, Doc

\* The values of a cursor.
LEMMA CursorType ==
  /\ NoCursor \in [space : Spaces \cup {NoSpace}, upd : Int]
  /\ \A s \in Spaces, t \in Int :
       [space |-> s, upd |-> t] \in [space : Spaces \cup {NoSpace}, upd : Int]
BY DEF NoCursor

\* Initial states are well typed.
LEMMA InitType == Init => TypeOK
<1> SUFFICES ASSUME Init PROVE TypeOK
  OBVIOUS
<1> USE DEF Init, RunAtRest
<1>1. failed \in BOOLEAN /\ cancelled \in BOOLEAN
  OBVIOUS
<1>2. QED
  BY BootIsPositive, CursorType, <1>1 DEF TypeOK, Busy, ZeroTime

\* A run that is over leaves well-typed local variables.
LEMMA EndRunType ==
  ASSUME EndRun
  PROVE  /\ phase' \in {"idle", "list", "fetch", "persist"}
         /\ start' \in Nat
         /\ todo' \subseteq Spaces
         /\ cursor' \in [space : Spaces \cup {NoSpace}, upd : Int]
         /\ queued' \subseteq Pages /\ jobs' \subseteq queued'
         /\ stage' \in [Workers -> {"ready", "body", "ancestors", "gone"}]
         /\ hand' \in [Workers -> Doc \cup {NoDoc}]
         /\ \A w \in Workers : ~Busy(w)'
         /\ staged' \subseteq Doc /\ {d.page : d \in staged'} \subseteq queued'
         /\ known' \subseteq Pages
         /\ writing' \in Doc \cup {NoDoc}
         /\ advanceMax' \in Int
         /\ failed' \in BOOLEAN /\ cancelled' \in BOOLEAN
<1>1. failed' \in BOOLEAN /\ cancelled' \in BOOLEAN
  BY DEF EndRun
<1>2. QED
  BY <1>1, CursorType DEF EndRun, Busy

\* Counting a fault keeps the count a number.
LEMMA FaultType ==
  ASSUME TypeOK, Fault
  PROVE  faults' \in Nat
BY DEF TypeOK, Fault, NewFault

\* Every step keeps the types.
LEMMA NextType == TypeOK /\ [Next]_vars => TypeOK'
<1> SUFFICES ASSUME TypeOK, [Next]_vars PROVE TypeOK'
  OBVIOUS
<1> USE DEF TypeOK, Busy
<1>1. ASSUME NEW p \in Pages, Edit(p) PROVE TypeOK'
  BY <1>1, ClockAssumption DEF Edit, WikiClock, storeVars, listVars, poolVars, writeVars
<1>2. CASE Tick
  BY <1>2 DEF Tick, wikiVars, storeVars, listVars, poolVars, writeVars
<1>3. CASE StartRun
  BY <1>3 DEF StartRun, NewFault, wikiVars, storeVars, poolVars
<1>4. ASSUME NEW s \in todo, NEW batch \in SUBSET Rest(s), ListPages(s, batch) PROVE TypeOK'
  <2>1. /\ UNCHANGED <<now, latest, updated, row, resolved, chunks, watermark, start, stage,
                       hand, staged, known, writing, advanceMax, failed, cancelled, faults>>
        /\ queued \subseteq queued' /\ queued' \subseteq Pages /\ jobs' = queued'
    BY <1>4 DEF ListPages, Rest, wikiVars, storeVars, writeVars
  <2>2. /\ todo' \subseteq Spaces
        /\ cursor' \in [space : Spaces \cup {NoSpace}, upd : Int]
        /\ phase' \in {"list", "fetch"}
    BY <1>4, CursorType DEF ListPages, Rest, SpaceDone
  <2>3. \A w \in Workers : ~Busy(w)
    BY <1>4 DEF ListPages
  <2>4. QED
    BY <2>1, <2>2, <2>3
<1>5. CASE SafetyCap
  BY <1>5, CursorType DEF SafetyCap, wikiVars, storeVars, poolVars, writeVars
<1>6. CASE Cancel
  BY <1>6 DEF Cancel, NewFault, wikiVars, storeVars, listVars, poolVars, writeVars
<1>7. CASE Crash \/ ListFails \/ SetWatermarkFails
  BY <1>7, EndRunType, FaultType
  DEF Crash, ListFails, SetWatermarkFails, NewFault, wikiVars, storeVars
<1>8. CASE NoNewPages \/ RunFails
  BY <1>8, EndRunType DEF NoNewPages, RunFails, wikiVars, storeVars
<1>9. CASE SetWatermark
  BY <1>9, EndRunType DEF SetWatermark, NewWatermark, Later, wikiVars
<1>10. CASE ProducerStops
  BY <1>10 DEF ProducerStops, wikiVars, storeVars, listVars, writeVars
<1>11. CASE BuildResolver
  BY <1>11, DocHasPage DEF BuildResolver, PoolIdle, wikiVars, storeVars, listVars, poolVars
<1>12. ASSUME NEW w \in Workers, NEW p \in jobs, TakeJob(w, p) PROVE TypeOK'
  BY <1>12 DEF Doc, TakeJob, wikiVars, storeVars, listVars, writeVars
<1>13. ASSUME NEW w \in Workers, GetPage(w) PROVE TypeOK'
  BY <1>13 DEF Doc, GetPage, wikiVars, storeVars, listVars, writeVars
<1>14. ASSUME NEW w \in Workers, StagePage(w) PROVE TypeOK'
  <2>1. hand[w] \in Doc /\ hand[w].page \in queued
    BY <1>14, SetsAssumption DEF StagePage, NoDoc
  <2>2. QED
    BY <1>14, <2>1 DEF StagePage, wikiVars, storeVars, listVars
<1>15. ASSUME NEW w \in Workers, FetchFails(w) PROVE TypeOK'
  BY <1>15, FaultType DEF FetchFails, wikiVars, storeVars, listVars
<1>16. ASSUME NEW d \in staged, WriteRow(d) PROVE TypeOK'
  BY <1>16 DEF Doc, WriteRow, wikiVars, listVars, poolVars
<1>17. CASE ReplaceChunks
  <2>1. writing \in Doc
    BY <1>17 DEF ReplaceChunks
  <2>2. QED
    BY <1>17, <2>1 DEF Doc, ReplaceChunks, Later, wikiVars, listVars, poolVars
<1>18. CASE WriteFails
  BY <1>18, FaultType DEF WriteFails, wikiVars, storeVars, listVars, poolVars
<1>19. CASE WriteLoopBreaks
  BY <1>19 DEF WriteLoopBreaks, wikiVars, storeVars, listVars, poolVars
<1>20. CASE UNCHANGED vars
  BY <1>20 DEF vars, wikiVars, storeVars, listVars, poolVars, writeVars
<1>21. QED
  BY <1>1, <1>2, <1>3, <1>4, <1>5, <1>6, <1>7, <1>8, <1>9, <1>10, <1>11, <1>12, <1>13,
     <1>14, <1>15, <1>16, <1>17, <1>18, <1>19, <1>20
  DEF Next, Progress, Faulty, Listing, Work, Writing

\* Every reachable state is well typed: only queued pages are handed out, carried and
\* staged, and nobody carries one when the writing starts.
THEOREM TypeCorrect == Spec => []TypeOK
<1>1. QED BY InitType, NextType, PTL DEF Spec

-----------------------------------------------------------------------------
(***************************************************************************)
(* The inductive invariant: where the queued pages of a run are, and what  *)
(* is known of the versions that it carries.                               *)
(***************************************************************************)

\* What each phase leaves empty.  Nobody has a page before the listings are complete.
RunShape ==
  /\ phase = "idle" => cursor = NoCursor /\ queued = {} /\ jobs = {}
  /\ phase \in {"idle", "list"} => staged = {}
  /\ phase = "list" => jobs = queued
  /\ phase = "persist" => jobs = {}
  /\ phase # "persist" => writing = NoDoc
  /\ phase \in {"fetch", "persist"} => todo = {}
  /\ writing # NoDoc => writing.page \in queued
  /\ cursor.space = NoSpace => cursor = NoCursor
  /\ phase # "idle" => start <= now

\* A queued page is in one place: not handed out, with one worker, staged, or between
\* its two transactions.
PagesApart ==
  /\ \A w \in Workers : Busy(w) => /\ hand[w].page \notin jobs
                                   /\ \A d \in staged : d.page # hand[w].page
  /\ \A v, w \in Workers : Busy(v) /\ Busy(w) /\ hand[v].page = hand[w].page => v = w
  /\ \A d \in staged : d.page \notin jobs /\ d.page # writing.page
  /\ \A d, e \in staged : d.page = e.page => d = e

\* The document d is of a version that its page has had, not older than what is stored.
InOrder(d) ==
  /\ chunks[d.page] <= d.ver
  /\ d.ver <= latest[d.page]

VersionsInOrder ==
  /\ \A p \in Pages : row[p] <= latest[p] /\ chunks[p] <= latest[p]
  /\ \A w \in Workers : stage[w] = "ancestors" => InOrder(hand[w])
  /\ \A d \in staged : InOrder(d)
  /\ writing # NoDoc => InOrder(writing) /\ row[writing.page] = writing.ver

\* The page was edited since the run began: a later listing has to find it.
Edited(p) == updated[p] >= start + Drift

\* The document d is as its page is now, or its page was edited since the run began.
Current(d) == d.ver = latest[d.page] \/ Edited(d.page)

BodiesCurrent ==
  phase # "idle" =>
    /\ \A w \in Workers : stage[w] = "ancestors" => Current(hand[w])
    /\ \A d \in staged : Current(d)
    /\ writing # NoDoc => Current(writing)

\* Page p is on its way from the listing into the index.
OnItsWay(p) ==
  \/ p \in jobs
  \/ \E w \in Workers : Busy(w) /\ hand[w].page = p
  \/ \E d \in staged : d.page = p
  \/ writing.page = p

\* Until something goes wrong no queued page is lost on the way.
QueuedHandled ==
  ~failed /\ ~cancelled => \A p \in queued : OnItsWay(p) \/ Indexed(p) \/ Edited(p)

\* Until something goes wrong every queued page is on its way when the resolver is
\* built, so the resolver knows them all, and a page that is written links to them.
LinksHandled ==
  ~failed /\ ~cancelled =>
    /\ phase = "fetch" => \A p \in queued : OnItsWay(p)
    /\ phase = "persist" =>
         /\ queued \subseteq known
         /\ \A p \in queued : \/ \E d \in staged : d.page = p
                            \/ LinksOf[p] \cap queued \subseteq resolved[p]

Inv == /\ TypeOK /\ RunShape /\ PagesApart /\ VersionsInOrder
       /\ BodiesCurrent /\ QueuedHandled /\ LinksHandled

\* The steps of the specification, as the proofs below tell them apart: the six ways a
\* run ends differ in what they require.
LEMMA StepCases ==
  ASSUME [Next]_vars
  PROVE  \/ \E p \in Pages : Edit(p)
         \/ Tick \/ StartRun \/ SafetyCap \/ Cancel \/ ProducerStops \/ BuildResolver
         \/ \E s \in todo : \E batch \in SUBSET Rest(s) : ListPages(s, batch)
         \/ EndRun /\ UNCHANGED <<now, wikiVars, row, resolved, chunks>>
         \/ \E w \in Workers :
              \/ \E p \in jobs : TakeJob(w, p)
              \/ GetPage(w) \/ StagePage(w) \/ FetchFails(w)
         \/ \E d \in staged : WriteRow(d)
         \/ ReplaceChunks \/ WriteFails \/ WriteLoopBreaks
         \/ UNCHANGED vars
BY DEF Next, Progress, Faulty, Listing, Work, Writing, Crash, ListFails,
       SetWatermarkFails, NoNewPages, RunFails, SetWatermark, wikiVars, storeVars

\* What is carried, staged or being written is a document of a queued page.
LEMMA DocTypes ==
  ASSUME TypeOK
  PROVE  /\ \A w \in Workers : Busy(w) => hand[w] \in Doc /\ hand[w].page \in Pages
         /\ \A d \in staged : d.page \in Pages /\ d.ver \in Nat /\ d.upd \in Int
         /\ writing # NoDoc <=> writing \in Doc
         /\ writing # NoDoc <=> writing.page \in Pages
BY DocHasPage DEF TypeOK, Busy, Doc, NoDoc

\* The phases of a run keep their shape.
LEMMA RunShapeStep == TypeOK /\ RunShape /\ [Next]_vars => RunShape'
<1> SUFFICES ASSUME TypeOK /\ RunShape, [Next]_vars PROVE RunShape'
  OBVIOUS
<1> USE DEF RunShape, TypeOK, Busy
<1>1. ASSUME NEW p \in Pages, Edit(p) PROVE RunShape'
  BY <1>1 DEF Edit, WikiClock, storeVars, listVars, poolVars, writeVars
<1>2. CASE Tick
  BY <1>2 DEF Tick, wikiVars, storeVars, listVars, poolVars, writeVars
<1>3. CASE StartRun
  <2>1. /\ phase = "idle" /\ phase' = "list" /\ start' = now
        /\ UNCHANGED <<now, cursor, queued, jobs, staged, writing>>
    BY <1>3 DEF StartRun, poolVars
  <2>2. start' <= now'
    BY <2>1
  <2>3. QED
    BY <2>1, <2>2, Zenon
<1>4. ASSUME NEW s \in todo, NEW batch \in SUBSET Rest(s), ListPages(s, batch)
       PROVE RunShape'
  <2>1. /\ phase = "list" /\ jobs' = queued' /\ queued \subseteq queued'
        /\ UNCHANGED <<now, start, staged, writing>>
    BY <1>4 DEF ListPages, writeVars
  <2>2. CASE SpaceDone(s)
    BY <2>1, <2>2 DEF SpaceDone
  <2>3. CASE /\ UNCHANGED <<todo, phase>>
             /\ \E t \in Int : cursor' = [space |-> s, upd |-> t]
    BY <2>1, <2>3, SetsAssumption
  <2>4. QED
    BY <1>4, <2>2, <2>3 DEF ListPages, Rest
<1>5. CASE SafetyCap
  BY <1>5 DEF SafetyCap, wikiVars, storeVars, poolVars, writeVars
<1>6. CASE Cancel
  BY <1>6 DEF Cancel, wikiVars, storeVars, listVars, poolVars, writeVars
<1>7. CASE EndRun /\ UNCHANGED <<now, wikiVars, row, resolved, chunks>>
  BY <1>7 DEF EndRun, wikiVars
<1>8. CASE ProducerStops
  BY <1>8 DEF ProducerStops, wikiVars, storeVars, listVars, writeVars
<1>9. CASE BuildResolver
  BY <1>9 DEF BuildResolver, PoolIdle, wikiVars, storeVars, listVars, poolVars
<1>10. ASSUME NEW w \in Workers, NEW p \in jobs, TakeJob(w, p) PROVE RunShape'
  BY <1>10 DEF TakeJob, wikiVars, storeVars, listVars, writeVars
<1>11. ASSUME NEW w \in Workers, GetPage(w) PROVE RunShape'
  BY <1>11 DEF GetPage, wikiVars, storeVars, listVars, writeVars
<1>12. ASSUME NEW w \in Workers, StagePage(w) PROVE RunShape'
  BY <1>12 DEF StagePage, wikiVars, storeVars, listVars
<1>13. ASSUME NEW w \in Workers, FetchFails(w) PROVE RunShape'
  BY <1>13 DEF FetchFails, wikiVars, storeVars, listVars
<1>14. ASSUME NEW d \in staged, WriteRow(d) PROVE RunShape'
  BY <1>14 DEF WriteRow, wikiVars, listVars, poolVars
<1>15. CASE ReplaceChunks
  BY <1>15 DEF ReplaceChunks, wikiVars, listVars, poolVars
<1>16. CASE WriteFails
  BY <1>16 DEF WriteFails, wikiVars, storeVars, listVars, poolVars
<1>17. CASE WriteLoopBreaks
  BY <1>17 DEF WriteLoopBreaks, wikiVars, storeVars, listVars, poolVars
<1>18. CASE UNCHANGED vars
  BY <1>18 DEF vars, wikiVars, storeVars, listVars, poolVars, writeVars
<1>19. QED
  BY <1>1, <1>2, <1>3, <1>4, <1>5, <1>6, <1>7, <1>8, <1>9, <1>10, <1>11, <1>12, <1>13,
     <1>14, <1>15, <1>16, <1>17, <1>18, StepCases

\* No step has a page in two places.
LEMMA PagesApartStep == TypeOK /\ RunShape /\ PagesApart /\ [Next]_vars => PagesApart'
<1> SUFFICES ASSUME TypeOK /\ RunShape /\ PagesApart, [Next]_vars PROVE PagesApart'
  OBVIOUS
<1> USE DEF PagesApart, RunShape, TypeOK, Busy
<1>1. ASSUME NEW p \in Pages, Edit(p) PROVE PagesApart'
  BY <1>1 DEF Edit, WikiClock, storeVars, listVars, poolVars, writeVars
<1>2. CASE Tick
  BY <1>2 DEF Tick, wikiVars, storeVars, listVars, poolVars, writeVars
<1>3. CASE StartRun
  BY <1>3 DEF StartRun, wikiVars, storeVars, poolVars
<1>4. ASSUME NEW s \in todo, NEW batch \in SUBSET Rest(s), ListPages(s, batch)
       PROVE PagesApart'
  BY <1>4 DEF ListPages, SpaceDone, Rest, wikiVars, storeVars, writeVars
<1>5. CASE SafetyCap
  BY <1>5 DEF SafetyCap, wikiVars, storeVars, poolVars, writeVars
<1>6. CASE Cancel
  BY <1>6 DEF Cancel, wikiVars, storeVars, listVars, poolVars, writeVars
<1>7. CASE EndRun /\ UNCHANGED <<now, wikiVars, row, resolved, chunks>>
  BY <1>7 DEF EndRun, wikiVars
<1>8. CASE ProducerStops
  BY <1>8 DEF ProducerStops, wikiVars, storeVars, listVars, writeVars
<1>9. CASE BuildResolver
  BY <1>9 DEF BuildResolver, PoolIdle, wikiVars, storeVars, listVars, poolVars
<1>10. ASSUME NEW w \in Workers, NEW p \in jobs, TakeJob(w, p) PROVE PagesApart'
  BY <1>10 DEF TakeJob, wikiVars, storeVars, listVars, writeVars, Doc, NoDoc
<1>11. ASSUME NEW w \in Workers, GetPage(w) PROVE PagesApart'
  BY <1>11 DEF GetPage, wikiVars, storeVars, listVars, writeVars, Doc
<1>12. ASSUME NEW w \in Workers, StagePage(w) PROVE PagesApart'
  BY <1>12, SetsAssumption DEF StagePage, wikiVars, storeVars, listVars, Doc, NoDoc
<1>13. ASSUME NEW w \in Workers, FetchFails(w) PROVE PagesApart'
  BY <1>13 DEF FetchFails, wikiVars, storeVars, listVars
<1>14. ASSUME NEW d \in staged, WriteRow(d) PROVE PagesApart'
  BY <1>14 DEF WriteRow, wikiVars, listVars, poolVars
<1>15. CASE ReplaceChunks
  BY <1>15, SetsAssumption DEF ReplaceChunks, wikiVars, listVars, poolVars, NoDoc
<1>16. CASE WriteFails
  BY <1>16, SetsAssumption DEF WriteFails, wikiVars, storeVars, listVars, poolVars, NoDoc
<1>17. CASE WriteLoopBreaks
  BY <1>17 DEF WriteLoopBreaks, wikiVars, storeVars, listVars, poolVars
<1>18. CASE UNCHANGED vars
  BY <1>18 DEF vars, wikiVars, storeVars, listVars, poolVars, writeVars
<1>19. QED
  BY <1>1, <1>2, <1>3, <1>4, <1>5, <1>6, <1>7, <1>8, <1>9, <1>10, <1>11, <1>12, <1>13,
     <1>14, <1>15, <1>16, <1>17, <1>18, StepCases

\* No step carries, or writes over a stored version, an older one.
LEMMA VersionsInOrderStep ==
  TypeOK /\ RunShape /\ PagesApart /\ VersionsInOrder /\ [Next]_vars => VersionsInOrder'
<1> SUFFICES ASSUME TypeOK /\ RunShape /\ PagesApart /\ VersionsInOrder, [Next]_vars
             PROVE VersionsInOrder'
  OBVIOUS
<1> USE DEF VersionsInOrder, InOrder, TypeOK, Busy
<1>1. ASSUME NEW p \in Pages, Edit(p) PROVE VersionsInOrder'
  <2>1. /\ \A q \in Pages : latest'[q] \in Nat /\ latest[q] <= latest'[q]
        /\ UNCHANGED <<row, chunks, stage, hand, staged, writing>>
    BY <1>1 DEF Edit, storeVars, poolVars, writeVars
  <2>2. \A d \in Doc : InOrder(d) => InOrder(d)'
    BY <2>1 DEF Doc
  <2>3. \A q \in Pages : row'[q] <= latest'[q] /\ chunks'[q] <= latest'[q]
    BY <2>1
  <2>4. \A w \in Workers : stage[w] = "ancestors" => hand[w] \in Doc
    BY DocTypes
  <2>5. writing # NoDoc => writing \in Doc
    BY DocTypes
  <2> HIDE DEF InOrder
  <2>6. QED
    BY <2>1, <2>2, <2>3, <2>4, <2>5
<1>2. CASE Tick
  BY <1>2 DEF Tick, wikiVars, storeVars, listVars, poolVars, writeVars
<1>3. CASE StartRun
  BY <1>3 DEF StartRun, wikiVars, storeVars, poolVars
<1>4. ASSUME NEW s \in todo, NEW batch \in SUBSET Rest(s), ListPages(s, batch)
       PROVE VersionsInOrder'
  BY <1>4 DEF ListPages, SpaceDone, Rest, wikiVars, storeVars, writeVars
<1>5. CASE SafetyCap
  BY <1>5 DEF SafetyCap, wikiVars, storeVars, poolVars, writeVars
<1>6. CASE Cancel
  BY <1>6 DEF Cancel, wikiVars, storeVars, listVars, poolVars, writeVars
<1>7. CASE EndRun /\ UNCHANGED <<now, wikiVars, row, resolved, chunks>>
  BY <1>7 DEF EndRun, wikiVars
<1>8. CASE ProducerStops
  BY <1>8 DEF ProducerStops, wikiVars, storeVars, listVars, writeVars
<1>9. CASE BuildResolver
  BY <1>9 DEF BuildResolver, PoolIdle, wikiVars, storeVars, listVars, poolVars
<1>10. ASSUME NEW w \in Workers, NEW p \in jobs, TakeJob(w, p) PROVE VersionsInOrder'
  BY <1>10 DEF TakeJob, wikiVars, storeVars, listVars, writeVars
<1>11. ASSUME NEW w \in Workers, GetPage(w) PROVE VersionsInOrder'
  BY <1>11 DEF GetPage, wikiVars, storeVars, listVars, writeVars, Doc, PagesApart
<1>12. ASSUME NEW w \in Workers, StagePage(w) PROVE VersionsInOrder'
  BY <1>12 DEF StagePage, wikiVars, storeVars, listVars, Doc
<1>13. ASSUME NEW w \in Workers, FetchFails(w) PROVE VersionsInOrder'
  BY <1>13 DEF FetchFails, wikiVars, storeVars, listVars
<1>14. ASSUME NEW d \in staged, WriteRow(d) PROVE VersionsInOrder'
  BY <1>14 DEF WriteRow, wikiVars, listVars, poolVars, PagesApart, RunShape
<1>15. CASE ReplaceChunks
  BY <1>15 DEF ReplaceChunks, wikiVars, listVars, poolVars, PagesApart, RunShape
<1>16. CASE WriteFails
  BY <1>16 DEF WriteFails, wikiVars, storeVars, listVars, poolVars
<1>17. CASE WriteLoopBreaks
  BY <1>17 DEF WriteLoopBreaks, wikiVars, storeVars, listVars, poolVars
<1>18. CASE UNCHANGED vars
  BY <1>18 DEF vars, wikiVars, storeVars, listVars, poolVars, writeVars
<1>19. QED
  BY <1>1, <1>2, <1>3, <1>4, <1>5, <1>6, <1>7, <1>8, <1>9, <1>10, <1>11, <1>12, <1>13,
     <1>14, <1>15, <1>16, <1>17, <1>18, StepCases

\* No body read by the run is out of date, unless its page was edited since the run began.
LEMMA BodiesCurrentStep ==
  TypeOK /\ RunShape /\ BodiesCurrent /\ [Next]_vars => BodiesCurrent'
<1> SUFFICES ASSUME TypeOK /\ RunShape /\ BodiesCurrent, [Next]_vars PROVE BodiesCurrent'
  OBVIOUS
<1> USE DEF BodiesCurrent, Current, Edited, RunShape, TypeOK, Busy
<1>1. ASSUME NEW p \in Pages, Edit(p) PROVE BodiesCurrent'
  <2>1. /\ \A q \in Pages \ {p} : latest'[q] = latest[q] /\ updated'[q] = updated[q]
        /\ updated'[p] = now + Drift
        /\ UNCHANGED <<now, start, phase, stage, hand, staged, writing>>
    BY <1>1 DEF Edit, WikiClock, listVars, poolVars, writeVars
  <2>2. phase # "idle" => now + Drift >= start + Drift
    BY ClockAssumption
  <2>3. \A d : phase # "idle" /\ d.page \in Pages /\ Current(d) => Current(d)'
    BY <2>1, <2>2
  <2> HIDE DEF Current
  <2>4. QED
    BY <2>1, <2>3
<1>2. CASE Tick
  BY <1>2 DEF Tick, wikiVars, storeVars, listVars, poolVars, writeVars
<1>3. CASE StartRun
  BY <1>3 DEF StartRun, wikiVars, storeVars, poolVars
<1>4. ASSUME NEW s \in todo, NEW batch \in SUBSET Rest(s), ListPages(s, batch)
       PROVE BodiesCurrent'
  BY <1>4 DEF ListPages, SpaceDone, Rest, wikiVars, storeVars, writeVars
<1>5. CASE SafetyCap
  BY <1>5 DEF SafetyCap, wikiVars, storeVars, poolVars, writeVars
<1>6. CASE Cancel
  BY <1>6 DEF Cancel, wikiVars, storeVars, listVars, poolVars, writeVars
<1>7. CASE EndRun /\ UNCHANGED <<now, wikiVars, row, resolved, chunks>>
  BY <1>7 DEF EndRun, wikiVars
<1>8. CASE ProducerStops
  BY <1>8 DEF ProducerStops, wikiVars, storeVars, listVars, writeVars
<1>9. CASE BuildResolver
  BY <1>9 DEF BuildResolver, PoolIdle, wikiVars, storeVars, listVars, poolVars
<1>10. ASSUME NEW w \in Workers, NEW p \in jobs, TakeJob(w, p) PROVE BodiesCurrent'
  BY <1>10 DEF TakeJob, wikiVars, storeVars, listVars, writeVars
<1>11. ASSUME NEW w \in Workers, GetPage(w) PROVE BodiesCurrent'
  BY <1>11 DEF GetPage, wikiVars, storeVars, listVars, writeVars, Doc
<1>12. ASSUME NEW w \in Workers, StagePage(w) PROVE BodiesCurrent'
  BY <1>12 DEF StagePage, wikiVars, storeVars, listVars
<1>13. ASSUME NEW w \in Workers, FetchFails(w) PROVE BodiesCurrent'
  BY <1>13 DEF FetchFails, wikiVars, storeVars, listVars
<1>14. ASSUME NEW d \in staged, WriteRow(d) PROVE BodiesCurrent'
  BY <1>14 DEF WriteRow, wikiVars, listVars, poolVars
<1>15. CASE ReplaceChunks
  BY <1>15 DEF ReplaceChunks, wikiVars, listVars, poolVars
<1>16. CASE WriteFails
  BY <1>16 DEF WriteFails, wikiVars, storeVars, listVars, poolVars
<1>17. CASE WriteLoopBreaks
  BY <1>17 DEF WriteLoopBreaks, wikiVars, storeVars, listVars, poolVars
<1>18. CASE UNCHANGED vars
  BY <1>18 DEF vars, wikiVars, storeVars, listVars, poolVars, writeVars
<1>19. QED
  BY <1>1, <1>2, <1>3, <1>4, <1>5, <1>6, <1>7, <1>8, <1>9, <1>10, <1>11, <1>12, <1>13,
     <1>14, <1>15, <1>16, <1>17, <1>18, StepCases

\* While nothing has failed, no step loses a queued page.
LEMMA QueuedHandledStep == Inv /\ [Next]_vars => QueuedHandled'
<1> SUFFICES ASSUME Inv, [Next]_vars PROVE QueuedHandled'
  OBVIOUS
<1> USE DEF Inv, QueuedHandled, OnItsWay, Edited, Indexed, RunShape, TypeOK, Busy
<1>1. ASSUME NEW p \in Pages, Edit(p) PROVE QueuedHandled'
  <2>1. /\ \A q \in Pages \ {p} : latest'[q] = latest[q] /\ updated'[q] = updated[q]
        /\ updated'[p] = now + Drift
        /\ UNCHANGED <<row, chunks, start, queued, jobs, stage, hand, staged, writing, failed,
                       cancelled>>
    BY <1>1 DEF Edit, WikiClock, storeVars, listVars, poolVars, writeVars
  <2>2. p \in queued => Edited(p)'
    BY <2>1, ClockAssumption
  <2>3. QED
    BY <2>1, <2>2
<1>2. CASE Tick
  BY <1>2 DEF Tick, wikiVars, storeVars, listVars, poolVars, writeVars
<1>3. CASE StartRun
  BY <1>3 DEF StartRun, wikiVars, storeVars, poolVars
<1>4. ASSUME NEW s \in todo, NEW batch \in SUBSET Rest(s), ListPages(s, batch)
       PROVE QueuedHandled'
  BY <1>4 DEF ListPages, SpaceDone, Rest, wikiVars, storeVars, writeVars
<1>5. CASE SafetyCap
  BY <1>5 DEF SafetyCap, wikiVars, storeVars, poolVars, writeVars
<1>6. CASE Cancel
  BY <1>6 DEF Cancel, wikiVars, storeVars, listVars, poolVars, writeVars
<1>7. CASE EndRun /\ UNCHANGED <<now, wikiVars, row, resolved, chunks>>
  BY <1>7 DEF EndRun, wikiVars
<1>8. CASE ProducerStops
  BY <1>8 DEF ProducerStops, wikiVars, storeVars, listVars, writeVars
<1>9. CASE BuildResolver
  BY <1>9 DEF BuildResolver, PoolIdle, wikiVars, storeVars, listVars, poolVars
<1>10. ASSUME NEW w \in Workers, NEW p \in jobs, TakeJob(w, p) PROVE QueuedHandled'
  BY <1>10 DEF TakeJob, wikiVars, storeVars, listVars, writeVars
<1>11. ASSUME NEW w \in Workers, GetPage(w) PROVE QueuedHandled'
  BY <1>11 DEF GetPage, wikiVars, storeVars, listVars, writeVars
<1>12. ASSUME NEW w \in Workers, StagePage(w) PROVE QueuedHandled'
  BY <1>12 DEF StagePage, wikiVars, storeVars, listVars, Doc
<1>13. ASSUME NEW w \in Workers, FetchFails(w) PROVE QueuedHandled'
  BY <1>13 DEF FetchFails, wikiVars, storeVars, listVars
<1>14. ASSUME NEW d \in staged, WriteRow(d) PROVE QueuedHandled'
  BY <1>14, DocTypes DEF WriteRow, wikiVars, listVars, poolVars
<1>15. CASE ReplaceChunks
  <2>1. PICK p \in Pages : p = writing.page
    BY <1>15 DEF ReplaceChunks
  <2>2. /\ chunks' = [chunks EXCEPT ![p] = writing.ver]
        /\ UNCHANGED <<latest, updated, row, start, queued, jobs, stage, hand, staged, failed,
                       cancelled>>
    BY <1>15, <2>1 DEF ReplaceChunks, wikiVars, listVars, poolVars
  <2>3. row[p] = writing.ver /\ (writing.ver = latest[p] \/ Edited(p))
    BY <1>15, <2>1 DEF ReplaceChunks, VersionsInOrder, BodiesCurrent, Current
  <2>4. Indexed(p)' \/ Edited(p)'
    BY <2>2, <2>3
  <2>5. QED
    BY <2>1, <2>2, <2>4
<1>16. CASE WriteFails
  BY <1>16 DEF WriteFails, wikiVars, storeVars, listVars, poolVars
<1>17. CASE WriteLoopBreaks
  BY <1>17 DEF WriteLoopBreaks, wikiVars, storeVars, listVars, poolVars
<1>18. CASE UNCHANGED vars
  BY <1>18 DEF vars, wikiVars, storeVars, listVars, poolVars, writeVars
<1>19. QED
  BY <1>1, <1>2, <1>3, <1>4, <1>5, <1>6, <1>7, <1>8, <1>9, <1>10, <1>11, <1>12, <1>13,
     <1>14, <1>15, <1>16, <1>17, <1>18, StepCases

\* While nothing has failed, no queued page is unknown when the links are resolved.
LEMMA LinksHandledStep == Inv /\ [Next]_vars => LinksHandled'
<1> SUFFICES ASSUME Inv, [Next]_vars PROVE LinksHandled'
  OBVIOUS
<1> USE DEF Inv, LinksHandled, OnItsWay, RunShape, TypeOK, Busy
<1>1. ASSUME NEW p \in Pages, Edit(p) PROVE LinksHandled'
  BY <1>1 DEF Edit, storeVars, listVars, poolVars, writeVars
<1>2. CASE Tick
  BY <1>2 DEF Tick, wikiVars, storeVars, listVars, poolVars, writeVars
<1>3. CASE StartRun
  BY <1>3 DEF StartRun, wikiVars, storeVars, poolVars
<1>4. ASSUME NEW s \in todo, NEW batch \in SUBSET Rest(s), ListPages(s, batch)
       PROVE LinksHandled'
  BY <1>4 DEF ListPages, SpaceDone, Rest, wikiVars, storeVars, writeVars
<1>5. CASE SafetyCap
  BY <1>5 DEF SafetyCap, wikiVars, storeVars, poolVars, writeVars
<1>6. CASE Cancel
  BY <1>6 DEF Cancel, wikiVars, storeVars, listVars, poolVars, writeVars
<1>7. CASE EndRun /\ UNCHANGED <<now, wikiVars, row, resolved, chunks>>
  BY <1>7 DEF EndRun, wikiVars
<1>8. CASE ProducerStops
  BY <1>8 DEF ProducerStops, wikiVars, storeVars, listVars, writeVars
<1>9. CASE BuildResolver
  <2>1. /\ phase = "fetch" /\ phase' = "persist" /\ known' = {d.page : d \in staged}
        /\ jobs = {} /\ (\A w \in Workers : ~Busy(w)) /\ writing = NoDoc
        /\ UNCHANGED <<queued, staged, failed, cancelled>>
    BY <1>9 DEF BuildResolver, PoolIdle, listVars
  <2>2. ASSUME ~failed, ~cancelled, NEW p \in queued
        PROVE  \E d \in staged : d.page = p
    BY <2>1, <2>2, SetsAssumption DEF NoDoc
  <2>3. QED
    BY <2>1, <2>2
<1>10. ASSUME NEW w \in Workers, NEW p \in jobs, TakeJob(w, p) PROVE LinksHandled'
  BY <1>10 DEF TakeJob, wikiVars, storeVars, listVars, writeVars
<1>11. ASSUME NEW w \in Workers, GetPage(w) PROVE LinksHandled'
  BY <1>11 DEF GetPage, wikiVars, storeVars, listVars, writeVars
<1>12. ASSUME NEW w \in Workers, StagePage(w) PROVE LinksHandled'
  BY <1>12 DEF StagePage, wikiVars, storeVars, listVars, Doc
<1>13. ASSUME NEW w \in Workers, FetchFails(w) PROVE LinksHandled'
  BY <1>13 DEF FetchFails, wikiVars, storeVars, listVars
<1>14. ASSUME NEW d \in staged, WriteRow(d) PROVE LinksHandled'
  <2>1. /\ phase = "persist" /\ staged' = staged \ {d}
        /\ resolved' = [resolved EXCEPT ![d.page] = LinksOf[d.page] \cap known]
        /\ UNCHANGED <<phase, queued, known, failed, cancelled>>
    BY <1>14 DEF WriteRow, listVars
  <2>2. ASSUME ~failed, ~cancelled, NEW p \in queued
        PROVE  \/ \E e \in staged' : e.page = p
               \/ LinksOf[p] \cap queued \subseteq resolved'[p]
    <3>1. queued \subseteq known
      BY <2>1, <2>2
    <3>2. CASE p = d.page
      BY <2>1, <3>1, <3>2
    <3>3. CASE p # d.page
      BY <2>1, <2>2, <3>3
    <3>4. QED
      BY <3>2, <3>3
  <2>3. QED
    BY <2>1, <2>2
<1>15. CASE ReplaceChunks
  BY <1>15 DEF ReplaceChunks, wikiVars, listVars, poolVars
<1>16. CASE WriteFails
  BY <1>16 DEF WriteFails, wikiVars, storeVars, listVars, poolVars
<1>17. CASE WriteLoopBreaks
  BY <1>17 DEF WriteLoopBreaks, wikiVars, storeVars, listVars, poolVars
<1>18. CASE UNCHANGED vars
  BY <1>18 DEF vars, wikiVars, storeVars, listVars, poolVars, writeVars
<1>19. QED
  BY <1>1, <1>2, <1>3, <1>4, <1>5, <1>6, <1>7, <1>8, <1>9, <1>10, <1>11, <1>12, <1>13,
     <1>14, <1>15, <1>16, <1>17, <1>18, StepCases

\* The invariant holds initially ...
LEMMA InitInv == Init => Inv
<1> SUFFICES ASSUME Init PROVE Inv
  OBVIOUS
<1>1. TypeOK
  BY InitType
<1>2. RunShape /\ PagesApart
  BY DEF Init, RunAtRest, RunShape, PagesApart, Busy
<1>3. VersionsInOrder /\ BodiesCurrent /\ QueuedHandled /\ LinksHandled
  BY DEF Init, RunAtRest, VersionsInOrder, BodiesCurrent, QueuedHandled, LinksHandled
<1>4. QED
  BY <1>1, <1>2, <1>3 DEF Inv

\* ... and every step keeps it.
LEMMA NextInv == Inv /\ [Next]_vars => Inv'
BY NextType, RunShapeStep, PagesApartStep, VersionsInOrderStep, BodiesCurrentStep,
   QueuedHandledStep, LinksHandledStep DEF Inv

\* The inductive invariant holds in every reachable state.
THEOREM RunInvariant == Spec => []Inv
<1>1. QED BY InitInv, NextInv, PTL DEF Spec

-----------------------------------------------------------------------------
(***************************************************************************)
(* The safety properties the invariant carries.                            *)
(***************************************************************************)

\* Nothing but the last step of a clean run writes the watermark.
LEMMA OnlySetWatermark ==
  ASSUME [Next]_vars, watermark' # watermark
  PROVE  SetWatermark
BY DEF Next, Edit, Tick, StartRun, Progress, Faulty, Listing, Work, Writing, ListPages,
  SafetyCap, NoNewPages, ProducerStops, BuildResolver, TakeJob, GetPage, StagePage,
  FetchFails, WriteRow, ReplaceChunks, WriteLoopBreaks, WriteFails, RunFails,
  SetWatermarkFails, Cancel, Crash, ListFails, vars, storeVars

\* After a run without an error, no page it queued is on its way any more, and each was
\* written when all were known.
LEMMA CleanRunIsDone ==
  ASSUME Inv, SetWatermark
  PROVE  \A p \in queued : /\ Indexed(p) \/ Edited(p)
                           /\ LinksOf[p] \cap queued \subseteq resolved[p]
<1>1. /\ phase = "persist" /\ staged = {} /\ writing = NoDoc
      /\ ~failed /\ ~cancelled
  BY DEF SetWatermark, Written, CallSucceeds
<1>2. jobs = {} /\ \A w \in Workers : ~Busy(w)
  BY <1>1 DEF Inv, RunShape, TypeOK
<1>3. \A p \in queued : ~OnItsWay(p)
  BY <1>1, <1>2, SetsAssumption DEF OnItsWay, NoDoc, Inv, TypeOK
<1>4. QED
  BY <1>1, <1>3 DEF Inv, QueuedHandled, LinksHandled

\* When the watermark moves, every page of the run's listings is completely in the
\* index, as it is in Confluence, or was edited since the run began; and its row links
\* to all the others that it names (confluence.go: the resolver knows all pages of a
\* run that got through, and no other run does it for them).
THEOREM WatermarkIsEarned == Spec => WatermarkEarned
<1>1. Inv /\ [Next]_vars =>
        [watermark' # watermark
           => \A p \in queued : /\ Indexed(p) \/ updated[p] >= start + Drift
                                /\ LinksOf[p] \cap queued \subseteq resolved[p]]_vars
  BY OnlySetWatermark, CleanRunIsDone DEF Edited
<1>2. QED
  BY <1>1, RunInvariant, PTL DEF Spec, WatermarkEarned

-----------------------------------------------------------------------------
(***************************************************************************)
(* The listings miss nothing, as long as the surroundings stay within what *)
(* the slack was made for.                                                 *)
(***************************************************************************)
ListsAll ==
  /\ IsFiniteSet(Pages) /\ Cardinality(Pages) < MaxPagesPerRun
  /\ MissingSpaces = FALSE

SlackSuffices ==
  /\ ListsAll
  /\ MaxFetchLag <= Slack
  /\ Drift + Slack >= 0

Clocks ==
  /\ \A p \in Pages : updated[p] <= WikiClock
  /\ phase \in {"list", "fetch"} => now <= start + MaxFetchLag

\* No timestamp of a run is later than its start by more than what the slack pays for.
Limit == start + Drift + Slack

Timestamps ==
  /\ watermark <= now + Drift + Slack
  /\ phase # "idle" => advanceMax <= Limit
  /\ \A w \in Workers : stage[w] = "ancestors" => hand[w].upd <= Limit
  /\ \A d \in staged : d.upd <= Limit
  /\ writing # NoDoc => writing.upd <= Limit

\* What is not indexed, or may be replaced now, is not behind the watermark.
Covered == \A p \in Pages : p \in queued \/ ~Indexed(p) => ~TooOld(p)

\* What is not queued and not indexed is in the rest of a listing.
Listed ==
  phase # "idle" =>
    \A p \in Pages : \/ Indexed(p) \/ p \in queued \/ Edited(p)
                     \/ /\ SpaceOf[p] \in todo
                        /\ cursor.space = SpaceOf[p] => updated[p] <= cursor.upd

Coverage == Clocks /\ Timestamps /\ Covered /\ Listed

\* With fewer pages than the cap, it is not reached.
LEMMA NoSafetyCap ==
  ASSUME ListsAll, TypeOK
  PROVE  ~SafetyCap
<1>1. Cardinality(queued) <= Cardinality(Pages)
  BY FS_Subset DEF ListsAll, TypeOK
<1>2. Cardinality(Pages) \in Nat /\ Cardinality(queued) \in Nat
  BY FS_CardinalityType, FS_Subset DEF ListsAll, TypeOK
<1>3. QED
  BY <1>1, <1>2, BoundsAssumption DEF ListsAll, SafetyCap

\* The clocks keep their order, and the bodies are read in time.
LEMMA ClocksStep == SlackSuffices /\ Inv /\ Coverage /\ [Next]_vars => Clocks'
<1> SUFFICES ASSUME SlackSuffices /\ Inv /\ Coverage, [Next]_vars PROVE Clocks'
  OBVIOUS
<1> USE DEF Inv, Coverage, Clocks, WikiClock, RunShape, TypeOK
<1>1. ASSUME NEW p \in Pages, Edit(p) PROVE Clocks'
  BY <1>1, ClockAssumption DEF Edit, WikiClock, storeVars, listVars, poolVars, writeVars
<1>2. CASE Tick
  BY <1>2, ClockAssumption DEF Tick, wikiVars, storeVars, listVars, poolVars, writeVars
<1>3. CASE StartRun
  BY <1>3, ClockAssumption DEF StartRun, wikiVars, storeVars, poolVars
<1>4. ASSUME NEW s \in todo, NEW batch \in SUBSET Rest(s), ListPages(s, batch) PROVE Clocks'
  BY <1>4 DEF ListPages, SpaceDone, Rest, wikiVars, storeVars, writeVars
<1>5. CASE SafetyCap
  BY <1>5, NoSafetyCap DEF Inv, SlackSuffices
<1>6. CASE Cancel
  BY <1>6 DEF Cancel, wikiVars, storeVars, listVars, poolVars, writeVars
<1>7. CASE EndRun /\ UNCHANGED <<now, wikiVars, row, resolved, chunks>>
  BY <1>7 DEF EndRun, wikiVars
<1>8. CASE ProducerStops
  BY <1>8 DEF ProducerStops, wikiVars, storeVars, listVars, writeVars
<1>9. CASE BuildResolver
  BY <1>9 DEF BuildResolver, PoolIdle, wikiVars, storeVars, listVars, poolVars
<1>10. ASSUME NEW w \in Workers, NEW p \in jobs, TakeJob(w, p) PROVE Clocks'
  BY <1>10 DEF TakeJob, wikiVars, storeVars, listVars, writeVars
<1>11. ASSUME NEW w \in Workers, GetPage(w) PROVE Clocks'
  BY <1>11 DEF GetPage, wikiVars, storeVars, listVars, writeVars
<1>12. ASSUME NEW w \in Workers, StagePage(w) PROVE Clocks'
  BY <1>12 DEF StagePage, wikiVars, storeVars, listVars
<1>13. ASSUME NEW w \in Workers, FetchFails(w) PROVE Clocks'
  BY <1>13 DEF FetchFails, wikiVars, storeVars, listVars
<1>14. ASSUME NEW d \in staged, WriteRow(d) PROVE Clocks'
  BY <1>14 DEF WriteRow, wikiVars, listVars, poolVars
<1>15. CASE ReplaceChunks
  BY <1>15 DEF ReplaceChunks, wikiVars, listVars, poolVars
<1>16. CASE WriteFails
  BY <1>16 DEF WriteFails, wikiVars, storeVars, listVars, poolVars
<1>17. CASE WriteLoopBreaks
  BY <1>17 DEF WriteLoopBreaks, wikiVars, storeVars, listVars, poolVars
<1>18. CASE UNCHANGED vars
  BY <1>18 DEF vars, wikiVars, storeVars, listVars, poolVars, writeVars
<1>19. QED
  BY <1>1, <1>2, <1>3, <1>4, <1>5, <1>6, <1>7, <1>8, <1>9, <1>10, <1>11, <1>12, <1>13,
     <1>14, <1>15, <1>16, <1>17, <1>18, StepCases

\* No timestamp a run collects is later than what the slack pays for.
LEMMA TimestampsStep == SlackSuffices /\ Inv /\ Coverage /\ [Next]_vars => Timestamps'
<1> SUFFICES ASSUME SlackSuffices /\ Inv /\ Coverage, [Next]_vars PROVE Timestamps'
  OBVIOUS
<1> USE DEF Inv, Coverage, Timestamps, Limit, SlackSuffices, TypeOK, Busy
<1>1. ASSUME NEW p \in Pages, Edit(p) PROVE Timestamps'
  BY <1>1 DEF Edit, WikiClock, storeVars, listVars, poolVars, writeVars
<1>2. CASE Tick
  BY <1>2, ClockAssumption DEF Tick, wikiVars, storeVars, listVars, poolVars, writeVars
<1>3. CASE StartRun
  BY <1>3 DEF StartRun, wikiVars, storeVars, poolVars, RunShape, Busy
<1>4. ASSUME NEW s \in todo, NEW batch \in SUBSET Rest(s), ListPages(s, batch)
       PROVE Timestamps'
  BY <1>4 DEF ListPages, SpaceDone, Rest, wikiVars, storeVars, writeVars
<1>5. CASE SafetyCap
  BY <1>5, NoSafetyCap DEF Inv, SlackSuffices
<1>6. CASE Cancel
  BY <1>6 DEF Cancel, wikiVars, storeVars, listVars, poolVars, writeVars
<1>7. CASE EndRun /\ UNCHANGED <<now, wikiVars, row, resolved, chunks>>
  <2>1. UNCHANGED now /\ phase' = "idle" /\ staged' = {} /\ writing' = NoDoc
        /\ \A w \in Workers : stage'[w] = "ready"
    BY <1>7 DEF EndRun
  <2>2. CASE UNCHANGED watermark
    BY <2>1, <2>2
  <2>3. CASE SetWatermark
    <3>1. advanceMax <= Limit /\ start <= now
      BY <2>3 DEF SetWatermark, Written, RunShape
    <3>2. watermark' <= now + Drift + Slack
      BY <2>3, <3>1, ClockAssumption DEF SetWatermark, NewWatermark, Later
    <3>3. QED
      BY <2>1, <3>2
  <2>4. QED
    BY <2>2, <2>3, OnlySetWatermark
<1>8. CASE ProducerStops
  BY <1>8 DEF ProducerStops, wikiVars, storeVars, listVars, writeVars
<1>9. CASE BuildResolver
  BY <1>9 DEF BuildResolver, PoolIdle, wikiVars, storeVars, listVars, poolVars
<1>10. ASSUME NEW w \in Workers, NEW p \in jobs, TakeJob(w, p) PROVE Timestamps'
  BY <1>10 DEF TakeJob, wikiVars, storeVars, listVars, writeVars
<1>11. ASSUME NEW w \in Workers, GetPage(w) PROVE Timestamps'
  BY <1>11, ClockAssumption
  DEF GetPage, wikiVars, storeVars, listVars, writeVars, Clocks, WikiClock, Doc
<1>12. ASSUME NEW w \in Workers, StagePage(w) PROVE Timestamps'
  BY <1>12 DEF StagePage, wikiVars, storeVars, listVars
<1>13. ASSUME NEW w \in Workers, FetchFails(w) PROVE Timestamps'
  BY <1>13 DEF FetchFails, wikiVars, storeVars, listVars
<1>14. ASSUME NEW d \in staged, WriteRow(d) PROVE Timestamps'
  BY <1>14 DEF WriteRow, wikiVars, listVars, poolVars
<1>15. CASE ReplaceChunks
  BY <1>15 DEF ReplaceChunks, wikiVars, listVars, poolVars, Later
<1>16. CASE WriteFails
  BY <1>16 DEF WriteFails, wikiVars, storeVars, listVars, poolVars
<1>17. CASE WriteLoopBreaks
  BY <1>17 DEF WriteLoopBreaks, wikiVars, storeVars, listVars, poolVars
<1>18. CASE UNCHANGED vars
  BY <1>18 DEF vars, wikiVars, storeVars, listVars, poolVars, writeVars
<1>19. QED
  BY <1>1, <1>2, <1>3, <1>4, <1>5, <1>6, <1>7, <1>8, <1>9, <1>10, <1>11, <1>12, <1>13,
     <1>14, <1>15, <1>16, <1>17, <1>18, StepCases

\* A page just edited is not behind the watermark.
LEMMA EditedIsNotTooOld ==
  ASSUME Inv, Coverage, NEW p \in Pages, Edit(p)
  PROVE  ~TooOld(p)' /\ \A q \in Pages \ {p} : TooOld(q)' => TooOld(q)
BY ClockAssumption DEF Edit, TooOld, WikiClock, storeVars, Coverage, Timestamps, Inv, TypeOK

\* Nothing that is not completely indexed is behind the watermark.
LEMMA CoveredStep == SlackSuffices /\ Inv /\ Coverage /\ [Next]_vars => Covered'
<1> SUFFICES ASSUME SlackSuffices /\ Inv /\ Coverage, [Next]_vars PROVE Covered'
  OBVIOUS
<1> USE DEF Inv, Coverage, Covered, RunShape, TypeOK
<1>1. ASSUME NEW p \in Pages, Edit(p) PROVE Covered'
  <2>1. /\ \A q \in Pages \ {p} : latest'[q] = latest[q]
        /\ UNCHANGED <<row, chunks, queued>>
    BY <1>1 DEF Edit, storeVars, listVars
  <2>2. QED
    BY <1>1, <2>1, EditedIsNotTooOld DEF Indexed
<1>2. CASE Tick
  BY <1>2 DEF Tick, wikiVars, storeVars, listVars, poolVars, writeVars, Indexed, TooOld
<1>3. CASE StartRun
  BY <1>3 DEF StartRun, wikiVars, storeVars, poolVars, Indexed, TooOld
<1>4. ASSUME NEW s \in todo, NEW batch \in SUBSET Rest(s), ListPages(s, batch)
       PROVE Covered'
  BY <1>4 DEF ListPages, SpaceDone, Rest, wikiVars, storeVars, writeVars, Indexed, TooOld
<1>5. CASE SafetyCap
  BY <1>5, NoSafetyCap DEF Inv, SlackSuffices
<1>6. CASE Cancel
  BY <1>6 DEF Cancel, wikiVars, storeVars, listVars, poolVars, writeVars, Indexed, TooOld
<1>7. CASE EndRun /\ UNCHANGED <<now, wikiVars, row, resolved, chunks>>
  <2>1. queued' = {} /\ UNCHANGED <<updated, latest, row, chunks>>
    BY <1>7 DEF EndRun, wikiVars
  <2>2. CASE UNCHANGED watermark
    BY <2>1, <2>2 DEF Indexed, TooOld
  <2>3. CASE SetWatermark
    <3>1. phase = "persist" /\ todo = {}
      BY <2>3 DEF SetWatermark, Written
    <3>2. \A p \in Pages : Indexed(p) \/ Edited(p)
      BY <2>3, <3>1, CleanRunIsDone DEF Listed
    <3>3. advanceMax <= Limit
      BY <3>1 DEF Timestamps
    <3>4. watermark' \in Int /\ watermark' <= Limit
      BY <2>3, <3>3, ClockAssumption
      DEF SetWatermark, NewWatermark, Later, Limit, SlackSuffices
    <3>5. \A p \in Pages : Edited(p) => ~TooOld(p)'
      BY <2>1, <3>4, ClockAssumption DEF Edited, TooOld, Limit
    <3>6. QED
      BY <2>1, <3>2, <3>5 DEF Indexed
  <2>4. QED
    BY <2>2, <2>3, OnlySetWatermark
<1>8. CASE ProducerStops
  BY <1>8 DEF ProducerStops, wikiVars, storeVars, listVars, writeVars, Indexed, TooOld
<1>9. CASE BuildResolver
  BY <1>9
  DEF BuildResolver, PoolIdle, wikiVars, storeVars, listVars, poolVars, Indexed, TooOld
<1>10. ASSUME NEW w \in Workers, NEW p \in jobs, TakeJob(w, p) PROVE Covered'
  BY <1>10 DEF TakeJob, wikiVars, storeVars, listVars, writeVars, Indexed, TooOld
<1>11. ASSUME NEW w \in Workers, GetPage(w) PROVE Covered'
  BY <1>11 DEF GetPage, wikiVars, storeVars, listVars, writeVars, Indexed, TooOld
<1>12. ASSUME NEW w \in Workers, StagePage(w) PROVE Covered'
  BY <1>12 DEF StagePage, wikiVars, storeVars, listVars, Indexed, TooOld
<1>13. ASSUME NEW w \in Workers, FetchFails(w) PROVE Covered'
  BY <1>13 DEF FetchFails, wikiVars, storeVars, listVars, Indexed, TooOld
<1>14. ASSUME NEW d \in staged, WriteRow(d) PROVE Covered'
  BY <1>14 DEF WriteRow, wikiVars, listVars, poolVars, Indexed, TooOld
<1>15. CASE ReplaceChunks
  BY <1>15 DEF ReplaceChunks, wikiVars, listVars, poolVars, Indexed, TooOld
<1>16. CASE WriteFails
  BY <1>16 DEF WriteFails, wikiVars, storeVars, listVars, poolVars, Indexed, TooOld
<1>17. CASE WriteLoopBreaks
  BY <1>17 DEF WriteLoopBreaks, wikiVars, storeVars, listVars, poolVars, Indexed, TooOld
<1>18. CASE UNCHANGED vars
  BY <1>18 DEF vars, wikiVars, storeVars, listVars, poolVars, writeVars, Indexed, TooOld
<1>19. QED
  BY <1>1, <1>2, <1>3, <1>4, <1>5, <1>6, <1>7, <1>8, <1>9, <1>10, <1>11, <1>12, <1>13,
     <1>14, <1>15, <1>16, <1>17, <1>18, StepCases

\* In a listing of pages one by one, a page in front of the cursor that is not too old is
\* found or is still to come.
LEMMA ListingFinds ==
  ASSUME Inv, NEW s \in todo, NEW batch \in SUBSET Rest(s), ListPages(s, batch),
         NEW p \in Pages, SpaceOf[p] = s, p \notin queued, ~TooOld(p), latest[p] > 0,
         cursor.space = s => updated[p] <= cursor.upd
  PROVE  \/ p \in queued'
         \/ s \in todo' /\ updated[p] <= cursor'.upd
<1>1. phase = "list" /\ s \in Spaces /\ cursor.space \in {s, NoSpace}
  BY DEF ListPages, Inv, TypeOK
<1>2. cursor # NoCursor => updated[p] <= cursor.upd
  BY <1>1 DEF Inv, RunShape
<1>3. p \in Rest(s)
  BY <1>2 DEF Rest
<1>4. CASE p \in batch
  BY <1>4 DEF ListPages
<1>5. CASE p \notin batch
  <2>1. \A q \in batch : updated[p] <= updated[q] /\ updated[q] \in Int /\ updated[p] \in Int
    BY <1>3, <1>5 DEF ListPages, IsListing, Rest, Inv, TypeOK
  <2>2. \A q \in batch : ~TooOld(q)
    BY <2>1, ClockAssumption DEF TooOld, Inv, TypeOK
  <2>3. PICK q \in batch : cursor' = [space |-> s, upd |-> updated[q]] /\ UNCHANGED todo
    BY <1>3, <1>5, <2>2 DEF ListPages
  <2>4. QED
    BY <2>1, <2>3
<1>6. QED
  BY <1>4, <1>5

\* The listings keep what they have not come to in front of them.
LEMMA ListedStep == SlackSuffices /\ Inv /\ Coverage /\ [Next]_vars => Listed'
<1> SUFFICES ASSUME SlackSuffices /\ Inv /\ Coverage, [Next]_vars PROVE Listed'
  OBVIOUS
<1> USE DEF Inv, Coverage, Listed, RunShape, TypeOK
<1>1. ASSUME NEW p \in Pages, Edit(p) PROVE Listed'
  <2>1. /\ \A q \in Pages \ {p} : latest'[q] = latest[q] /\ updated'[q] = updated[q]
        /\ updated'[p] = now + Drift
        /\ UNCHANGED <<row, chunks, phase, start, todo, cursor, queued>>
    BY <1>1 DEF Edit, WikiClock, storeVars, listVars
  <2>2. phase # "idle" => Edited(p)'
    BY <2>1, ClockAssumption DEF Edited
  <2>3. QED
    BY <2>1, <2>2 DEF Indexed, Edited
<1>2. CASE Tick
  BY <1>2 DEF Tick, wikiVars, storeVars, listVars, poolVars, writeVars, Indexed, Edited
<1>3. CASE StartRun
  <2>1. todo' = Spaces /\ cursor' = NoCursor
    BY <1>3 DEF StartRun, SlackSuffices, ListsAll
  <2>2. QED
    BY <2>1, SetsAssumption DEF NoCursor
<1>4. ASSUME NEW s \in todo, NEW batch \in SUBSET Rest(s), ListPages(s, batch) PROVE Listed'
  <2>1. /\ UNCHANGED <<latest, updated, row, chunks, start>>
        /\ phase = "list" /\ queued \subseteq queued'
        /\ \A q \in todo : q # s => q \in todo' /\ cursor'.space # q
    BY <1>4, SetsAssumption DEF ListPages, SpaceDone, NoCursor, wikiVars, storeVars
  <2>2. ASSUME NEW p \in Pages, ~Indexed(p), p \notin queued, ~Edited(p), SpaceOf[p] # s
        PROVE  SpaceOf[p] \in todo' /\ cursor'.space # SpaceOf[p]
    BY <2>1, <2>2
  <2>3. ASSUME NEW p \in Pages, ~Indexed(p), p \notin queued, ~Edited(p), SpaceOf[p] = s
        PROVE  p \in queued' \/ (s \in todo' /\ updated[p] <= cursor'.upd)
    <3>1. ~TooOld(p) /\ latest[p] > 0
      BY <2>3 DEF Covered, VersionsInOrder, Indexed
    <3>2. cursor.space = s => updated[p] <= cursor.upd
      BY <2>1, <2>3
    <3>3. QED
      BY <1>4, <2>3, <3>1, <3>2, ListingFinds
  <2>4. QED
    BY <2>1, <2>2, <2>3 DEF Indexed, Edited
<1>5. CASE SafetyCap
  BY <1>5, NoSafetyCap DEF Inv, SlackSuffices
<1>6. CASE Cancel
  BY <1>6 DEF Cancel, wikiVars, storeVars, listVars, poolVars, writeVars, Indexed, Edited
<1>7. CASE EndRun /\ UNCHANGED <<now, wikiVars, row, resolved, chunks>>
  BY <1>7 DEF EndRun, wikiVars, Indexed, Edited
<1>8. CASE ProducerStops
  BY <1>8 DEF ProducerStops, wikiVars, storeVars, listVars, writeVars, Indexed, Edited
<1>9. CASE BuildResolver
  BY <1>9
  DEF BuildResolver, PoolIdle, wikiVars, storeVars, listVars, poolVars, Indexed, Edited
<1>10. ASSUME NEW w \in Workers, NEW p \in jobs, TakeJob(w, p) PROVE Listed'
  BY <1>10 DEF TakeJob, wikiVars, storeVars, listVars, writeVars, Indexed, Edited
<1>11. ASSUME NEW w \in Workers, GetPage(w) PROVE Listed'
  BY <1>11 DEF GetPage, wikiVars, storeVars, listVars, writeVars, Indexed, Edited
<1>12. ASSUME NEW w \in Workers, StagePage(w) PROVE Listed'
  BY <1>12 DEF StagePage, wikiVars, storeVars, listVars, Indexed, Edited
<1>13. ASSUME NEW w \in Workers, FetchFails(w) PROVE Listed'
  BY <1>13 DEF FetchFails, wikiVars, storeVars, listVars, Indexed, Edited
<1>14. ASSUME NEW d \in staged, WriteRow(d) PROVE Listed'
  BY <1>14 DEF WriteRow, wikiVars, listVars, poolVars, Indexed, Edited
<1>15. CASE ReplaceChunks
  BY <1>15 DEF ReplaceChunks, wikiVars, listVars, poolVars, Indexed, Edited
<1>16. CASE WriteFails
  BY <1>16 DEF WriteFails, wikiVars, storeVars, listVars, poolVars, Indexed, Edited
<1>17. CASE WriteLoopBreaks
  BY <1>17 DEF WriteLoopBreaks, wikiVars, storeVars, listVars, poolVars, Indexed, Edited
<1>18. CASE UNCHANGED vars
  BY <1>18 DEF vars, wikiVars, storeVars, listVars, poolVars, writeVars, Indexed, Edited
<1>19. QED
  BY <1>1, <1>2, <1>3, <1>4, <1>5, <1>6, <1>7, <1>8, <1>9, <1>10, <1>11, <1>12, <1>13,
     <1>14, <1>15, <1>16, <1>17, <1>18, StepCases

\* Coverage holds initially ...
LEMMA InitCoverage == SlackSuffices /\ Init => Coverage
<1> SUFFICES ASSUME SlackSuffices, Init PROVE Coverage
  OBVIOUS
<1> USE DEF Init, RunAtRest
<1>1. Clocks
  BY BootIsPositive, ClockAssumption DEF Clocks, WikiClock
<1>2. Timestamps
  BY BootIsPositive, ClockAssumption DEF Timestamps, SlackSuffices, ZeroTime
<1>3. Covered /\ Listed
  BY DEF Covered, Listed, TooOld
<1>4. QED
  BY <1>1, <1>2, <1>3 DEF Coverage

\* ... and every step keeps it, as long as the slack suffices.
LEMMA NextCoverage == SlackSuffices /\ Inv /\ Coverage /\ [Next]_vars => Coverage'
BY ClocksStep, TimestampsStep, CoveredStep, ListedStep DEF Coverage

\* Only a listing, or the cap, opens the pool, and only when no space is left.
LEMMA OnlyListingOpensPool ==
  ASSUME [Next]_vars, phase = "list", phase' = "fetch", ~SafetyCap
  PROVE  todo' = {} /\ UNCHANGED <<latest, updated, row, chunks, start>>
<1>1. PICK s \in todo : \E batch \in SUBSET Rest(s) : ListPages(s, batch)
  BY DEF Next, Edit, Tick, StartRun, Progress, Faulty, Listing, Work, Writing,
    NoNewPages, ProducerStops, BuildResolver, TakeJob, GetPage, StagePage,
    FetchFails, WriteRow, ReplaceChunks, WriteLoopBreaks, WriteFails, RunFails,
    SetWatermark, SetWatermarkFails, Cancel, Crash, ListFails, EndRun, Written, vars
<1>2. QED
  BY <1>1 DEF ListPages, SpaceDone, wikiVars, storeVars

\* With every space found, a cap that is not reached, and a slack of at least the time
\* to the last body and of the lag of Confluence's clock behind ours, the listings of
\* every run find every page that is not completely in the index: nothing is ever lost
\* behind the watermark, which is one for all spaces.
THEOREM NoStalePageMissed == ASSUME SlackSuffices PROVE Spec => ListingSeesStale
<1>1. Init => Inv /\ Coverage
  BY InitInv, InitCoverage
<1>2. Inv /\ Coverage /\ [Next]_vars => (Inv /\ Coverage)'
  BY NextInv, NextCoverage
<1>3. Inv /\ Coverage /\ [Next]_vars =>
        [phase = "list" /\ phase' = "fetch"
           => \A p \in Pages : \/ Indexed(p) \/ p \in queued'
                               \/ updated[p] >= start + Drift]_vars
  <2> SUFFICES ASSUME Inv, Coverage, [Next]_vars, phase = "list", phase' = "fetch",
                      NEW p \in Pages
               PROVE  Indexed(p) \/ p \in queued' \/ updated[p] >= start + Drift
    OBVIOUS
  <2>1. todo' = {} /\ UNCHANGED <<latest, updated, row, chunks, start>>
    BY OnlyListingOpensPool, NoSafetyCap DEF Inv, SlackSuffices
  <2>2. Listed'
    BY ListedStep
  <2>3. QED
    BY <2>1, <2>2 DEF Listed, Indexed, Edited
<1>4. QED
  BY <1>1, <1>2, <1>3, PTL DEF Spec, ListingSeesStale

\* The same as a fact of every state, between runs too: what the stop check of the
\* listings calls too old, which no later run will look at, is in the index with its
\* last version, row and chunks.
OldIsIndexed == \A p \in Pages : TooOld(p) => Indexed(p)

\* At no moment, whatever runs failed, were cancelled or crashed before, is a page
\* behind the watermark and its slack while the index lacks its last version.
THEOREM NothingStaleBehindWatermark == ASSUME SlackSuffices PROVE Spec => []OldIsIndexed
<1>1. Init => Inv /\ Coverage
  BY InitInv, InitCoverage
<1>2. Inv /\ Coverage /\ [Next]_vars => (Inv /\ Coverage)'
  BY NextInv, NextCoverage
<1>3. Coverage => OldIsIndexed
  BY DEF Coverage, Covered, OldIsIndexed
<1>4. QED
  BY <1>1, <1>2, <1>3, PTL DEF Spec

-----------------------------------------------------------------------------
(***************************************************************************)
(* The first run.                                                          *)
(***************************************************************************)

\* Without a watermark the listings leave out no page.
AllListed ==
  phase # "idle" /\ watermark = ZeroTime =>
    \A p \in Pages : \/ latest[p] = 0 \/ p \in queued \/ Edited(p)
                     \/ /\ SpaceOf[p] \in todo
                        /\ cursor.space = SpaceOf[p] => updated[p] <= cursor.upd

\* Nothing that a step does takes a page out of a listing that is not too old for it.
LEMMA AllListedStep == ListsAll /\ Inv /\ AllListed /\ [Next]_vars => AllListed'
<1> SUFFICES ASSUME ListsAll, Inv, AllListed, [Next]_vars PROVE AllListed'
  OBVIOUS
<1> USE DEF Inv, AllListed, RunShape, TypeOK
<1>1. ASSUME NEW p \in Pages, Edit(p) PROVE AllListed'
  <2>1. /\ \A q \in Pages \ {p} : latest'[q] = latest[q] /\ updated'[q] = updated[q]
        /\ updated'[p] = now + Drift
        /\ UNCHANGED <<watermark, phase, start, todo, cursor, queued>>
    BY <1>1 DEF Edit, WikiClock, storeVars, listVars
  <2>2. phase # "idle" => Edited(p)'
    BY <2>1, ClockAssumption DEF Edited
  <2>3. QED
    BY <2>1, <2>2 DEF Edited
<1>2. CASE Tick
  BY <1>2 DEF Tick, wikiVars, storeVars, listVars, Edited
<1>3. CASE StartRun
  <2>1. todo' = Spaces /\ cursor' = NoCursor
    BY <1>3 DEF StartRun, ListsAll
  <2>2. QED
    BY <2>1, SetsAssumption DEF NoCursor
<1>4. ASSUME NEW s \in todo, NEW batch \in SUBSET Rest(s), ListPages(s, batch) PROVE AllListed'
  <2>1. /\ UNCHANGED <<latest, updated, watermark, start>>
        /\ phase = "list" /\ queued \subseteq queued'
        /\ \A q \in todo : q # s => q \in todo' /\ cursor'.space # q
    BY <1>4, SetsAssumption DEF ListPages, SpaceDone, NoCursor, wikiVars, storeVars
  <2>2. ASSUME watermark = ZeroTime,
               NEW p \in Pages, latest[p] # 0, p \notin queued, ~Edited(p)
        PROVE  \/ p \in queued'
               \/ /\ SpaceOf[p] \in todo'
                  /\ cursor'.space = SpaceOf[p] => updated[p] <= cursor'.upd
    <3>1. SpaceOf[p] \in todo /\ (cursor.space = SpaceOf[p] => updated[p] <= cursor.upd)
      BY <2>1, <2>2
    <3>2. CASE SpaceOf[p] = s
      <4>1. ~TooOld(p) /\ latest[p] > 0
        BY <2>2 DEF TooOld
      <4>2. QED
        BY <1>4, <2>2, <3>1, <3>2, <4>1, ListingFinds
    <3>3. CASE SpaceOf[p] # s
      BY <2>1, <3>1, <3>3
    <3>4. QED
      BY <3>2, <3>3
  <2>3. QED
    BY <2>1, <2>2 DEF Edited
<1>5. CASE SafetyCap
  BY <1>5, NoSafetyCap
<1>6. CASE EndRun
  BY <1>6 DEF EndRun
<1>7. CASE \/ Cancel \/ ProducerStops \/ BuildResolver \/ ReplaceChunks \/ WriteFails
           \/ WriteLoopBreaks \/ \E d \in staged : WriteRow(d)
           \/ \E w \in Workers : \/ \E p \in jobs : TakeJob(w, p)
                               \/ GetPage(w) \/ StagePage(w) \/ FetchFails(w)
           \/ UNCHANGED vars
  <2>1. /\ UNCHANGED <<latest, updated, watermark, start, todo, cursor, queued>>
        /\ phase' # "idle" => phase # "idle"
    BY <1>7
    DEF Cancel, ProducerStops, BuildResolver, ReplaceChunks, WriteFails, WriteLoopBreaks,
        WriteRow, TakeJob, GetPage, StagePage, FetchFails, vars, wikiVars, storeVars, listVars
  <2>2. QED
    BY <2>1 DEF Edited
<1>8. QED
  BY <1>1, <1>2, <1>3, <1>4, <1>5, <1>6, <1>7, StepCases

\* The run that writes the first watermark leaves the mirror complete: every page that
\* is not edited meanwhile is in the index as it is in Confluence, and links to every
\* other such page that it names.
FirstRunCompletes ==
  [][watermark = ZeroTime /\ watermark' # watermark
       => \A p \in Pages : latest[p] > 0 /\ updated[p] < start + Drift
            => /\ Indexed(p)
               /\ {q \in LinksOf[p] : latest[q] > 0 /\ updated[q] < start + Drift}
                    \subseteq resolved[p]]_vars

\* With every space found and a cap that is not reached, a run without a watermark
\* (confluence.go:119, the early stop asks for one) mirrors all pages, and resolves all
\* the links between them; the incremental runs after it do not keep these up.
THEOREM FirstRunIsComplete == ASSUME ListsAll PROVE Spec => FirstRunCompletes
<1>1. Init => AllListed
  BY DEF Init, RunAtRest, AllListed
<1>2. Inv /\ AllListed /\ [Next]_vars => (Inv /\ AllListed)'
  BY NextInv, AllListedStep
<1>3. Inv /\ AllListed /\ [Next]_vars =>
        [watermark = ZeroTime /\ watermark' # watermark
           => \A p \in Pages : latest[p] > 0 /\ updated[p] < start + Drift
                => /\ Indexed(p)
                   /\ {q \in LinksOf[p] : latest[q] > 0 /\ updated[q] < start + Drift}
                        \subseteq resolved[p]]_vars
  <2> SUFFICES ASSUME Inv, AllListed, [Next]_vars,
                      watermark = ZeroTime, watermark' # watermark
               PROVE  \A p \in Pages : latest[p] > 0 /\ updated[p] < start + Drift
                        => /\ Indexed(p)
                           /\ {q \in LinksOf[p] : latest[q] > 0 /\ updated[q] < start + Drift}
                                \subseteq resolved[p]
    OBVIOUS
  <2>1. SetWatermark /\ phase = "persist" /\ todo = {}
    BY OnlySetWatermark DEF SetWatermark, Written, Inv, RunShape
  <2>2. ASSUME NEW p \in Pages, latest[p] > 0, updated[p] < start + Drift
        PROVE  p \in queued /\ ~Edited(p)
    BY <2>1, <2>2, ClockAssumption DEF AllListed, Edited, Inv, TypeOK
  <2>3. \A p \in queued : /\ Indexed(p) \/ Edited(p)
                          /\ LinksOf[p] \cap queued \subseteq resolved[p]
    BY <2>1, CleanRunIsDone
  <2>4. QED
    BY <2>2, <2>3, SetsAssumption
<1>4. QED
  BY <1>1, <1>2, <1>3, InitInv, PTL DEF Spec, FirstRunCompletes

-----------------------------------------------------------------------------
(***************************************************************************)
(* The safety half of ImplementsMirror.                                    *)
(***************************************************************************)

\* What the second of the two writes makes visible is never older than what it replaces,
\* and always a version the page has had.
LEMMA StepsOfMirror == Inv /\ [Next]_vars => [Mirror!Next]_(Mirror!vars)
<1> SUFFICES ASSUME Inv, [Next]_vars, ~UNCHANGED <<latest, chunks>> PROVE Mirror!Next
  BY DEF Mirror!vars
<1>1. ASSUME NEW p \in Pages, Edit(p) PROVE Mirror!Next
  BY <1>1 DEF Edit, storeVars, Mirror!Next, Mirror!Update
<1>2. CASE ReplaceChunks
  <2>1. PICK p \in Pages : p = writing.page
    BY <1>2, DocTypes DEF ReplaceChunks, Inv
  <2>2. writing.ver \in Nat /\ chunks[p] <= writing.ver /\ writing.ver <= latest[p]
    BY <1>2, <2>1, DocTypes DEF ReplaceChunks, Inv, VersionsInOrder, InOrder, Doc
  <2>3. latest' = latest /\ chunks' = [chunks EXCEPT ![p] = writing.ver]
    BY <1>2, <2>1 DEF ReplaceChunks, wikiVars
  <2>4. chunks[p] # writing.ver
    BY <2>3 DEF Inv, TypeOK
  <2>5. writing.ver \in (chunks[p] + 1) .. latest[p]
    BY <2>2, <2>4 DEF Inv, TypeOK
  <2>6. Mirror!Publish(p)
    BY <2>3, <2>5 DEF Mirror!Publish
  <2>7. QED
    BY <2>6 DEF Mirror!Next
<1>3. QED
  BY <1>1, <1>2, StepCases
  DEF Tick, StartRun, SafetyCap, Cancel, ProducerStops, BuildResolver, ListPages, TakeJob,
      GetPage, StagePage, FetchFails, WriteRow, WriteFails, WriteLoopBreaks, wikiVars,
      storeVars, vars

\* The sync implements the mirror, liveness aside: readers never see the chunks of a page
\* go back to an older version, nor a version it never had.
THEOREM RefinesMirror == Spec => Mirror!Init /\ [][Mirror!Next]_(Mirror!vars)
<1>1. Init => Mirror!Init
  BY DEF Init, Mirror!Init
<1>2. QED
  BY <1>1, StepsOfMirror, RunInvariant, PTL DEF Spec
=============================================================================
