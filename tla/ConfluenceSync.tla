--------------------------- MODULE ConfluenceSync ---------------------------
(***************************************************************************)
(* The incremental Confluence sync (internal/ingest/confluence.go).  A run *)
(* lists the pages of each space, newest first, until it meets one older   *)
(* than the watermark; a pool of workers reads the bodies of the pages;    *)
(* when all are there, links between them are resolved and they are        *)
(* written one after the other, row and chunks in two transactions; the    *)
(* watermark, one for all spaces, moves when nothing failed.  Any step can *)
(* fail, the context can be cancelled and the process can die.             *)
(*                                                                         *)
(* The contents of a page are abstracted to a version number.              *)
(***************************************************************************)
EXTENDS Integers, FiniteSets

CONSTANTS
  Pages, NoPage,
  Spaces, NoSpace,
  SpaceOf,           \* SpaceOf[p]: the space of page p
  LinksOf,           \* LinksOf[p]: the pages that p links to
  Workers,           \* goroutines of the pool (opts.Workers)
  ListLimit,         \* pages per listing request
  MaxPagesPerRun,    \* maxIssuesPerRun, the safety cap
  Slack,             \* watermarkSlack, in ticks
  \* What the surroundings may do:
  Drift,             \* Confluence's clock minus ours
  MaxFetchLag,       \* longest time from the run's start to its last body
  MissingSpaces,     \* may Confluence leave out some of the spaces asked for?
  \* Bounds of the model:
  MaxTime, MaxVersions, MaxFaults

ASSUME SetsAssumption ==
  /\ NoPage \notin Pages /\ NoSpace \notin Spaces /\ Spaces # {}
  /\ SpaceOf \in [Pages -> Spaces]
  /\ LinksOf \in [Pages -> SUBSET Pages]
  /\ MissingSpaces \in BOOLEAN
ASSUME ClockAssumption ==
  /\ Slack \in Nat /\ MaxFetchLag \in Nat
  /\ Drift \in Int
ASSUME BoundsAssumption ==
  /\ ListLimit \in Nat \ {0}
  /\ MaxPagesPerRun \in Nat \ {0}
  /\ MaxTime \in Nat /\ MaxVersions \in Nat /\ MaxFaults \in Nat

VARIABLES
  now,         \* our clock
  latest,      \* latest[p]: version of p in Confluence, 0 = does not exist yet
  updated,     \* updated[p]: Confluence's timestamp of that version
  row,         \* row[p]: version in the sources row, 0 = no row
  resolved,    \* resolved[p]: the pages that the row's body has a URL for
  chunks,      \* chunks[p]: version the chunks were cut from
  watermark,   \* ingest_state.last_synced_at, ZeroTime = no row
  phase,       \* where RunConfluence is
  start,       \* the run's start timestamp
  todo,        \* spaces whose listing is not finished
  cursor,      \* position in the listing of a space
  queued,      \* pages queued by the listings
  jobs,        \* of those, the pages not handed to a worker yet
  stage,       \* stage[w]: the next thing worker w does
  hand,        \* hand[w]: the page worker w carries
  staged,      \* normalized pages that are not written yet
  known,       \* pages recorded in the link resolver
  writing,     \* the page between its two transactions
  advanceMax,  \* newest timestamp written
  failed,      \* firstErr # nil
  cancelled,   \* ctx.Err() # nil
  faults       \* faults so far, bounded by MaxFaults

wikiVars  == <<latest, updated>>
storeVars == <<row, resolved, chunks, watermark>>
listVars  == <<start, todo, cursor, queued>>
poolVars  == <<jobs, stage, hand>>
writeVars == <<staged, known, writing, advanceMax, failed>>
vars == <<now, wikiVars, storeVars, phase, listVars, poolVars, writeVars, cancelled,
          faults>>

ZeroTime == 0
\* Both clocks read at least 1 from the beginning.
Boot == IF Drift < 0 THEN 1 - Drift ELSE 1
WikiClock == now + Drift
Later(s, t) == IF s >= t THEN s ELSE t

Doc      == [page : Pages, ver : Nat, upd : Int]
NoDoc    == [page |-> NoPage, ver |-> 0, upd |-> 0]
NoCursor == [space |-> NoSpace, upd |-> 0]

Busy(w) == stage[w] \in {"body", "ancestors"}
\* wg.Wait(): not only are all pages handed out, the workers are through with them.
AllHandedOut == jobs = {}
PoolIdle == jobs = {} /\ \A w \in Workers : ~Busy(w)

-----------------------------------------------------------------------------
\* The run's local variables between runs.
RunAtRest ==
  /\ phase = "idle"
  /\ start = 0
  /\ todo = {} /\ cursor = NoCursor
  /\ queued = {} /\ jobs = {}
  /\ stage = [w \in Workers |-> "ready"]
  /\ hand = [w \in Workers |-> NoDoc]
  /\ staged = {} /\ known = {}
  /\ writing = NoDoc
  /\ advanceMax = 0
  /\ failed = FALSE /\ cancelled = FALSE

Init ==
  /\ now = Boot
  /\ latest = [p \in Pages |-> 0]
  /\ updated = [p \in Pages |-> 0]
  /\ row = [p \in Pages |-> 0]
  /\ resolved = [p \in Pages |-> {}]
  /\ chunks = [p \in Pages |-> 0]
  /\ watermark = ZeroTime
  /\ faults = 0
  /\ RunAtRest

\* The run returns or is gone.
EndRun ==
  /\ phase' = "idle"
  /\ start' = 0
  /\ todo' = {} /\ cursor' = NoCursor
  /\ queued' = {} /\ jobs' = {}
  /\ stage' = [w \in Workers |-> "ready"]
  /\ hand' = [w \in Workers |-> NoDoc]
  /\ staged' = {} /\ known' = {}
  /\ writing' = NoDoc
  /\ advanceMax' = 0
  /\ failed' = FALSE /\ cancelled' = FALSE

NewFault == faults < MaxFaults /\ faults' = faults + 1
\* A call fails because the context is cancelled, or for a reason of its own.
Fault == IF cancelled THEN UNCHANGED faults ELSE NewFault

-----------------------------------------------------------------------------
\* Surroundings

\* Someone creates or edits page p in Confluence.
Edit(p) ==
  /\ latest[p] < MaxVersions
  /\ latest' = [latest EXCEPT ![p] = @ + 1]
  /\ updated' = [updated EXCEPT ![p] = WikiClock]
  /\ UNCHANGED <<now, storeVars, phase, listVars, poolVars, writeVars, cancelled,
                 faults>>

\* Time passes, but a run has its bodies within MaxFetchLag.
Tick ==
  /\ now < MaxTime
  /\ phase \in {"list", "fetch"} => now < start + MaxFetchLag
  /\ now' = now + 1
  /\ UNCHANGED <<wikiVars, storeVars, phase, listVars, poolVars, writeVars, cancelled,
                 faults>>

\* SIGTERM cancels the run's context.
Cancel ==
  /\ phase # "idle" /\ ~cancelled
  /\ NewFault
  /\ cancelled' = TRUE
  /\ UNCHANGED <<now, wikiVars, storeVars, phase, listVars, poolVars, writeVars>>

\* The process dies: only what is committed to the database remains.
Crash ==
  /\ phase # "idle"
  /\ NewFault
  /\ EndRun
  /\ UNCHANGED <<now, wikiVars, storeVars>>

-----------------------------------------------------------------------------
\* Listing

\* ResolveSpaces leaves out the keys it does not find; only if it finds none
\* does the run fail.
StartRun ==
  /\ phase = "idle"
  /\ phase' = "list"
  /\ start' = now
  /\ \/ todo' = Spaces /\ UNCHANGED faults
     \/ /\ MissingSpaces /\ NewFault
        /\ todo' \in SUBSET Spaces \ {{}, Spaces}
  /\ advanceMax' = watermark
  /\ UNCHANGED <<now, wikiVars, storeVars, cursor, queued, poolVars, staged, known,
                 writing, failed, cancelled>>

\* External (Confluence): the rest of a space's listing.  The listing is in
\* descending order of the modification; a page edited while it is read moves
\* to the front, behind the cursor.
Rest(s) == {p \in Pages : /\ SpaceOf[p] = s /\ latest[p] > 0 /\ p \notin queued
                          /\ cursor # NoCursor => updated[p] <= cursor.upd}
IsListing(batch, rest) ==
  /\ batch \subseteq rest
  /\ Cardinality(batch) <= ListLimit
  /\ batch # rest => Cardinality(batch) = ListLimit
  /\ \A p \in batch, q \in rest \ batch : updated[p] >= updated[q]

\* p.Version.CreatedAt.Before(watermark - slack) stops the space.
TooOldIgnoringSlack(p) == watermark # ZeroTime /\ updated[p] < watermark
TooOld(p) == watermark # ZeroTime /\ updated[p] < watermark - Slack

\* The listing that ends a space opens the pool when it was the last space.
SpaceDone(s) ==
  /\ todo' = todo \ {s}
  /\ cursor' = NoCursor
  /\ phase' = IF todo' = {} THEN "fetch" ELSE "list"

ListPages(s, batch) ==
  /\ phase = "list" /\ ~cancelled
  /\ s \in todo /\ cursor.space \in {s, NoSpace}
  /\ Cardinality(queued) < MaxPagesPerRun
  /\ IsListing(batch, Rest(s))
  /\ queued' = queued \cup {p \in batch : ~TooOld(p)}
  /\ jobs' = queued'
  /\ IF batch = Rest(s) \/ \E p \in batch : TooOld(p)
       THEN SpaceDone(s)
       ELSE /\ \E p \in batch : /\ \A q \in batch : updated[p] <= updated[q]
                                /\ cursor' = [space |-> s, upd |-> updated[p]]
            /\ UNCHANGED <<todo, phase>>
  /\ UNCHANGED <<now, wikiVars, storeVars, start, stage, hand, writeVars, cancelled,
                 faults>>

\* At the cap no further page of any space is listed.
SafetyCap ==
  /\ phase = "list"
  /\ Cardinality(queued) >= MaxPagesPerRun
  /\ phase' = "fetch"
  /\ todo' = {} /\ cursor' = NoCursor
  /\ UNCHANGED <<now, wikiVars, storeVars, start, queued, poolVars, writeVars,
                 cancelled, faults>>

\* An error of a listing (or of reading the watermark or the spaces) ends the run.
ListFails ==
  /\ phase = "list"
  /\ Fault
  /\ EndRun
  /\ UNCHANGED <<now, wikiVars, storeVars>>

\* Nothing queued: return without touching the watermark.
NoNewPages ==
  /\ phase = "fetch" /\ queued = {}
  /\ EndRun
  /\ UNCHANGED <<now, wikiVars, storeVars, faults>>

-----------------------------------------------------------------------------
\* The bodies

\* A worker that finds the context cancelled returns and the page with it.  The
\* order in which the pages are handed out is left open.
TakeJob(w, p) ==
  /\ phase = "fetch" /\ stage[w] = "ready" /\ p \in jobs
  /\ jobs' = jobs \ {p}
  /\ IF cancelled
       THEN /\ stage' = [stage EXCEPT ![w] = "gone"]
            /\ UNCHANGED hand
       ELSE /\ stage' = [stage EXCEPT ![w] = "body"]
            /\ hand' = [hand EXCEPT ![w] = [page |-> p, ver |-> 0, upd |-> 0]]
  /\ UNCHANGED <<now, wikiVars, storeVars, phase, listVars, writeVars, cancelled,
                 faults>>

\* GetPage returns the page as it is now.
GetPage(w) ==
  /\ stage[w] = "body" /\ ~cancelled
  /\ LET p == hand[w].page IN
       hand' = [hand EXCEPT ![w] = [page |-> p, ver |-> latest[p], upd |-> updated[p]]]
  /\ stage' = [stage EXCEPT ![w] = "ancestors"]
  /\ UNCHANGED <<now, wikiVars, storeVars, phase, listVars, jobs, writeVars, cancelled,
                 faults>>

\* GetAncestors, their titles, Normalize; the result goes to the channel.
StagePage(w) ==
  /\ stage[w] = "ancestors" /\ ~cancelled
  /\ staged' = staged \cup {hand[w]}
  /\ stage' = [stage EXCEPT ![w] = "ready"]
  /\ hand' = [hand EXCEPT ![w] = NoDoc]
  /\ UNCHANGED <<now, wikiVars, storeVars, phase, listVars, jobs, known, writing,
                 advanceMax, failed, cancelled, faults>>

\* A call for a page fails: the error goes to the channel.
FetchFails(w) ==
  /\ Busy(w)
  /\ Fault
  /\ failed' = TRUE
  /\ stage' = [stage EXCEPT ![w] = "ready"]
  /\ hand' = [hand EXCEPT ![w] = NoDoc]
  /\ UNCHANGED <<now, wikiVars, storeVars, phase, listVars, jobs, staged, known,
                 writing, advanceMax, cancelled>>

\* The producer sees ctx.Done() while it still has pages to hand out.
ProducerStops ==
  /\ phase = "fetch" /\ cancelled /\ jobs # {}
  /\ jobs' = {}
  /\ UNCHANGED <<now, wikiVars, storeVars, phase, listVars, stage, hand, writeVars,
                 cancelled, faults>>

\* wg.Wait() returns; every page that came through is known to the resolver.
BuildResolver ==
  /\ phase = "fetch" /\ queued # {} /\ PoolIdle
  /\ phase' = "persist"
  /\ known' = {d.page : d \in staged}
  /\ UNCHANGED <<now, wikiVars, storeVars, listVars, poolVars, staged, writing,
                 advanceMax, failed, cancelled, faults>>

-----------------------------------------------------------------------------
\* Writing, one page after the other

\* ResolveLinks, chunk, embed, UpsertSource.
WriteRow(d) ==
  /\ phase = "persist" /\ writing = NoDoc /\ d \in staged /\ ~cancelled
  /\ staged' = staged \ {d}
  /\ writing' = d
  /\ row' = [row EXCEPT ![d.page] = d.ver]
  /\ resolved' = [resolved EXCEPT ![d.page] = LinksOf[d.page] \cap known]
  /\ UNCHANGED <<now, wikiVars, chunks, watermark, phase, listVars, poolVars, known,
                 advanceMax, failed, cancelled, faults>>

ReplaceChunks ==
  /\ writing # NoDoc /\ ~cancelled
  /\ chunks' = [chunks EXCEPT ![writing.page] = writing.ver]
  /\ advanceMax' = Later(writing.upd, advanceMax)
  /\ writing' = NoDoc
  /\ UNCHANGED <<now, wikiVars, row, resolved, watermark, phase, listVars, poolVars,
                 staged, known, failed, cancelled, faults>>

\* A step of a page fails, before its row is written or after: go on with the next.
WriteFails ==
  /\ phase = "persist"
  /\ Fault
  /\ failed' = TRUE
  /\ IF writing = NoDoc
       THEN \E d \in staged : staged' = staged \ {d} /\ UNCHANGED writing
       ELSE writing' = NoDoc /\ UNCHANGED staged
  /\ UNCHANGED <<now, wikiVars, storeVars, phase, listVars, poolVars, known,
                 advanceMax, cancelled>>

\* The loop sees the cancelled context and breaks, without an error.
WriteLoopBreaks ==
  /\ phase = "persist" /\ cancelled /\ writing = NoDoc /\ staged # {}
  /\ staged' = {}
  /\ UNCHANGED <<now, wikiVars, storeVars, phase, listVars, poolVars, known, writing,
                 advanceMax, failed, cancelled, faults>>

Written == phase = "persist" /\ staged = {} /\ writing = NoDoc

RunFails ==
  /\ Written /\ failed
  /\ EndRun
  /\ UNCHANGED <<now, wikiVars, storeVars, faults>>

\* The start of the run or the newest timestamp it wrote; not the time it finished.
FinishAsWatermark == Later(advanceMax, now)
NewWatermark == Later(advanceMax, start)

\* The store call that ends a run fails when the context is cancelled.
DetachedContext == TRUE
CallSucceeds == ~cancelled

SetWatermark ==
  /\ Written /\ ~failed /\ CallSucceeds
  /\ watermark' = NewWatermark
  /\ EndRun
  /\ UNCHANGED <<now, wikiVars, row, resolved, chunks, faults>>

SetWatermarkFails ==
  /\ Written /\ ~failed
  /\ Fault
  /\ EndRun
  /\ UNCHANGED <<now, wikiVars, storeVars>>

-----------------------------------------------------------------------------
Listing == \E s \in todo : \E batch \in SUBSET Rest(s) : ListPages(s, batch)
Work(w) == \/ \E p \in jobs : TakeJob(w, p)
           \/ GetPage(w) \/ StagePage(w)
Writing == \/ \E d \in staged : WriteRow(d)
           \/ ReplaceChunks \/ WriteLoopBreaks

Progress == \/ Listing \/ SafetyCap \/ NoNewPages
            \/ \E w \in Workers : Work(w)
            \/ ProducerStops \/ BuildResolver
            \/ Writing \/ RunFails \/ SetWatermark

Faulty == \/ Cancel \/ Crash \/ ListFails \/ WriteFails \/ SetWatermarkFails
          \/ \E w \in Workers : FetchFails(w)

Next == \/ \E p \in Pages : Edit(p)
        \/ Tick
        \/ StartRun
        \/ Progress
        \/ Faulty

Spec == Init /\ [][Next]_vars

(***************************************************************************)
(* The CronJob starts a run again and again, and a run that is not         *)
(* disturbed keeps going; a failing call of a cancelled run is the only    *)
(* way its step can go.  Nothing is assumed of edits, time and faults.     *)
(***************************************************************************)
Fairness ==
  /\ WF_vars(StartRun)
  /\ WF_vars(Progress)
  /\ WF_vars(cancelled /\ Faulty)

FairSpec == Spec /\ Fairness

-----------------------------------------------------------------------------
(***************************************************************************)
(* Properties                                                              *)
(***************************************************************************)

\* Types, and where a page may be: queued before it is in a worker's hand, and in
\* nobody's hand when the writing starts.
TypeOK ==
  /\ now \in Nat \ {0}
  /\ latest \in [Pages -> Nat]
  /\ updated \in [Pages -> Int]
  /\ row \in [Pages -> Nat]
  /\ resolved \in [Pages -> SUBSET Pages]
  /\ chunks \in [Pages -> Nat]
  /\ watermark \in Nat
  /\ phase \in {"idle", "list", "fetch", "persist"}
  /\ start \in Nat
  /\ todo \subseteq Spaces
  /\ cursor \in [space : Spaces \cup {NoSpace}, upd : Int]
  /\ queued \subseteq Pages /\ jobs \subseteq queued
  /\ stage \in [Workers -> {"ready", "body", "ancestors", "gone"}]
  /\ hand \in [Workers -> Doc \cup {NoDoc}]
  /\ \A w \in Workers : Busy(w) => phase = "fetch" /\ hand[w].page \in queued
  /\ staged \subseteq Doc /\ {d.page : d \in staged} \subseteq queued
  /\ known \subseteq Pages
  /\ writing \in Doc \cup {NoDoc}
  /\ advanceMax \in Int
  /\ failed \in BOOLEAN /\ cancelled \in BOOLEAN
  /\ faults \in Nat

\* Page p is in the index as it is in Confluence.
Indexed(p) == row[p] = latest[p] /\ chunks[p] = latest[p]

(***************************************************************************)
(* The listing misses nothing: when it ends, each page whose current       *)
(* version is not completely in the index is queued, or was edited since   *)
(* the run began, in which case a later listing has to find it.            *)
(***************************************************************************)
ListingSeesStale ==
  [][phase = "list" /\ phase' = "fetch"
       => \A p \in Pages : \/ Indexed(p) \/ p \in queued'
                           \/ updated[p] >= start + Drift]_vars

(***************************************************************************)
(* The watermark moves only when every page of the run's listings is       *)
(* completely in the index, or was edited since the run began, and its row *)
(* links to all the others it names: an error, a page dropped by a         *)
(* cancelled worker or a write loop broken off must hold it back, as the   *)
(* next run would resolve links among its own pages only.                  *)
(***************************************************************************)
WatermarkEarned ==
  [][watermark' # watermark
       => \A p \in queued : /\ Indexed(p) \/ updated[p] >= start + Drift
                            /\ LinksOf[p] \cap queued \subseteq resolved[p]]_vars

(***************************************************************************)
(* A page written by a run links to every page it names that already has   *)
(* a row, whichever run wrote that row.                                    *)
(***************************************************************************)
LinksToIndexed ==
  [][\A p \in Pages : row'[p] # row[p]
       => {q \in LinksOf[p] : row[q] > 0} \subseteq resolved'[p]]_vars

(***************************************************************************)
(* The sync implements the mirror: what the second of the two writes has   *)
(* made visible only moves forward, and every page that differs from       *)
(* Confluence is eventually republished.                                   *)
(***************************************************************************)
Mirror == INSTANCE MirrorIndex WITH Issues <- Pages, visible <- chunks
ImplementsMirror == Mirror!Spec
=============================================================================
