------------------------------ MODULE JiraSync ------------------------------
(***************************************************************************)
(* The incremental Jira sync (internal/ingest/jira.go): a run reads the    *)
(* watermark, asks Jira for the issues updated since then, page by page,   *)
(* fans them out to a pool of workers that write three things per issue    *)
(* (source row, chunks, links) in three transactions, and moves the        *)
(* watermark when all of them succeeded.  Runs follow each other (the      *)
(* CronJob forbids overlap), any step can fail, the context can be         *)
(* cancelled (SIGTERM) and the process can die between any two steps.      *)
(*                                                                         *)
(* The contents of an issue are abstracted to a version number; time is    *)
(* counted in ticks, Minute of them to a minute.                           *)
(***************************************************************************)
EXTENDS Integers, FiniteSets

CONSTANTS
  Issues,            \* Jira issue keys
  NoIssue,           \* stands for "no key"
  Workers,           \* goroutines of the pool (opts.Workers)
  PageSize,          \* opts.PageSize
  MaxIssuesPerRun,   \* maxIssuesPerRun, the safety cap
  Minute,            \* ticks to a minute
  Slack,             \* watermarkSlack, in ticks
  Truncated,         \* issues with more comments than a search returns
  \* What the surroundings may do:
  Drift,             \* Jira's clock minus ours
  MaxQueryDelay,     \* longest time from the run's start to Jira's answer
  MaxRefetchLag,     \* longest time from that answer to a worker's re-fetch
  StaleTokens,       \* can Jira reject a page token?
  \* Bounds of the model:
  MaxTime, MaxVersions, MaxFaults

ASSUME SetsAssumption ==
  /\ NoIssue \notin Issues
  /\ Truncated \subseteq Issues
  /\ StaleTokens \in BOOLEAN
ASSUME ClockAssumption ==
  /\ Minute \in Nat \ {0}
  /\ Slack \in Nat
  /\ Drift \in Int
  /\ MaxQueryDelay \in Nat
  /\ MaxRefetchLag \in Nat
ASSUME BoundsAssumption ==
  /\ PageSize \in Nat \ {0}
  /\ MaxIssuesPerRun \in Nat \ {0}
  /\ MaxTime \in Nat
  /\ MaxVersions \in Nat
  /\ MaxFaults \in Nat

VARIABLES
  now,         \* our clock
  latest,      \* latest[i]: version of i in Jira, 0 = does not exist yet
  updated,     \* updated[i]: Jira's timestamp of that version
  body,        \* body[i]: version in the sources row, 0 = no row
  chunks,      \* chunks[i]: version the chunks were cut from
  links,       \* links[i]: version the source_links were taken from
  watermark,   \* ingest_state.last_synced_at, ZeroTime = no row
  phase,       \* where RunJira is
  start,       \* the run's start timestamp
  asked,       \* when Jira evaluated the query, ZeroTime = not yet
  hits,        \* result set behind the page token: keys not delivered yet
  snap,        \* snap[i]: version and timestamp of i in that result set
  fetched,     \* keys appended to the issues slice
  queue,       \* of those, the keys not handed to a worker yet
  stage,       \* stage[w]: the next thing worker w does
  doc,         \* doc[w]: the issue worker w carries
  advanceMax,  \* newest timestamp the workers have ingested
  failed,      \* firstErr # nil
  cancelled,   \* ctx.Err() # nil
  faults       \* faults so far, bounded by MaxFaults

jiraVars  == <<latest, updated>>
storeVars == <<body, chunks, links, watermark>>
fetchVars == <<start, asked, hits, snap, fetched>>
poolVars  == <<queue, stage, doc, advanceMax, failed>>
vars == <<now, jiraVars, storeVars, phase, fetchVars, poolVars, cancelled, faults>>

ZeroTime == 0
\* Both clocks read at least 1 from the beginning.
Boot == IF Drift < 0 THEN 1 - Drift ELSE 1
JiraClock == now + Drift
Later(s, t) == IF s >= t THEN s ELSE t

Version == [ver : Nat, upd : Int]
Unset   == [ver |-> 0, upd |-> 0]
Doc     == [key : Issues \cup {NoIssue}, ver : Nat, upd : Int]
NoDoc   == [key |-> NoIssue, ver |-> 0, upd |-> 0]
Phases  == {"idle", "search", "work", "abort"}
Working == {"refetch", "source", "chunks", "links"}
Stages  == Working \cup {"ready", "gone"}

Busy(w) == stage[w] \in Working

-----------------------------------------------------------------------------
\* The run's local variables between runs.
RunAtRest ==
  /\ phase = "idle"
  /\ start = 0
  /\ asked = ZeroTime
  /\ hits = {}
  /\ snap = [i \in Issues |-> Unset]
  /\ fetched = {}
  /\ queue = {}
  /\ stage = [w \in Workers |-> "ready"]
  /\ doc = [w \in Workers |-> NoDoc]
  /\ advanceMax = 0
  /\ failed = FALSE
  /\ cancelled = FALSE

Init ==
  /\ now = Boot
  /\ latest = [i \in Issues |-> 0]
  /\ updated = [i \in Issues |-> 0]
  /\ body = [i \in Issues |-> 0]
  /\ chunks = [i \in Issues |-> 0]
  /\ links = [i \in Issues |-> 0]
  /\ watermark = ZeroTime
  /\ faults = 0
  /\ RunAtRest

\* The run returns or is gone.
EndRun ==
  /\ phase' = "idle"
  /\ start' = 0
  /\ asked' = ZeroTime
  /\ hits' = {}
  /\ snap' = [i \in Issues |-> Unset]
  /\ fetched' = {}
  /\ queue' = {}
  /\ stage' = [w \in Workers |-> "ready"]
  /\ doc' = [w \in Workers |-> NoDoc]
  /\ advanceMax' = 0
  /\ failed' = FALSE
  /\ cancelled' = FALSE

\* A call fails because the context is cancelled, or for a reason of its own.
Fault == IF cancelled THEN UNCHANGED faults
                      ELSE faults < MaxFaults /\ faults' = faults + 1

-----------------------------------------------------------------------------
\* Surroundings

\* Someone creates or edits issue i in Jira.
Update(i) ==
  /\ latest[i] < MaxVersions
  /\ latest' = [latest EXCEPT ![i] = @ + 1]
  /\ updated' = [updated EXCEPT ![i] = JiraClock]
  /\ UNCHANGED <<now, storeVars, phase, fetchVars, poolVars, cancelled, faults>>

\* Time passes, but Jira answers the first query of a run within
\* MaxQueryDelay of its start and a re-fetch happens within MaxRefetchLag of
\* that answer.
Tick ==
  /\ now < MaxTime
  /\ phase = "search" /\ asked = ZeroTime => now < start + MaxQueryDelay
  /\ asked # ZeroTime /\ Truncated \cap (hits \cup queue) # {}
       => now < asked + MaxRefetchLag
  /\ \A w \in Workers : stage[w] = "refetch" => now < asked + MaxRefetchLag
  /\ now' = now + 1
  /\ UNCHANGED <<jiraVars, storeVars, phase, fetchVars, poolVars, cancelled, faults>>

\* SIGTERM cancels the run's context.
Cancel ==
  /\ phase # "idle" /\ ~cancelled
  /\ faults < MaxFaults /\ faults' = faults + 1
  /\ cancelled' = TRUE
  /\ UNCHANGED <<now, jiraVars, storeVars, phase, fetchVars, poolVars>>

\* The process dies: only what is committed to the database remains.
Crash ==
  /\ phase # "idle"
  /\ faults < MaxFaults /\ faults' = faults + 1
  /\ EndRun
  /\ UNCHANGED <<now, jiraVars, storeVars>>

-----------------------------------------------------------------------------
\* Fetching

\* advanceMax := watermark (from scratch: the zero time).
MaxFromScratch == ZeroTime
InitialMax == watermark

StartRun ==
  /\ phase = "idle"
  /\ phase' = "search"
  /\ start' = now
  /\ advanceMax' = InitialMax
  /\ UNCHANGED <<now, jiraVars, storeVars, asked, hits, snap, fetched, queue,
                 stage, doc, failed, cancelled, faults>>

\* Whole minutes from watermark - slack to the run's start, rounded up.
LookBackRoundedDown ==
  LET age == start - (watermark - Slack) IN Later(age \div Minute, 1)
LookBackMinutes ==
  LET age == start - (watermark - Slack)
  IN  Later((age + Minute - 1) \div Minute, 1)

\* "updated >= -Nm": Jira subtracts the offset from its own clock, at the
\* moment it evaluates the query.
Floor == IF watermark = ZeroTime THEN ZeroTime
                                 ELSE JiraClock - Minute * LookBackMinutes

Matches == {i \in Issues : latest[i] > 0 /\ updated[i] >= Floor}

\* External (Jira): the first query fixes the result set, which the token
\* then walks in order of updated, at most PageSize keys at a time.
ResultSet == IF asked = ZeroTime THEN Matches ELSE hits
Snapshot  == IF asked = ZeroTime
               THEN [i \in Issues |-> IF i \in Matches
                                        THEN [ver |-> latest[i], upd |-> updated[i]]
                                        ELSE Unset]
               ELSE snap
IsPage(page) ==
  /\ page \subseteq ResultSet
  /\ Cardinality(page) <= PageSize
  /\ page = {} => ResultSet = {}
  /\ \A i \in page, j \in ResultSet \ page : Snapshot[i].upd <= Snapshot[j].upd

SearchJQL(page) ==
  /\ phase = "search" /\ ~cancelled
  /\ Cardinality(fetched) < MaxIssuesPerRun
  /\ IsPage(page)
  /\ hits' = ResultSet \ page
  /\ snap' = Snapshot
  /\ asked' = IF asked = ZeroTime THEN now ELSE asked
  /\ fetched' = fetched \cup page
  /\ queue' = queue \cup page
  /\ phase' = IF hits' = {} THEN "work" ELSE "search"
  /\ UNCHANGED <<now, jiraVars, storeVars, start, stage, doc, advanceMax, failed,
                 cancelled, faults>>

\* The loop breaks and keeps what it has: at the safety cap ...
SafetyCap ==
  /\ phase = "search"
  /\ Cardinality(fetched) >= MaxIssuesPerRun
  /\ phase' = "work"
  /\ hits' = {}
  /\ UNCHANGED <<now, jiraVars, storeVars, start, asked, snap, fetched, poolVars,
                 cancelled, faults>>

\* ... and when Jira rejects the token of a later page.
TokenRejected ==
  /\ phase = "search" /\ StaleTokens /\ ~cancelled
  /\ asked # ZeroTime /\ Cardinality(fetched) < MaxIssuesPerRun
  /\ faults < MaxFaults /\ faults' = faults + 1
  /\ phase' = "work"
  /\ hits' = {}
  /\ UNCHANGED <<now, jiraVars, storeVars, start, asked, snap, fetched, poolVars,
                 cancelled>>

\* Any other error of a search (or of reading the watermark) ends the run.
SearchFails ==
  /\ phase = "search" /\ Cardinality(fetched) < MaxIssuesPerRun
  /\ Fault
  /\ EndRun
  /\ UNCHANGED <<now, jiraVars, storeVars>>

\* Zero issues: return without touching the watermark.
NoNewIssues ==
  /\ phase = "work" /\ fetched = {}
  /\ EndRun
  /\ UNCHANGED <<now, jiraVars, storeVars, faults>>

-----------------------------------------------------------------------------
\* The worker pool

\* The producer hands the next issue to a waiting worker; a worker that finds
\* the context cancelled returns and the issue with it.
TakeJob(w, i) ==
  /\ phase = "work" /\ stage[w] = "ready"
  /\ i \in queue /\ \A j \in queue : snap[i].upd <= snap[j].upd
  /\ queue' = queue \ {i}
  /\ IF cancelled
       THEN /\ stage' = [stage EXCEPT ![w] = "gone"]
            /\ UNCHANGED doc
       ELSE /\ stage' = [stage EXCEPT ![w] = IF i \in Truncated THEN "refetch" ELSE "source"]
            /\ doc' = [doc EXCEPT ![w] = [key |-> i, ver |-> snap[i].ver, upd |-> snap[i].upd]]
  /\ UNCHANGED <<now, jiraVars, storeVars, phase, fetchVars, advanceMax, failed,
                 cancelled, faults>>

\* GetIssue returns the issue as it is now.
Refetch(w) ==
  /\ stage[w] = "refetch" /\ ~cancelled
  /\ LET i == doc[w].key IN
       doc' = [doc EXCEPT ![w] = [key |-> i, ver |-> latest[i], upd |-> updated[i]]]
  /\ stage' = [stage EXCEPT ![w] = "source"]
  /\ UNCHANGED <<now, jiraVars, storeVars, phase, fetchVars, queue, advanceMax,
                 failed, cancelled, faults>>

\* A write of the source row that may be lost without an error.
WriteSourceOrNot(w) ==
  /\ stage[w] = "source" /\ ~cancelled
  /\ body' \in {body, [body EXCEPT ![doc[w].key] = doc[w].ver]}
  /\ stage' = [stage EXCEPT ![w] = "chunks"]
  /\ UNCHANGED <<now, jiraVars, chunks, links, watermark, phase, fetchVars, queue,
                 doc, advanceMax, failed, cancelled, faults>>

\* Normalize, chunk, embed, then UpsertSource.
WriteSource(w) ==
  /\ stage[w] = "source" /\ ~cancelled
  /\ body' = [body EXCEPT ![doc[w].key] = doc[w].ver]
  /\ stage' = [stage EXCEPT ![w] = "chunks"]
  /\ UNCHANGED <<now, jiraVars, chunks, links, watermark, phase, fetchVars, queue,
                 doc, advanceMax, failed, cancelled, faults>>

WriteChunks(w) ==
  /\ stage[w] = "chunks" /\ ~cancelled
  /\ chunks' = [chunks EXCEPT ![doc[w].key] = doc[w].ver]
  /\ stage' = [stage EXCEPT ![w] = "links"]
  /\ UNCHANGED <<now, jiraVars, body, links, watermark, phase, fetchVars, queue,
                 doc, advanceMax, failed, cancelled, faults>>

WriteLinks(w) ==
  /\ stage[w] = "links" /\ ~cancelled
  /\ links' = [links EXCEPT ![doc[w].key] = doc[w].ver]
  /\ advanceMax' = Later(doc[w].upd, advanceMax)
  /\ stage' = [stage EXCEPT ![w] = "ready"]
  /\ doc' = [doc EXCEPT ![w] = NoDoc]
  /\ UNCHANGED <<now, jiraVars, body, chunks, watermark, phase, fetchVars, queue,
                 failed, cancelled, faults>>

\* A call of the pipeline fails: remember the error, go on with the next issue.
StepFails(w) ==
  /\ Busy(w)
  /\ Fault
  /\ failed' = TRUE
  /\ stage' = [stage EXCEPT ![w] = "ready"]
  /\ doc' = [doc EXCEPT ![w] = NoDoc]
  /\ UNCHANGED <<now, jiraVars, storeVars, phase, fetchVars, queue, advanceMax,
                 cancelled>>

-----------------------------------------------------------------------------
\* The end of a run

PoolIdle == \A w \in Workers : ~Busy(w)

\* The producer sees ctx.Done() while it still has issues to hand out ...
ProducerStops ==
  /\ phase = "work" /\ cancelled /\ queue # {}
  /\ phase' = "abort"
  /\ queue' = {}
  /\ UNCHANGED <<now, jiraVars, storeVars, fetchVars, stage, doc, advanceMax,
                 failed, cancelled, faults>>

\* ... and returns ctx.Err() once the workers are done.
RunAborts ==
  /\ phase = "abort" /\ PoolIdle
  /\ EndRun
  /\ UNCHANGED <<now, jiraVars, storeVars, faults>>

\* close(jobs), and wg.Wait() has returned.
AllHandedOut == phase = "work" /\ fetched # {} /\ queue = {}
AllHandled == AllHandedOut /\ PoolIdle

RunFails ==
  /\ AllHandled /\ failed
  /\ EndRun
  /\ UNCHANGED <<now, jiraVars, storeVars, faults>>

\* The start of the run or the newest timestamp it ingested; not the floor of
\* the query, and not the time it finished.
FloorAsWatermark == start - Slack
FinishAsWatermark == Later(advanceMax, now)
NewWatermark == Later(advanceMax, start)

SetWatermark ==
  /\ AllHandled /\ ~failed /\ ~cancelled
  /\ watermark' = NewWatermark
  /\ EndRun
  /\ UNCHANGED <<now, jiraVars, body, chunks, links, faults>>

SetWatermarkFails ==
  /\ AllHandled /\ ~failed
  /\ Fault
  /\ EndRun
  /\ UNCHANGED <<now, jiraVars, storeVars>>

-----------------------------------------------------------------------------
Search  == \E page \in SUBSET ResultSet : SearchJQL(page)
Work(w) == \/ \E i \in queue : TakeJob(w, i)
           \/ Refetch(w) \/ WriteSource(w) \/ WriteChunks(w) \/ WriteLinks(w)
Finish  == NoNewIssues \/ ProducerStops \/ RunAborts \/ RunFails \/ SetWatermark

Progress == \/ Search \/ SafetyCap \/ Finish
            \/ \E w \in Workers : Work(w)

Faulty == \/ Cancel \/ Crash \/ TokenRejected \/ SearchFails \/ SetWatermarkFails
          \/ \E w \in Workers : StepFails(w)

Next == \/ \E i \in Issues : Update(i)
        \/ Tick
        \/ StartRun
        \/ Progress
        \/ Faulty

Spec == Init /\ [][Next]_vars

(***************************************************************************)
(* The CronJob starts a run again and again, and a run that is not         *)
(* disturbed keeps going.  Nothing is assumed of the issues, of time or of *)
(* the faults, which MaxFaults makes finite in number; a failing call of a *)
(* cancelled run is the exception, its step has no other way to go.        *)
(***************************************************************************)
Fairness ==
  /\ WF_vars(StartRun)
  /\ WF_vars(Progress)
  /\ WF_vars(cancelled /\ Faulty)

FairSpec == Spec /\ Fairness

-----------------------------------------------------------------------------
(***************************************************************************)
(* Properties                                                              *)
(***************************************************************************)
\* Types, and what the code relies on without checking: only fetched issues are
\* handed out, and a busy worker has an issue.
TypeOK ==
  /\ now \in Nat \ {0}
  /\ latest \in [Issues -> Nat]
  /\ updated \in [Issues -> Int]
  /\ body \in [Issues -> Nat]
  /\ chunks \in [Issues -> Nat]
  /\ links \in [Issues -> Nat]
  /\ watermark \in Nat
  /\ phase \in Phases
  /\ start \in Nat
  /\ asked \in Nat
  /\ hits \subseteq Issues
  /\ snap \in [Issues -> Version]
  /\ fetched \subseteq Issues
  /\ queue \subseteq fetched
  /\ stage \in [Workers -> Stages]
  /\ doc \in [Workers -> Doc]
  /\ \A w \in Workers : Busy(w) => doc[w].key \in Issues
  /\ advanceMax \in Int
  /\ failed \in BOOLEAN
  /\ cancelled \in BOOLEAN
  /\ faults \in Nat

\* Issue i is in the index as it is in Jira.
Indexed(i) == /\ body[i] = latest[i]
              /\ chunks[i] = latest[i]
              /\ links[i] = latest[i]

(***************************************************************************)
(* The incremental query misses nothing: when Jira evaluates it, every     *)
(* issue whose current version is not completely in the index is among its *)
(* results, whatever earlier runs did: failed, were cancelled, died        *)
(* half-way through an issue, or finished and moved the watermark while    *)
(* the issue was being edited.                                             *)
(***************************************************************************)
SearchSeesStale ==
  [][asked = ZeroTime /\ asked' # ZeroTime
       => \A i \in Issues : Indexed(i) \/ i \in fetched' \cup hits']_vars

(***************************************************************************)
(* The watermark is earned: when it moves, each issue the run fetched is   *)
(* in the index, all three parts of it, at the version the search returned *)
(* or a newer one.  Errors, a cancellation that makes a worker drop its    *)
(* last issue, and workers still busy must all hold it back.               *)
(***************************************************************************)
WatermarkEarned ==
  [][watermark' # watermark
       => \A i \in fetched : /\ body[i] >= snap[i].ver
                             /\ chunks[i] >= snap[i].ver
                             /\ links[i] >= snap[i].ver]_vars

(***************************************************************************)
(* The watermark never moves back, even when it ran ahead of our clock     *)
(* with Jira's timestamps and the next run starts before it.               *)
(***************************************************************************)
WatermarkMonotone == [][watermark' >= watermark]_vars

(***************************************************************************)
(* The three transactions of an issue leave traces in one order only: a    *)
(* reader may find chunks that are older than the row and links that are   *)
(* older than the chunks (a crash or an error in between), never the other *)
(* way round, and never a version Jira does not have.                      *)
(***************************************************************************)
PartsInOrder ==
  \A i \in Issues : /\ links[i] <= chunks[i]
                    /\ chunks[i] <= body[i]
                    /\ body[i] <= latest[i]

(***************************************************************************)
(* The sync implements the mirror: what the last of the three writes has   *)
(* made visible only moves forward, and every issue that differs from Jira *)
(* is eventually republished.                                              *)
(***************************************************************************)
Mirror == INSTANCE MirrorIndex WITH visible <- links
ImplementsMirror == Mirror!Spec
=============================================================================
