# Verification of rag-svc

TLA+ models of rag-svc, the service that mirrors Jira issues, Confluence pages and
uploaded documents into Postgres (a row, embedded chunks and links per source) and
answers searches and chat questions from that index. The models are translated from the
Go code under `src/internal`; TLC checks them on small instances and TLAPS proves the
main results for every instance.

Contents: [1 The system](#1-the-system) ·
[2 Modules](#2-modules-and-how-they-correspond-to-the-code) ·
[3 Runs](#3-runs-and-what-they-show) · [4 Fairness](#4-fairness) ·
[5 Proofs](#5-proofs) · [6 Disagreements found](#6-where-the-code-and-its-text-disagree) ·
[7 Not modelled](#7-what-is-not-modelled) · [8 Plan](#8-plan).

## 1 The system

`PROJECT.json` lists every component with its sources, and under `hazards` each place
where something can go wrong that a test would hardly reach. In short:

| Component | State it keeps | Operations | What makes it hard | What makes it correct |
|---|---|---|---|---|
| **Jira sync** `ingest/jira.go` | run: start, page token, fetched issues, job channel, `advanceMax`, `firstErr`; database: `ingest_state` | `RunJira`, `processIssue`, `IngestJiraNormalized`, `RebuildJiraLinks` | two clocks and a query floor in whole minutes; pool of workers; three transactions per issue; SIGTERM, errors, death in between; late re-fetch | no changed issue falls behind the watermark; the watermark moves only past stored issues; the index converges |
| **Confluence sync** `ingest/confluence.go` | run: queue of listed pages, staged pages, link resolver, watermark of *all* spaces | `RunConfluence` | listing newest first with early stop while pages are edited; bodies read after the listing; cancellation drops pages silently | the same, and links that resolve |
| **Source store** `store/repo.go` | `sources`, `chunks`, `source_links`, `ingest_state` | `UpsertSource`, `ReplaceChunks`, `ReplaceSourceLinks`, `Get/SetWatermark`, reads | several writers of one source at READ COMMITTED | readers see one copy; nobody waits for ever |
| **HTTP ingest** `http/ingest*.go` | none of its own | `POST /ingest/jira`, `/ingest/documents` | batch partly fails; same pipeline as the sync, at the same time | each item whole or reported |
| **Document upload** `http/upload.go`, `blob` | blob store, rows, chunks | `POST /upload`, `ingest docs` | look-up, blob, row, chunks are four steps; two uploads of one file; retry after a failure | an accepted document becomes searchable |
| **Chat** `web/web.go`, `answer` | conversations, messages, SSE stream | post a question, stream the answer | EventSource reconnects; the reader disconnects mid-answer | one answer per question, none lost |
| **Rate limiter** `http/ratelimit.go` | counters in Redis | INCR, EXPIRE | two calls, fixed windows, Redis failures | at most the limit per window, nobody locked out |
| **Tokens and sessions** `auth`, `store/tokens.go` | tokens, sessions, OIDC login states | create, revoke, authenticate; login, callback | revocation under a running request; login state used twice or late | a revoked token opens nothing |
| **Retrieval and ranking** `retrieve` | none | hybrid query, fusion, key boost | ties, limits, dedup by source | order and limit of results |
| **Caches** `cache`, `http/autocomplete.go` | Redis | get, put, expire | stale answers, keys shared between instances | bounded staleness |
| **Outbound clients** `sources/*/client.go`, `embed` | none | `doJSON` with retries | Retry-After, give-up, cancellation | bounded attempts, vectors meet their texts |
| **Chunking** `chunk` | none | pack paragraphs under a token budget | overlap, last short piece | all text covered, budget kept |
| **MCP server** `mcp` | none | JSON-RPC dispatch | notifications | protocol answers |
| **Browser extension** `extension/src` | overlay, request in flight | show, hide, search | late answers | overlay matches the issue shown |
| **Document conversion** `sources/*` | none | ADF, storage format, PDF to markdown | nested tables, macros, links | no text is lost |
| **Server, configuration and deployment** | none | wiring | | |

The parts meet in the store: both syncs, the push endpoints, uploads and the link rebuild
write it, search and chat read it. The syncs run as Kubernetes CronJobs
(`src/deploy/k8s/overlays/prod-treetop/cronjobs.yaml`: Jira every five minutes, Confluence
every ten, `concurrencyPolicy: Forbid`, `backoffLimit: 1`), so two runs of one sync do not
overlap, but a run overlaps with pushes, uploads and manual jobs.

## 2 Modules and how they correspond to the code

| Module | What it is |
|---|---|
| `MirrorIndex` | abstract specification: the index is a mirror; items move forward, republishing only moves forward, and every difference is eventually republished |
| `AtomicChunks` | abstract specification: the chunks of one source are replaced whole, at one moment, by a call that finds what it replaces |
| `JiraSync` | `RunJira` with its worker pool, query, three writes per issue and watermark |
| `JiraSyncProofs` | the theorems about `JiraSync` |
| `ConfluenceSync` | `RunConfluence`: listing, body pool, link resolution, serial writes, watermark |
| `ConfluenceSyncProofs` | the theorems about `ConfluenceSync` |
| `SourceStore`, `SourceStoreProofs` | the three write operations of one source, statement by statement, by several calls at once; and the theorems about them |
| `Documents`, `DocumentsProofs` | uploads, pushed documents, `ingest docs` and downloads over blob store, row and chunks; and the theorems about them |
| `Chat`, `ChatProofs` | page, question, answer stream, reconnects, sign-in and sign-out, conversations; and the theorems about them |
| `RateLimiter` | INCR and EXPIRE of a window's counter |
| `Tokens` | bearer tokens: create, look up, stamp, revoke |
| `Login` | sign-in through the identity provider: states, callbacks, restarts |
| `AccessProofs` | the theorems about `RateLimiter`, `Tokens` and `Login` |
| `LinkRebuild` | the backfill of links with its pool of workers |
| `JiraPush` | `POST /ingest/jira`: a batch of issues, each in three writes |
| `IngestReports` | what `LinkRebuild` and `JiraPush` report |
| `Chunking` | the two chunking strategies, a turn of their loops at a time |
| `IngestProofs` | the theorems about `LinkRebuild`, `JiraPush` and `Chunking` |
| `Retrieval` | one search: named issues, two branches of candidates, fusion, dedup, boost, limit |
| `Caches` | the cached lists of autocompletion and the cached vectors of queries |
| `Outbound` | the retry loops of the clients and the batches of embeddings |
| `Mcp` | a POST of JSON-RPC requests: dispatch, tools, notifications, the reply |
| `Overlay` | the browser extension's search box: debounce, abort, late answers |
| `ServingProofs` | the theorems about `Overlay`, `Caches`, `Outbound`, `Mcp` and `Retrieval` |
| `Adf`, `StorageFormat` | which texts of an issue or a page the conversion to markdown keeps |
| `MCJiraSync`, `MCConfluenceSync`, `MCSourceStore`, `MCDocuments`, `MCChat` | constants for TLC |
| `MCParts` | the modules from `RateLimiter` to `StorageFormat`, one at a time, for TLC |

**Abstractions common to all.** The contents of a document are a version number (in
`SourceStore`: the call whose copy it is); chunking, embedding and conversion happen
inside the step that first writes their result, and their failure is the failure of that
step. A call that fails, after all its retries, is one action guarded by `Fault`: a
budget of `MaxFaults` independent faults, and none needed once the context is cancelled,
because then every call fails. Process death is `Crash`: local variables vanish,
committed writes stay.

**JiraSync.** A run goes `idle → search → work → idle` (`phase`); `abort` is the
producer's return of `ctx.Err()`. `StartRun` takes the start time and the watermark;
`SearchJQL` is one page of the fetch loop. The first page evaluates the query: the floor
is `watermark - slack` expressed as whole minutes before *Jira's* now, rounded up
(`LookBackMinutes`, `Floor`), and the result set is then fixed behind the page token
(`hits`, `snap`). `TakeJob`, `Refetch`, `WriteSource`, `WriteChunks`, `WriteLinks` are a
worker's steps with an issue; `Refetch` reads a truncated issue again, and therefore a
later version with a later timestamp. `StepFails` records the error and takes the next
job; a worker that finds the context cancelled leaves with its job (`stage = "gone"`).
`SetWatermark` needs `close(jobs)`, idle workers, no error and a live context, and stores
the later of the run's start and `advanceMax`. `now` is our clock and `now + Drift`
Jira's. What Jira does (evaluating a query, a stable result set behind a token) is
external and marked so in the map.

**ConfluenceSync.** `phase` goes `idle → list → fetch → persist → idle`. `ListPages`
reads one page of one space's listing and applies the early stop `TooOld`; the map of
spaces is iterated in any order. A page edited while the listing is read moves to its
front, behind the cursor. `GetPage` reads the page as it is at that time. `BuildResolver`
is `wg.Wait` and the link resolver of this run's pages; `WriteRow` and `ReplaceChunks`
are the two transactions per page. The write loop that breaks at a cancellation sets no
error: only the failing `SetWatermark` keeps the watermark. `StartRun` includes the
silent omission of space keys that do not resolve.

**SourceStore.** One source, a set of calls, each with its own copy. `UpsertSource` is one
statement. A replacement is `BeginDelete` (BEGIN, and the snapshot of the DELETE),
`Delete` (waits for rows another transaction is deleting; rows committed after the
snapshot are not seen), one `Insert` per row, `Commit`. An insert waits for an
uncommitted row of its key; a committed one makes a chunk fail (`InsertConflicts`, unique
index of migration 0001) and a link be skipped (`ON CONFLICT DO NOTHING`). `Blocks` and
`DeadlockDetected` are Postgres. `ChunksReplacedAtOnce` is `AtomicChunks!Spec`, with
`chunks` the committed rows, `stage` and `found` read off a call's statement, transaction
and snapshot. A call with an empty copy inserts nothing that could collide: it may commit
after another one and leave that one's chunks (`Overtaken`). The sync modules take each
of these operations as one step; of the chunks that is this refinement, for whoever else
writes the source; of the links it is exact while the sync is their only writer, and
`SourceStore` is what is true otherwise.

**Documents.** A call `c` is one request, `at[c]` the statement it comes to next: `lookup`
(the hash of the file), `blob`, `row`, `chunks`. A push has several documents and goes on
after a failed one (`NextDocument`). `CallFails` is a failing call or a client that has
gone, `Crash` the end of the server. The job `ingest docs` lists all texts in one query
(`StartJob`) and writes their chunks later, when an upload may have replaced the row.
`torn` is bookkeeping: documents whose two writes overlapped another writer's or broke
off. The text of a file is a function of the extension it was sent with, so two uploads
of the same bytes may have different texts, one of them empty.

**Chat.** `field` is the page's hidden `conversation_id`, `bubble` and `conn` the bubble
of each question and the stream its EventSource listens to. `Ask`, `ResolveConversation`,
`AppendQuestion` are the POST; `OpenStream` to `SendDone` the GET that generates the
answer, of which one question can have several at once after reconnects: a handler whose
connection is gone may go on and store its answer (`StoreAnswer`) or notice
(`StoreFails`). `HandleChatPage` goes to any conversation id, one's own or not.

**The parts in `MCParts`** share no variable with each other. `Init` picks one of them,
which then moves alone. Nothing is lost by that: an action of a part reads and changes the
part's variables only, so a behaviour of all of them together, seen through the variables
of one, is a behaviour of that one with stuttering, and every property is about one part.
The parts are extended, so that the theorems are about the definitions TLC checks
(`LinkRebuild` and `JiraPush` through `IngestReports`); only `Adf` and `StorageFormat`,
about which nothing is proved, are instances.

* `RateLimiter`: `Arrive` reads the clock, `Incr` and `Expire` are the two commands, with
  ticks, failures (`FailOpen`, EXPIRE's ignored error), a crash or a restart of Redis in
  between. A request takes at most `MaxDelay` from the clock read to the command.
* `Tokens`: an INSERT or UPDATE begins, when its `now()` is taken, and is over, when its row
  shows (`BeginCreate` and `CreateToken`, `BeginTouch` and `TouchLastUsed`, `BeginRevoke` and
  `RevokeToken`); between the two it may wait for the row, and what it keeps of the row
  (`Touched`, `FirstStamp`) is of the row as it then is. Time counts these beginnings, ends
  and lookups, so no two are at once. `BeginTouch` is the goroutine that outlives its
  request; `BeginRevoke` takes an id or a prefix that must match one row.
* `Login`: `HandleLogin` remembers a state and sweeps old ones; `RefuseMismatch`,
  `TakeState`, `ProviderFails`, `OpenSession` are the branches of `HandleCallback`.
  `Restart` empties the process' memory and not the browsers' cookies.
* `LinkRebuild`: the producer's listing by ids and its hand-over on an unbuffered
  channel, the workers' look at the context, fetch and write. A page is a set (`PageOf`:
  the lowest ids after `afterID`), handed out from the lowest on.
* `JiraPush`: the loop over the batch; a copy of an issue is known by request and place.
* `Retrieval`: `SearchHits` begins with the keys the query names, `FetchJiraByKey` looks
  up one of them, `RunHybrid` is the SQL with its two `LIMIT 50` branches, `DISTINCT ON`,
  the row limit and the boost after it, `AppendRow` handles one of its rows, and
  `ReturnHits` or `SearchFails` ends; `seen` is what `hits` holds already. Where SQL leaves
  the order of ties open, so does the model. Scores are integers (the maximum of the word
  scores is multiplied out).
* `Chunking`: the tokens of a text are numbered through, so that losing, repeating or
  reordering a token shows, and segments, sections, paragraphs and sentences are the places
  where they end: which texts there are is in `IssueTexts` and `PageTexts`, and the loops
  read from `read` on. `SplitBySentences` and `PackPiece` are `splitOversizeSection`; the
  loop over the sentences of a long paragraph and the loop over paragraphs take their turns
  in `PackPiece`, and `paragraphEnd` tells which of them is going. `StopScan` is the end of
  the sentences' scanner at one that its buffer of 1 MiB does not hold (`huge`, part of the
  text to try): the paragraph's rest is given up, without an error.
* `Caches`, `Outbound`, `Mcp`, `Overlay`: one action per statement, attempt, request of a
  batch, or event.
* `Adf`, `StorageFormat`: the renderers as recursive operators on trees of typed nodes;
  a text is a number, and a document becomes the sequence of its texts.

## 3 Runs and what they show

| Run | Shows |
|---|---|
| `jira_sync` | With `Drift + MaxQueryDelay + MaxRefetchLag = Slack`, good tokens, a cap that is not reached: `SearchSeesStale`, and the sync with a fault implements `MirrorIndex`, liveness included. |
| `jira_sync_faults` | Anything goes (late answers, late re-fetches, rejected tokens, a cap of two, two workers, two faults): `PartsInOrder`, `WatermarkEarned`, `WatermarkMonotone`. |
| `jira_stale_token` | *violation*: a rejected page token loses issues. |
| `jira_late_refetch` | *violation*: a re-fetch later than the slack loses issues. |
| `confluence_sync` | With body lag and negative drift up to the slack: `ListingSeesStale`, and implementation of `MirrorIndex`. |
| `confluence_faults` | Two spaces (one may not resolve), two workers, a cap, slow bodies, two faults: `WatermarkEarned`, which includes that each page of the run has its links to the run's other pages resolved. |
| `confluence_sibling_links` | *violation*: an incremental run loses links to pages of earlier runs. |
| `source_store` | Two syncs, a push and a link rebuild of one source overlap, the push with an empty copy, one fault: the statements implement `AtomicChunks` (`ChunksReplacedAtOnce`); `ChunkWritersNeverDeadlock`, `EveryCallEnds`. |
| `source_links_union` | *violation*: overlapping link replacements leave the union. |
| `documents` | Two uploads of one file, a push of two versions, the job, one fault: `ListedFileCanBeRead`, `RowAndChunksAgree`, `StoredOnce`, `EverythingEnds`. |
| `chat` | Two users, one browser, two questions, two faults: `ShownIsOwnAndStored`, `WrittenByOwner`, `RepeatsAreBreaks`, `WaitingEnds`. |
| `parts` | Thirteen parts, one at a time: see below. |

What `parts` shows of each:

| Part | Properties |
|---|---|
| `RateLimiter` | `LimitHolds`: at most the limit per window, and as much again per failure. `RefusedForOwnWindow`: leftovers in Redis cost nobody a request. |
| `Tokens` | `RevocationBinds`: a token lets requests in when its creation is over and until a revocation is, whatever statements wait for the row or come later; each stamp in the table is of a statement that is over. |
| `Login` | `OneSessionPerLogin`; `RefusalsHaveACause`: the first callback in order is not refused. |
| `LinkRebuild`, `JiraPush` | `UnreportedIsDone`: a rebuild without an error has done every issue of its start (but what a cancellation at the very end takes, one issue per worker at most); what a push does not report as failed is in the index whole. |
| `Retrieval` | `HitsAreSound`: one entry per source, named issues first and in the order of mention, limit, filters. `BestAreListed`: nobody is left out for one that ranks lower. |
| `Chunking` | `ChunksCoverText`: the chunks without their overlaps are the text, in order, but that what a sentence over the scanner's limit takes with it may be missing; an overlap is the end of the chunk before and no chunk is only that, kinds. `ChunksAreBounded`: the token budget, and by how much a section exceeds it. |
| `Caches` | `ServedIsUsable`: no list older than TTL and delay, no vector of another dimension. |
| `Outbound` | `VectorsMeetTexts`; `RetriesEnd`: what is retried, how often, and when given up. |
| `Mcp` | `EachRequestHasItsAnswer`: ids, order, notifications, and tools that run unanswered; open for `initialize`, `ping` and `tools/list` without an id. |
| `Overlay` | `ShownAnswersLastTyped`; `SearchingIsWaiting`: a dropped answer leaves no endless "Searching...". |
| `Adf`, `StorageFormat` | `TextSurvives`: texts that are sure to reach the index, and that none comes twice or out of order; open for what the code drops against its comments. |

**Bounds.** Time stops at `MaxTime`, items are edited `MaxVersions` times, faults happen
`MaxFaults` times; no invariant is known to need more. Four or five ticks hold two whole
runs and the edits between and during them, which is what a lost item takes: one run that
moves the watermark too far and one whose query misses the item. Two items are the least
with which one can push the watermark past the other, and two workers the least that
interleave. A minute is two ticks, so that rounding the look-back up matters
(`LookBackRoundedDown` breaks `SearchSeesStale`). The slack condition is tight: loosening
any one of the delays by a tick gives a counterexample, as does `MaxFetchLag = Slack + 1`
in `confluence_sync`. In `SourceStore`, three chunk writers are needed for one to commit
between another's snapshot and its inserts while a third waits, copies of three and two
chunks for insertion orders to matter, and an empty one for a call to be overtaken.
`EveryCallEnds` is `<>[]` over all calls, as a call starts once. `SYMMETRY` is used only
in runs without liveness. Each property has a mutant, a plausible bug in a mapped
definition, that TLC rejects with the run's own configuration.

In `documents`, one file under two extensions is the least with which two uploads differ,
two versions in one push the least with which a batch can leave a mixture, and one fault
or crash is enough to tear a document at any of its steps; more faults only tear more
documents. In `chat`, three streams per question outlast two breaks, so that the bound
never keeps the page from reconnecting; the second question is one that another user has
asked before, so there is a foreign conversation to be pointed at. Of the parts: three
requests against a limit of two and three windows; nine moments for the tokens, as many as
a create, a lookup with its stamp and two revocations take when they overlap; two browsers
and two logins with one restart; four rows in pages of two for two workers; every index of
four chunks with three score pairs; queries without filters, with each and with all of
them, limits from one to three and two candidates per branch, so that the cut-off is
reached; a budget of four tokens with an overlap of two, issues of up to fourteen tokens
in up to three segments that end anywhere, and pages of three, seven and twelve tokens
with every end of up to two sections, four paragraphs and five sentences, so that each may
fit, fill the budget or exceed it, or the scanner's limit; every batch of three of twelve
requests; three texts in batches of two with every order of answers; three searches; every
chain of up to three nested nodes and the trees where rows, headers, labels and blanks
meet.

Deadlock checking is off in the runs of `SourceStore`, `Documents`, `Chat` and `MCParts`,
where every call comes to its end, or to the bound, and the system stops.

## 4 Fairness

The syncs assume that a run is started whenever none is going (`WF(StartRun)`: the
CronJob), that a run which can make a step makes one (`WF(Progress)`: goroutines and the
calls they wait for are not stuck for ever; the clients have timeouts), and that a
cancelled run comes to its end by failing calls. Nothing is assumed about edits, time, or
faults except that faults are finitely many (`MaxFaults`). That is an assumption on the
world, and a needed one: an issue that fails every time (one that `Normalize` rejects,
for example) keeps the watermark where it is for ever, and every run fetches everything
since then again. `SourceStore` assumes weak fairness of each started call and of
Postgres' deadlock detector, and nothing that starts a call. `Documents` assumes that the
server goes on with each call it has and the job with its list; `Chat` that the server
goes on with each request and that the page, as the SSE extension does, connects again
while the bubble waits. Users need not do anything, and `WaitingEnds` only speaks of
askers who stay signed in: others get 401 for ever. The parts state no liveness.

## 5 Proofs

`JiraSyncProofs` holds for any set of issues and workers, any page size, cap, slack,
drift (of either sign), delays, and any number of edits and faults.

* `TypeCorrect`: `Spec => []TypeOK`.
* `RunInvariant`: the inductive invariant `Inv`. `PartsInOrder` alone is not inductive
  (a worker may carry an older copy than the one stored), nor can `WatermarkEarned`
  follow from types. `Inv` adds: `RunShape`, what is empty in which phase and that
  `advanceMax` is never below the watermark; `JobsApart`, an issue is undelivered,
  queued or with one worker, never two of these; `VersionsInOrder`, links ≤ chunks ≤ row
  ≤ the version carried ≤ Jira's, depending on the worker's stage; `FetchedHandled`, a
  fetched issue is queued, carried, stored at the fetched version, or the run has failed
  or is cancelled.
* `PartsStayInOrder`, `WatermarkIsEarned`, `WatermarkNeverBack` follow from `Inv`.
* `NoStaleIssueMissed`: `SlackSuffices` ⊢ `Spec => SearchSeesStale`. The assumption says
  the issues are finitely many and fewer than the cap, no token is rejected, and
  `MaxQueryDelay ≤ Slack`, `Drift + MaxQueryDelay + MaxRefetchLag ≤ Slack`. The argument
  (`Coverage`): an issue that is not indexed has a timestamp not below a *horizon*, which
  is the floor the next query will use; moving the watermark raises the horizon only to
  what the run itself covered, because `advanceMax` stays within drift and lag of the
  run's start, and every older issue was in the result set and, by `FetchedHandled`, is
  stored. The minute rounding enters as the only non-linear step.
* `NothingStaleBehindWatermark`: the same as a fact of every state (`OldIsIndexed`), after
  whatever failures, between runs too: an issue updated before the horizon is indexed
  whole.
* `RefinesMirror`: every step of the sync is a step of `MirrorIndex` or leaves it alone
  (`visible` is what the last of the three writes, the links, has stored): versions a
  reader sees never go back and never run ahead of Jira.

`AccessProofs` holds, of the rate limiter, for any principals, requests, limit and window, under
`RateLimiterAssumption`: a request reaches Redis sooner after its clock read than the
padding of a key's expiry (ten seconds in the code). `LimitHolds` is not inductive: it does
not say that the count in Redis has seen what was let through. The invariant
(`LimiterInvariant`) adds `InTime`, a waiting request is in its window or late by the delay
at most; `Padded`, a key does not expire while its window's requests wait; `Paid`, what
was let through, or will be after EXPIRE, is at most the count, capped by the limit, plus
the limit for each failure, until the window is over; `Counted`, Redis never counts more
than came. From it follow `LimitIsKept` and `RefusalsAreOwn`. Without the padding TLC finds
a second count in one window.

Of the tokens, it holds for any tokens, requests and revocations, each begun, over and waiting
as it likes. `RevokedStaysOut` states `RevocationBinds`; the invariant (`TokensInvariant`)
adds that every beginning, end and lookup is in the past, which is why what ends now cannot
contradict an old answer.

`ConfluenceSyncProofs` holds for any pages, spaces and workers, any length of a listing,
cap, slack, drift and delays, and any number of edits and faults.

* `TypeCorrect` and `RunInvariant`. `WatermarkEarned` is about a step and follows from no
  type; the invariant `Inv` adds `RunShape`, what each phase leaves empty; `PagesApart`, a
  queued page is not handed out, with one worker, staged or being written, never two of
  these; `VersionsInOrder`, what is carried is not older than the stored chunks;
  `BodiesCurrent`, a body is current or its page was edited since the run began;
  `QueuedHandled`, a queued page is on its way, indexed or edited, or the run has failed
  or is cancelled; `LinksHandled`, without an error or cancellation the resolver knows
  every queued page, and a queued page that is not staged any more links to them.
* `WatermarkIsEarned`: when the watermark can be written, nothing is on its way any more
  (`CleanRunIsDone`), so `QueuedHandled` and `LinksHandled` are the property.
* `FirstRunIsComplete`: `ListsAll` (all spaces found, fewer pages than the cap) ⊢ the run
  that stores the first watermark leaves every page that was not edited meanwhile in the
  index, with all its links to such pages resolved, whatever the clocks and delays. Without
  a watermark the early stop never applies, so what a listing is done with is queued
  (`AllListed`), and the rest is `WatermarkIsEarned`. It is what does hold of the links
  where `confluence_sibling_links` fails: later runs do not keep it.
* `NoStalePageMissed`: `SlackSuffices` ⊢ `Spec => ListingSeesStale`. The assumption says
  the pages are finitely many and fewer than the cap, all spaces are found,
  `MaxFetchLag ≤ Slack` and `Drift + Slack ≥ 0`: the bodies are read within the slack, and
  Confluence's clock is behind ours by the slack at most; ahead it may be by any amount,
  because watermark and listings both follow Confluence's timestamps. The argument
  (`Coverage`): what is not indexed is not `TooOld`; a listing that comes to a
  page that is too old has already shown every page that is not, but those edited since
  (`ListingFinds`); and the new watermark is later than the run's start by drift and slack
  at most (`Limit`), while whatever the run leaves behind was edited since.
* `NothingStaleBehindWatermark`: in every state, after whatever failures, a page that is
  `TooOld` is indexed (`OldIsIndexed`).
* `RefinesMirror`: as for Jira, with `visible` what the second write, the chunks, stored.

`SourceStoreProofs` holds for any calls, copies and bounds. `TypeOK` is part of what is
proved: no row is deleted by two calls, and no key of a table is used twice. Neither
`ChunksOfOneCopy` nor `ChunkWritersNeverDeadlock` is inductive. The invariant
(`SourceStoreInvariant`) adds `OwnRows`, which rows a transaction has inserted or
deleted; `KeysApart`, the unique indexes; and `ChunkWriters`. The key lemma is `OneHolder`:
at most one open transaction has deleted or inserted a chunk. Whoever comes with rows
committed waits at the DELETE for the one that deletes them, and whoever saw none waits at
index 0, the first to be inserted, or is refused there. So a commit replaces one copy by
another or adds one to nothing (`ReadersSeeOneCopy`), and a writer that waits holds
nothing another could wait for (`NoCircleOfChunkWriters`).

`ReplacesAtOnce` is the refinement of `AtomicChunks`, step by step (`StepsOfChunks`): BEGIN
and the snapshot are `Begin`, the commit is `Replace`, or `Overtaken` for an empty copy, an
error of any statement, or of the links after the chunks, is `Fail`, and all other
statements stutter. The steps need what lies behind a call (`Behind`): rows, live or
in a snapshot, are of calls that are past their chunks, so rows that are gone do not come
back; and what a DELETE took is all of its snapshot that is still there. A call that has
nothing left to insert has inserted its copy (`AllInserted`), and by `OneHolder` nobody
else has touched a chunk since, so what it replaces is what it found, or nothing
(`CommitReplaces`).

Links are not inserted from a first index, and skip a conflict: they can unite and deadlock.

`DocumentsProofs` holds for any calls and documents, under `CallsAssumption` and
`CopiesAssumption`, which say what a request carries and what a text is cut into.
`DocumentsInvariant` adds to the properties `Places`, where a call or the job can be;
`FilesStored`, a call that is past the blob has its file in the bucket; `WritersAgree`,
whoever is about to write the chunks of a document that is not torn has the text of its
row; `FoundByLater`, an upload that starts after a 201 to the same bytes never gets past
its look-up. From it follow `FilesAreThere`, `RowsMatchChunks` and `AcceptedOnce`.

The types of `Documents` (`DocumentsTypes`) need an invariant of their own (`Bounded`): a
call is at a place of its own batch, and has stored only documents up to it.

`ChatProofs` holds for any users, questions, conversations, streams and faults. None of the
three properties is inductive. `ChatInvariant` adds `AskedInOwn`, a question has a
conversation, and one of its asker, before anything is written or shown for it, and keeps
it; `MessagesFollow`, a message is of such a question, and an answer of a stream that has
stored it; `StreamsFollow`, a stream goes on past its look-up only for the owner of the
conversation; `OneAnswer`, a stream stores one answer; and `AllButOneBroke`, of the
streams opened for a question all but one have broken. As a conversation never changes its
owner (`OwnersStay`), what was shown stays one's own: `ShownIsOwn`, `ConversationsAreOwn`.
`AnswersNeedBreaks` counts: answers inject into streams, streams but one into breaks. What
each action does to a single message, stream or question is a lemma (`Effects`), so
that the invariant is shown per kind of change and not per action and conjunct.

The sign-in part of `AccessProofs` holds for any browsers, states and life times, and
`ServingProofs` for any queries and number of searches. Of a login the invariant adds that
a remembered state, a cookie and a callback are of one login (`OfOneLogin`), that a state
which was taken is not remembered (`TakenOnce`), and that the state of a browser's latest
login, in time and in the same process, is (`NotForgotten`). Of the search box: only the
search of the abort controller is awaited (`OneIsAwaited`), it is about what was typed
last (`AboutLastTyped`), and the view is what the last answer, or the wait for it, made it
(`ViewFollows`).

Of the caches, `CachesInvariant` keeps for each list *when it was read* from the database
(`ReadInTime`), which is not when it was written to Redis: a list that is served was
current at most TTL and delay ago (`CachesServeUsable`), for any life time, delay, number
of requests and dimensions. A vector is looked up under its dimension, and so is of it.

Of the outbound calls, `OutboundInvariant` adds `EmbeddedInPlace`: the vectors so far are
those of the texts before `start`, in order, and an embedding goes on while there are
texts. One batch follows the other by `PlacedInOrder`, whatever the order of the
answer's items, so `VectorsAreTheTexts`, for any number and size of batches. Every answer
before the last could be retried (`RetriesFollow`), hence `RetriesAreBounded`.

`IngestProofs` holds for any issues, workers, pages, batches, requests and faults. Of the
rebuild, `RebuildInvariant` adds `PageFollows`, no issue of the start is passed over between
`afterID` and what is left of the page (`PageIsLowest`); `EachOnce`, an issue is with one
worker at most and linked by none before it; `AllCounted`, what was handed out is counted or
still with a worker; `NoneLeftOut`, without an error every issue of the start up to
`afterID` that Jira still has is linked or with a worker, and the listing went to its end.
The counts are cardinalities, and each step that counts is shown to move one element
(`OneTakes`, `OneEnds`). Of the push, `PushInvariant` adds `CopiesOfIssues`, links are only
of copies that were done well; and `Kept`, the parts of an issue are never from an earlier
copy of a request than the last one it did without an error, whichever other request wrote
since. From both follows `UnreportedWasDone`.

`RateLimiterAssumption` was named above. The other assumptions on constants are of the same
kind, and TLC evaluates each: numbers are naturals, limits and sizes positive, sets of
workers finite, the sentinels (`NoUser`, `NoTime`, ...) are not values, and the rows of the
start are the first ones.

Of a JSON-RPC body, `McpInvariant` says that what is to be dispatched is the end of the
body (`EndIsLeft`), and that the replies and the tools run so far are those of the rest, in
order (`AnsweredSoFar`, `ExecutedSoFar`). The n-th reply is that of the request of rank n
among those the code answers; ranks are cardinalities, and one more request adds one. So
`RequestsAreAnswered`, for bodies of any length and any tools that fail: the property asks
for some choice of the requests it leaves open, and the code's is all of them.

Of a search, `RetrievalInvariant` adds `KeysInOrder`, what was looked up are the first of
the named keys; `ListedOnce`; `NamedFirst`, looked-up issues come in the order of mention
and before all others; `RowsInOrder`, what came from rows and what is left of them is in the
order of scores and passes the filters; and `NobodyLost`, a source that was found is listed
or still a row, unless the candidates were cut off, and rows are left over only when the
limit is reached. `HitsAreGood` and `HitsAreBest` hold for any sources,
scores, boosts, ties and limits. That the first mention of a source decides uses that
numbers have a least one (`Least`), from the library's theorems on well-founded orders.

Chunks: `ChunkingInvariant` says after each turn that the tokens up to `read` are in the
chunks and the buffer, each in one of them but for overlaps, and in their order
(`Collected`), but those that the scanner gave up, which are of `Unscanned` (`GivenUp`);
that no end of a part lies between `read` and the end of the part that is being split
(`PlaceInText`); that a buffer is more than an overlap, except between the closing of a
chunk and the first turn that drains the segment it was closed for (`BufferPlaces`),
without which a chunk could be nothing but the end of the one before; that a buffer counts
at least its words and at most the bound (`SizesBounded`); and that kinds follow the
segments (`KindsFollow`). Two lemmas carry it: text is added at the end (`PlusCollects`),
and a flush moves the buffer into the chunks and leaves an overlap that adds no token
(`FlushCollects`, `TailCollects`). Hence `ChunksCover` and `ChunksBounded`, for any text,
any of its sentences too long for the scanner, any budget and smaller overlap; the lengths
of sequences take the place of an induction over them, because nothing is folded.

Only model-checked:

* `EveryCallEnds`, `EverythingEnds`, `WaitingEnds` and the liveness half of
  `ImplementsMirror`: liveness under fairness is beyond the proof system.
* `TextSurvives`: `Adf` and `StorageFormat` are recursive over trees (`RECURSIVE`), which
  the proof system cannot reason about.

## 6 Where the code and its text disagree

Details and quotes are under `findings` in `PROJECT.json`.

1. A rejected page token is documented to abort the run and restart from the watermark;
   the code breaks out of the fetch loop and moves the watermark (`jira_stale_token`).
2. The slack is said to make the watermark safe; a re-fetch later than the slack moves it
   past unseen edits (`jira_late_refetch`). In the Confluence sync *every* body is read
   after the listing, so any run longer than a minute is exposed: `confluence_sync` with
   `MaxFetchLag = 2` and `Slack = 1` fails the same way.
3. Links to pages of earlier runs are documented to resolve and do not
   (`confluence_sibling_links`). Links between pages of one run do (`WatermarkEarned`), and
   so do all links after a first run (`FirstRunIsComplete`).
4. A replacement of links is documented as atomic and wholesale; two that overlap leave
   the union (`source_links_union`).

Others, met while modelling and without a run of their own:

5. A section's chunk may exceed `MaxTokens` by the overlap, because the overlap is not
   counted against the text that follows it; `chunk/confluence_test.go:69-86` and
   `document_test.go:30-47` expect the budget to hold (their texts do not reach the
   case). `ChunksAreBounded` states the bound that does hold. An overlap as large as the
   chunk size would make the loop endless; `ChunkingAssumption` excludes it.
6. `RebuildJiraLinks` says that 403 is skipped and that a skipped issue's "links just
   become empty" (`jira.go:385-387`); 403 counts as failed, and the links stay. A
   cancellation after the last page was listed drops up to one issue per worker with no
   error (`jira.go:422`); `UnreportedIsDone` says so.
7. The MCP dispatch says that a notification never gets a reply (`mcp.go:168-169`);
   `initialize`, `ping` and `tools/list` without an id do, under null:
   `EachRequestHasItsAnswer` leaves open whether they are answered, and holds either way.
   `notifications/initialized` with an id gets none.
8. `RevokeToken` says that a second revocation re-stamps (`tokens.go:90-91`); the code
   keeps the first stamp: `RevocationBinds` only asks that a stamp is of one of the
   revocations. `revoked_at` is when the statement began, so a request may be let in after
   it, until the revocation is over.
9. The search filter on spaces is parsed and never used (`search.go:119`); filters apply
   after the 50 candidates of each branch, the row limit before the boost, and the key
   shortcut ignores the filters.
10. ADF texts directly in unknown blocks (task and decision items), and headings and code
    blocks in table cells, are dropped although `adf.go:6-8` promises their text; of the
    storage format, link labels in table cells and a paragraph of nothing but a link
    without text of its own (`storage.go:135-140`), against `storage.go:13-14`.
    `TextSurvives` states what is sure to be kept and leaves these open.
11. Hiding the extension's overlay aborts neither the timer nor the search; the answer
    then fills an overlay that is not shown. The Jira and Confluence clients retry an
    answer they cannot decode, the embeddings client does not. The key of the
    autocompletion cache has no instance prefix.
12. `splitBySentences` says that a sentence over the budget is split by tokens
    (`chunk/confluence.go:203-204`). One of over 1 MiB ends its scanner with an error that
    nobody reads (`confluence.go:206-211`), and the paragraph's rest, that sentence included,
    is in no chunk. `ChunksCoverText` leaves open what becomes of it.

## 7 What is not modelled

* Markup, escapes and layout of the conversions; `normalize.go`; the extraction of text
  from PDF and Office files; the rendering of chat answers. They are functions of one
  input without a state, over formats whose definition is the library's.
* The browser's Back and Forward in the chat: a page from its history may hold a waiting
  bubble and open its stream again although none broke. `RepeatsAreBreaks` is
  about pages as the server sent them.
* The trip after 200 pages of one space's listing (`ingest/confluence.go:131-136`): with
  full pages of a listing, the cap on a run's pages, which is modelled, comes first.
* The check of a session cookie and the cryptography of `auth`.
* Configuration, wiring, migrations and manifests: no behaviour of their own. They are
  read for the assumptions (no overlapping CronJobs, SIGTERM, retries).
* Postgres' planner, full-text and vector search, Redis' internals, the language model,
  the identity provider: external. Of Jira: a stable result set behind a token, and an
  index that is consistent when the query is evaluated.
* A commit whose acknowledgement is lost is not a case of its own: it is the write
  followed by a fault, except that for the links, the last write, the code would report
  an error for an issue that is complete, which is harmless.
* A sync, a push and a rebuild of links that write *one issue* at the same time: each
  operation alone is in `SourceStore`; which of the three parts ends up from which writer
  is not stated, as the code does nothing about it.

## 8 Plan

Done: the syncs, the store, documents, chat and the parts, and the proofs of section 5,
which state every safety property of the runs but the one of the conversions. Worth doing
next:

1. A push and a sync of one issue at once: which part of it ends up from which of them.
   `AtomicChunks` is the step to compose them from.
2. An abstract specification of the links of a source, as weak as `source_links_union`
   shows it has to be, and `SourceStore` shown to implement it.
