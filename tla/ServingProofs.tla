--------------------------- MODULE ServingProofs ----------------------------
(***************************************************************************)
(* What a reader is served from memory or from elsewhere: the answers in   *)
(* the extension's search box, the caches and the outbound clients.        *)
(***************************************************************************)
EXTENDS Overlay, Caches, Outbound, Mcp, Retrieval,
        FiniteSetTheorems, WellFoundedInduction, TLAPS

(***************************************************************************)
(* Overlay, for any queries and any number of searches.                    *)
(***************************************************************************)
OverlayTypes ==
  /\ search \in [Searches -> [at : {"no", "asked", "answered"}, query : Inputs \cup {Blank},
                              aborted : BOOLEAN]]
  /\ inflight \in {0} \cup Searches
  /\ typed \in Inputs \cup {Blank} /\ debounceTimer \in Inputs \cup {Blank}
  /\ input \in {typed, Blank}
  /\ view = [kind |-> view.kind, query |-> view.query]

\* Of the searches that have begun only that of the abort controller can still be
\* shown, and there is none while a timer runs.
OneIsAwaited ==
  /\ \A n \in Searches : search[n].at # "no" => n = inflight \/ search[n].aborted
  /\ inflight # 0 => search[inflight].at # "no" /\ ~search[inflight].aborted
  /\ debounceTimer # Blank => inflight = 0

\* The timer, and else the search that is awaited, is about what was typed last.
AboutLastTyped ==
  /\ debounceTimer # Blank => debounceTimer = typed
  /\ inflight # 0 => search[inflight].query = typed

\* What the overlay shows comes from there.
ViewFollows ==
  debounceTimer = Blank =>
    /\ view.kind = "searching" =>
         inflight # 0 /\ search[inflight].at = "asked" /\ search[inflight].query = view.query
    /\ view.kind \in Outcomes => view.query = typed

OverlayInv == OverlayTypes /\ OneIsAwaited /\ AboutLastTyped /\ ViewFollows

-----------------------------------------------------------------------------
\* Nothing has been typed at the start.
LEMMA OverlayStart == OverlayInit => OverlayInv
  BY DEF OverlayInit, OverlayInv, OverlayTypes, OneIsAwaited, AboutLastTyped, ViewFollows, NoSearch, Outcomes

\* New input gives up the search that was awaited.
LEMMA TypeKeeps ==
  ASSUME OverlayAssumption, OverlayInv, NEW value \in Inputs \cup {Blank}, Type(value)
  PROVE  OverlayInv'
  <1> USE DEF OverlayInv, OverlayTypes
  <1>1. /\ input' = value /\ typed' = value /\ debounceTimer' = value /\ inflight' = 0
        /\ search' = IF inflight = 0 THEN search ELSE [search EXCEPT ![inflight].aborted = TRUE]
        /\ view' = IF value = Blank THEN [kind |-> "hint", query |-> Blank] ELSE view
    BY DEF Type, Aborted, Show
  <1>2. /\ search' \in [Searches -> [at : {"no", "asked", "answered"}, query : Inputs \cup {Blank},
                                     aborted : BOOLEAN]]
        /\ \A n \in Searches : /\ search'[n].at = search[n].at
                               /\ search'[n].aborted = (search[n].aborted \/ n = inflight)
    <2>1. CASE inflight = 0
      BY <1>1, <2>1 DEF Searches, OverlayAssumption
    <2>2. CASE inflight # 0
      <3>1. inflight \in Searches
        BY <2>2
      <3>2. search' = [search EXCEPT ![inflight] = [search[inflight] EXCEPT !.aborted = TRUE]]
        BY <1>1, <2>2
      <3>3. QED
        BY <3>1, <3>2
    <2>3. QED
      BY <2>1, <2>2
  <1>3. OverlayTypes'
    BY <1>1, <1>2
  <1>4. OneIsAwaited'
    BY <1>1, <1>2 DEF OneIsAwaited
  <1>5. AboutLastTyped' /\ ViewFollows'
    BY <1>1 DEF AboutLastTyped, ViewFollows, Outcomes
  <1>6. QED
    BY <1>3, <1>4, <1>5

\* The timer fires: there is nothing else that could still be shown.
LEMMA RunSearchKeeps ==
  ASSUME OverlayAssumption, OverlayInv, NEW n \in Searches, RunSearch(n)
  PROVE  OverlayInv'
  <1> USE DEF OverlayInv, OverlayTypes
  <1>1. /\ debounceTimer # Blank /\ debounceTimer' = Blank /\ inflight' = n
        /\ view' = [kind |-> "searching", query |-> debounceTimer]
        /\ search' = [search EXCEPT ![n] = [at |-> "asked", query |-> debounceTimer, aborted |-> FALSE]]
        /\ input' = input /\ typed' = typed
    BY DEF RunSearch, Show
  <1>2. inflight = 0 /\ debounceTimer = typed /\ n # 0
    BY <1>1 DEF OneIsAwaited, AboutLastTyped, Searches, OverlayAssumption
  <1>3. OverlayTypes'
    BY <1>1
  <1>4. OneIsAwaited' /\ AboutLastTyped' /\ ViewFollows'
    BY <1>1, <1>2 DEF OneIsAwaited, AboutLastTyped, ViewFollows, Outcomes, Searches
  <1>5. QED
    BY <1>3, <1>4

\* An answer that is shown is that of the search that is awaited.
LEMMA AnswerKeeps ==
  ASSUME OverlayAssumption, OverlayInv, NEW n \in Searches, NEW outcome \in Outcomes, Answer(n, outcome)
  PROVE  OverlayInv'
  <1> USE DEF OverlayInv, OverlayTypes
  <1>1. /\ search[n].at = "asked"
        /\ search' = [search EXCEPT ![n] = [search[n] EXCEPT !.at = "answered"]]
        /\ view' = IF search[n].aborted THEN view ELSE [kind |-> outcome, query |-> search[n].query]
        /\ UNCHANGED <<visible, input, debounceTimer, inflight, typed>>
    BY DEF Answer, IsDiscarded, Show
  <1>2. /\ search' \in [Searches -> [at : {"no", "asked", "answered"}, query : Inputs \cup {Blank},
                                     aborted : BOOLEAN]]
        /\ search'[n].at = "answered"
        /\ \A k \in Searches : /\ search'[k].aborted = search[k].aborted
                               /\ search'[k].query = search[k].query
                               /\ k # n => search'[k].at = search[k].at
    BY <1>1
  <1>3. ~search[n].aborted => n = inflight
    BY <1>1 DEF OneIsAwaited
  <1>4. inflight # 0 => inflight \in Searches
    OBVIOUS
  <1>5. OverlayTypes'
    BY <1>1, <1>2
  <1>6. OneIsAwaited'
    BY <1>1, <1>2, <1>4 DEF OneIsAwaited
  <1>7. AboutLastTyped'
    BY <1>1, <1>2, <1>4 DEF AboutLastTyped
  <1>8. ViewFollows'
    <2>1. CASE search[n].aborted
      BY <1>1, <1>2, <1>4, <2>1 DEF ViewFollows, OneIsAwaited
    <2>2. CASE ~search[n].aborted
      <3>1. n # 0
        BY DEF Searches, OverlayAssumption
      <3>2. search[n].query = typed
        BY <1>3, <2>2, <3>1 DEF AboutLastTyped
      <3>3. QED
        BY <1>1, <2>2, <3>2 DEF ViewFollows, Outcomes
    <2>3. QED
      BY <2>1, <2>2
  <1>9. QED
    BY <1>5, <1>6, <1>7, <1>8

\* Hiding and showing the overlay leaves timer and search alone.
LEMMA HideKeeps ==
  ASSUME OverlayInv, Toggle \/ OpenHit
  PROVE  OverlayInv'
  <1>1. /\ UNCHANGED <<debounceTimer, search, inflight, typed>>
        /\ \/ input' = Blank /\ view' = [kind |-> "nothing", query |-> Blank]
           \/ UNCHANGED <<input, view>>
    BY DEF Toggle, OpenHit, Hide, Show
  <1>2. QED
    BY <1>1 DEF OverlayInv, OverlayTypes, OneIsAwaited, AboutLastTyped, ViewFollows, Outcomes

-----------------------------------------------------------------------------
\* Whatever is typed and hidden, and in whichever order answers come, at most one search
\* can still be shown, and it is about what was typed last.
THEOREM OverlayInvariant == OverlayAssumption => (OverlaySpec => []OverlayInv)
  <1> SUFFICES ASSUME OverlayAssumption PROVE OverlaySpec => []OverlayInv
    OBVIOUS
  <1>1. OverlayInv /\ [OverlayNext]_overlayVars => OverlayInv'
    <2> SUFFICES ASSUME OverlayInv, [OverlayNext]_overlayVars PROVE OverlayInv'
      OBVIOUS
    <2>1. CASE OverlayNext
      BY <2>1, TypeKeeps, RunSearchKeeps, AnswerKeeps, HideKeeps DEF OverlayNext
    <2>2. CASE UNCHANGED overlayVars
      BY <2>2 DEF overlayVars, OverlayInv, OverlayTypes, OneIsAwaited, AboutLastTyped, ViewFollows
    <2>3. QED
      BY <2>1, <2>2
  <1>2. QED
    BY <1>1, OverlayStart, PTL DEF OverlaySpec

\* An answer that is shown is the answer to what was typed last, except while the timer
\* of newer input runs (content.ts drops the answers of aborted searches).
THEOREM AnswersAreCurrent == OverlayAssumption => (OverlaySpec => []ShownAnswersLastTyped)
  <1>1. OverlayInv => ShownAnswersLastTyped
    BY DEF OverlayInv, OverlayTypes, ViewFollows, ShownAnswersLastTyped
  <1>2. QED
    BY <1>1, OverlayInvariant, PTL

\* "Searching..." is shown only while an answer that will replace it is on its way
\* (content.ts: runSearch shows it, and only an answer that is dropped leaves it).
THEOREM SearchingEnds == OverlayAssumption => (OverlaySpec => []SearchingIsWaiting)
  <1>1. OverlayInv => SearchingIsWaiting
    BY DEF OverlayInv, OverlayTypes, OneIsAwaited, ViewFollows, SearchingIsWaiting
  <1>2. QED
    BY <1>1, OverlayInvariant, PTL

-----------------------------------------------------------------------------
(***************************************************************************)
(* Caches, for any requests, dimensions, life times and delays.  That a list *)
(* is not served too old rests on when it was read, not when it was written. *)
(***************************************************************************)
\* Types: a list is known by the number of its changes, of which there are `list' so far.
CachesTypes ==
  /\ hour \in Nat /\ hour <= LastHour /\ list \in 0 .. MaxChanges
  /\ left \in [0 .. MaxChanges -> Nat]
  /\ \A v \in list .. MaxChanges : left[v] = LastHour
  /\ lookup = [r \in Lookups |-> lookup[r]]

\* A list that was read from the database is written within MaxLag, and was current when read.
ReadInTime(r) ==
  Is(r, "queried") =>
    /\ lookup[r] = [at |-> "queried", value |-> lookup[r].value, since |-> lookup[r].since]
    /\ lookup[r].value \in 0 .. list /\ lookup[r].since \in Nat
    /\ lookup[r].since <= hour /\ hour <= lookup[r].since + MaxLag
    /\ left[lookup[r].value] >= lookup[r].since

\* What is cached was current MaxLag before it was written, which was CacheTTL before it expires.
CachedInTime ==
  \A c \in cachedList :
    /\ c.value \in 0 .. list /\ c.expires \in Nat
    /\ hour <= c.expires /\ c.expires <= hour + CacheTTL
    /\ left[c.value] + CacheTTL + MaxLag >= c.expires

\* What is served was current within both; a vector is of the model of its process.
ServedInTime(r) ==
  /\ Is(r, "listed") =>
       /\ lookup[r].value \in 0 .. list /\ lookup[r].since \in Nat /\ lookup[r].since <= hour
       /\ left[lookup[r].value] + CacheTTL + MaxLag >= lookup[r].since
  /\ Is(r, "embedded") => lookup[r].value = DimOf[r]

CachesInv ==
  /\ CachesTypes /\ CachedInTime
  /\ \A r \in Lookups : ReadInTime(r) /\ ServedInTime(r)

-----------------------------------------------------------------------------
\* One lookup moves on, and the others stay where they are.
LEMMA OneGoes ==
  ASSUME CachesTypes, NEW r \in Lookups, NEW to, Goes(r, to)
  PROVE  /\ lookup' = [q \in Lookups |-> lookup'[q]]
         /\ lookup'[r] = to
         /\ \A q \in Lookups : q # r => lookup'[q] = lookup[q]
  BY DEF CachesTypes, Goes

\* A lookup that moves on without a list leaves all of this as it is, and so does one that
\* moves on with a list or a vector that it may have.
LEMMA LookupKeeps ==
  ASSUME CachesAssumption, CachesInv, NEW r \in Lookups, NEW to, Goes(r, to),
         UNCHANGED <<hour, list, left>>, CachedInTime',
         (ReadInTime(r) /\ ServedInTime(r))'
  PROVE  CachesInv'
  <1>1. /\ lookup' = [q \in Lookups |-> lookup'[q]]
        /\ \A q \in Lookups : q # r => lookup'[q] = lookup[q]
    BY OneGoes DEF CachesInv
  <1>2. CachesTypes'
    BY <1>1 DEF CachesInv, CachesTypes
  <1>3. ASSUME NEW q \in Lookups
        PROVE  (ReadInTime(q) /\ ServedInTime(q))'
    <2>1. CASE q = r
      BY <2>1
    <2>2. CASE q # r
      BY <1>1, <2>2 DEF CachesInv, ReadInTime, ServedInTime, Is
    <2>3. QED
      BY <2>1, <2>2
  <1>4. QED
    BY <1>2, <1>3 DEF CachesInv

\* What is written to the cache is in time if the list was.
LEMMA WrittenInTime ==
  ASSUME CachesAssumption, CachesInv, NEW value \in 0 .. list,
         left[value] + MaxLag >= hour,
         cachedList' \in {cachedList, Expiring(value)}, UNCHANGED <<hour, list, left>>
  PROVE  CachedInTime'
  <1>1. CASE cachedList' = cachedList
    BY <1>1 DEF CachesInv, CachedInTime
  <1>2. CASE cachedList' = Expiring(value)
    <2>1. left[value] \in Nat /\ hour \in Nat /\ CacheTTL \in Nat /\ MaxLag \in Nat
      BY DEF CachesInv, CachesTypes, CachesAssumption
    <2>2. ASSUME NEW c \in cachedList'
          PROVE  c.value = value /\ c.expires = hour + CacheTTL
      BY <1>2 DEF Expiring
    <2>3. QED
      BY <2>1, <2>2 DEF CachedInTime
  <1>3. QED
    BY <1>1, <1>2

\* At the start nothing is cached.
LEMMA CachesStart == CachesAssumption /\ CachesInit => CachesInv
  BY DEF CachesAssumption, CachesInit, CachesInv, CachesTypes, CachedInTime, ReadInTime, ServedInTime, Is

\* A hit serves what is cached, which is not older than it may be.
LEMMA GetListKeeps ==
  ASSUME CachesAssumption, CachesInv, NEW r \in Lookups, GetList(r)
  PROVE  CachesInv'
  <1>1. UNCHANGED <<hour, list, left, cachedList>>
    BY DEF GetList
  <1>2. CachedInTime'
    BY <1>1 DEF CachesInv, CachedInTime
  <1>3. CASE Goes(r, [at |-> "missed"])
    <2>1. lookup'[r].at = "missed"
      BY <1>3, OneGoes DEF CachesInv
    <2>2. (ReadInTime(r) /\ ServedInTime(r))'
      BY <2>1 DEF ReadInTime, ServedInTime, Is
    <2>3. QED
      BY <1>1, <1>2, <1>3, <2>2, LookupKeeps
  <1>4. ASSUME NEW c \in cachedList, Goes(r, [at |-> "listed", value |-> c.value, since |-> hour])
        PROVE  CachesInv'
    <2>1. lookup'[r] = [at |-> "listed", value |-> c.value, since |-> hour]
      BY <1>4, OneGoes DEF CachesInv
    <2>2. /\ c.value \in 0 .. list /\ hour <= c.expires /\ c.expires \in Nat
          /\ left[c.value] + CacheTTL + MaxLag >= c.expires
      BY DEF CachesInv, CachedInTime
    <2>3. left[c.value] \in Nat /\ hour \in Nat /\ CacheTTL \in Nat /\ MaxLag \in Nat
      BY <2>2 DEF CachesInv, CachesTypes, CachesAssumption
    <2>4. left[c.value] + CacheTTL + MaxLag >= hour
      BY <2>2, <2>3
    <2>5. (ReadInTime(r) /\ ServedInTime(r))'
      BY <1>1, <2>1, <2>2, <2>3, <2>4 DEF ReadInTime, ServedInTime, Is
    <2>6. QED
      BY <1>1, <1>2, <1>4, <2>5, LookupKeeps
  <1>5. QED
    BY <1>3, <1>4 DEF GetList

\* The database answers with the list of now.
LEMMA ListDistinctKeeps ==
  ASSUME CachesAssumption, CachesInv, NEW r \in Lookups, ListDistinct(r)
  PROVE  CachesInv'
  <1>1. /\ UNCHANGED <<hour, list, left, cachedList>>
        /\ Goes(r, [at |-> "queried", value |-> list, since |-> hour])
    BY DEF ListDistinct
  <1>2. CachedInTime'
    BY <1>1 DEF CachesInv, CachedInTime
  <1>3. lookup'[r] = [at |-> "queried", value |-> list, since |-> hour]
    BY <1>1, OneGoes DEF CachesInv
  <1>4. list \in 0 .. list /\ hour \in Nat /\ left[list] = LastHour /\ hour <= LastHour /\ MaxLag \in Nat
    BY DEF CachesInv, CachesTypes, CachesAssumption
  <1>5. (ReadInTime(r) /\ ServedInTime(r))'
    BY <1>1, <1>3, <1>4 DEF ReadInTime, ServedInTime, Is, CachesAssumption
  <1>6. QED
    BY <1>1, <1>2, <1>5, LookupKeeps

\* What is written and served was current when it was read, MaxLag ago at most.
LEMMA SetListKeeps ==
  ASSUME CachesAssumption, CachesInv, NEW r \in Lookups, SetList(r)
  PROVE  CachesInv'
  <1> DEFINE value == lookup[r].value
  <1>1. /\ Is(r, "queried") /\ UNCHANGED <<hour, list, left>>
        /\ cachedList' \in {cachedList, Expiring(value)}
        /\ Goes(r, [lookup[r] EXCEPT !.at = "listed", !.since = hour])
    BY DEF SetList
  <1>2. /\ lookup[r] = [at |-> "queried", value |-> value, since |-> lookup[r].since]
        /\ value \in 0 .. list /\ lookup[r].since \in Nat
        /\ hour <= lookup[r].since + MaxLag /\ left[value] >= lookup[r].since
    BY <1>1 DEF CachesInv, ReadInTime
  <1>3. left[value] \in Nat /\ hour \in Nat /\ CacheTTL \in Nat /\ MaxLag \in Nat
    BY <1>2 DEF CachesInv, CachesTypes, CachesAssumption
  <1>4. left[value] + MaxLag >= hour
    BY <1>2, <1>3
  <1>5. CachedInTime'
    BY <1>1, <1>2, <1>4, WrittenInTime
  <1>6. lookup'[r] = [lookup[r] EXCEPT !.at = "listed", !.since = hour]
    BY <1>1, OneGoes DEF CachesInv
  <1>7. lookup'[r].at = "listed" /\ lookup'[r].value = value /\ lookup'[r].since = hour
    BY <1>2, <1>6
  <1>8. (ReadInTime(r) /\ ServedInTime(r))'
    BY <1>1, <1>2, <1>3, <1>4, <1>7 DEF ReadInTime, ServedInTime, Is
  <1>9. QED
    BY <1>1, <1>5, <1>8, LookupKeeps

\* A vector that is served is of the dimension that was asked for.
LEMMA VectorKeeps ==
  ASSUME CachesAssumption, CachesInv, NEW r \in Lookups, GetVector(r) \/ DeleteVector(r) \/ SetVector(r)
  PROVE  CachesInv'
  <1>1. UNCHANGED <<hour, list, left, cachedList>>
    BY DEF GetVector, DeleteVector, SetVector
  <1>2. CachedInTime'
    BY <1>1 DEF CachesInv, CachedInTime
  <1>3. PICK to : /\ Goes(r, to) /\ to.at \in {"embedded", "deleting", "unembedded"}
                  /\ to.at = "embedded" => to.value = DimOf[r]
    <2>1. CASE DeleteVector(r)
      BY <2>1 DEF DeleteVector
    <2>2. CASE SetVector(r)
      BY <2>2 DEF SetVector
    <2>3. ASSUME NEW c \in cachedVector, FitsModel(r, c),
                 Goes(r, [at |-> "embedded", value |-> c.value])
          PROVE  \E to : /\ Goes(r, to) /\ to.at \in {"embedded", "deleting", "unembedded"}
                         /\ to.at = "embedded" => to.value = DimOf[r]
      BY <2>3 DEF FitsModel
    <2>4. CASE Goes(r, [at |-> "deleting"]) \/ Goes(r, [at |-> "unembedded"])
      BY <2>4
    <2>5. QED
      BY <2>1, <2>2, <2>3, <2>4 DEF GetVector
  <1>4. lookup'[r] = to
    BY <1>3, OneGoes DEF CachesInv
  <1>5. (ReadInTime(r) /\ ServedInTime(r))'
    BY <1>3, <1>4 DEF ReadInTime, ServedInTime, Is
  <1>6. QED
    BY <1>1, <1>2, <1>3, <1>5, LookupKeeps

\* A list that is left now was current whenever anybody read it.
LEMMA ChangeListKeeps ==
  ASSUME CachesAssumption, CachesInv, ChangeList
  PROVE  CachesInv'
  <1>1. /\ list < MaxChanges /\ list' = list + 1 /\ left' = [left EXCEPT ![list] = hour]
        /\ UNCHANGED <<hour, cachedList, lookup>>
    BY DEF ChangeList
  <1>2. hour \in Nat /\ list \in Nat /\ CacheTTL \in Nat /\ MaxLag \in Nat /\ MaxChanges \in Nat
    BY DEF CachesInv, CachesTypes, CachesAssumption
  <1>3. /\ 0 .. list \subseteq 0 .. list' /\ 0 .. list \subseteq 0 .. MaxChanges
        /\ list \in 0 .. MaxChanges
    BY <1>1, <1>2
  <1>4. CachesTypes'
    BY <1>1, <1>2, <1>3 DEF CachesInv, CachesTypes
  <1>5. \A v \in 0 .. list : left'[v] = IF v = list THEN hour ELSE left[v]
    BY <1>1, <1>3 DEF CachesInv, CachesTypes
  <1>6. CachedInTime'
    BY <1>1, <1>2, <1>3, <1>5 DEF CachesInv, CachedInTime
  <1>7. ASSUME NEW r \in Lookups
        PROVE  (ReadInTime(r) /\ ServedInTime(r))'
    BY <1>1, <1>2, <1>3, <1>5 DEF CachesInv, ReadInTime, ServedInTime, Is
  <1>8. QED
    BY <1>4, <1>6, <1>7 DEF CachesInv

\* Time waits for a list that was read to be written; what expires is gone.
LEMMA HourPassesKeeps ==
  ASSUME CachesAssumption, CachesInv, HourPasses
  PROVE  CachesInv'
  <1>1. /\ hour < LastHour /\ hour' = hour + 1 /\ UNCHANGED <<list, left, lookup>>
        /\ cachedList' = {c \in cachedList : c.expires > hour + 1}
        /\ \A r \in Lookups : Is(r, "queried") => hour < lookup[r].since + MaxLag
    BY DEF HourPasses
  <1>2. hour \in Nat /\ CacheTTL \in Nat /\ MaxLag \in Nat /\ LastHour \in Nat
    BY DEF CachesInv, CachesTypes, CachesAssumption
  <1>3. CachesTypes'
    BY <1>1, <1>2 DEF CachesInv, CachesTypes
  <1>4. CachedInTime'
    BY <1>1, <1>2 DEF CachesInv, CachedInTime
  <1>5. ASSUME NEW r \in Lookups
        PROVE  (ReadInTime(r) /\ ServedInTime(r))'
    BY <1>1, <1>2 DEF CachesInv, ReadInTime, ServedInTime, Is
  <1>6. QED
    BY <1>3, <1>4, <1>5 DEF CachesInv

-----------------------------------------------------------------------------
\* The inductive invariant of the caches.
THEOREM CachesInvariant ==
  ASSUME CachesAssumption
  PROVE  CachesSpec => []CachesInv
  <1>1. CachesInit => CachesInv
    BY CachesStart
  <1>2. ASSUME CachesInv, [CachesNext]_cacheVars
        PROVE  CachesInv'
    <2>1. CASE CachesNext
      <3>1. ASSUME NEW r \in Lookups, GetList(r) \/ ListDistinct(r) \/ SetList(r)
            PROVE  CachesInv'
        BY <1>2, <3>1, GetListKeeps, ListDistinctKeeps, SetListKeeps
      <3>2. ASSUME NEW r \in Lookups, GetVector(r) \/ DeleteVector(r) \/ SetVector(r)
            PROVE  CachesInv'
        BY <1>2, <3>2, VectorKeeps
      <3>3. CASE ChangeList \/ HourPasses
        BY <1>2, <3>3, ChangeListKeeps, HourPassesKeeps
      <3>4. QED
        BY <2>1, <3>1, <3>2, <3>3 DEF CachesNext
    <2>2. CASE UNCHANGED cacheVars
      BY <1>2, <2>2 DEF CachesInv, CachesTypes, CachedInTime, ReadInTime, ServedInTime, Is, cacheVars
    <2>3. QED
      BY <1>2, <2>1, <2>2
  <1>3. QED
    BY <1>1, <1>2, PTL DEF CachesSpec

\* autocomplete.go, cache/embed.go: for any requests, dimensions, life times and delays, a
\* list that is served was current within CacheTTL and MaxLag, and a vector is of the
\* dimension of the process that ranks with it.
THEOREM CachesServeUsable ==
  ASSUME CachesAssumption
  PROVE  CachesSpec => []ServedIsUsable
  <1>1. CachesInv => ServedIsUsable
    BY DEF CachesInv, ServedInTime, ServedIsUsable
  <1>2. QED
    BY <1>1, CachesInvariant, PTL

-----------------------------------------------------------------------------
(***************************************************************************)
(* Outbound, for any texts, batch size and number of retries.              *)
(***************************************************************************)
\* How a request is answered.
Kinds == {"network", "429", "5xx", "4xx", "undecodable", "misfit", "good"}

\* Types, and where a call is.
OutboundTypes ==
  /\ caller \in {"none", "doJSON", "embed"}
  /\ place \in {"idle", "ready", "waiting", "ok", "failed"}
  /\ (caller = "none" <=> place = "idle")
  /\ start \in 0 .. TextCount
  /\ cancelled \in BOOLEAN
  /\ answers \in Seq(Kinds)
  /\ place = "idle" => answers = <<>>

\* The texts before start are embedded, each in its place, and all of them at the end.
EmbeddedInPlace ==
  /\ vectors = [i \in 1 .. start |-> i]
  /\ caller # "embed" => start = 0
  /\ caller = "embed" /\ place \in {"ready", "waiting"} => start < TextCount
  /\ caller = "embed" /\ place = "ok" => start = TextCount

OutboundInv == OutboundTypes /\ EmbeddedInPlace /\ RetriesEnd

-----------------------------------------------------------------------------
\* The attempts, as RetriesEnd speaks of them.
Passes(kind) == kind \in {"network", "429", "5xx"} \/ (caller = "doJSON" /\ kind = "undecodable")

\* RetriesEnd with its abbreviations expanded.
RetriesFollow ==
  /\ Len(answers) <= MaxRetries + 1
  /\ \A i \in 1 .. Len(answers) - 1 : Passes(answers[i])
  /\ place = "ok" => answers[Len(answers)] = "good"
  /\ place \in {"ready", "waiting"} =>
       Len(answers) <= MaxRetries /\ \A i \in 1 .. Len(answers) : Passes(answers[i])
  /\ place = "failed" /\ Len(answers) <= MaxRetries => cancelled \/ ~Passes(answers[Len(answers)])

\* RetriesEnd says the same without its operators with parameters.
LEMMA RetriesExpanded == RetriesEnd <=> RetriesFollow
  BY DEF RetriesEnd, RetriesFollow, Passes, Last

\* One more answer comes last, after those that there were.
LEMMA AnswerComesLast ==
  ASSUME OutboundTypes, NEW kind \in Kinds, answers' = Append(answers, kind)
  PROVE  /\ answers' \in Seq(Kinds)
         /\ Len(answers) \in Nat /\ Len(answers') = Len(answers) + 1
         /\ answers'[Len(answers')] = kind
         /\ \A i \in 1 .. Len(answers) : answers'[i] = answers[i]
  BY DEF OutboundTypes

\* Nothing was sent at the start.
LEMMA OutboundStart == OutboundAssumption /\ OutboundInit => OutboundInv
  <1> SUFFICES ASSUME OutboundAssumption, OutboundInit PROVE OutboundInv
    OBVIOUS
  <1>1. OutboundTypes
    <2>1. answers \in Seq(Kinds)
      BY DEF OutboundInit
    <2>2. start \in 0 .. TextCount
      BY DEF OutboundInit, OutboundAssumption
    <2>3. QED
      BY <2>1, <2>2 DEF OutboundInit, OutboundTypes
  <1>2. EmbeddedInPlace
    BY DEF OutboundInit, EmbeddedInPlace
  <1>3. RetriesFollow
    BY DEF OutboundInit, RetriesFollow, OutboundAssumption
  <1>4. QED
    BY <1>1, <1>2, <1>3, RetriesExpanded DEF OutboundInv

\* A caller that begins has a text to embed.
LEMMA BeginKeeps ==
  ASSUME OutboundAssumption, OutboundInv, NEW c \in {"doJSON", "embed"}, Begin(c)
  PROVE  OutboundInv'
  <1>1. /\ caller = "none" /\ caller' = c /\ place' = "ready"
        /\ UNCHANGED <<start, vectors, cancelled, answers>>
    BY DEF Begin
  <1>2. OutboundTypes' /\ answers = <<>>
    BY <1>1 DEF OutboundInv, OutboundTypes
  <1>3. EmbeddedInPlace'
    BY <1>1 DEF OutboundInv, OutboundTypes, EmbeddedInPlace, OutboundAssumption
  <1>4. RetriesFollow'
    BY <1>1, <1>2 DEF RetriesFollow, OutboundAssumption
  <1>5. RetriesEnd'
    BY <1>4, RetriesExpanded, PTL
  <1>6. QED
    BY <1>2, <1>3, <1>5 DEF OutboundInv

\* What passes is waited for while an attempt is left.
LEMMA AttemptFailsKeeps ==
  ASSUME OutboundAssumption, OutboundInv, NEW kind \in Kinds, place = "ready", AttemptFails(kind)
  PROVE  OutboundInv'
  <1>1. /\ answers' = Append(answers, kind)
        /\ place' = IF Passes(kind) /\ Len(answers) # MaxRetries THEN "waiting" ELSE "failed"
        /\ UNCHANGED <<caller, start, vectors, cancelled>>
    BY DEF AttemptFails, Passes, Retryable, LastAttempt
  <1>2. /\ answers' \in Seq(Kinds)
        /\ Len(answers) \in Nat /\ Len(answers') = Len(answers) + 1
        /\ answers'[Len(answers')] = kind
        /\ \A i \in 1 .. Len(answers) : answers'[i] = answers[i]
    BY <1>1, AnswerComesLast DEF OutboundInv
  <1>3. OutboundTypes'
    BY <1>1, <1>2 DEF OutboundInv, OutboundTypes
  <1>4. EmbeddedInPlace'
    BY <1>1 DEF OutboundInv, EmbeddedInPlace
  <1>5. /\ Len(answers) <= MaxRetries /\ MaxRetries \in Nat
        /\ \A i \in 1 .. Len(answers) : Passes(answers'[i])
    BY <1>2, RetriesExpanded DEF OutboundInv, RetriesFollow, OutboundAssumption
  <1>6. \A k : Passes(k)' = Passes(k)
    BY <1>1 DEF Passes
  <1>7. RetriesFollow'
    BY <1>1, <1>2, <1>5, <1>6 DEF RetriesFollow, Passes
  <1>8. RetriesEnd'
    BY <1>7, RetriesExpanded, PTL
  <1>9. QED
    BY <1>3, <1>4, <1>8 DEF OutboundInv

\* A wait is followed by the next attempt, unless it was cancelled.
LEMMA WaitKeeps ==
  ASSUME OutboundAssumption, OutboundInv, Wait
  PROVE  OutboundInv'
  <1>1. /\ place = "waiting" /\ place' = IF cancelled THEN "failed" ELSE "ready"
        /\ UNCHANGED <<caller, start, vectors, cancelled, answers>>
    BY DEF Wait
  <1>2. OutboundTypes' /\ EmbeddedInPlace'
    BY <1>1 DEF OutboundInv, OutboundTypes, EmbeddedInPlace
  <1>3. RetriesFollow'
    BY <1>1, RetriesExpanded DEF OutboundInv, RetriesFollow, Passes
  <1>4. RetriesEnd'
    BY <1>3, RetriesExpanded, PTL
  <1>5. QED
    BY <1>2, <1>4 DEF OutboundInv

\* A call of the source clients ends well on a good answer only.
LEMMA DecodedKeeps ==
  ASSUME OutboundAssumption, OutboundInv, Decoded
  PROVE  OutboundInv'
  <1>1. /\ caller = "doJSON" /\ place = "ready" /\ place' = "ok"
        /\ answers' = Append(answers, "good")
        /\ UNCHANGED <<caller, start, vectors, cancelled>>
    BY DEF Decoded
  <1>2. /\ answers' \in Seq(Kinds)
        /\ Len(answers) \in Nat /\ Len(answers') = Len(answers) + 1
        /\ answers'[Len(answers')] = "good"
        /\ \A i \in 1 .. Len(answers) : answers'[i] = answers[i]
    BY <1>1, AnswerComesLast DEF OutboundInv, Kinds
  <1>3. OutboundTypes' /\ EmbeddedInPlace'
    BY <1>1, <1>2 DEF OutboundInv, OutboundTypes, EmbeddedInPlace
  <1>4. /\ Len(answers) <= MaxRetries /\ MaxRetries \in Nat
        /\ \A i \in 1 .. Len(answers) : Passes(answers'[i])
    BY <1>1, <1>2, RetriesExpanded DEF OutboundInv, RetriesFollow, OutboundAssumption
  <1>5. RetriesFollow'
    BY <1>1, <1>2, <1>4 DEF RetriesFollow, Passes
  <1>6. RetriesEnd'
    BY <1>5, RetriesExpanded, PTL
  <1>7. QED
    BY <1>3, <1>6 DEF OutboundInv

\* embed.go: a batch that fits its request has one vector for each text, each at the place
\* of its text, in whatever order they came.
LEMMA PlacedInOrder ==
  ASSUME OutboundTypes, NEW items, BatchLen \in Nat, Fits(items)
  PROVE  Placed(items) = [i \in 1 .. BatchLen |-> start + i]
  <1>1. ASSUME NEW i \in 1 .. BatchLen
        PROVE  items[CHOOSE j \in DOMAIN items : items[j] = i - 1] = i - 1
    <2>1. i - 1 \in ToSet(items)
      BY DEF Fits
    <2>2. \E j \in DOMAIN items : items[j] = i - 1
      BY <2>1 DEF ToSet
    <2>3. QED
      BY <2>2
  <1>2. \A i \in 1 .. BatchLen : start + (i - 1) + 1 = start + i
    BY DEF OutboundTypes
  <1>3. QED
    BY <1>1, <1>2 DEF Placed

\* The batches follow each other through the texts.
LEMMA EmbeddedKeeps ==
  ASSUME OutboundAssumption, OutboundInv, NEW items \in Items, Embedded(items)
  PROVE  OutboundInv'
  <1>1. CASE ~Fits(items)
    BY <1>1, AttemptFailsKeeps DEF Embedded, Kinds
  <1>2. CASE Fits(items)
    <2>1. /\ caller = "embed" /\ place = "ready" /\ UNCHANGED <<caller, cancelled>>
          /\ vectors' = vectors \o Placed(items) /\ start' = start + BatchLen
          /\ place' = IF start' = TextCount THEN "ok" ELSE "ready"
          /\ answers' = IF start' = TextCount THEN Append(answers, "good") ELSE <<>>
      BY <1>2 DEF Embedded
    <2>2. start \in Nat /\ start < TextCount /\ TextCount \in Nat /\ BatchSize \in Nat /\ MaxRetries \in Nat
      BY <2>1 DEF OutboundInv, OutboundTypes, EmbeddedInPlace, OutboundAssumption
    <2>3. BatchLen \in Nat /\ start + BatchLen <= TextCount
      BY <2>2 DEF BatchLen
    <2>4. Placed(items) = [i \in 1 .. BatchLen |-> start + i]
      BY <1>2, <2>3, PlacedInOrder DEF OutboundInv
    <2>5. vectors' = [i \in 1 .. start' |-> i]
      <3>1. vectors = [i \in 1 .. start |-> i]
        BY DEF OutboundInv, EmbeddedInPlace
      <3>2. [i \in 1 .. start |-> i] \o [i \in 1 .. BatchLen |-> start + i]
              = [i \in 1 .. start + BatchLen |-> i]
        BY <2>2, <2>3
      <3>3. QED
        BY <2>1, <2>4, <3>1, <3>2
    <2>6. EmbeddedInPlace'
      BY <2>1, <2>2, <2>3, <2>5 DEF EmbeddedInPlace
    <2>7. CASE start' = TextCount
      <3>1. place' = "ok" /\ answers' = Append(answers, "good")
        BY <2>1, <2>7
      <3>2. /\ answers' \in Seq(Kinds)
            /\ Len(answers) \in Nat /\ Len(answers') = Len(answers) + 1
            /\ answers'[Len(answers')] = "good"
            /\ \A i \in 1 .. Len(answers) : answers'[i] = answers[i]
        BY <3>1, AnswerComesLast DEF OutboundInv, Kinds
      <3>3. OutboundTypes'
        BY <2>1, <2>2, <2>7, <3>1, <3>2 DEF OutboundInv, OutboundTypes
      <3>4. /\ Len(answers) <= MaxRetries
            /\ \A i \in 1 .. Len(answers) : Passes(answers'[i])
        BY <2>1, <3>2, RetriesExpanded DEF OutboundInv, RetriesFollow
      <3>5. RetriesFollow'
        BY <2>1, <2>2, <3>1, <3>2, <3>4 DEF RetriesFollow, Passes
      <3>6. QED
        BY <2>6, <3>3, <3>5, RetriesExpanded, PTL DEF OutboundInv
    <2>8. CASE start' # TextCount
      <3>1. place' = "ready" /\ answers' = <<>>
        BY <2>1, <2>8
      <3>2. OutboundTypes'
        BY <2>1, <2>2, <2>3, <3>1 DEF OutboundInv, OutboundTypes
      <3>3. RetriesFollow'
        BY <2>2, <3>1 DEF RetriesFollow
      <3>4. QED
        BY <2>6, <3>2, <3>3, RetriesExpanded, PTL DEF OutboundInv
    <2>9. QED
      BY <2>7, <2>8
  <1>3. QED
    BY <1>1, <1>2

\* A cancellation is seen by the next request or wait.
LEMMA CancelCallKeeps ==
  ASSUME OutboundAssumption, OutboundInv, CancelCall
  PROVE  OutboundInv'
  <1>1. /\ place \in {"ready", "waiting"} /\ cancelled' = TRUE
        /\ UNCHANGED <<caller, place, start, vectors, answers>>
    BY DEF CancelCall
  <1>2. OutboundTypes' /\ EmbeddedInPlace'
    BY <1>1 DEF OutboundInv, OutboundTypes, EmbeddedInPlace
  <1>3. RetriesFollow'
    BY <1>1, RetriesExpanded DEF OutboundInv, RetriesFollow, Passes
  <1>4. RetriesEnd'
    BY <1>3, RetriesExpanded, PTL
  <1>5. QED
    BY <1>2, <1>4 DEF OutboundInv

-----------------------------------------------------------------------------
\* The inductive invariant of the retry loops.
THEOREM OutboundInvariant ==
  ASSUME OutboundAssumption
  PROVE  OutboundSpec => []OutboundInv
  <1>1. OutboundInit => OutboundInv
    BY OutboundStart
  <1>2. ASSUME OutboundInv, [OutboundNext]_outboundVars
        PROVE  OutboundInv'
    <2>1. CASE Begin("doJSON") \/ Begin("embed")
      BY <1>2, <2>1, BeginKeeps
    <2>2. CASE Fail
      BY <1>2, <2>2, AttemptFailsKeeps DEF Fail, Kinds
    <2>3. CASE Wait \/ Decoded \/ CancelCall
      BY <1>2, <2>3, WaitKeeps, DecodedKeeps, CancelCallKeeps
    <2>4. ASSUME NEW items \in Items, Embedded(items)
          PROVE  OutboundInv'
      BY <1>2, <2>4, EmbeddedKeeps
    <2>5. CASE UNCHANGED outboundVars
      <3>1. OutboundTypes' /\ EmbeddedInPlace'
        BY <1>2, <2>5 DEF OutboundInv, OutboundTypes, EmbeddedInPlace, outboundVars
      <3>2. RetriesFollow'
        BY <1>2, <2>5, RetriesExpanded DEF OutboundInv, RetriesFollow, Passes, outboundVars
      <3>3. QED
        BY <3>1, <3>2, RetriesExpanded, PTL DEF OutboundInv
    <2>6. QED
      BY <1>2, <2>1, <2>2, <2>3, <2>4, <2>5 DEF OutboundNext
  <1>3. QED
    BY <1>1, <1>2, PTL DEF OutboundSpec

\* embed.go: for any number of texts, batches of any size and any order of answers,
\* failures and retries, the i-th vector of a caller is that of its i-th text.
THEOREM VectorsAreTheTexts ==
  ASSUME OutboundAssumption
  PROVE  OutboundSpec => []VectorsMeetTexts
  <1>1. OutboundInv => VectorsMeetTexts
    BY DEF OutboundInv, EmbeddedInPlace, VectorsMeetTexts
  <1>2. QED
    BY <1>1, OutboundInvariant, PTL

\* client.go, embed.go: for any number of retries, what is retried can pass, and a call
\* that fails has used its attempts, was cancelled or met an answer no retry would change.
THEOREM RetriesAreBounded ==
  ASSUME OutboundAssumption
  PROVE  OutboundSpec => []RetriesEnd
  <1>1. OutboundInv => RetriesEnd
    BY DEF OutboundInv
  <1>2. QED
    BY <1>1, OutboundInvariant, PTL
-----------------------------------------------------------------------------
(***************************************************************************)
(* The MCP endpoint, for bodies of any length.                              *)
(***************************************************************************)
ReplyKinds == {"result", "isError", "error"}
Reply == [id : Strings, kind : ReplyKinds]

\* Types.  A body that is none of JSON-RPC is answered at once.
McpTypes ==
  /\ post \in [form : {"none", "empty", "garbled", "single", "batch"}, requests : Seq(Request)]
  /\ todo \in Seq(Request)
  /\ responses \in Seq(Reply) /\ executed \in Seq(Strings)
  /\ status \in {0, 200, 204, 400}

\* What is to be dispatched is the end of the body.
Dispatched == Len(post.requests) - Len(todo)
EndIsLeft ==
  /\ Len(todo) <= Len(post.requests)
  /\ \A i \in 1 .. Len(todo) : todo[i] = post.requests[Dispatched + i]

\* The requests that the code answers.
IsAnswered(req) == IsOwed(req) \/ IsOpen(req)
AnsweredOnes == {i \in DOMAIN post.requests : IsAnswered(post.requests[i])}

\* The requests dispatched so far have been answered, and their tools have run, in order.
AnsweredSoFar ==
  /\ Len(responses) = Rank(Dispatched, AnsweredOnes)
  /\ \A i \in AnsweredOnes : i <= Dispatched =>
       responses[Rank(i, AnsweredOnes)].id = NullIfAbsent(post.requests[i].id)
ExecutedSoFar ==
  /\ Len(executed) = Rank(Dispatched, ToolCalls)
  /\ \A i \in ToolCalls : i <= Dispatched => executed[Rank(i, ToolCalls)] = post.requests[i].tool

McpInv ==
  /\ McpTypes
  /\ status # 400 => EndIsLeft /\ AnsweredSoFar /\ ExecutedSoFar
  /\ status # 0 => todo = <<>>
  /\ post = NoPost => todo = <<>> /\ responses = <<>> /\ executed = <<>> /\ status = 0
  /\ status \in {200, 204} => (status = 204 <=> responses = <<>>)

\* The places of S up to k.
Low(k, S) == {j \in S : j <= k}

\* The rank grows with the places that are in S.
LEMMA RankGrows ==
  ASSUME NEW S, \A j \in S : j \in Nat /\ j >= 1, NEW n \in Nat
  PROVE  /\ Rank(n, S) \in Nat
         /\ n + 1 \in S => Rank(n + 1, S) = Rank(n, S) + 1
         /\ n + 1 \notin S => Rank(n + 1, S) = Rank(n, S)
         /\ Rank(0, S) = 0
<1>1. Low(n, S) \subseteq 1 .. n
  BY DEF Low
<1>2. IsFiniteSet(Low(n, S)) /\ Cardinality(Low(n, S)) \in Nat
  BY <1>1, FS_Interval, FS_Subset, FS_CardinalityType, 1 \in Int, n \in Int
<1>3. n + 1 \in S => Cardinality(Low(n + 1, S)) = Cardinality(Low(n, S)) + 1
  <2> SUFFICES ASSUME n + 1 \in S PROVE Cardinality(Low(n + 1, S)) = Cardinality(Low(n, S)) + 1
    OBVIOUS
  <2>1. Low(n + 1, S) = Low(n, S) \cup {n + 1} /\ n + 1 \notin Low(n, S)
    BY DEF Low
  <2> QED
    BY <2>1, <1>2, FS_AddElement
<1>4. n + 1 \notin S => Low(n + 1, S) = Low(n, S)
  BY DEF Low
<1>5. Low(0, S) = {}
  BY DEF Low
<1> QED
  BY <1>2, <1>3, <1>4, <1>5, FS_EmptySet DEF Rank, Low

\* A place of S has a rank, which is not above those of later ones.
LEMMA RankWithin ==
  ASSUME NEW S, \A j \in S : j \in Nat /\ j >= 1, NEW n \in Nat, NEW i \in S, i <= n
  PROVE  Rank(i, S) \in 1 .. Rank(n, S)
<1>1. Low(n, S) \subseteq 1 .. n /\ Low(i, S) \subseteq Low(n, S) /\ i \in Low(i, S)
  BY DEF Low
<1>2. IsFiniteSet(Low(n, S)) /\ IsFiniteSet(Low(i, S)) /\ Low(i, S) # {}
  BY <1>1, FS_Interval, FS_Subset, 1 \in Int, n \in Int
<1>3. /\ Cardinality(Low(i, S)) \in Nat /\ Cardinality(Low(n, S)) \in Nat
      /\ Cardinality(Low(i, S)) <= Cardinality(Low(n, S)) /\ Cardinality(Low(i, S)) # 0
  BY <1>1, <1>2, FS_Subset, FS_CardinalityType, FS_EmptySet
<1> QED
  BY <1>3 DEF Rank, Low

\* The places of the body.
LEMMA PlacesOfBody ==
  ASSUME McpTypes
  PROVE  /\ post.requests \in Seq(Request) /\ Len(post.requests) \in Nat
         /\ \A j \in AnsweredOnes \cup ToolCalls : j \in Nat /\ j >= 1
         /\ DOMAIN post.requests = 1 .. Len(post.requests)
<1>1. post.requests \in Seq(Request)
  BY DEF McpTypes
<1>2. Len(post.requests) \in Nat /\ DOMAIN post.requests = 1 .. Len(post.requests)
  BY <1>1
<1> QED
  BY <1>1, <1>2 DEF AnsweredOnes, ToolCalls

\* Nothing has been dispatched at the start, and everything at the end.
LEMMA McpStart == McpInit => McpInv
<1> SUFFICES ASSUME McpInit PROVE McpInv
  OBVIOUS
<1>1. McpTypes
  BY DEF McpInit, McpTypes, NoPost
<1>2. post.requests = <<>> /\ todo = <<>> /\ responses = <<>> /\ executed = <<>> /\ status = 0
  BY DEF McpInit, NoPost
<1>3. AnsweredOnes = {} /\ ToolCalls = {} /\ Dispatched = 0
  BY <1>2 DEF AnsweredOnes, ToolCalls, Dispatched
<1>4. Rank(0, {}) = 0
  BY RankGrows
<1> QED
  BY <1>1, <1>2, <1>3, <1>4 DEF McpInv, EndIsLeft, AnsweredSoFar, ExecutedSoFar

\* A body arrives.
LEMMA ServeKeeps ==
  ASSUME McpAssumption, McpInv, NEW p \in Posts, ServeHTTP(p)
  PROVE  McpInv'
<1>1. /\ post = NoPost /\ post' = p /\ executed' = executed
      /\ p \in [form : {"empty", "garbled", "single", "batch"}, requests : Seq(Request)]
  BY DEF ServeHTTP, McpAssumption
<1>2. todo = <<>> /\ responses = <<>> /\ executed = <<>> /\ status = 0
  BY <1>1 DEF McpInv
<1>3. p.requests \in Seq(Request) /\ p.form # "none" /\ Len(p.requests) \in Nat
  BY <1>1
<1>4. post' # NoPost
  BY <1>1, <1>3 DEF NoPost
<1>5. CASE status' = 400 /\ responses' = <<[id |-> "null", kind |-> "error"]>> /\ todo' = todo
  <2>1. responses' \in Seq(Reply)
    <3>1. [id |-> "null", kind |-> "error"] \in Reply
      BY DEF Reply, ReplyKinds, McpAssumption
    <3> QED
      BY <3>1, <1>5
  <2>2. McpTypes'
    BY <1>1, <1>2, <1>5, <2>1 DEF McpTypes, McpInv
  <2> QED
    BY <2>2, <1>2, <1>4, <1>5 DEF McpInv
<1>6. CASE todo' = p.requests /\ UNCHANGED <<status, responses>>
  <2>1. McpTypes'
    BY <1>1, <1>2, <1>3, <1>6 DEF McpTypes
  <2>2. Dispatched' = 0
    BY <1>1, <1>3, <1>6 DEF Dispatched
  <2>3. EndIsLeft'
    BY <1>1, <1>3, <1>6, <2>2 DEF EndIsLeft
  <2>4. \A j \in AnsweredOnes' \cup ToolCalls' : j \in Nat /\ j >= 1
    BY <1>1, <1>3 DEF AnsweredOnes, ToolCalls
  <2>5. Rank(0, AnsweredOnes') = 0 /\ Rank(0, ToolCalls') = 0
    BY <2>4, RankGrows, 0 \in Nat
  <2>6. AnsweredSoFar' /\ ExecutedSoFar'
    BY <1>1, <1>2, <1>6, <2>2, <2>4, <2>5 DEF AnsweredSoFar, ExecutedSoFar
  <2> QED
    BY <2>1, <2>3, <2>6, <1>2, <1>4, <1>6 DEF McpInv
<1> QED
  BY <1>5, <1>6 DEF ServeHTTP

\* The request is answered; it runs a tool.
Answers(req) == \E kind \in ReplyKinds : Respond(req, kind)
IsRun(req) == req.version2 /\ req.method = "tools/call" /\ req.tool \in Tools

\* The next request is answered if it has an id, or if it always is, and else not.
LEMMA DispatchAnswers ==
  ASSUME McpInv, Dispatch
  PROVE  LET req == Head(todo) IN
         /\ IsAnswered(req) => Answers(req)
         /\ ~IsAnswered(req) => responses' = responses
<1> DEFINE req == Head(todo)
<1>1. CASE ~req.version2
  BY <1>1 DEF Dispatch, IsAnswered, IsOwed, IsOpen, HasId, IsNotification, UnlessNotification, Answers, ReplyKinds
<1>2. CASE req.version2 /\ req.method \in {"initialize", "ping", "tools/list"}
  BY <1>2 DEF Dispatch, IsAnswered, IsOwed, IsOpen, HasId, IsNotification, UnlessNotification, Answers, ReplyKinds
<1>3. CASE req.version2 /\ req.method = "tools/call"
  BY <1>3 DEF Dispatch, IsAnswered, IsOwed, IsOpen, HasId, IsNotification, UnlessNotification, Answers, ReplyKinds
<1>4. CASE req.version2 /\ req.method = "notifications/initialized"
  BY <1>4 DEF Dispatch, IsAnswered, IsOwed, IsOpen, HasId, IsNotification, UnlessNotification, Answers, ReplyKinds
<1>5. CASE req.version2 /\ req.method = "other"
  BY <1>5 DEF Dispatch, IsAnswered, IsOwed, IsOpen, HasId, IsNotification, UnlessNotification, Answers, ReplyKinds
<1> QED
  BY <1>1, <1>2, <1>3, <1>4, <1>5 DEF Dispatch

\* Its tool runs, whether it is answered or not.
LEMMA DispatchRuns ==
  ASSUME McpInv, Dispatch
  PROVE  LET req == Head(todo) IN
         /\ IsRun(req) => executed' = Append(executed, req.tool)
         /\ ~IsRun(req) => executed' = executed
<1> DEFINE req == Head(todo)
<1>1. CASE ~req.version2
  BY <1>1 DEF Dispatch, IsRun
<1>2. CASE req.version2 /\ req.method = "tools/call"
  BY <1>2 DEF Dispatch, IsRun, RunToolCall
<1>3. CASE req.version2 /\ req.method # "tools/call"
  BY <1>3 DEF Dispatch, IsRun
<1> QED
  BY <1>1, <1>2, <1>3

\* A request is dispatched.
LEMMA DispatchKeeps ==
  ASSUME McpAssumption, McpInv, Dispatch
  PROVE  McpInv'
<1> DEFINE req == Head(todo)
           n == Dispatched
<1>1. /\ McpTypes /\ EndIsLeft /\ AnsweredSoFar /\ ExecutedSoFar /\ status = 0 /\ post # NoPost
      /\ todo # <<>> /\ todo' = Tail(todo) /\ post' = post /\ status' = status
  BY DEF McpInv, McpTypes, Dispatch
<1>2. /\ todo \in Seq(Request) /\ Len(todo) \in Nat /\ Len(todo) >= 1
      /\ todo' \in Seq(Request) /\ Len(todo') = Len(todo) - 1
      /\ \A i \in 1 .. Len(todo') : todo'[i] = todo[i + 1]
      /\ req = todo[1] /\ req \in Request
  BY <1>1 DEF McpTypes
<1>3. /\ post.requests \in Seq(Request) /\ Len(post.requests) \in Nat
      /\ \A j \in AnsweredOnes : j \in Nat /\ j >= 1
      /\ \A j \in ToolCalls : j \in Nat /\ j >= 1
      /\ DOMAIN post.requests = 1 .. Len(post.requests)
  BY <1>1, PlacesOfBody
<1>4. n \in Nat /\ Dispatched' = n + 1 /\ n + 1 \in DOMAIN post.requests
  BY <1>1, <1>2, <1>3 DEF EndIsLeft, Dispatched
<1>5. req = post.requests[n + 1]
  BY <1>1, <1>2, <1>4 DEF EndIsLeft
<1>6. EndIsLeft'
  BY <1>1, <1>2, <1>3, <1>4 DEF EndIsLeft
<1>7. AnsweredOnes' = AnsweredOnes /\ ToolCalls' = ToolCalls
  BY <1>1 DEF AnsweredOnes, ToolCalls
<1>8. AnsweredSoFar' /\ responses' \in Seq(Reply)
  <2>1. CASE n + 1 \in AnsweredOnes
    <3>1. PICK kind \in ReplyKinds : responses' = Append(responses, [id |-> NullIfAbsent(req.id), kind |-> kind])
      BY <2>1, <1>5, DispatchAnswers DEF AnsweredOnes, Answers, Respond
    <3>2. [id |-> NullIfAbsent(req.id), kind |-> kind] \in Reply
      BY <1>2 DEF Request, NullIfAbsent, Reply, McpAssumption
    <3>6. responses' \in Seq(Reply) /\ Len(responses') = Len(responses) + 1
      BY <3>1, <3>2, <1>1 DEF McpTypes
    <3>3. /\ responses'[Len(responses) + 1].id = NullIfAbsent(req.id)
          /\ \A k \in 1 .. Len(responses) : responses'[k] = responses[k]
      BY <3>1, <1>1 DEF McpTypes
    <3>4. Rank(n + 1, AnsweredOnes) = Rank(n, AnsweredOnes) + 1
      BY <2>1, <1>3, <1>4, RankGrows
    <3>5. ASSUME NEW i \in AnsweredOnes, i <= n + 1
          PROVE  responses'[Rank(i, AnsweredOnes)].id = NullIfAbsent(post.requests[i].id)
      <4>1. CASE i = n + 1
        BY <4>1, <3>3, <3>4, <1>1, <1>5 DEF AnsweredSoFar
      <4>2. CASE i <= n
        <5>1. Rank(i, AnsweredOnes) \in 1 .. Len(responses)
          BY <4>2, <1>1, <1>3, <1>4, RankWithin DEF AnsweredSoFar
        <5> QED
          BY <5>1, <4>2, <3>3, <1>1 DEF AnsweredSoFar
      <4> QED
        BY <4>1, <4>2, <3>5, <1>3, <1>4
    <3> QED
      BY <3>6, <3>4, <3>5, <1>1, <1>4, <1>7 DEF AnsweredSoFar
  <2>2. CASE n + 1 \notin AnsweredOnes
    <3>1. responses' = responses
      BY <2>2, <1>4, <1>5, DispatchAnswers DEF AnsweredOnes
    <3>2. Rank(n + 1, AnsweredOnes) = Rank(n, AnsweredOnes)
      BY <2>2, <1>3, <1>4, RankGrows
    <3>3. \A i \in AnsweredOnes : i <= n + 1 => i <= n
      BY <2>2, <1>3, <1>4
    <3> QED
      BY <3>1, <3>2, <3>3, <1>1, <1>4, <1>7 DEF AnsweredSoFar, McpTypes
  <2> QED
    BY <2>1, <2>2
<1>9. ExecutedSoFar' /\ executed' \in Seq(Strings)
  <2>1. CASE n + 1 \in ToolCalls
    <3>1. executed' = Append(executed, req.tool)
      BY <2>1, <1>5, DispatchRuns DEF ToolCalls, IsRun
    <3>2. executed' \in Seq(Strings) /\ Len(executed') = Len(executed) + 1
      BY <3>1, <1>1, <1>2 DEF McpTypes, Request
    <3>3. executed'[Len(executed) + 1] = req.tool /\ \A k \in 1 .. Len(executed) : executed'[k] = executed[k]
      BY <3>1, <1>1 DEF McpTypes
    <3>4. Rank(n + 1, ToolCalls) = Rank(n, ToolCalls) + 1
      BY <2>1, <1>3, <1>4, RankGrows
    <3>5. ASSUME NEW i \in ToolCalls, i <= n + 1
          PROVE  executed'[Rank(i, ToolCalls)] = post.requests[i].tool
      <4>1. CASE i = n + 1
        BY <4>1, <3>3, <3>4, <1>1, <1>5 DEF ExecutedSoFar
      <4>2. CASE i <= n
        <5>1. Rank(i, ToolCalls) \in 1 .. Len(executed)
          BY <4>2, <1>1, <1>3, <1>4, RankWithin DEF ExecutedSoFar
        <5> QED
          BY <5>1, <4>2, <3>3, <1>1 DEF ExecutedSoFar
      <4> QED
        BY <4>1, <4>2, <3>5, <1>3, <1>4
    <3> QED
      BY <3>2, <3>4, <3>5, <1>1, <1>4, <1>7 DEF ExecutedSoFar
  <2>2. CASE n + 1 \notin ToolCalls
    <3>1. executed' = executed
      BY <2>2, <1>4, <1>5, DispatchRuns DEF ToolCalls, IsRun
    <3>2. Rank(n + 1, ToolCalls) = Rank(n, ToolCalls)
      BY <2>2, <1>3, <1>4, RankGrows
    <3>3. \A i \in ToolCalls : i <= n + 1 => i <= n
      BY <2>2, <1>3, <1>4
    <3> QED
      BY <3>1, <3>2, <3>3, <1>1, <1>4, <1>7 DEF ExecutedSoFar, McpTypes
  <2> QED
    BY <2>1, <2>2
<1>10. McpTypes'
  BY <1>1, <1>2, <1>8, <1>9 DEF McpTypes
<1> QED
  BY <1>1, <1>6, <1>8, <1>9, <1>10 DEF McpInv

\* The reply is written once everything is dispatched.
LEMMA ReplyKeeps ==
  ASSUME McpInv, WriteReply
  PROVE  McpInv'
<1>1. /\ McpTypes /\ EndIsLeft /\ AnsweredSoFar /\ ExecutedSoFar
      /\ todo = <<>> /\ post # NoPost /\ status' = (IF responses = <<>> THEN 204 ELSE 200)
      /\ UNCHANGED <<post, todo, responses, executed>>
  BY DEF WriteReply, McpInv
<1>2. McpTypes'
  BY <1>1 DEF McpTypes
<1>3. AnsweredOnes' = AnsweredOnes /\ ToolCalls' = ToolCalls /\ Dispatched' = Dispatched
  BY <1>1 DEF AnsweredOnes, ToolCalls, Dispatched
<1>4. EndIsLeft' /\ AnsweredSoFar' /\ ExecutedSoFar'
  BY <1>1, <1>3 DEF EndIsLeft, AnsweredSoFar, ExecutedSoFar
<1> QED
  BY <1>1, <1>2, <1>4 DEF McpInv

\* mcp.go: the inductive invariant of the endpoint.
THEOREM McpInvariant ==
  ASSUME McpAssumption
  PROVE  McpSpec => []McpInv
<1>1. McpInit => McpInv
  BY McpStart
<1>2. McpInv /\ [McpNext]_mcpVars => McpInv'
  <2> SUFFICES ASSUME McpInv, [McpNext]_mcpVars PROVE McpInv'
    OBVIOUS
  <2>1. CASE \E p \in Posts : ServeHTTP(p)
    BY <2>1, ServeKeeps
  <2>2. CASE Dispatch
    BY <2>2, DispatchKeeps
  <2>3. CASE WriteReply
    BY <2>3, ReplyKeeps
  <2>4. CASE UNCHANGED mcpVars
    <3>1. UNCHANGED <<post, todo, responses, executed, status>>
      BY <2>4 DEF mcpVars
    <3>2. AnsweredOnes' = AnsweredOnes /\ ToolCalls' = ToolCalls /\ Dispatched' = Dispatched
      BY <3>1 DEF AnsweredOnes, ToolCalls, Dispatched
    <3>3. McpTypes' <=> McpTypes
      BY <3>1 DEF McpTypes
    <3>4. EndIsLeft' <=> EndIsLeft
      BY <3>1, <3>2 DEF EndIsLeft
    <3>5. AnsweredSoFar' <=> AnsweredSoFar
      BY <3>1, <3>2 DEF AnsweredSoFar
    <3>6. ExecutedSoFar' <=> ExecutedSoFar
      BY <3>1, <3>2 DEF ExecutedSoFar
    <3> QED
      BY <3>1, <3>3, <3>4, <3>5, <3>6 DEF McpInv
  <2> QED
    BY <2>1, <2>2, <2>3, <2>4 DEF McpNext
<1> QED
  BY <1>1, <1>2, PTL DEF McpSpec

\* mcp.go, tools.go: for any tools, bodies and failures, every request that has an id is
\* answered once, under it and in its place; every tool that is called runs.
THEOREM RequestsAreAnswered ==
  ASSUME McpAssumption
  PROVE  McpSpec => []EachRequestHasItsAnswer
<1>1. McpInv => EachRequestHasItsAnswer
  <2> SUFFICES ASSUME McpInv, status \in {200, 204} PROVE EachRequestHasItsAnswer
    BY DEF EachRequestHasItsAnswer
  <2>1. McpTypes /\ EndIsLeft /\ AnsweredSoFar /\ ExecutedSoFar /\ todo = <<>> /\ (status = 204 <=> responses = <<>>)
    BY DEF McpInv
  <2>2. /\ Len(post.requests) \in Nat /\ DOMAIN post.requests = 1 .. Len(post.requests)
        /\ AnsweredOnes \subseteq 1 .. Len(post.requests) /\ ToolCalls \subseteq 1 .. Len(post.requests)
    BY <2>1, PlacesOfBody DEF AnsweredOnes, ToolCalls
  <2>3. Dispatched = Len(post.requests)
    BY <2>1, <2>2 DEF Dispatched
  <2>4. Rank(Dispatched, AnsweredOnes) = Cardinality(AnsweredOnes) /\ Rank(Dispatched, ToolCalls) = Cardinality(ToolCalls)
    <3>1. ASSUME NEW S, S \subseteq 1 .. Len(post.requests) PROVE Rank(Dispatched, S) = Cardinality(S)
      <4>1. \A j \in S : j <= Dispatched
        BY <3>1, <2>2, <2>3
      <4>2. {j \in S : j <= Dispatched} = S
        BY <4>1
      <4> QED
        BY <4>2 DEF Rank
    <3> QED
      BY <3>1, <2>2
  <2>5. responses = <<>> <=> AnsweredOnes = {}
    <3>1. IsFiniteSet(AnsweredOnes)
      BY <2>2, FS_Interval, FS_Subset, 1 \in Int, Len(post.requests) \in Int
    <3>2. Cardinality(AnsweredOnes) = 0 <=> AnsweredOnes = {}
      BY <3>1, FS_EmptySet
    <3>3. responses = <<>> <=> Len(responses) = 0
      BY <2>1 DEF McpTypes
    <3> QED
      BY <3>2, <3>3, <2>1, <2>4 DEF AnsweredSoFar
  <2>6. ASSUME NEW i \in AnsweredOnes
        PROVE  responses[Rank(i, AnsweredOnes)].id =
                 IF HasId(post.requests[i]) THEN post.requests[i].id ELSE "null"
    BY <2>1, <2>2, <2>3 DEF AnsweredSoFar, NullIfAbsent, HasId
  <2>7. \A i \in ToolCalls : executed[Rank(i, ToolCalls)] = post.requests[i].tool
    BY <2>1, <2>2, <2>3 DEF ExecutedSoFar
  <2>8. Len(responses) = Cardinality(AnsweredOnes) /\ Len(executed) = Cardinality(ToolCalls)
    BY <2>1, <2>4 DEF AnsweredSoFar, ExecutedSoFar
  <2>9. Open \in SUBSET Open /\ Owed \cup Open = AnsweredOnes
    BY DEF AnsweredOnes, IsAnswered, Owed, Open
  <2>10. status = 204 <=> AnsweredOnes = {}
    BY <2>1, <2>5
  <2>11. \E others \in SUBSET Open :
           LET answered == Owed \cup others IN
           /\ Len(responses) = Cardinality(answered)
           /\ \A i \in answered :
                LET req == post.requests[i]
                IN  responses[Rank(i, answered)].id = IF HasId(req) THEN req.id ELSE "null"
           /\ (status = 204 <=> answered = {})
    <3>1. Len(responses) = Cardinality(Owed \cup Open)
      BY <2>8, <2>9
    <3>2. \A i \in Owed \cup Open :
            LET req == post.requests[i]
            IN  responses[Rank(i, Owed \cup Open)].id = IF HasId(req) THEN req.id ELSE "null"
      BY Zenon, <2>6, <2>9
    <3>3. status = 204 <=> Owed \cup Open = {}
      BY <2>9, <2>10
    <3> WITNESS Open \in SUBSET Open
    <3> QED
      BY <3>1, <3>2, <3>3
  <2> QED
    BY <2>7, <2>8, <2>11 DEF EachRequestHasItsAnswer
<1> QED
  BY <1>1, McpInvariant, PTL
-----------------------------------------------------------------------------
(***************************************************************************)
(* Search, for any index, any query and any limits.                        *)
(***************************************************************************)
\* The order of the numbers, as a relation.
Less == {p \in Nat \X Nat : p[1] < p[2]}

\* Of numbers there is a least one.
LEMMA Least ==
  ASSUME NEW S, S \subseteq Nat, S # {}
  PROVE  \E n \in S : \A m \in S : n <= m
<1>1. Less = OpToRel(<, Nat)
  BY Zenon DEF Less, OpToRel
<1>2. IsWellFoundedOn(Less, Nat)
  BY <1>1, NatLessThanWellFounded
<1>3. PICK n \in S : \A m \in S : ~(<<m, n>> \in Less)
  BY <1>2, WFMin
<1>4. ASSUME NEW m \in S PROVE n <= m
  <2>1. ~(m < n)
    BY <1>3 DEF Less
  <2> QED
    BY <2>1
<1> QED
  BY <1>4

\* Types.
RetrievalTypes ==
  /\ phase \in {"new", "keys", "rows", "done", "failed"}
  /\ phase # "new" => query \in Queries
  /\ hits \in Seq(Sources) /\ rows \in Seq(Sources)
  /\ phase \in {"new", "failed"} => hits = <<>>
  /\ phase \notin {"rows", "done"} => rows = <<>>

\* The issue s has been looked up.
IsLookedUp(s, q, pending) == s.type = "jira" /\ \E p \in ExtractTicketKeys(q) \ pending : q.keys[p] = s.key
LookedUp(s) == IsLookedUp(s, query, keys)

\* Places are looked up from the first on.
KeysInOrder ==
  /\ keys \subseteq ExtractTicketKeys(query)
  /\ \A p \in ExtractTicketKeys(query) \ keys, r \in keys : p < r
  /\ phase = "rows" => keys = {}

\* Of every source there is one hit.
ListedOnce ==
  /\ Len(hits) <= query.limit
  /\ \A i, j \in DOMAIN hits : hits[i] = hits[j] => i = j

\* What has been looked up is listed first, and in the order of the query.
NamedFirst ==
  /\ \A s \in Sources : LookedUp(s) => \E i \in DOMAIN hits : hits[i] = s
  /\ phase = "keys" \/ keys # {} => \A i \in DOMAIN hits : LookedUp(hits[i])
  /\ \A i, j \in DOMAIN hits : ~LookedUp(hits[i]) /\ LookedUp(hits[j]) => j < i
  /\ \A i, j \in DOMAIN hits : i < j /\ LookedUp(hits[j]) =>
       \A b \in ExtractTicketKeys(query) : query.keys[b] = hits[j].key =>
         \E a \in ExtractTicketKeys(query) : a < b /\ query.keys[a] = hits[i].key

\* Rows, and what came from them, pass the filters and are in the order of their scores.
Score(s) == Boost(s.age) * ScoreOf(index, vector, words, s)
RowsInOrder ==
  /\ \A i \in DOMAIN hits : ~LookedUp(hits[i]) => Matches(query, hits[i])
  /\ \A i \in DOMAIN rows : Matches(query, rows[i])
  /\ \A i, j \in DOMAIN rows : i < j => Score(rows[i]) >= Score(rows[j])
  /\ \A i \in DOMAIN hits, j \in DOMAIN rows : ~LookedUp(hits[i]) => Score(hits[i]) >= Score(rows[j])
  /\ \A i, j \in DOMAIN hits : i < j /\ ~LookedUp(hits[i]) /\ ~LookedUp(hits[j]) =>
       Score(hits[i]) >= Score(hits[j])

\* Who was found is listed or will be, as far as the rows go.
FoundOnes == Found(query, vector, words)
NobodyLost ==
  /\ \A s \in FoundOnes :
       \/ \E i \in DOMAIN hits : hits[i] = s
       \/ \E i \in DOMAIN rows : rows[i] = s
       \/ Cardinality(FoundOnes) > CandidateSize
  /\ phase \in {"new", "keys"} => vector = {} /\ words = {}
  /\ phase = "done" => (keys = {} /\ rows = <<>>) \/ Len(hits) = query.limit

RetrievalInv ==
  /\ RetrievalTypes
  /\ phase = "new" => vector = {} /\ words = {}
  /\ phase \notin {"new", "failed"} =>
       KeysInOrder /\ ListedOnce /\ NamedFirst /\ RowsInOrder /\ NobodyLost

-----------------------------------------------------------------------------
\* Places of keys are numbers, and a key is at one of them.
LEMMA PlacesOfKeys ==
  ASSUME RetrievalAssumption, NEW q \in Queries
  PROVE  /\ Len(q.keys) \in Nat /\ DOMAIN q.keys = 1 .. Len(q.keys)
         /\ q.limit \in Nat /\ q.limit >= 1
         /\ ExtractTicketKeys(q) \subseteq 1 .. Len(q.keys)
         /\ \A p, r \in ExtractTicketKeys(q) : q.keys[p] = q.keys[r] => p = r
<1>1. Len(q.keys) \in Nat /\ DOMAIN q.keys = 1 .. Len(q.keys) /\ q.limit \in Nat /\ q.limit >= 1
  <2> DEFINE K == {q.keys[i] : i \in DOMAIN q.keys}
  <2>1. q.limit \in Nat \ {0} /\ q.keys \in Seq(K)
    BY Zenon DEF RetrievalAssumption
  <2> HIDE DEF K
  <2>2. Len(q.keys) \in Nat /\ DOMAIN q.keys = 1 .. Len(q.keys)
    BY <2>1
  <2> QED
    BY <2>1, <2>2
<1>2. ExtractTicketKeys(q) \subseteq 1 .. Len(q.keys)
  BY <1>1 DEF ExtractTicketKeys
<1>3. ASSUME NEW p \in ExtractTicketKeys(q), NEW r \in ExtractTicketKeys(q), q.keys[p] = q.keys[r]
      PROVE  p = r
  <2>1. ~(p < r) /\ ~(r < p)
    BY <1>1, <1>2, <1>3 DEF ExtractTicketKeys
  <2> QED
    BY <2>1, <1>1, <1>2
<1> QED
  BY <1>1, <1>2, <1>3

\* A hit is added at the end.
LEMMA HitIsLast ==
  ASSUME hits \in Seq(Sources), NEW s \in Sources, hits' = Append(hits, s)
  PROVE  /\ hits' \in Seq(Sources) /\ Len(hits) \in Nat
         /\ Len(hits') = Len(hits) + 1 /\ DOMAIN hits = 1 .. Len(hits)
         /\ DOMAIN hits' = 1 .. Len(hits) + 1
         /\ hits'[Len(hits) + 1] = s
         /\ \A i \in DOMAIN hits : hits'[i] = hits[i]
  OBVIOUS

\* The query begins.
LEMMA SearchKeeps ==
  ASSUME RetrievalAssumption, RetrievalInv, NEW q \in Queries, NEW ix \in Indexes, SearchHits(q, ix)
  PROVE  RetrievalInv'
<1>1. /\ phase = "new" /\ phase' = "keys" /\ query' = q /\ index' = ix /\ keys' = ExtractTicketKeys(q)
      /\ UNCHANGED <<hits, vector, words, rows>>
      /\ hits = <<>> /\ rows = <<>> /\ vector = {} /\ words = {}
  BY DEF SearchHits, RetrievalInv, RetrievalTypes
<1>2. RetrievalTypes'
  BY <1>1 DEF RetrievalInv, RetrievalTypes
<1>3. DOMAIN hits' = {} /\ DOMAIN rows' = {} /\ Len(hits') = 0
  BY <1>1
<1>4. keys' = ExtractTicketKeys(query')
  BY <1>1
<1>5. KeysInOrder'
  BY <1>1, <1>4 DEF KeysInOrder
<1>6. ListedOnce'
  BY <1>1, <1>3, PlacesOfKeys DEF ListedOnce
<1>7. \A s : ~IsLookedUp(s, query', keys')
  BY <1>4 DEF IsLookedUp
<1>8. NamedFirst'
  BY <1>3, <1>7 DEF NamedFirst, LookedUp
<1>9. RowsInOrder'
  BY <1>3 DEF RowsInOrder
<1>10. FoundOnes' = {}
  BY <1>1 DEF FoundOnes, Found
<1>11. NobodyLost'
  BY <1>1, <1>10 DEF NobodyLost
<1> QED
  BY <1>1, <1>2, <1>5, <1>6, <1>8, <1>9, <1>11 DEF RetrievalInv

\* One more key is looked up.
LEMMA FetchKeeps ==
  ASSUME RetrievalAssumption, RetrievalInv, FetchJiraByKey
  PROVE  RetrievalInv'
<1>1. /\ RetrievalTypes /\ KeysInOrder /\ ListedOnce /\ NamedFirst /\ RowsInOrder /\ NobodyLost
      /\ phase = "keys" /\ ~IsFull /\ query \in Queries
      /\ UNCHANGED <<phase, query, index, vector, words, rows>>
      /\ rows = <<>> /\ vector = {} /\ words = {}
      /\ \A i \in DOMAIN hits : LookedUp(hits[i])
  BY DEF FetchJiraByKey, RetrievalInv, RetrievalTypes, NobodyLost, NamedFirst
<1>2. PICK n \in keys :
        LET issues == {s \in Sources : s.type = "jira" /\ s.key = query.keys[n]}
        IN  /\ \A j \in keys : n <= j
            /\ keys' = keys \ {n}
            /\ \/ issues = {} /\ UNCHANGED hits
               \/ \E s \in issues : hits' = Append(hits, s)
  BY DEF FetchJiraByKey
<1> DEFINE E == ExtractTicketKeys(query)
<1>3. /\ E \subseteq Nat /\ \A p, r \in E : query.keys[p] = query.keys[r] => p = r
      /\ query.limit \in Nat /\ keys \subseteq E /\ n \in E
      /\ \A p \in E \ keys, r \in keys : p < r
  BY <1>1, PlacesOfKeys DEF KeysInOrder
<1>4. KeysInOrder'
  <2>1. ASSUME NEW p \in E \ keys', NEW r \in keys' PROVE p < r
    <3>1. CASE p = n
      BY <3>1, <1>2, <1>3
    <3>2. CASE p # n
      BY <3>2, <1>2, <1>3
    <3> QED
      BY <3>1, <3>2
  <2> QED
    BY <2>1, <1>1, <1>2, <1>3 DEF KeysInOrder
<1>5. ASSUME NEW s
      PROVE  (IsLookedUp(s, query', keys') <=> LookedUp(s) \/ (s.type = "jira" /\ s.key = query.keys[n]))
  BY <1>1, <1>2, <1>3 DEF LookedUp, IsLookedUp
<1>6. FoundOnes' = {} /\ NobodyLost'
  BY <1>1 DEF FoundOnes, Found, NobodyLost
<1>7. CASE UNCHANGED hits /\ {s \in Sources : s.type = "jira" /\ s.key = query.keys[n]} = {}
  <2>1. ASSUME NEW s \in Sources PROVE (IsLookedUp(s, query', keys') <=> LookedUp(s))
    BY <1>5, <1>7
  <2>2. \A i \in DOMAIN hits : hits[i] \in Sources
    BY <1>1 DEF RetrievalTypes
  <2>3. RetrievalTypes' /\ ListedOnce'
    BY <1>1, <1>7 DEF RetrievalTypes, ListedOnce
  <2>4. NamedFirst'
    BY <1>1, <1>7, <2>1, <2>2 DEF NamedFirst, LookedUp
  <2>5. RowsInOrder'
    BY <1>1, <1>7, <2>1, <2>2 DEF RowsInOrder, LookedUp
  <2> QED
    BY <1>1, <1>4, <1>6, <2>3, <2>4, <2>5 DEF RetrievalInv
<1>8. ASSUME NEW s \in Sources, s.type = "jira", s.key = query.keys[n], hits' = Append(hits, s)
      PROVE  RetrievalInv'
  <2>1. /\ hits' \in Seq(Sources) /\ Len(hits) \in Nat
        /\ Len(hits') = Len(hits) + 1 /\ DOMAIN hits = 1 .. Len(hits)
        /\ DOMAIN hits' = 1 .. Len(hits) + 1
        /\ hits'[Len(hits) + 1] = s
        /\ \A i \in DOMAIN hits : hits'[i] = hits[i]
    BY <1>1, <1>8, HitIsLast DEF RetrievalTypes
  <2>2. ASSUME NEW i \in DOMAIN hits
        PROVE  \E p \in E \ keys : query.keys[p] = hits[i].key /\ p < n /\ hits[i].key # s.key
    <3>1. PICK p \in E \ keys : query.keys[p] = hits[i].key
      BY <1>1 DEF LookedUp, IsLookedUp
    <3>2. p < n /\ p # n
      BY <1>3
    <3> QED
      BY <3>1, <3>2, <1>3, <1>8
  <2>3. RetrievalTypes'
    BY <1>1, <2>1 DEF RetrievalTypes
  <2>4. ListedOnce'
    <3>1. Len(hits') <= query.limit
      BY <1>1, <1>3, <2>1 DEF IsFull
    <3>2. ASSUME NEW i \in DOMAIN hits', NEW j \in DOMAIN hits', hits'[i] = hits'[j] PROVE i = j
      <4>1. CASE i \in DOMAIN hits /\ j \in DOMAIN hits
        BY <4>1, <3>2, <2>1, <1>1 DEF ListedOnce
      <4>2. CASE i \in DOMAIN hits /\ j = Len(hits) + 1
        BY <4>2, <3>2, <2>1, <2>2
      <4>3. CASE i = Len(hits) + 1 /\ j \in DOMAIN hits
        BY <4>3, <3>2, <2>1, <2>2
      <4>4. CASE i = Len(hits) + 1 /\ j = Len(hits) + 1
        BY <4>4
      <4> QED
        BY <4>1, <4>2, <4>3, <4>4, <2>1
    <3> QED
      BY <3>1, <3>2, <1>1 DEF ListedOnce
  <2>5. \A i \in DOMAIN hits' : IsLookedUp(hits'[i], query', keys')
    <3> SUFFICES ASSUME NEW i \in DOMAIN hits' PROVE IsLookedUp(hits'[i], query', keys')
      OBVIOUS
    <3>1. CASE i = Len(hits) + 1
      BY <3>1, <2>1, <1>5, <1>8
    <3>2. CASE i \in DOMAIN hits
      BY <3>2, <2>1, <1>5, <1>1
    <3> QED
      BY <3>1, <3>2, <2>1
  <2>6. ASSUME NEW t \in Sources, IsLookedUp(t, query', keys') PROVE \E i \in DOMAIN hits' : hits'[i] = t
    <3>1. CASE LookedUp(t)
      BY <3>1, <2>1, <1>1 DEF NamedFirst
    <3>2. CASE t.type = "jira" /\ t.key = query.keys[n]
      <4>1. t = s
        BY <3>2, <1>8 DEF RetrievalAssumption
      <4> QED
        BY <4>1, <2>1
    <3> QED
      BY <3>1, <3>2, <2>6, <1>5
  <2>7. ASSUME NEW i \in DOMAIN hits', NEW j \in DOMAIN hits', i < j,
               NEW b \in E, query.keys[b] = hits'[j].key
        PROVE  \E a \in E : a < b /\ query.keys[a] = hits'[i].key
    <3>1. CASE j \in DOMAIN hits
      <4>1. i \in DOMAIN hits /\ LookedUp(hits[j]) /\ hits'[j] = hits[j] /\ hits'[i] = hits[i]
        BY <3>1, <2>1, <2>7, <1>1
      <4> QED
        BY <4>1, <3>1, <2>7, <1>1 DEF NamedFirst
    <3>2. CASE j = Len(hits) + 1
      <4>1. i \in DOMAIN hits /\ b = n
        BY <3>2, <2>1, <2>7, <1>3, <1>8
      <4> QED
        BY <4>1, <2>1, <2>2
    <3> QED
      BY <3>1, <3>2, <2>1
  <2>8. E' = E
    BY <1>1
  <2>9. NamedFirst'
    BY <2>5, <2>6, <2>7, <2>8, <1>1 DEF NamedFirst, LookedUp
  <2>10. RowsInOrder'
    BY <2>5, <1>1 DEF RowsInOrder, LookedUp
  <2> QED
    BY <1>1, <1>4, <1>6, <2>3, <2>4, <2>9, <2>10 DEF RetrievalInv
<1> QED
  BY <1>2, <1>7, <1>8

\* If all may be taken, the best are all.
LEMMA BestIsAll ==
  ASSUME NEW S, IsFiniteSet(S), NEW n \in Nat, Cardinality(S) <= n, NEW T \in SUBSET S,
         Cardinality(T) = IF Cardinality(S) < n THEN Cardinality(S) ELSE n
  PROVE  T = S
<1>1. Cardinality(S) \in Nat /\ Cardinality(T) = Cardinality(S)
  BY FS_CardinalityType
<1> QED
  BY <1>1, FS_Subset

\* The hybrid query: its rows are new, so that nobody found is lost, and in order.
LEMMA HybridKeeps ==
  ASSUME RetrievalAssumption, RetrievalInv, RunHybrid
  PROVE  RetrievalInv'
<1>1. /\ RetrievalTypes /\ KeysInOrder /\ ListedOnce /\ NamedFirst /\ RowsInOrder /\ NobodyLost
      /\ phase = "keys" /\ query \in Queries
      /\ \A i \in DOMAIN hits : LookedUp(hits[i])
  BY DEF RunHybrid, RetrievalInv, RetrievalTypes, NamedFirst
<1>2. keys = {} /\ phase' = "rows" /\ UNCHANGED <<query, index, keys, hits>>
  BY DEF RunHybrid
<1>3. vector' \subseteq Chunks /\ words' \subseteq Chunks
  BY DEF RunHybrid, Best
<1>4. PICK T \in SUBSET Found(query, vector', words') :
        /\ Cardinality(T) = IF Cardinality(Found(query, vector', words')) < CandidateSize
                            THEN Cardinality(Found(query, vector', words')) ELSE CandidateSize
        /\ rows' \in [1 .. Cardinality(T) -> T]
        /\ \A s \in T : \E i \in DOMAIN rows' : rows'[i] = s
        /\ \A i, j \in DOMAIN rows' : i < j =>
             Boosted(ScoreOf(index, vector', words', rows'[i]), rows'[i])
               >= Boosted(ScoreOf(index, vector', words', rows'[j]), rows'[j])
  BY Zenon DEF RunHybrid, Best, Orders
<1>5. FoundOnes' = Found(query, vector', words')
  BY <1>2 DEF FoundOnes
<1>6. /\ \A s \in FoundOnes' : s \in Sources /\ Matches(query, s)
      /\ IsFiniteSet(FoundOnes') /\ Cardinality(FoundOnes') \in Nat
  <2>1. vector' \cup words' \subseteq Chunks /\ IsFiniteSet(vector' \cup words')
    BY <1>3, FS_Subset DEF RetrievalAssumption
  <2>2. IsFiniteSet({SourceOf[c] : c \in vector' \cup words'})
    <3> DEFINE C == vector' \cup words'
               f == [c \in C |-> SourceOf[c]]
    <3>1. f \in Surjection(C, {SourceOf[c] : c \in C})
      BY DEF Surjection
    <3> HIDE DEF f
    <3> QED
      BY <3>1, <2>1, FS_Surjection
  <2>3. FoundOnes' \subseteq {SourceOf[c] : c \in vector' \cup words'}
    BY <1>5 DEF Found
  <2>4. IsFiniteSet(FoundOnes')
    BY <2>2, <2>3, FS_Subset
  <2>5. \A s \in FoundOnes' : s \in Sources /\ Matches(query, s)
    BY <1>5, <2>1 DEF Found, RetrievalAssumption
  <2> QED
    BY <2>4, <2>5, FS_CardinalityType
<1>7. IsFiniteSet(T) /\ Cardinality(T) \in Nat
  BY <1>5, <1>6, FS_Subset, FS_CardinalityType
<1>8. rows' \in Seq(Sources) /\ \A i \in DOMAIN rows' : rows'[i] \in FoundOnes'
  <2>1. T \subseteq Sources
    BY <1>5, <1>6
  <2>2. rows' \in [1 .. Cardinality(T) -> Sources]
    BY <1>4, <2>1
  <2> QED
    BY <2>2, <1>4, <1>5, <1>7
<1>9. RetrievalTypes'
  BY <1>1, <1>2, <1>8 DEF RetrievalTypes
<1>10. KeysInOrder' /\ ListedOnce'
  BY <1>1, <1>2 DEF KeysInOrder, ListedOnce
<1>11. \A s : IsLookedUp(s, query', keys') <=> LookedUp(s)
  BY <1>2 DEF LookedUp
<1>12. NamedFirst'
  BY <1>1, <1>2, <1>11 DEF NamedFirst, LookedUp
<1>13. RowsInOrder'
  <2>1. \A i \in DOMAIN hits' : LookedUp(hits[i]) /\ hits'[i] = hits[i]
    BY <1>1, <1>2
  <2>2. \A i \in DOMAIN rows' : Matches(query', rows'[i])
    BY <1>2, <1>6, <1>8
  <2>3. \A i, j \in DOMAIN rows' : i < j =>
          Boost(rows'[i].age) * ScoreOf(index', vector', words', rows'[i])
            >= Boost(rows'[j].age) * ScoreOf(index', vector', words', rows'[j])
    BY <1>2, <1>4 DEF Boosted
  <2> QED
    BY <2>1, <2>2, <2>3, <1>11 DEF RowsInOrder, Score, LookedUp
<1>14. NobodyLost'
  <2>1. ASSUME NEW s \in FoundOnes', ~(Cardinality(FoundOnes') > CandidateSize)
        PROVE  \E i \in DOMAIN rows' : rows'[i] = s
    <3>1. CandidateSize \in Nat
      BY DEF RetrievalAssumption
    <3>2. T = FoundOnes'
      BY <3>1, <2>1, <1>4, <1>5, <1>6, BestIsAll
    <3> QED
      BY <3>2, <1>4
  <2> QED
    BY <2>1, <1>2 DEF NobodyLost
<1> QED
  BY <1>2, <1>9, <1>10, <1>12, <1>13, <1>14 DEF RetrievalInv

\* What is left of the rows.
LEMMA RowsAreLeft ==
  ASSUME rows \in Seq(Sources), rows # <<>>, rows' = Tail(rows)
  PROVE  /\ rows' \in Seq(Sources) /\ Head(rows) = rows[1] /\ rows[1] \in Sources
         /\ Len(rows) \in Nat /\ Len(rows) >= 1 /\ DOMAIN rows = 1 .. Len(rows)
         /\ DOMAIN rows' = 1 .. Len(rows) - 1 /\ \A i \in DOMAIN rows' : rows'[i] = rows[i + 1]
  OBVIOUS

\* A row is gone through.
LEMMA AppendRowKeeps ==
  ASSUME RetrievalAssumption, RetrievalInv, AppendRow
  PROVE  RetrievalInv'
<1>1. /\ RetrievalTypes /\ KeysInOrder /\ ListedOnce /\ NamedFirst /\ RowsInOrder /\ NobodyLost
      /\ phase = "rows" /\ ~IsFull /\ rows # <<>> /\ rows' = Tail(rows) /\ query \in Queries /\ keys = {}
      /\ UNCHANGED <<phase, query, index, keys, vector, words>>
  BY DEF AppendRow, RetrievalInv, RetrievalTypes, KeysInOrder
<1>2. /\ rows' \in Seq(Sources) /\ Head(rows) = rows[1] /\ rows[1] \in Sources
      /\ Len(rows) \in Nat /\ Len(rows) >= 1 /\ DOMAIN rows = 1 .. Len(rows)
      /\ DOMAIN rows' = 1 .. Len(rows) - 1 /\ \A i \in DOMAIN rows' : rows'[i] = rows[i + 1]
  BY <1>1, RowsAreLeft DEF RetrievalTypes
<1>3. \A s : IsLookedUp(s, query', keys') <=> LookedUp(s)
  BY <1>1 DEF LookedUp
<1>4. KeysInOrder'
  BY <1>1 DEF KeysInOrder
<1>5. FoundOnes' = FoundOnes
  BY <1>1 DEF FoundOnes
<1>6. \A s : Boost(s.age) * ScoreOf(index', vector', words', s) = Score(s)
  BY <1>1 DEF Score
<1>7. CASE \E k \in DOMAIN hits : hits[k] = rows[1]
  <2>1. hits' = hits
    BY <1>1, <1>2, <1>7 DEF AppendRow, IsUnseen
  <2>2. RetrievalTypes' /\ ListedOnce'
    BY <1>1, <1>2, <2>1 DEF RetrievalTypes, ListedOnce
  <2>3. NamedFirst'
    BY <1>1, <1>3, <2>1 DEF NamedFirst, LookedUp
  <2>4. RowsInOrder'
    BY <1>1, <1>2, <1>3, <1>6, <2>1 DEF RowsInOrder, LookedUp, Score
  <2>5. NobodyLost'
    <3>1. ASSUME NEW s \in FoundOnes, NEW i \in DOMAIN rows, rows[i] = s
          PROVE  (\E k \in DOMAIN hits : hits[k] = s) \/ \E k \in DOMAIN rows' : rows'[k] = s
      <4>1. CASE i = 1
        BY <4>1, <3>1, <1>7
      <4>2. CASE i # 1
        <5>1. i - 1 \in DOMAIN rows' /\ rows'[i - 1] = rows[i]
          BY <4>2, <1>2
        <5> QED
          BY <5>1, <3>1
      <4> QED
        BY <4>1, <4>2
    <3> QED
      BY <3>1, <1>1, <1>5, <2>1 DEF NobodyLost
  <2> QED
    BY <1>1, <1>4, <2>2, <2>3, <2>4, <2>5 DEF RetrievalInv
<1>8. CASE \A k \in DOMAIN hits : hits[k] # rows[1]
  <2> DEFINE s == rows[1]
             n == Len(hits) + 1
  <2>1. hits' = Append(hits, s)
    BY <1>1, <1>2, <1>8 DEF AppendRow, IsUnseen
  <2>2. /\ hits' \in Seq(Sources) /\ Len(hits) \in Nat
        /\ Len(hits') = n /\ DOMAIN hits = 1 .. Len(hits)
        /\ DOMAIN hits' = 1 .. n /\ hits'[n] = s
        /\ \A i \in DOMAIN hits : hits'[i] = hits[i]
    BY <1>1, <1>2, <2>1, HitIsLast DEF RetrievalTypes
  <2>3. \A i \in DOMAIN hits' : i # n => i \in DOMAIN hits /\ hits'[i] = hits[i] /\ i < n
    BY <2>2
  <2>4. ~LookedUp(s)
    BY <1>1, <1>2, <1>8 DEF NamedFirst
  <2>5. RetrievalTypes'
    BY <1>1, <1>2, <2>2 DEF RetrievalTypes
  <2>6. ListedOnce'
    <3>1. query.limit \in Nat
      BY <1>1, PlacesOfKeys
    <3>2. Len(hits') <= query'.limit
      BY <1>1, <2>2, <3>1 DEF IsFull
    <3>3. ASSUME NEW i \in DOMAIN hits', NEW j \in DOMAIN hits', hits'[i] = hits'[j] PROVE i = j
      BY <3>3, <2>2, <2>3, <1>1, <1>8 DEF ListedOnce
    <3> QED
      BY <3>2, <3>3 DEF ListedOnce
  <2>7. NamedFirst'
    <3>1. \A t \in Sources : LookedUp(t) => \E i \in DOMAIN hits' : hits'[i] = t
      BY <1>1, <2>2 DEF NamedFirst
    <3>2. ASSUME NEW i \in DOMAIN hits', NEW j \in DOMAIN hits', ~LookedUp(hits'[i]), LookedUp(hits'[j])
          PROVE  j < i
      BY <3>2, <2>2, <2>3, <2>4, <1>1 DEF NamedFirst
    <3>3. ASSUME NEW i \in DOMAIN hits', NEW j \in DOMAIN hits', i < j, LookedUp(hits'[j]),
                 NEW b \in ExtractTicketKeys(query), query.keys[b] = hits'[j].key
          PROVE  \E a \in ExtractTicketKeys(query) : a < b /\ query.keys[a] = hits'[i].key
      <4>1. j # n
        BY <3>3, <2>2, <2>4
      <4>2. i \in DOMAIN hits /\ j \in DOMAIN hits /\ hits'[i] = hits[i] /\ hits'[j] = hits[j]
        BY <4>1, <3>3, <2>2, <2>3
      <4> QED
        BY <4>2, <3>3, <1>1 DEF NamedFirst
    <3> QED
      BY <3>1, <3>2, <3>3, <1>1, <1>3 DEF NamedFirst, LookedUp
  <2>8. RowsInOrder'
    <3>1. \A i \in DOMAIN hits' : ~LookedUp(hits'[i]) => Matches(query, hits'[i])
      BY <2>2, <2>3, <1>1, <1>2 DEF RowsInOrder
    <3>2. \A i \in DOMAIN rows' : Matches(query, rows'[i]) /\ Score(s) >= Score(rows'[i])
      BY <1>1, <1>2 DEF RowsInOrder
    <3>3. \A i, j \in DOMAIN rows' : i < j => Score(rows'[i]) >= Score(rows'[j])
      BY <1>1, <1>2 DEF RowsInOrder
    <3>4. \A i \in DOMAIN hits', j \in DOMAIN rows' : ~LookedUp(hits'[i]) => Score(hits'[i]) >= Score(rows'[j])
      BY <3>2, <2>2, <2>3, <1>1, <1>2 DEF RowsInOrder
    <3>5. ASSUME NEW i \in DOMAIN hits', NEW j \in DOMAIN hits', i < j,
                 ~LookedUp(hits'[i]), ~LookedUp(hits'[j])
          PROVE  Score(hits'[i]) >= Score(hits'[j])
      <4>1. CASE j = n
        BY <4>1, <3>5, <2>2, <2>3, <1>1, <1>2 DEF RowsInOrder
      <4>2. CASE j # n
        BY <4>2, <3>5, <2>2, <2>3, <1>1 DEF RowsInOrder
      <4> QED
        BY <4>1, <4>2
    <3> QED
      BY <3>1, <3>2, <3>3, <3>4, <3>5, <1>1, <1>3, <1>6 DEF RowsInOrder, LookedUp, Score
  <2>9. NobodyLost'
    <3>1. ASSUME NEW t \in FoundOnes, NEW i \in DOMAIN rows, rows[i] = t
          PROVE  (\E k \in DOMAIN hits' : hits'[k] = t) \/ \E k \in DOMAIN rows' : rows'[k] = t
      <4>1. CASE i = 1
        BY <4>1, <3>1, <2>2
      <4>2. CASE i # 1
        <5>1. i - 1 \in DOMAIN rows' /\ rows'[i - 1] = rows[i]
          BY <4>2, <1>2
        <5> QED
          BY <5>1, <3>1
      <4> QED
        BY <4>1, <4>2
    <3>2. ASSUME NEW t \in FoundOnes, NEW i \in DOMAIN hits, hits[i] = t
          PROVE  \E k \in DOMAIN hits' : hits'[k] = t
      BY <3>2, <2>2
    <3> QED
      BY <3>1, <3>2, <1>1, <1>5 DEF NobodyLost
  <2> QED
    BY <1>1, <1>4, <2>5, <2>6, <2>7, <2>8, <2>9 DEF RetrievalInv
<1> QED
  BY <1>7, <1>8

\* The search returns its hits: nothing is left out but for the limit.
LEMMA ReturnKeeps ==
  ASSUME RetrievalAssumption, RetrievalInv, ReturnHits
  PROVE  RetrievalInv'
<1>1. /\ RetrievalTypes /\ KeysInOrder /\ ListedOnce /\ NamedFirst /\ RowsInOrder /\ NobodyLost
      /\ phase \in {"keys", "rows"} /\ phase' = "done" /\ query \in Queries
      /\ UNCHANGED <<query, index, keys, hits, vector, words, rows>>
  BY DEF ReturnHits, RetrievalInv, RetrievalTypes
<1>2. IsFull \/ (keys = {} /\ rows = <<>>)
  BY <1>1 DEF ReturnHits, KeysInOrder
<1>3. IsFull => Len(hits) = query.limit
  <2>1. Len(hits) \in Nat /\ query.limit \in Nat
    BY <1>1, PlacesOfKeys DEF RetrievalTypes
  <2> QED
    BY <2>1, <1>1 DEF IsFull, ListedOnce
<1>4. \A s : IsLookedUp(s, query', keys') <=> LookedUp(s)
  BY <1>1 DEF LookedUp
<1>5. RetrievalTypes' /\ KeysInOrder' /\ ListedOnce'
  BY <1>1 DEF RetrievalTypes, KeysInOrder, ListedOnce
<1>6. NamedFirst'
  <2>1. phase = "keys" \/ keys # {} => \A i \in DOMAIN hits : LookedUp(hits[i])
    BY <1>1 DEF NamedFirst
  <2> QED
    BY <2>1, <1>1, <1>4 DEF NamedFirst, LookedUp
<1>7. \A s : Boost(s.age) * ScoreOf(index', vector', words', s) = Score(s)
  BY <1>1 DEF Score
<1>8. RowsInOrder'
  BY <1>1, <1>4, <1>7 DEF RowsInOrder, LookedUp, Score
<1>9. FoundOnes' = FoundOnes
  BY <1>1 DEF FoundOnes
<1>10. NobodyLost'
  BY <1>1, <1>2, <1>3, <1>9 DEF NobodyLost
<1> QED
  BY <1>1, <1>5, <1>6, <1>8, <1>10 DEF RetrievalInv

\* A search that fails has no hits.
LEMMA FailureKeeps ==
  ASSUME RetrievalInv, SearchFails
  PROVE  RetrievalInv'
  BY DEF SearchFails, RetrievalInv, RetrievalTypes, NobodyLost

\* search.go, rank.go: the inductive invariant of a search.
THEOREM RetrievalInvariant ==
  ASSUME RetrievalAssumption
  PROVE  RetrievalSpec => []RetrievalInv
<1>1. RetrievalInit => RetrievalInv
  BY DEF RetrievalInit, RetrievalInv, RetrievalTypes
<1>2. RetrievalInv /\ [RetrievalNext]_retrievalVars => RetrievalInv'
  <2> SUFFICES ASSUME RetrievalInv, [RetrievalNext]_retrievalVars PROVE RetrievalInv'
    OBVIOUS
  <2>1. CASE \E q \in Queries, ix \in Indexes : SearchHits(q, ix)
    BY <2>1, SearchKeeps
  <2>2. CASE FetchJiraByKey
    BY <2>2, FetchKeeps
  <2>3. CASE RunHybrid
    BY <2>3, HybridKeeps
  <2>4. CASE AppendRow
    BY <2>4, AppendRowKeeps
  <2>5. CASE ReturnHits
    BY <2>5, ReturnKeeps
  <2>6. CASE SearchFails
    BY <2>6, FailureKeeps
  <2>7. CASE UNCHANGED retrievalVars
    <3>1. UNCHANGED <<phase, query, index, keys, hits, vector, words, rows>>
      BY <2>7 DEF retrievalVars
    <3>2. \A s : IsLookedUp(s, query', keys') <=> LookedUp(s)
      BY <3>1 DEF LookedUp
    <3>3. \A s : Boost(s.age) * ScoreOf(index', vector', words', s) = Score(s)
      BY <3>1 DEF Score
    <3>4. FoundOnes' = FoundOnes
      BY <3>1 DEF FoundOnes
    <3>5. (RetrievalTypes' <=> RetrievalTypes) /\ (KeysInOrder' <=> KeysInOrder) /\ (ListedOnce' <=> ListedOnce)
      BY <3>1 DEF RetrievalTypes, KeysInOrder, ListedOnce
    <3>6. NamedFirst' <=> NamedFirst
      BY <3>1, <3>2 DEF NamedFirst, LookedUp
    <3>7. RowsInOrder => RowsInOrder'
      BY <3>1, <3>2, <3>3 DEF RowsInOrder, LookedUp, Score
    <3>8. NobodyLost' <=> NobodyLost
      BY <3>1, <3>4 DEF NobodyLost
    <3> QED
      BY <3>1, <3>5, <3>6, <3>7, <3>8 DEF RetrievalInv
  <2> QED
    BY <2>1, <2>2, <2>3, <2>4, <2>5, <2>6, <2>7 DEF RetrievalNext
<1> QED
  BY <1>1, <1>2, PTL DEF RetrievalSpec

\* The key at b is named first at a.
FirstPlace(q, b, a) ==
  a \in 1 .. b /\ q.keys[a] = q.keys[b] /\ \A j \in 1 .. a - 1 : q.keys[j] # q.keys[a]

\* A key that is named somewhere is named first at some place.
LEMMA FirstIsThere ==
  ASSUME RetrievalAssumption, NEW q \in Queries, NEW b \in DOMAIN q.keys
  PROVE  \E a : FirstPlace(q, b, a)
<1> DEFINE S == {a \in 1 .. b : q.keys[a] = q.keys[b]}
<1>1. b \in Nat /\ b >= 1
  BY PlacesOfKeys
<1>2. S \subseteq Nat /\ b \in S
  BY <1>1
<1>3. PICK a \in S : \A m \in S : a <= m
  BY <1>2, Least
<1>4. ASSUME NEW j \in 1 .. a - 1 PROVE q.keys[j] # q.keys[a]
  <2>1. j \in 1 .. b /\ j < a
    BY <1>1, <1>3
  <2>2. j \notin S
    BY <2>1, <1>2, <1>3
  <2> QED
    BY <2>1, <2>2, <1>3
<1> QED
  BY <1>3, <1>4 DEF FirstPlace

\* Of n different keys those before the last are fewer.
LEMMA KeysBefore ==
  ASSUME RetrievalAssumption, NEW q \in Queries, NEW a \in DOMAIN q.keys, NEW b \in DOMAIN q.keys,
         FirstPlace(q, b, a)
  PROVE  /\ Cardinality({q.keys[j] : j \in 1 .. b - 1} \ {q.keys[b]}) < MaxTicketKeys
              => a \in ExtractTicketKeys(q)
         /\ a \in ExtractTicketKeys(q)
              => Cardinality({q.keys[j] : j \in 1 .. a - 1} \ {q.keys[a]}) < MaxTicketKeys
<1> DEFINE K(n) == {q.keys[j] : j \in 1 .. n}
           k == q.keys[a]
<1>1. /\ Len(q.keys) \in Nat /\ DOMAIN q.keys = 1 .. Len(q.keys) /\ MaxTicketKeys \in Nat
      /\ a <= b /\ k = q.keys[b]
  BY PlacesOfKeys DEF FirstPlace, RetrievalAssumption
<1>2. \A n \in DOMAIN q.keys : IsFiniteSet(K(n))
  <2> SUFFICES ASSUME NEW n \in DOMAIN q.keys PROVE IsFiniteSet(K(n))
    OBVIOUS
  <2> DEFINE f == [j \in 1 .. n |-> q.keys[j]]
  <2>1. f \in Surjection(1 .. n, K(n))
    BY DEF Surjection
  <2>2. IsFiniteSet(1 .. n)
    BY <1>1, FS_Interval, n \in Int, 1 \in Int
  <2> HIDE DEF f, K
  <2> QED
    BY <2>1, <2>2, FS_Surjection
<1>3. K(a) = (K(a) \ {k}) \cup {k} /\ k \notin K(a) \ {k}
  BY <1>1
<1>4. IsFiniteSet(K(a) \ {k}) /\ Cardinality(K(a) \ {k}) \in Nat
  BY <1>2, FS_Subset, FS_CardinalityType
<1>5. Cardinality(K(a)) = Cardinality(K(a) \ {k}) + 1
  <2> DEFINE L == K(a) \ {k}
  <2>1. K(a) = L \cup {k} /\ k \notin L /\ IsFiniteSet(L)
    BY <1>3, <1>4
  <2> HIDE DEF L
  <2>2. Cardinality(L \cup {k}) = Cardinality(L) + 1
    BY <2>1, FS_AddElement
  <2> QED
    BY <2>1, <2>2 DEF L
<1>6. K(a) \ {k} \subseteq K(b - 1) \ {k}
  <2> SUFFICES ASSUME NEW j \in 1 .. a, q.keys[j] # k PROVE q.keys[j] \in K(b - 1)
    OBVIOUS
  <2>1. j \in 1 .. b - 1
    BY <1>1
  <2> QED
    BY <2>1
<1>7. IsFiniteSet(K(b - 1) \ {k})
  <2>1. K(b - 1) \subseteq K(b)
    BY <1>1
  <2> QED
    BY <2>1, <1>2, FS_Subset
<1>8. /\ Cardinality(K(a) \ {k}) <= Cardinality(K(b - 1) \ {k})
      /\ Cardinality(K(b - 1) \ {k}) \in Nat
  BY <1>6, <1>7, FS_Subset, FS_CardinalityType
<1>9. Cardinality(K(b - 1) \ {k}) < MaxTicketKeys => Cardinality(K(a)) <= MaxTicketKeys
  BY <1>1, <1>4, <1>5, <1>8
<1>10. K(a - 1) \ {k} = K(a) \ {k}
  <2>1. K(a - 1) \ {k} \subseteq K(a) \ {k}
    BY <1>1
  <2>2. ASSUME NEW j \in 1 .. a, q.keys[j] # k PROVE q.keys[j] \in K(a - 1)
    <3>1. j \in 1 .. a - 1
      BY <2>2, <1>1
    <3> QED
      BY <3>1
  <2> QED
    BY <2>1, <2>2
<1>11. a \in ExtractTicketKeys(q) => Cardinality(K(a)) <= MaxTicketKeys
  BY DEF ExtractTicketKeys
<1>12. a \in ExtractTicketKeys(q) => Cardinality(K(a - 1) \ {k}) < MaxTicketKeys
  <2> DEFINE x == Cardinality(K(a) \ {k})
             y == Cardinality(K(a))
  <2>1. x \in Nat /\ y = x + 1 /\ Cardinality(K(a - 1) \ {k}) = x
    BY <1>4, <1>5, <1>10
  <2>2. a \in ExtractTicketKeys(q) => y <= MaxTicketKeys
    BY <1>11
  <2> HIDE DEF x, y
  <2>3. a \in ExtractTicketKeys(q) => x < MaxTicketKeys
    BY <2>1, <2>2, <1>1
  <2> QED
    BY <2>1, <2>3
<1>13. Cardinality(K(a)) <= MaxTicketKeys => a \in ExtractTicketKeys(q)
  BY DEF ExtractTicketKeys, FirstPlace
<1> QED
  BY <1>1, <1>9, <1>12, <1>13

\* What has been looked up is named; when no place is left, what is named has been.
LEMMA NamedAreLookedUp ==
  ASSUME RetrievalAssumption, query \in Queries, NEW s \in Sources
  PROVE  /\ LookedUp(s) => s \in Named
         /\ keys = {} /\ s \in Named => LookedUp(s)
<1>1. ASSUME LookedUp(s) PROVE s \in Named
  <2>1. PICK p \in ExtractTicketKeys(query) : query.keys[p] = s.key
    BY <1>1 DEF LookedUp, IsLookedUp
  <2>2. p \in DOMAIN query.keys /\ p \in 1 .. p
    BY PlacesOfKeys
  <2>3. FirstPlace(query, p, p)
    BY <2>2 DEF FirstPlace, ExtractTicketKeys
  <2>4. Cardinality({query.keys[j] : j \in 1 .. p - 1} \ {query.keys[p]}) < MaxTicketKeys
    BY <2>2, <2>3, KeysBefore
  <2> QED
    BY <1>1, <2>1, <2>2, <2>4 DEF Named, LookedUp, IsLookedUp
<1>2. ASSUME keys = {}, s \in Named PROVE LookedUp(s)
  <2>1. PICK b \in DOMAIN query.keys :
          s.key = query.keys[b]
            /\ Cardinality({query.keys[j] : j \in 1 .. b - 1} \ {s.key}) < MaxTicketKeys
    BY <1>2 DEF Named
  <2>2. PICK a : FirstPlace(query, b, a)
    BY FirstIsThere
  <2>3. a \in DOMAIN query.keys
    BY <2>2, PlacesOfKeys DEF FirstPlace
  <2>4. a \in ExtractTicketKeys(query)
    BY <2>1, <2>2, <2>3, KeysBefore
  <2> QED
    BY <1>2, <2>1, <2>2, <2>4 DEF LookedUp, IsLookedUp, FirstPlace, Named
<1> QED
  BY <1>1, <1>2

\* A hit is named if it has been looked up.
LEMMA HitsThatAreNamed ==
  ASSUME RetrievalAssumption, RetrievalInv, phase = "done"
  PROVE  /\ query \in Queries /\ \A i \in DOMAIN hits : hits[i] \in Sources
         /\ \A i \in DOMAIN hits : LookedUp(hits[i]) <=> hits[i] \in Named
         /\ Rest = {i \in DOMAIN hits : ~LookedUp(hits[i])}
         /\ keys # {} => Rest = {}
<1>1. /\ query \in Queries /\ hits \in Seq(Sources) /\ NamedFirst
  BY DEF RetrievalInv, RetrievalTypes
<1>2. \A i \in DOMAIN hits : hits[i] \in Sources
  BY <1>1
<1>3. \A i \in DOMAIN hits : LookedUp(hits[i]) <=> hits[i] \in Named
  <2> SUFFICES ASSUME NEW i \in DOMAIN hits PROVE LookedUp(hits[i]) <=> hits[i] \in Named
    OBVIOUS
  <2>1. /\ LookedUp(hits[i]) => hits[i] \in Named
        /\ keys = {} /\ hits[i] \in Named => LookedUp(hits[i])
    BY <1>1, <1>2, NamedAreLookedUp
  <2>2. keys # {} => LookedUp(hits[i])
    BY <1>1 DEF NamedFirst
  <2> QED
    BY <2>1, <2>2
<1>4. Rest = {i \in DOMAIN hits : ~LookedUp(hits[i])}
  BY <1>3 DEF Rest
<1>5. keys # {} => Rest = {}
  BY <1>1, <1>4 DEF NamedFirst
<1> QED
  BY <1>1, <1>2, <1>3, <1>4, <1>5

\* A named hit has its place among the keys of the query, the first of its key.
LEMMA MentionedBefore ==
  ASSUME RetrievalAssumption, RetrievalInv, phase = "done",
         NEW i \in DOMAIN hits, NEW j \in DOMAIN hits, i < j, LookedUp(hits[j]),
         NEW b \in DOMAIN query.keys, query.keys[b] = hits[j].key
  PROVE  \E a \in 1 .. b - 1 : query.keys[a] = hits[i].key
<1>1. query \in Queries /\ NamedFirst
  BY DEF RetrievalInv, RetrievalTypes
<1>2. PICK p \in ExtractTicketKeys(query) : query.keys[p] = hits[j].key
  BY DEF LookedUp, IsLookedUp
<1>3. p \in DOMAIN query.keys /\ b \in Nat /\ p \in Nat /\ p >= 1 /\ b >= 1
  BY <1>1, PlacesOfKeys
<1>4. p <= b
  <2>1. ~(b \in 1 .. p - 1)
    BY <1>2 DEF ExtractTicketKeys
  <2> QED
    BY <2>1, <1>3
<1>5. PICK a \in ExtractTicketKeys(query) : a < p /\ query.keys[a] = hits[i].key
  BY <1>1, <1>2 DEF NamedFirst
<1>6. a \in 1 .. b - 1
  <2>1. a \in Nat /\ a >= 1
    BY <1>1, PlacesOfKeys
  <2> QED
    BY <2>1, <1>3, <1>4, <1>5
<1> QED
  BY <1>5, <1>6

\* search.go: whoever is named or found is listed once and in the right order.
THEOREM HitsAreGood ==
  ASSUME RetrievalAssumption
  PROVE  RetrievalSpec => []HitsAreSound
<1>1. RetrievalInv => HitsAreSound
  <2> SUFFICES ASSUME RetrievalInv, phase = "done" PROVE HitsAreSound
    BY DEF HitsAreSound
  <2>1. ListedOnce /\ NamedFirst /\ RowsInOrder
    BY DEF RetrievalInv
  <2>2. /\ query \in Queries /\ \A i \in DOMAIN hits : hits[i] \in Sources
        /\ \A i \in DOMAIN hits : LookedUp(hits[i]) <=> hits[i] \in Named
        /\ Rest = {i \in DOMAIN hits : ~LookedUp(hits[i])}
        /\ keys # {} => Rest = {}
    BY HitsThatAreNamed
  <2>3. Named \subseteq Listed \/ Listed \subseteq Named
    <3>1. CASE keys # {}
      <4>1. \A i \in DOMAIN hits : hits[i] \in Named
        BY <2>2, <3>1
      <4> QED
        BY <4>1 DEF Listed
    <3>2. CASE keys = {}
      <4> SUFFICES ASSUME NEW s \in Named PROVE s \in Listed
        OBVIOUS
      <4>1. s \in Sources
        BY DEF Named
      <4>2. LookedUp(s)
        BY <4>1, <3>2, <2>2, NamedAreLookedUp
      <4> QED
        BY <4>1, <4>2, <2>1 DEF NamedFirst, Listed
    <3> QED
      BY <3>1, <3>2
  <2>4. \A i \in Rest, j \in DOMAIN hits \ Rest : j < i
    BY <2>1, <2>2 DEF NamedFirst
  <2>5. ASSUME NEW i \in DOMAIN hits \ Rest, NEW j \in DOMAIN hits \ Rest, i < j,
               NEW b \in DOMAIN query.keys, query.keys[b] = hits[j].key
        PROVE  \E a \in 1 .. b - 1 : query.keys[a] = hits[i].key
    <3>1. LookedUp(hits[j])
      BY <2>2
    <3> QED
      BY <3>1, <2>5, MentionedBefore
  <2>6. \A i \in Rest : Matches(query, hits[i])
    BY <2>1, <2>2 DEF RowsInOrder
  <2>7. Len(hits) <= query.limit /\ \A i, j \in DOMAIN hits : hits[i] = hits[j] => i = j
    BY <2>1 DEF ListedOnce
  <2> QED
    BY <2>3, <2>4, <2>5, <2>6, <2>7 DEF HitsAreSound
<1> QED
  BY <1>1, RetrievalInvariant, PTL

\* search.go: nobody who was found gives way to one with a lower score.
THEOREM HitsAreBest ==
  ASSUME RetrievalAssumption
  PROVE  RetrievalSpec => []BestAreListed
<1>1. RetrievalInv => BestAreListed
  <2> SUFFICES ASSUME RetrievalInv, phase = "done" PROVE BestAreListed
    BY DEF BestAreListed
  <2>1. RowsInOrder /\ NobodyLost
    BY DEF RetrievalInv
  <2>2. /\ Rest = {i \in DOMAIN hits : ~LookedUp(hits[i])}
        /\ keys # {} => Rest = {}
    BY HitsThatAreNamed
  <2>3. \A i, j \in Rest : i < j => Score(hits[i]) >= Score(hits[j])
    BY <2>1, <2>2 DEF RowsInOrder
  <2>4. ASSUME NEW s \in FoundOnes, s \notin Listed
        PROVE  \/ Len(hits) = query.limit /\ \A i \in Rest : Score(hits[i]) >= Score(s)
               \/ Cardinality(FoundOnes) > CandidateSize
    <3>1. CASE \E k \in DOMAIN rows : rows[k] = s
      <4>1. PICK k \in DOMAIN rows : rows[k] = s
        BY <3>1
      <4>2. rows # <<>>
        BY <4>1
      <4>3. Len(hits) = query.limit
        BY <4>2, <2>1 DEF NobodyLost
      <4>4. \A i \in Rest : Score(hits[i]) >= Score(s)
        BY <4>1, <2>1, <2>2 DEF RowsInOrder
      <4> QED
        BY <4>3, <4>4
    <3>2. CASE ~\E k \in DOMAIN rows : rows[k] = s
      <4>1. ~\E i \in DOMAIN hits : hits[i] = s
        BY <2>4 DEF Listed
      <4> QED
        BY <3>2, <4>1, <2>1, <2>4 DEF NobodyLost
    <3> QED
      BY <3>1, <3>2
  <2> QED
    BY <2>3, <2>4 DEF BestAreListed, Score, FoundOnes
<1> QED
  BY <1>1, RetrievalInvariant, PTL
=============================================================================
