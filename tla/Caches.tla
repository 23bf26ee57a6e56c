------------------------------- MODULE Caches -------------------------------
(***************************************************************************)
(* The two caches in Redis: the lists of projects and spaces behind        *)
(* autocompletion (internal/http/autocomplete.go) and the vectors of       *)
(* queries (internal/cache/embed.go, internal/retrieve/search.go).  One    *)
(* key of each; requests overlap, sources are written, calls to Redis fail *)
(* and keys expire.  During a roll-out processes of two embedding          *)
(* dimensions use the same key.  Time is in ticks.                         *)
(***************************************************************************)
EXTENDS Naturals

CONSTANTS
  Lookups,
  DimOf,               \* DimOf[r]: the dimension of the process that serves r
  CacheTTL,            \* of both caches
  MaxLag,              \* ticks from reading the list to writing it to Redis at most
  LastHour, MaxChanges \* bounds of the model

CachesAssumption ==
  {CacheTTL, MaxLag, LastHour, MaxChanges} \subseteq Nat

VARIABLES
  hour,
  list,                \* the database's list, as the number of its changes
  left,                \* left[v]: when the v-th list was changed
  cachedList,          \* set of at most one [value, expires]
  cachedVector,        \* the same; of a vector only the dimension matters
  lookup               \* lookup[r]: an autocompletion or a search; where it is

cacheVars == <<hour, list, left, cachedList, cachedVector, lookup>>

CachesInit ==
  /\ hour = 0 /\ list = 0 /\ left = [v \in 0 .. MaxChanges |-> LastHour]
  /\ cachedList = {} /\ cachedVector = {}
  /\ lookup = [r \in Lookups |-> [at |-> "new"]]

Goes(r, to) == lookup' = [lookup EXCEPT ![r] = to]
Is(r, place) == lookup[r].at = place

NeverExpires(value) == {[value |-> value, expires |-> LastHour + 1]}
Expiring(value) == {[value |-> value, expires |-> hour + CacheTTL]}

\* A hit is the answer; a miss, or a failure of Redis, asks the database.
GetList(r) ==
  /\ Is(r, "new")
  /\ \/ \E c \in cachedList : Goes(r, [at |-> "listed", value |-> c.value, since |-> hour])
     \/ Goes(r, [at |-> "missed"])
  /\ UNCHANGED <<hour, list, left, cachedList, cachedVector>>

\* A failure of the query is an answer of 500 and leaves the cache alone.
ListDistinct(r) ==
  /\ Is(r, "missed")
  /\ Goes(r, [at |-> "queried", value |-> list, since |-> hour])
  /\ UNCHANGED <<hour, list, left, cachedList, cachedVector>>

\* What it wrote, or failed to write, is what it answers.
SetList(r) ==
  /\ Is(r, "queried")
  /\ cachedList' \in {cachedList, Expiring(lookup[r].value)}
  /\ Goes(r, [lookup[r] EXCEPT !.at = "listed", !.since = hour])
  /\ UNCHANGED <<hour, list, left, cachedVector>>

FitsModel(r, c) == c.value = DimOf[r]

\* EmbedCache.Get; a vector that does not fit is deleted, whichever the key has by then.
GetVector(r) ==
  /\ Is(r, "new")
  /\ \/ \E c \in cachedVector :
          Goes(r, IF FitsModel(r, c) THEN [at |-> "embedded", value |-> c.value]
                                     ELSE [at |-> "deleting"])
     \/ Goes(r, [at |-> "unembedded"])
  /\ UNCHANGED <<hour, list, left, cachedList, cachedVector>>

DeleteVector(r) ==
  /\ Is(r, "deleting")
  /\ cachedVector' \in {cachedVector, {}}
  /\ Goes(r, [at |-> "unembedded"])
  /\ UNCHANGED <<hour, list, left, cachedList>>

\* The embeddings client checks the dimension of what it gets.
SetVector(r) ==
  /\ Is(r, "unembedded")
  /\ cachedVector' \in {cachedVector, Expiring(DimOf[r])}
  /\ Goes(r, [at |-> "embedded", value |-> DimOf[r]])
  /\ UNCHANGED <<hour, list, left, cachedList>>

\* Sources of a new project are written, or the last of one goes.
ChangeList ==
  /\ list < MaxChanges /\ list' = list + 1
  /\ left' = [left EXCEPT ![list] = hour]
  /\ UNCHANGED <<hour, cachedList, cachedVector, lookup>>

HourPasses ==
  /\ hour < LastHour
  /\ \A r \in Lookups : Is(r, "queried") => hour < lookup[r].since + MaxLag
  /\ hour' = hour + 1
  /\ cachedList' = {c \in cachedList : c.expires > hour + 1}
  /\ cachedVector' = {c \in cachedVector : c.expires > hour + 1}
  /\ UNCHANGED <<list, left, lookup>>

CachesNext ==
  \/ \E r \in Lookups :
       \/ GetList(r) \/ ListDistinct(r) \/ SetList(r)
       \/ GetVector(r) \/ DeleteVector(r) \/ SetVector(r)
  \/ ChangeList \/ HourPasses

CachesSpec == CachesInit /\ [][CachesNext]_cacheVars

\* A list that is served, from the cache or not, was that of the database within the last
\* TTL and the lag of the request that read it, although slower requests overwrite the
\* lists of faster ones.  A vector is of the dimension that its process ranks with,
\* although processes of another one read, delete and write the same key.
ServedIsUsable ==
  \A r \in Lookups :
    /\ Is(r, "listed") => left[lookup[r].value] + CacheTTL + MaxLag >= lookup[r].since
    /\ Is(r, "embedded") => lookup[r].value = DimOf[r]
=============================================================================
