----------------------------- MODULE Retrieval -----------------------------
(***************************************************************************)
(* Search (internal/retrieve/search.go, rank.go): the issues that the      *)
(* query names are looked up one after the other, then the hybrid ranking  *)
(* of chunks by vector and by words fills the rest, row by row.            *)
(* The index gives each chunk the score of the query's vector and of its   *)
(* words; what is checked is what is made of them.  Scores are whole       *)
(* numbers: those of the words are put over their maximum, as in hybridSQL,*)
(* by multiplying the others with it.                                      *)
(***************************************************************************)
EXTENDS Integers, Sequences, FiniteSets, FiniteSetsExt

CONSTANTS
  Sources,                  \* rows of sources: [type, key, project, age]
  SourceOf,                 \* SourceOf[c]: the source of the chunk c
  Indexes,                  \* scores to try: functions to [v, f] of each chunk, f = 0: no match
  Queries,                  \* queries to try: [keys, types, projects, within, limit]
  CandidateSize,            \* 50: chunks of each branch, and rows of the whole
  MaxTicketKeys,            \* 5
  VectorWeight, FTSWeight,  \* 6 and 4
  Boost(_)                  \* 1 + 0.05 e^(-age), in some unit: falls with the age

Chunks == DOMAIN SourceOf

\* Of sources, (type, key) is unique.
RetrievalAssumption ==
  /\ {CandidateSize, MaxTicketKeys} \subseteq Nat \ {0}
  /\ \A q \in Queries : q.limit \in Nat \ {0} /\ q.keys \in Seq({q.keys[i] : i \in DOMAIN q.keys})
  /\ \A s, t \in Sources : s.type = t.type /\ s.key = t.key => s = t
  /\ IsFiniteSet(Chunks) /\ \A c \in Chunks : SourceOf[c] \in Sources

VARIABLES
  phase,          \* "new", "keys", "rows", then "done" or "failed"
  query, index,
  keys,           \* of the keys that the query names, the places of those to be looked up
  hits,
  vector, words,  \* the candidates of the two branches
  rows            \* rows of the hybrid query still to be gone through

retrievalVars == <<phase, query, index, keys, hits, vector, words, rows>>

NoQuery == [limit |-> 0]
RetrievalInit ==
  /\ phase = "new" /\ query = NoQuery /\ index = <<>> /\ keys = {} /\ hits = <<>>
  /\ vector = {} /\ words = {} /\ rows = <<>>

\* The places where a key is named for the first time, as many as are looked up.
ExtractTicketKeys(q) ==
  {i \in DOMAIN q.keys :
     /\ \A j \in 1 .. i - 1 : q.keys[j] # q.keys[i]
     /\ Cardinality({q.keys[j] : j \in 1 .. i}) <= MaxTicketKeys}

SearchHits(q, ix) ==
  /\ phase = "new" /\ phase' = "keys"
  /\ query' = q /\ index' = ix /\ keys' = ExtractTicketKeys(q)
  /\ UNCHANGED <<hits, vector, words, rows>>

IsFull == Len(hits) >= query.limit

FetchJiraByKey ==
  /\ phase = "keys" /\ ~IsFull
  /\ \E i \in keys :
       LET issues == {s \in Sources : s.type = "jira" /\ s.key = query.keys[i]}
       IN  /\ \A j \in keys : i <= j
           /\ keys' = keys \ {i}
           /\ \/ issues = {} /\ UNCHANGED hits
              \/ \E s \in issues : hits' = Append(hits, s)
  /\ UNCHANGED <<phase, query, index, vector, words, rows>>

\* The n best by a score, ties in any way: ORDER BY ... LIMIT.
Best(S, score(_), n) ==
  {T \in SUBSET S : /\ Cardinality(T) = IF Cardinality(S) < n THEN Cardinality(S) ELSE n
                    /\ \A t \in T, u \in S \ T : score(t) >= score(u)}
Orders(S, score(_)) ==
  {o \in [1 .. Cardinality(S) -> S] :
     /\ \A s \in S : \E i \in DOMAIN o : o[i] = s
     /\ \A i, j \in DOMAIN o : i < j => score(o[i]) >= score(o[j])}

\* A filter without values is no filter; the spaces are not looked at.
Matches(q, s) ==
  /\ q.types = {} \/ s.type \in q.types
  /\ q.projects = {} \/ s.project \in q.projects
  /\ s.age < q.within

\* hybridSQL up to fused, of a chunk that is a candidate of the vector, the words or both.
Fused(ix, vs, ws, c) ==
  LET top == IF ws = {} THEN 1 ELSE Max({ix[w].f : w \in ws})
  IN  (IF c \in vs THEN VectorWeight * ix[c].v * top ELSE 0)
        + (IF c \in ws THEN FTSWeight * ix[c].f ELSE 0)

\* DISTINCT ON: the best of a source's candidates.
ScoreOf(ix, vs, ws, s) == Max({Fused(ix, vs, ws, c) : c \in {c \in vs \cup ws : SourceOf[c] = s}})
Found(q, vs, ws) == {s \in {SourceOf[c] : c \in vs \cup ws} : Matches(q, s)}

\* The recency boost of runHybrid.
Unboosted(score, s) == score
Boosted(score, s) == Boost(s.age) * score

\* The rows, cut off in the database and put in order again after the boost.
RunHybrid ==
  LET v(c) == index[c].v
      f(c) == index[c].f
      score(s) == ScoreOf(index, vector', words', s)
      boosted(s) == Boosted(score(s), s)
  IN
  /\ phase = "keys" /\ keys = {} /\ ~IsFull /\ phase' = "rows"
  /\ vector' \in Best(Chunks, v, CandidateSize)
  /\ words' \in Best({c \in Chunks : f(c) > 0}, f, CandidateSize)
  /\ \E T \in Best(Found(query, vector', words'), score, CandidateSize) : rows' \in Orders(T, boosted)
  /\ UNCHANGED <<query, index, keys, hits>>

IsNew(s) == TRUE
IsUnseen(s) == \A i \in DOMAIN hits : hits[i] # s

AppendRow ==
  /\ phase = "rows" /\ ~IsFull /\ rows # <<>>
  /\ hits' = IF IsUnseen(Head(rows)) THEN Append(hits, Head(rows)) ELSE hits
  /\ rows' = Tail(rows)
  /\ UNCHANGED <<phase, query, index, keys, vector, words>>

ReturnHits ==
  /\ \/ phase = "keys" /\ IsFull
     \/ phase = "rows" /\ (rows = <<>> \/ IsFull)
  /\ phase' = "done"
  /\ UNCHANGED <<query, index, keys, hits, vector, words, rows>>

\* A look-up, the embedding or the query fails: there is no result.
SearchFails ==
  /\ phase = "keys" /\ ~IsFull /\ phase' = "failed" /\ hits' = <<>>
  /\ UNCHANGED <<query, index, keys, vector, words, rows>>

RetrievalNext ==
  \/ \E q \in Queries, ix \in Indexes : SearchHits(q, ix)
  \/ FetchJiraByKey \/ RunHybrid \/ AppendRow \/ ReturnHits \/ SearchFails

RetrievalSpec == RetrievalInit /\ [][RetrievalNext]_retrievalVars

Named == {s \in Sources : s.type = "jira" /\ \E i \in DOMAIN query.keys :
            /\ s.key = query.keys[i]
            /\ Cardinality({query.keys[j] : j \in 1 .. i - 1} \ {s.key}) < MaxTicketKeys}
Listed == {hits[i] : i \in DOMAIN hits}
Rest == {i \in DOMAIN hits : hits[i] \notin Named}

\* A source is listed once, however many of its chunks match and although the query names
\* it too; the limit holds; the issues that the query names come before all others, in the
\* order in which it names them first, whatever the filters; every other source passes
\* them.
HitsAreSound ==
  phase = "done" =>
    /\ Len(hits) <= query.limit /\ \A i, j \in DOMAIN hits : hits[i] = hits[j] => i = j
    /\ Named \subseteq Listed \/ Listed \subseteq Named
    /\ \A i \in Rest, j \in DOMAIN hits \ Rest : j < i
    /\ \A i, j \in DOMAIN hits \ Rest : i < j =>
         \A b \in DOMAIN query.keys : query.keys[b] = hits[j].key =>
           \E a \in 1 .. b - 1 : query.keys[a] = hits[i].key
    /\ \A i \in Rest : Matches(query, hits[i])

\* No source that passes the filters and has a candidate is left out for one that scores
\* less by the definition of the ranking (its best chunk, with the boost of its age),
\* unless there are more such sources than rows: those are cut off before the boost.
BestAreListed ==
  phase = "done" =>
    LET score(s) == Boost(s.age) * ScoreOf(index, vector, words, s)
        found == Found(query, vector, words)
    IN  /\ \A i, j \in Rest : i < j => score(hits[i]) >= score(hits[j])
        /\ \A s \in found \ Listed :
             \/ Len(hits) = query.limit /\ \A i \in Rest : score(hits[i]) >= score(s)
             \/ Cardinality(found) > CandidateSize
=============================================================================
