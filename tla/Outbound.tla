------------------------------ MODULE Outbound ------------------------------
(***************************************************************************)
(* The retry loops of the outbound clients: doJSON of the Jira and the     *)
(* Confluence client (internal/sources/.../client.go), alike line by line, *)
(* and Embed of the embeddings client (internal/embed/embed.go), which     *)
(* callers run batch after batch over their texts.  The server answers as  *)
(* it likes; the context may be cancelled at any time.                     *)
(***************************************************************************)
EXTENDS Integers, Sequences, SequencesExt

CONSTANTS
  TextCount,    \* number of texts to embed
  BatchSize, MaxRetries

\* An empty input is no request.
OutboundAssumption == {TextCount, BatchSize} \subseteq Nat \ {0} /\ MaxRetries \in Nat

VARIABLES
  caller,       \* "doJSON" or "embed"
  place,        \* "ready" to send, "waiting" before a retry, or the end: "ok", "failed"
  start,        \* texts embedded so far
  vectors,      \* vectors[i]: the text that the i-th vector is of
  cancelled,
  answers       \* how the requests of this batch or call were answered (auxiliary)

outboundVars == <<caller, place, start, vectors, cancelled, answers>>

OutboundInit ==
  /\ caller = "none" /\ place = "idle" /\ start = 0 /\ vectors = <<>>
  /\ cancelled = FALSE /\ answers = <<>>

Begin(c) ==
  /\ caller = "none" /\ caller' = c
  /\ place' = "ready"
  /\ UNCHANGED <<start, vectors, cancelled, answers>>

\* The last batch may be short.
BatchLen == IF TextCount - start < BatchSize THEN TextCount - start ELSE BatchSize

\* doJSON counts what it cannot decode among the errors that pass; Embed does not, nor
\* an answer that does not fit the request.
RetryableForAll(kind) == kind \in {"network", "429", "5xx", "undecodable"}
Retryable(kind) ==
  \/ kind \in {"network", "429", "5xx"}
  \/ caller = "doJSON" /\ kind = "undecodable"

\* The wait between attempts; a cancellation ends it, as it ends a request.
LastAttempt == Len(answers) = MaxRetries
AttemptFails(kind) ==
  /\ answers' = Append(answers, kind)
  /\ place' = IF Retryable(kind) /\ ~LastAttempt THEN "waiting" ELSE "failed"
  /\ UNCHANGED <<caller, start, vectors, cancelled>>

Fail ==
  /\ place = "ready"
  /\ \E kind \in {"network", "429", "5xx", "4xx", "undecodable"} :
       (cancelled => kind = "network") /\ AttemptFails(kind)

Wait ==
  /\ place = "waiting"
  /\ place' = IF cancelled THEN "failed" ELSE "ready"
  /\ UNCHANGED <<caller, start, vectors, cancelled, answers>>

Decoded ==
  /\ caller = "doJSON" /\ place = "ready" /\ ~cancelled
  /\ place' = "ok" /\ answers' = Append(answers, "good")
  /\ UNCHANGED <<caller, start, vectors, cancelled>>

\* What can come back for a batch: any number of vectors, each with the index of a text
\* it says it is of, counted from 0, in any order; an error inside a 200 is none of them.
Items == UNION {[1 .. n -> -1 .. BatchLen] : n \in {0, BatchLen - 1, BatchLen, BatchLen + 1} \cap Nat}

PlacedByArrival(items) == [i \in DOMAIN items |-> start + items[i] + 1]
Placed(items) == [i \in 1 .. BatchLen |-> start + items[CHOOSE j \in DOMAIN items : items[j] = i - 1] + 1]
Fits(items) == Len(items) = BatchLen /\ ToSet(items) = 0 .. BatchLen - 1

Embedded(items) ==
  /\ caller = "embed" /\ place = "ready" /\ ~cancelled
  /\ IF Fits(items)
     THEN /\ vectors' = vectors \o Placed(items)
          /\ start' = start + BatchLen
          /\ place' = IF start' = TextCount THEN "ok" ELSE "ready"
          /\ answers' = IF start' = TextCount THEN Append(answers, "good") ELSE <<>>
          /\ UNCHANGED <<caller, cancelled>>
     ELSE AttemptFails("misfit")

CancelCall ==
  /\ place \in {"ready", "waiting"} /\ ~cancelled /\ cancelled' = TRUE
  /\ UNCHANGED <<caller, place, start, vectors, answers>>

OutboundNext ==
  \/ Begin("doJSON") \/ Begin("embed")
  \/ Fail \/ Wait \/ Decoded
  \/ \E items \in Items : Embedded(items)
  \/ CancelCall

OutboundSpec == OutboundInit /\ [][OutboundNext]_outboundVars

\* When a caller gets its vectors it has one for each text, and the i-th is that of the
\* i-th text, in whatever order they came, over batches and retries.
VectorsMeetTexts ==
  place = "ok" /\ caller = "embed" => vectors = [i \in 1 .. TextCount |-> i]

\* A call ends: after MaxRetries + 1 requests at most, and at the first answer that no
\* retry would change; it never ends well on a bad answer, and is given up while an
\* attempt is left only for such an answer or a cancellation.
RetriesEnd ==
  LET passes(kind) == kind \in {"network", "429", "5xx"} \/ (caller = "doJSON" /\ kind = "undecodable")
      n == Len(answers)
  IN  /\ n <= MaxRetries + 1
      /\ \A i \in 1 .. n - 1 : passes(answers[i])
      /\ place = "ok" => Last(answers) = "good"
      /\ place \in {"ready", "waiting"} => n <= MaxRetries /\ \A i \in 1 .. n : passes(answers[i])
      /\ place = "failed" /\ n <= MaxRetries => cancelled \/ ~passes(Last(answers))
=============================================================================
