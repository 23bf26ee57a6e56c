------------------------------ MODULE Chunking ------------------------------
(***************************************************************************)
(* How a text becomes chunks (internal/chunk): Jira issues as a sequence   *)
(* of segments, the body and each comment (chunk.go); sections of pages    *)
(* and documents as paragraphs and their sentences (confluence.go,         *)
(* document.go).  The tokens of a text are numbered through; its segments, *)
(* sections, paragraphs and sentences are given by their ends.  Encoding a *)
(* piece of a text gives its tokens back, which the tokenizer does but for *)
(* what it merges where pieces meet.  A loop's turn is a step.             *)
(***************************************************************************)
EXTENDS Integers, Sequences, FiniteSets

CONSTANTS
  MaxTokens, OverlapTokens,
  IssueTexts,   \* texts of issues to try: [size, parts], the parts being segments
  PageTexts     \* texts of pages and documents: [size, parts, paragraphs, sentences, huge]

\* With an overlap of the size of a chunk the loops would make no progress.  `huge` are the
\* sentences that are longer than the scanner's buffer, 1 MiB: that is many chunks, and never
\* in the first paragraph, which is the title.
ChunkingAssumption ==
  /\ {MaxTokens, OverlapTokens} \subseteq Nat \ {0} /\ OverlapTokens < MaxTokens
  /\ \A t \in IssueTexts \cup PageTexts : t.size \in Nat \ {0} /\ t.size \in t.parts
  /\ \A t \in IssueTexts : t.parts \subseteq 1 .. t.size
  /\ \A t \in PageTexts :
       /\ t.parts \subseteq t.paragraphs /\ t.paragraphs \subseteq t.sentences /\ t.sentences \subseteq 1 .. t.size
       /\ t.huge \subseteq t.sentences
       /\ \A e \in t.huge : /\ \A s \in t.sentences \cup {0} : s < e => s + MaxTokens < e
                            /\ \E p \in t.paragraphs : p < e

VARIABLES
  strategy,       \* "jira" or "section"
  text,
  read,           \* tokens that are in the chunks or in the buffer, or have been given up
  partEnd,        \* of the segment, or section, that is being split; read if there is none
  paragraphEnd,   \* of the paragraph that is split into sentences
  buffer,         \* its text, its token count and the length of its overlap
  curKind,
  first,          \* chunks when the section began: an overlap goes no further back
  chunks          \* text, length of the overlap, kind

chunkingVars == <<strategy, text, read, partEnd, paragraphEnd, buffer, curKind, first, chunks>>

Separator == 0  \* the empty line between paragraphs
Empty == [text |-> <<>>, count |-> 0, over |-> 0]
NoText == [size |-> 0]

ChunkingInit ==
  /\ strategy = "none" /\ text = NoText /\ read = 0 /\ partEnd = 0 /\ paragraphEnd = 0
  /\ buffer = Empty /\ curKind = "body" /\ first = 0 /\ chunks = <<>>

\* The segments of an issue: its head with the description, then its comments.
ChunkIssue ==
  /\ strategy = "none"
  /\ strategy' = "jira" /\ text' \in IssueTexts
  /\ UNCHANGED <<read, partEnd, paragraphEnd, buffer, curKind, first, chunks>>

\* The sections of a page; a document is a single one.
ChunkBody ==
  /\ strategy = "none"
  /\ strategy' = "section" /\ text' \in PageTexts /\ curKind' = "section"
  /\ UNCHANGED <<read, partEnd, paragraphEnd, buffer, first, chunks>>

\* The first of the ends that is still to come.
NextEnd(ends) == CHOOSE e \in ends : e > read /\ \A f \in ends : f > read => e <= f
Span(from, to) == [i \in 1 .. to - from |-> from + i]
Plus(b, from, to) == [b EXCEPT !.text = @ \o Span(from, to), !.count = @ + (to - from)]

\* flush, and the overlap of addOverlap: the tail of the chunk before.
FlushedIfLonger ==
  IF Len(buffer.text) <= OverlapTokens THEN chunks
  ELSE Append(chunks, [text |-> buffer.text, over |-> buffer.over, kind |-> curKind])
Flushed ==
  IF buffer.text = <<>> THEN chunks
  ELSE Append(chunks, [text |-> buffer.text, over |-> buffer.over, kind |-> curKind])
LastTokens(t) == IF Len(t) <= OverlapTokens THEN t ELSE SubSeq(t, Len(t) - OverlapTokens + 1, Len(t))
Overlap(done) ==
  LET tail == IF Len(done) <= first THEN <<>> ELSE LastTokens(done[Len(done)].text)
  IN  [text |-> tail, count |-> Len(tail), over |-> Len(tail)]

---------------------------------------------------------------------------
\* Jira

FitsSegment(end) == buffer.count + (end - read) <= MaxTokens

AddSegment ==
  /\ strategy = "jira" /\ read = partEnd /\ read < text.size
  /\ FitsSegment(NextEnd(text.parts))
  /\ read' = NextEnd(text.parts) /\ partEnd' = read'
  /\ buffer' = Plus(buffer, read, read')
  /\ UNCHANGED <<strategy, text, paragraphEnd, curKind, first, chunks>>

\* The head is the first segment of all; the comments follow it.
CloseForSegment ==
  /\ strategy = "jira" /\ read = partEnd /\ read < text.size
  /\ ~FitsSegment(NextEnd(text.parts))
  /\ partEnd' = NextEnd(text.parts)
  /\ chunks' = Flushed /\ buffer' = Overlap(Flushed)
  /\ curKind' = IF read = 0 THEN "body" ELSE "comment"
  /\ UNCHANGED <<strategy, text, read, paragraphEnd, first>>

BudgetOfChunk(b) == MaxTokens
BudgetOf(b) == MaxTokens - b.count

\* One turn of the loop that drains a segment.
DrainSegment ==
  LET full == BudgetOf(buffer) <= 0
      b == IF full THEN Overlap(Flushed) ELSE buffer
      take == IF BudgetOf(b) < partEnd - read THEN BudgetOf(b) ELSE partEnd - read
  IN
  /\ strategy = "jira" /\ read < partEnd
  /\ chunks' = IF full THEN Flushed ELSE chunks
  /\ read' = read + take
  /\ buffer' = Plus(b, read, read')
  /\ UNCHANGED <<strategy, text, partEnd, paragraphEnd, curKind, first>>

---------------------------------------------------------------------------
\* Sections of pages and documents

\* The empty lines within a section that fits are counted, and left out of its chunk's
\* text: no overlap is taken from it.
TakeSection ==
  LET end == NextEnd(text.parts)
      size == (end - read) + Cardinality({p \in text.paragraphs : read < p /\ p < end})
  IN
  /\ strategy = "section" /\ read = partEnd /\ buffer = Empty /\ read < text.size
  /\ \/ /\ size <= MaxTokens
        /\ chunks' = Append(chunks, [text |-> Span(read, end), over |-> 0, kind |-> curKind])
        /\ read' = end
        /\ UNCHANGED first
     \/ /\ size > MaxTokens
        /\ first' = Len(chunks)
        /\ UNCHANGED <<chunks, read>>
  /\ partEnd' = end
  /\ UNCHANGED <<strategy, text, paragraphEnd, buffer, curKind>>

\* A paragraph that is too long is split into sentences; no overlap is added for that.
SplitBySentences ==
  /\ strategy = "section" /\ read < partEnd /\ paragraphEnd <= read
  /\ NextEnd(text.paragraphs) - read > MaxTokens
  /\ paragraphEnd' = NextEnd(text.paragraphs)
  /\ chunks' = Flushed /\ buffer' = Empty
  /\ UNCHANGED <<strategy, text, read, partEnd, curKind, first>>

\* A sentence that is too long is split at MaxTokens.
HardSplit(end) == IF end - read <= MaxTokens THEN end ELSE read + MaxTokens
PieceEnd == IF read < paragraphEnd THEN HardSplit(NextEnd(text.sentences)) ELSE NextEnd(text.paragraphs)

\* The scan ends at a sentence that its buffer does not hold, and nobody asks it for its error.
IsTooLong == read < paragraphEnd /\ NextEnd(text.sentences) \in text.huge

StopScan ==
  /\ strategy = "section" /\ IsTooLong
  /\ read' = paragraphEnd
  /\ UNCHANGED <<strategy, text, partEnd, paragraphEnd, buffer, curKind, first, chunks>>

\* addOverlap here writes an empty line after the tail, and appendText one before the text
\* unless the buffer is empty.
WithGap(b) == IF b.text = <<>> THEN b ELSE [b EXCEPT !.text = Append(@, Separator)]

PackPiece ==
  LET closes == buffer.count + (PieceEnd - read) + 2 > MaxTokens IN
  /\ strategy = "section" /\ read < partEnd /\ ~IsTooLong /\ PieceEnd - read <= MaxTokens
  /\ read' = PieceEnd
  /\ chunks' = IF closes THEN Flushed ELSE chunks
  /\ buffer' = Plus(WithGap(IF closes THEN WithGap(Overlap(Flushed)) ELSE buffer), read, read')
  /\ UNCHANGED <<strategy, text, partEnd, paragraphEnd, curKind, first>>

\* The flush at the end of an issue or of a section.
FlushLast ==
  /\ read = partEnd /\ buffer # Empty
  /\ strategy = "jira" => read = text.size
  /\ chunks' = Flushed /\ buffer' = Empty
  /\ UNCHANGED <<strategy, text, read, partEnd, paragraphEnd, curKind, first>>

ChunkingNext ==
  \/ ChunkIssue \/ ChunkBody
  \/ AddSegment \/ CloseForSegment \/ DrainSegment
  \/ TakeSection \/ SplitBySentences \/ StopScan \/ PackPiece
  \/ FlushLast

ChunkingSpec == ChunkingInit /\ [][ChunkingNext]_chunkingVars

---------------------------------------------------------------------------
\* The places of a chunk's words, and of those that are not of its overlap.
Words(t) == {k \in DOMAIN t : t[k] # Separator}
Fresh(c) == {k \in Words(c.text) : k > c.over}
IsDone == strategy # "none" /\ read = text.size /\ buffer = Empty

\* What may be given up of a section: a sentence over the scanner's limit, and what follows it
\* in its paragraph.
Unscanned ==
  {n \in 1 .. text.size : strategy = "section" /\ \E e \in text.huge :
     /\ \A s \in text.sentences : s < e => s < n
     /\ \A q \in text.paragraphs : e <= q => n <= q}

\* Every token of a text is in one chunk, but for the overlaps, and nothing else is; from
\* one chunk to the next and in each of them the tokens are in their order.  An overlap is
\* the end of the chunk before, and no chunk is only that.  A chunk of an issue is of the
\* kind of the segment that begins it.  It is left open what becomes of Unscanned: the code
\* drops it, without an error (confluence.go:206-211); its comment says that a sentence of
\* any length is split (confluence.go:203).
ChunksCoverText ==
  /\ IsDone => \A n \in (1 .. text.size) \ Unscanned :
       \E i \in DOMAIN chunks : \E k \in Fresh(chunks[i]) : chunks[i].text[k] = n
  /\ \A i, j \in DOMAIN chunks : \A k \in Fresh(chunks[i]), l \in Fresh(chunks[j]) :
       i < j \/ (i = j /\ k < l) => chunks[i].text[k] < chunks[j].text[l]
  /\ \A i \in DOMAIN chunks :
       LET c == chunks[i] IN
       /\ Fresh(c) # {} /\ \A k \in Fresh(c) : c.text[k] <= text.size
       /\ c.over > 0 => i > 1
       /\ \A k \in 1 .. c.over : c.text[k] = chunks[i - 1].text[Len(chunks[i - 1].text) - c.over + k]
       /\ strategy = "jira" =>
            (c.kind = "body" <=> \E k \in Fresh(c) : \A e \in text.parts : c.text[k] <= e)

\* No chunk of an issue has more than MaxTokens.  One of a section can: the overlap is
\* not counted against what follows it.  It is longer by no more than the overlap, the
\* empty lines apart.
ChunksAreBounded ==
  \A i \in DOMAIN chunks :
    Cardinality(Words(chunks[i].text)) <= MaxTokens + IF strategy = "jira" THEN 0 ELSE OverlapTokens
=============================================================================
