---------------------------- MODULE MCDocuments ----------------------------
EXTENDS Documents
CONSTANTS u1, u2, p, file, guide, text, nothing, guide1, guide2

\* u1 and u2 upload the same bytes as text and as HTML, of which nothing remains (all
\* of it was a script); p pushes two versions of a guide in one batch.
MCDocs == [c \in {u1, u2, p} |->
  CASE c = u1 -> <<[key |-> file, copy |-> text, ext |-> ".txt"]>>
    [] c = u2 -> <<[key |-> file, copy |-> nothing, ext |-> ".html"]>>
    [] c = p  -> <<[key |-> guide, copy |-> guide1, ext |-> ""],
                   [key |-> guide, copy |-> guide2, ext |-> ""]>>]
MCChunkCount == [t \in {text, guide1, guide2, nothing} |-> IF t = nothing THEN 0 ELSE 1]
=============================================================================
