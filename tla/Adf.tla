-------------------------------- MODULE Adf --------------------------------
(***************************************************************************)
(* Which texts of a Jira document survive its conversion to markdown       *)
(* (internal/sources/jira/adf.go), and in which order.  A node has a type, *)
(* a text and children; the markdown is the sequence of the texts, without *)
(* marks, markers, prefixes and empty lines.  Only nodes of type "text"    *)
(* have a text here; mentions, emoji and cards are texts of their own.     *)
(***************************************************************************)
EXTENDS Naturals, Sequences, SequencesExt

CONSTANT Documents  \* contents of documents to try: sequences of nodes

VARIABLES document, markdown

adfVars == <<document, markdown>>

Init == document = <<>> /\ markdown = <<>>

Carriers == {"paragraph", "heading"}
Lists == {"bulletList", "orderedList"}
Cells == {"tableCell", "tableHeader"}
Media == {"mediaSingle", "mediaGroup", "media"}

Having(nodes, types) == SelectSeq(nodes, LAMBDA n : n.type \in types)
Every(nodes, render(_)) == FoldLeft(LAMBDA all, n : all \o render(n), <<>>, nodes)

RECURSIVE Inline(_)
Inline(nodes) == Every(nodes, LAMBDA n : IF n.type = "text" THEN <<n.text>> ELSE Inline(n.content))

\* Of a cell, the contents of its paragraphs at any depth.
RECURSIVE FlattenCell(_)
FlattenCell(nodes) ==
  Every(nodes, LAMBDA n : IF n.type = "paragraph" THEN n.content ELSE FlattenCell(n.content))

\* The first row with a header cell comes first; its place among the children is taken for
\* its place among the rows, which it is, as a table has nothing but rows.
Row(row) == Every(Having(row.content, Cells), LAMBDA cell : Inline(FlattenCell(cell.content)))
HasHeader(row) == row.type = "tableRow" /\ Having(row.content, {"tableHeader"}) # <<>>
TableTwiceHeaded(children) ==
  LET rows == Having(children, {"tableRow"})
      header == SelectInSeq(children, HasHeader)
  IN  (IF header = 0 THEN <<>> ELSE Row(rows[header])) \o Every(rows, Row)
Table(children) ==
  LET rows == Having(children, {"tableRow"})
      header == SelectInSeq(children, HasHeader)
  IN  IF header = 0 THEN Every(rows, Row)
      ELSE Row(rows[header]) \o Every(RemoveAt(rows, header), Row)

\* The first paragraph of a panel or item goes on the line of its label or marker.
RECURSIVE Block(_)
Block(n) ==
  CASE n.type \in Carriers -> Inline(n.content)
    [] n.type = "codeBlock" -> Inline(Having(n.content, {"text"}))
    [] n.type \in Lists -> Every(Having(n.content, {"listItem"}), LAMBDA item : Every(item.content, Block))
    [] n.type = "table" -> Table(n.content)
    [] n.type \in Media -> <<>>
    [] OTHER -> Every(n.content, Block)

ADFToMarkdown(nodes) ==
  /\ document = <<>>
  /\ document' = nodes /\ markdown' = Every(nodes, Block)

Next == \E nodes \in Documents : ADFToMarkdown(nodes)

Spec == Init /\ [][Next]_adfVars

---------------------------------------------------------------------------
\* The texts of a node with the types of their ancestors, from the outside.
RECURSIVE Leaves(_, _)
Leaves(n, path) ==
  IF n.type = "text" THEN <<[text |-> n.text, path |-> path]>>
  ELSE Every(n.content, LAMBDA c : Leaves(c, Append(path, n.type)))

\* A text that is sure to be kept: inside a paragraph or heading, or directly in a code
\* block, with the items, rows and cells that lists and tables consist of above it, and
\* inside a cell within a paragraph.  Nodes of unknown types may be above any of them.
Kept(path) ==
  LET before(i) == \A j \in 1 .. i - 1 :
        /\ path[j] \notin Media \cup Carriers \cup {"codeBlock", "table"}
        /\ path[j] \in Lists => path[j + 1] = "listItem"
  IN  \E i \in DOMAIN path :
        /\ before(i)
        /\ \/ path[i] \in Carriers
           \/ path[i] = "codeBlock" /\ i = Len(path)
           \/ /\ path[i] = "table" /\ Len(path) > i + 2
              /\ path[i + 1] = "tableRow" /\ path[i + 2] \in Cells
              /\ \E j \in i + 3 .. Len(path) : path[j] = "paragraph"

\* The markdown has every text that is sure to be kept, has nothing but texts of the
\* document and none of them twice, and has them in its order but for the header row of a
\* table.  Whether it has any other text is left open: the code drops what an unknown node
\* holds itself, outside a paragraph, and the headings and code blocks of cells, while
\* "unknown nodes recurse their children and emit any text content so no data is silently
\* dropped" (adf.go:6-8).
TextSurvives ==
  LET leaves == Every(document, LAMBDA n : Leaves(n, <<>>))
      position(t) == SelectInSeq(leaves, LAMBDA l : l.text = t)
      inTable(t) == "table" \in ToSet(leaves[position(t)].path)
  IN  /\ \A l \in ToSet(leaves) : Kept(l.path) => l.text \in ToSet(markdown)
      /\ \A i \in DOMAIN markdown : position(markdown[i]) # 0
      /\ \A i, j \in DOMAIN markdown : i < j =>
           \/ position(markdown[i]) < position(markdown[j])
           \/ markdown[i] # markdown[j] /\ inTable(markdown[i]) /\ inTable(markdown[j])
=============================================================================
