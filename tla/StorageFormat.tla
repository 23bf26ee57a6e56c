--------------------------- MODULE StorageFormat ---------------------------
(***************************************************************************)
(* Which texts of a Confluence page survive its conversion to markdown     *)
(* (internal/sources/confluence/storage.go), and in which order.  A node   *)
(* has a name (of the element, or of the macro), a text and children; a    *)
(* link also has a label, the title or id of its target.  The markdown is  *)
(* the sequence of the texts, a link being the text of its sentinel.       *)
(***************************************************************************)
EXTENDS Naturals, Sequences, SequencesExt

CONSTANTS
  Pages,   \* pages to try: sequences of nodes
  NoLabel, \* label of what is not a link, and of a link to nothing known
  Blank    \* text of white space

VARIABLES page, markdown

storageVars == <<page, markdown>>

Init == page = <<>> /\ markdown = <<>>

Nothing == <<>>
DroppedMacros == {"macro:toc", "macro:attachments"}
Panels == {"macro:info", "macro:warning"}
UnknownMacros == {"macro:other"}

Named(nodes, names) == SelectSeq(nodes, LAMBDA n : n.name \in names)
Every(nodes, render(_)) == FoldLeft(LAMBDA all, n : all \o render(n), Nothing, nodes)

\* textOf: all texts inside, whatever they are in; labels are no texts.
RECURSIVE TextOf(_)
TextOf(n) == IF n.name = "text" THEN <<n.text>> ELSE Every(n.content, TextOf)
Texts(nodes) == Every(nodes, TextOf)
IsBlank(texts) == ToSet(texts) \subseteq {Blank}

\* The last body that is not blank replaces the label; without a target only a body is text.
LinkText(n) ==
  LET bodies == Named(n.content, {"ac:link-body"})
      body == IF bodies = Nothing THEN Nothing ELSE TextOf(Last(bodies))
  IN  IF ~IsBlank(body) THEN body ELSE IF n.label = NoLabel THEN Nothing ELSE <<n.label>>

\* Rows are children of the table, of tbody or of thead; cells give their plain text.
DirectRows(table) == Named(table.content, {"tr"})
Rows(table) ==
  Every(table.content, LAMBDA n : IF n.name \in {"tbody", "thead"} THEN Named(n.content, {"tr"})
                                  ELSE Named(<<n>>, {"tr"}))
Table(table) == Every(Rows(table), LAMBDA row : Texts(Named(row.content, {"td", "th"})))

RECURSIVE Render(_)
Render(n) ==
  LET children == Every(n.content, Render)
      rich == Named(n.content, {"ac:rich-text-body"})
      plain == Named(n.content, {"ac:plain-text-body"})
  IN
  CASE n.name = "text" -> <<n.text>>
    [] n.name = "p" -> IF IsBlank(TextOf(n)) THEN Nothing ELSE children
    [] n.name \in {"pre", "code"} -> TextOf(n)
    [] n.name = "table" -> Table(n)
    [] n.name = "ac:link" -> LinkText(n)
    [] n.name \in {"ac:image", "ac:parameter"} \cup DroppedMacros -> Nothing
    [] n.name = "macro:code" -> IF plain = Nothing THEN Nothing ELSE TextOf(Head(plain))
    [] n.name \in Panels -> IF rich = Nothing THEN Nothing ELSE Every(Head(rich).content, Render)
    [] n.name = "macro:jira" -> Texts(Named(n.content, {"ac:parameter"}))  \* its key
    [] n.name = "macro:expand" -> IF rich = Nothing THEN children ELSE Every(Head(rich).content, Render)
    [] n.name \in UnknownMacros ->
         IF rich # Nothing THEN Every(Head(rich).content, Render)
         ELSE IF plain # Nothing THEN TextOf(Head(plain)) ELSE TextOf(n)
    [] OTHER -> children  \* headings, lists and items, quotes, wrappers, what is unknown

StorageToMarkdown(nodes) ==
  /\ page = <<>>
  /\ page' = nodes /\ markdown' = Every(nodes, Render)

Next == \E nodes \in Pages : StorageToMarkdown(nodes)

Spec == Init /\ [][Next]_storageVars

---------------------------------------------------------------------------
\* The texts and the labels of links in a node, with the names of what they are in from the
\* outside, where "blank" is a paragraph without texts and "unused" a link that has a body.
RECURSIVE Seen(_, _)
Seen(n, path) ==
  LET name == IF n.name = "p" /\ IsBlank(TextOf(n)) THEN "blank" ELSE n.name
      use == IF Named(n.content, {"ac:link-body"}) = Nothing THEN "label" ELSE "unused"
      inside == Every(n.content, LAMBDA c : Seen(c, Append(path, name)))
  IN
  CASE n.name = "text" -> <<[text |-> n.text, path |-> path]>>
    [] n.name = "ac:link" /\ n.label # NoLabel -> <<[text |-> n.label, path |-> Append(path, use)]>> \o inside
    [] OTHER -> inside

Plain == {"h1", "p", "ul", "ol", "li", "blockquote", "div", "a", "strong", "other", "label",
          "ac:rich-text-body"}
TableParts == {"table", "tbody", "thead", "tr"}
In(path, i, names) == i \in DOMAIN path /\ path[i] \in names
Shows(path, i) ==
  \/ In(path, i, Plain)
  \/ In(path, i, Panels \cup UnknownMacros \cup {"macro:expand"}) /\ In(path, i + 1, {"ac:rich-text-body"})
  \/ In(path, i, {"ac:link"}) /\ In(path, i + 1, {"ac:link-body"})
  \/ In(path, i, {"macro:code"}) /\ In(path, i + 1, {"ac:plain-text-body"})
  \/ /\ "label" \notin ToSet(path)
     /\ \/ In(path, i, {"ac:plain-text-body"}) /\ In(path, i - 1, {"macro:code"})
        \/ In(path, i, {"ac:link-body"}) /\ In(path, i - 1, {"ac:link"})
IsCell(path, i) ==
  /\ In(path, i, {"td", "th"}) /\ In(path, i - 1, {"tr"})
  /\ \/ In(path, i - 2, {"table"})
     \/ In(path, i - 2, {"tbody", "thead"}) /\ In(path, i - 3, {"table"})

\* Sure to be shown, by the path alone: inside a cell every text, elsewhere what each node
\* above it shows.
Kept(path) ==
  \/ \A i \in DOMAIN path : Shows(path, i)
  \/ /\ {"label", "unused"} \cap ToSet(path) = {}
     /\ \E i \in DOMAIN path :
          IsCell(path, i) /\ \A j \in 1 .. i - 1 : Shows(path, j) \/ In(path, j, TableParts)

\* The markdown has nothing but texts and labels of the page, none twice or out of order,
\* and none is missing that text, lists, quotes, tables, links and the bodies of macros
\* show.  Whether it has any other is left open: the code drops the label of a link without
\* a body in a table and in a paragraph that has nothing else, and what is outside the body
\* of a macro, while unknown macros "recurse their inner text content" so that "nothing is
\* silently dropped" (storage.go:13-14).
TextSurvives ==
  LET seen == Every(page, LAMBDA n : Seen(n, Nothing))
      position(t) == SelectInSeq(seen, LAMBDA l : l.text = t)
  IN  /\ \A i \in DOMAIN markdown : position(markdown[i]) # 0
      /\ \A i, j \in DOMAIN markdown : i < j =>
           \/ position(markdown[i]) < position(markdown[j])
           \/ markdown[i] = Blank \/ markdown[j] = Blank
      /\ \A l \in ToSet(seen) : Kept(l.path) /\ l.text # Blank => l.text \in ToSet(markdown)
=============================================================================
