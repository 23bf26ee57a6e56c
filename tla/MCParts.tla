------------------------------ MODULE MCParts ------------------------------
(***************************************************************************)
(* The parts of the service that share no state, for TLC: a behaviour is   *)
(* one of a single part, chosen at the start, while the others stand still.*)
(***************************************************************************)
EXTENDS Integers, Sequences, RateLimiter, Tokens, Login, Overlay, Caches, Outbound,
        Mcp, Retrieval, Chunking, IngestReports

VARIABLES
  document, adfMarkdown,
  page, pageMarkdown,
  part

adfVars == <<document, adfMarkdown>>
storageVars == <<page, pageMarkdown>>
vars == <<loginVars, limiterVars, tokenVars, overlayVars, retrievalVars, chunkingVars, mcpVars,
          outboundVars, cacheVars, adfVars, storageVars,
          rebuildVars, pushVars, part>>

---------------------------------------------------------------------------
Source(type, key, project, age) == [type |-> type, key |-> key, project |-> project, age |-> age]
A == Source("jira", "A-1", "A", 2)
B == Source("jira", "B-1", "B", 0)
P == Source("confluence", "p", "P", 1)

MCSources == {A, B, P}
MCSourceOf == <<A, A, B, P>>
Scores == {[v |-> 1, f |-> 0], [v |-> 2, f |-> 1], [v |-> 3, f |-> 0]}
MCIndexes == [1 .. 4 -> Scores]
Filter(types, projects, within) == [types |-> types, projects |-> projects, within |-> within]
Filters ==
  {Filter({}, {}, 3), Filter({"jira"}, {}, 3), Filter({}, {"A", "P"}, 3), Filter({}, {}, 2),
   Filter({"jira"}, {"A", "P"}, 2)}
MCQueries ==
  {f @@ [keys |-> named, limit |-> n] :
     f \in Filters, named \in {<<>>, <<"B-1", "B-1", "A-1", "X-1">>, <<"X-1", "B-1", "A-1">>}, n \in 1 .. 3}
MCBoost(age) == 105 - age

\* Texts by the places where their parts end: the last of them at n, and k others at most.
Ends(n, k) == {{n} \cup S : S \in {S \in SUBSET (1 .. n - 1) : Cardinality(S) <= k}}
MCIssueTexts == UNION {{[size |-> n, parts |-> E] : E \in Ends(n, 2)} : n \in 1 .. 14}
\* The sentences that can be over the scanner's limit.
Long(paragraphs, sentences) ==
  {e \in sentences : /\ \A s \in sentences \cup {0} : s < e => s + MaxTokens < e
                     /\ \E p \in paragraphs : p < e}
MCPageTexts ==
  UNION {UNION {{[size |-> n, parts |-> S, paragraphs |-> S \cup T, sentences |-> S \cup T \cup U, huge |-> H] :
                   H \in SUBSET Long(S \cup T, S \cup T \cup U)} :
                  S \in Ends(n, 1), T \in Ends(n, IF n = 12 THEN 1 ELSE 2), U \in Ends(n, 1)} : n \in {3, 7, 12}}

---------------------------------------------------------------------------
Call(id, method, tool, args, version2) ==
  [id |-> id, method |-> method, tool |-> tool, args |-> args, version2 |-> version2]
Calls ==
  {Call("absent", "tools/call", "search", "good", TRUE), Call("null", "tools/call", "ask", "bad", TRUE),
   Call("1", "tools/call", "list_projects", "bad", TRUE), Call("1", "tools/call", "none", "good", TRUE),
   Call("2", "ping", "", "", TRUE), Call("absent", "initialize", "", "", TRUE),
   Call("2", "notifications/initialized", "", "", TRUE), Call("2", "tools/list", "", "", FALSE),
   Call("null", "other", "", "", TRUE), Call("1", "other", "", "", TRUE),
   Call("absent", "ping", "", "", FALSE), Call("3", "tools/call", "ask", "good", TRUE)}

MCStrings == STRING
MCPosts ==
  {[form |-> f, requests |-> <<>>] : f \in {"empty", "garbled", "batch"}}
    \cup {[form |-> "single", requests |-> <<c>>] : c \in Calls}
    \cup {[form |-> "batch", requests |-> <<c, d, e>>] : c, d, e \in Calls}

\* Two processes of one embedding model and one of another.
MCDimOf == <<3, 4, 3>>

---------------------------------------------------------------------------
RECURSIVE AdfChain(_, _)
AdfText(t) == [type |-> "text", text |-> t, content |-> <<>>]
AdfNode(type, content) == [type |-> type, text |-> 0, content |-> content]
AdfChain(types, t) ==
  IF types = <<>> THEN AdfText(t) ELSE AdfNode(Head(types), <<AdfChain(Tail(types), t)>>)
UpTo(n, S) == UNION {[1 .. k -> S] : k \in 0 .. n}

AdfTypes == {"paragraph", "heading", "bulletList", "listItem", "codeBlock", "panel", "table",
             "tableRow", "tableCell", "tableHeader", "mediaSingle", "taskItem"}
InCells == {<<"table", "tableRow", "tableCell">> \o q :
              q \in UpTo(2, {"paragraph", "heading", "codeBlock", "bulletList"})}
HeaderBelow == AdfNode("table",
  <<AdfNode("tableRow", <<AdfChain(<<"tableCell", "paragraph">>, 1), AdfChain(<<"tableCell", "paragraph">>, 2)>>),
    AdfNode("tableRow", <<AdfChain(<<"tableHeader", "paragraph">>, 3)>>)>>)

Documents ==
  {<<AdfChain(q, 1), AdfChain(<<"paragraph">>, 2)>> : q \in UpTo(3, AdfTypes) \cup InCells}
    \cup {<<HeaderBelow, AdfChain(<<"heading">>, 4)>>}
    \cup {<<AdfNode(x, <<AdfChain(<<y, "paragraph">>, 1),
                         AdfNode(z, <<AdfChain(<<"paragraph">>, 2), AdfChain(<<"paragraph">>, 3)>>)>>)>> :
            x, y, z \in AdfTypes}

Jira == INSTANCE Adf WITH markdown <- adfMarkdown

TextNode(t) == [name |-> "text", text |-> t, label |-> 0, content |-> <<>>]
Link(t) == [name |-> "ac:link", text |-> 0, label |-> t, content |-> <<>>]
Element(name, content) == [name |-> name, text |-> 0, label |-> 0, content |-> content]
RECURSIVE Chain(_, _)
Chain(names, n) == IF names = <<>> THEN n ELSE Element(Head(names), <<Chain(Tail(names), n)>>)

Inner == {"p", "li", "code", "table", "tbody", "tr", "td", "ac:image", "ac:parameter", "macro:toc",
          "macro:info", "macro:code", "macro:expand", "macro:other", "ac:rich-text-body",
          "ac:plain-text-body", "ac:link-body"}
Names == Inner \cup {"ac:link"}
Space == 99

Pages ==
  {<<Chain(q, TextNode(1)), Chain(<<"p">>, TextNode(2))>> :
     q \in UpTo(3, Names) \cup {<<"table", "tbody", "tr", "td">> \o q : q \in UpTo(2, Names)}}
    \cup {<<Chain(q, Link(1)), Chain(<<"p">>, TextNode(Space))>> :
            q \in UpTo(2, Names) \cup {<<"table", "tr", "td">>}}
    \cup {<<Element(x, <<Link(1), TextNode(2), Element(y, <<TextNode(3), Link(4)>>)>>)>> : x, y \in Inner}
    \cup {<<Element(x, <<Element("ac:parameter", <<TextNode(1)>>),
                         Element(y, <<TextNode(2), Element("p", <<Link(3), TextNode(Space)>>)>>), TextNode(4)>>)>> :
            x, y \in Inner}

Wiki == INSTANCE StorageFormat WITH markdown <- pageMarkdown, NoLabel <- 0, Blank <- Space

---------------------------------------------------------------------------
Feed(key, valid) == [key |-> key, valid |-> valid]
MCBatches ==
  [r1 |-> <<Feed("A", TRUE), Feed("B", FALSE), Feed("A", TRUE)>>,
   r2 |-> <<Feed("A", TRUE), Feed("B", TRUE)>>,
   r3 |-> <<>>]

---------------------------------------------------------------------------
ASSUME
  /\ LoginAssumption /\ RateLimiterAssumption /\ TokensAssumption
  /\ OverlayAssumption /\ RetrievalAssumption /\ ChunkingAssumption
  /\ CachesAssumption /\ OutboundAssumption /\ McpAssumption
  /\ LinkRebuildAssumption /\ JiraPushAssumption

PartsInit ==
  /\ part \in {"login", "limiter", "tokens", "overlay", "retrieval", "chunking", "mcp",
               "outbound", "caches", "adf", "storage", "rebuild", "push"}
  /\ LoginInit /\ Init /\ TokensInit /\ OverlayInit /\ RetrievalInit /\ ChunkingInit
  /\ McpInit /\ OutboundInit /\ CachesInit /\ Jira!Init /\ Wiki!Init
  /\ RebuildInit /\ PushInit

PartsNext ==
  /\ IF part = "login" THEN LoginNext ELSE UNCHANGED loginVars
  /\ IF part = "limiter" THEN Next ELSE UNCHANGED limiterVars
  /\ IF part = "tokens" THEN TokensNext ELSE UNCHANGED tokenVars
  /\ IF part = "overlay" THEN OverlayNext ELSE UNCHANGED overlayVars
  /\ IF part = "retrieval" THEN RetrievalNext ELSE UNCHANGED retrievalVars
  /\ IF part = "chunking" THEN ChunkingNext ELSE UNCHANGED chunkingVars
  /\ IF part = "mcp" THEN McpNext ELSE UNCHANGED mcpVars
  /\ IF part = "outbound" THEN OutboundNext ELSE UNCHANGED outboundVars
  /\ IF part = "caches" THEN CachesNext ELSE UNCHANGED cacheVars
  /\ IF part = "adf" THEN Jira!Next ELSE UNCHANGED adfVars
  /\ IF part = "storage" THEN Wiki!Next ELSE UNCHANGED storageVars
  /\ IF part = "rebuild" THEN RebuildNext ELSE UNCHANGED rebuildVars
  /\ IF part = "push" THEN PushNext ELSE UNCHANGED pushVars
  /\ UNCHANGED part

PartsSpec == PartsInit /\ [][PartsNext]_vars

---------------------------------------------------------------------------
\* Each is stated in full, with the code it is about, in the part's own module; those of the modules
\* that are extended are checked from there.

\* adf.go, storage.go: which texts of issues and of pages reach the index.
TextSurvives == Jira!TextSurvives /\ Wiki!TextSurvives
=============================================================================
