-------------------------------- MODULE Mcp --------------------------------
(***************************************************************************)
(* The MCP endpoint (internal/mcp/mcp.go, tools.go): a POST carries one    *)
(* JSON-RPC request or a batch, whose members run one after the other.     *)
(* Members with an id are answered in their order; of the others the tools *)
(* run and the answers are dropped.  Any tool can fail.                    *)
(***************************************************************************)
EXTENDS Naturals, Sequences, FiniteSets

CONSTANTS
  Strings,            \* what ids, methods, tools and arguments can be
  Posts,              \* bodies to try: [form, requests]
  Tools,              \* registered tools
  ListTools,          \* those that look at no argument
  AnswererConfigured

Request == [id : Strings, method : Strings, tool : Strings, args : Strings, version2 : BOOLEAN]
McpAssumption ==
  /\ {"absent", "null"} \subseteq Strings
  /\ Posts \subseteq [form : {"empty", "garbled", "single", "batch"}, requests : Seq(Request)]

VARIABLES
  post, todo,         \* the body and its requests not yet dispatched
  responses,          \* [id, kind]
  executed,           \* tools run, in order
  status              \* 0 until the answer is written

mcpVars == <<post, todo, responses, executed, status>>

NoPost == [form |-> "none", requests |-> <<>>]
McpInit ==
  /\ post = NoPost /\ todo = <<>>
  /\ responses = <<>> /\ executed = <<>> /\ status = 0

\* writeParseError answers with the id null.
ServeHTTP(p) ==
  /\ post = NoPost /\ post' = p
  /\ \/ /\ p.form \in {"empty", "garbled"}
        /\ status' = 400 /\ responses' = <<[id |-> "null", kind |-> "error"]>>
        /\ UNCHANGED todo
     \/ /\ p.form \in {"single", "batch"}
        /\ todo' = p.requests
        /\ UNCHANGED <<status, responses>>
  /\ UNCHANGED executed

\* A request whose id is null is a notification like one without.
IsNotificationIfAbsent(req) == req.id = "absent"
IsNotification(req) == req.id \in {"absent", "null"}
NullIfAbsent(id) == IF id = "absent" THEN "null" ELSE id

\* Handlers: bad arguments, no such source, no answer model or a failure behind are a
\* result with isError, so that the language model sees it.
CanSucceed(req) ==
  /\ req.args = "good" \/ req.tool \in ListTools
  /\ req.tool = "ask" => AnswererConfigured
ToolOutcomes(req) == {"isError"} \cup (IF CanSucceed(req) THEN {"result"} ELSE {})

RunToolCall(req, kind) ==
  \/ /\ req.tool \in Tools
     /\ kind \in ToolOutcomes(req)
     /\ executed' = Append(executed, req.tool)
  \/ /\ req.tool \notin Tools  \* params garbled, no name, or an unknown one
     /\ kind = "error"
     /\ UNCHANGED executed

Respond(req, kind) == responses' = Append(responses, [id |-> NullIfAbsent(req.id), kind |-> kind])

UnlessNotification(req, kind) ==
  IF IsNotification(req) THEN UNCHANGED responses ELSE Respond(req, kind)

Dispatch ==
  LET req == Head(todo) IN
  /\ todo # <<>> /\ todo' = Tail(todo)
  /\ \/ /\ ~req.version2
        /\ UnlessNotification(req, "error") /\ UNCHANGED executed
     \/ /\ req.version2 /\ req.method \in {"initialize", "ping", "tools/list"}
        /\ Respond(req, "result") /\ UNCHANGED executed
     \/ /\ req.version2 /\ req.method = "tools/call"
        /\ \E kind \in {"result", "isError", "error"} :
             RunToolCall(req, kind) /\ UnlessNotification(req, kind)
     \/ /\ req.version2 /\ req.method = "notifications/initialized"
        /\ UNCHANGED <<responses, executed>>
     \/ /\ req.version2 /\ req.method = "other"
        /\ UnlessNotification(req, "error") /\ UNCHANGED executed
  /\ UNCHANGED <<post, status>>

WriteReply ==
  /\ post # NoPost /\ todo = <<>> /\ status = 0
  /\ status' = IF responses = <<>> THEN 204 ELSE 200
  /\ UNCHANGED <<post, todo, responses, executed>>

McpNext == (\E p \in Posts : ServeHTTP(p)) \/ Dispatch \/ WriteReply

McpSpec == McpInit /\ [][McpNext]_mcpVars

\* Who is owed an answer: whoever has an id, but for the acknowledgement of initialize.
HasId(req) == req.id \notin {"absent", "null"}
IsOwed(req) == HasId(req) /\ (req.version2 => req.method # "notifications/initialized")

\* Who has no id, and is answered all the same.
IsOpen(req) == ~HasId(req) /\ req.version2 /\ req.method \in {"initialize", "ping", "tools/list"}

\* Places in the body; the rank of one among those of S.
Owed == {i \in DOMAIN post.requests : IsOwed(post.requests[i])}
Open == {i \in DOMAIN post.requests : IsOpen(post.requests[i])}
ToolCalls ==
  {i \in DOMAIN post.requests :
     LET req == post.requests[i] IN req.version2 /\ req.method = "tools/call" /\ req.tool \in Tools}
Rank(i, S) == Cardinality({j \in S : j <= i})

\* Every request that has an id is answered once, under its id and in the order of the
\* batch, whatever fails before it, except the acknowledgement of initialize, which is
\* never answered.  Without an id, null counting as none, nothing is answered; it is left
\* open, for each of them, whether initialize, ping and tools/list are, which the code
\* answers under null and "a notification (missing id) never produces a reply"
\* (mcp.go:168-169) denies.  A tool runs for every call of it, answered or not, even if an
\* earlier one failed.
EachRequestHasItsAnswer ==
  status \in {200, 204} =>
    /\ \E others \in SUBSET Open :
         LET answered == Owed \cup others IN
         /\ Len(responses) = Cardinality(answered)
         /\ \A i \in answered :
              LET req == post.requests[i]
              IN  responses[Rank(i, answered)].id = IF HasId(req) THEN req.id ELSE "null"
         /\ (status = 204 <=> answered = {})
    /\ Len(executed) = Cardinality(ToolCalls)
    /\ \A i \in ToolCalls : executed[Rank(i, ToolCalls)] = post.requests[i].tool
=============================================================================
