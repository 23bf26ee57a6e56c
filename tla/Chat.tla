-------------------------------- MODULE Chat --------------------------------
(***************************************************************************)
(* The chat of the web UI: the browser's page (templates/chat.html, the    *)
(* fragment that handleChatMessage returns and static/htmx-ext-sse.js),    *)
(* the handlers of internal/web/web.go, the answer stream                  *)
(* (internal/answer/answer.go) and the tables conversations and messages   *)
(* (internal/store/conversations.go).                                      *)
(*                                                                         *)
(* A question is a POST; its answer is generated by the GET of a stream    *)
(* that the page opens from the POST's response and opens again when it    *)
(* breaks.  A handler whose connection is gone may notice it at any time   *)
(* or not at all.  One browser page is modelled, in which users sign in    *)
(* and out, and which may be pointed at any conversation.                  *)
(***************************************************************************)
EXTENDS Naturals, FiniteSets

CONSTANTS
  Users, NoUser, Convs, NoConv,
  Questions,
  Earlier,     \* questions asked before, in conversations that are there: [q, user, conv]
  MaxStreams,  \* streams that the page opens for one question
  MaxFaults    \* bounds of the model

ASSUME ChatAssumption ==
  /\ NoUser \notin Users /\ NoConv \notin Convs
  /\ Earlier \subseteq [q : Questions, user : Users, conv : Convs]
  /\ \A e, f \in Earlier : (e.q = f.q => e = f) /\ (e.conv = f.conv => e.user = f.user)
  /\ MaxStreams \in Nat /\ MaxFaults \in Nat

VARIABLES
  cookie,   \* the user of the browser's session cookie
  field,    \* the page's hidden conversation_id
  owner,    \* owner[c]: user_email of the conversations row, NoUser when there is none
  msgs,     \* rows of messages
  asked,    \* asked[q]: the POST of q: its user, the conversation it names or got
  bubble,   \* bubble[q]: the assistant's bubble on the page
  conn,     \* conn[q]: the stream that the page's EventSource is connected to, or 0
  stream,   \* stream[q][n]: the n-th GET /chat/stream of q
  shown,    \* messages on the page, with the user they were sent to
  broken,   \* broken[q]: connections of q's streams that broke (auxiliary)
  faults

vars == <<cookie, field, owner, msgs, asked, bubble, conn, stream, shown, broken, faults>>
page == <<field, bubble, conn, shown>>

Streams == 1 .. MaxStreams
Message(q, role, n, text) == [conv |-> asked[q].conv, role |-> role, q |-> q, n |-> n, text |-> text]
NotAsked == [at |-> "new", user |-> NoUser, conv |-> NoConv]
NotOpened == [at |-> "no", user |-> NoUser, text |-> ""]

Init ==
  /\ cookie = NoUser /\ field = NoConv
  /\ owner = [c \in Convs |-> IF \E e \in Earlier : e.conv = c
                               THEN (CHOOSE e \in Earlier : e.conv = c).user ELSE NoUser]
  /\ asked = [q \in Questions |-> IF \E e \in Earlier : e.q = q
                THEN LET e == CHOOSE e \in Earlier : e.q = q
                     IN [at |-> "done", user |-> e.user, conv |-> e.conv]
                ELSE NotAsked]
  /\ msgs = {Message(e.q, "user", 0, "full") : e \in Earlier}
  /\ shown = {}
  /\ bubble = [q \in Questions |-> "none"]
  /\ conn = [q \in Questions |-> 0]
  /\ stream = [q \in Questions |-> [n \in Streams |-> NotOpened]]
  /\ broken = [q \in Questions |-> {}]
  /\ faults = 0

Fault == faults < MaxFaults /\ faults' = faults + 1

\* GetConversation: one error for a conversation of nobody and one of somebody else.
FoundForAll(c, u) == c # NoConv /\ owner[c] # NoUser
Owns(c, u) == c # NoConv /\ owner[c] = u

\* Login and logout change the cookie and nothing else: a page that is open stays.
SignIn(u) ==
  /\ cookie' = u
  /\ UNCHANGED <<page, owner, msgs, asked, stream, broken, faults>>
HandleLogout ==
  /\ cookie' = NoUser
  /\ UNCHANGED <<page, owner, msgs, asked, stream, broken, faults>>

\* GET /chat: ?new=1, ?c=... with any id, or the latest thread.  The id goes into
\* the page also when the conversation is not found; GetMessages lists its messages
\* for the owner only.  Leaving the old page closes its streams.
HandleChatPage(c) ==
  /\ cookie # NoUser
  /\ field' = c
  /\ shown' = {[to |-> cookie, m |-> m] : m \in {m \in msgs : m.conv = c /\ Owns(c, cookie)}}
  /\ bubble' = [q \in Questions |-> IF bubble[q] = "waiting" THEN "left" ELSE bubble[q]]
  /\ conn' = [q \in Questions |-> 0]
  /\ asked' = [q \in Questions |->  \* a response on its way finds no page
                 IF asked[q].at \in {"new", "done"} THEN asked[q] ELSE [asked[q] EXCEPT !.at = "done"]]
  /\ UNCHANGED <<cookie, owner, msgs, stream, broken, faults>>

-----------------------------------------------------------------------------
\* POST /chat/messages, sent with the page's conversation as it is then.
Ask(q) ==
  /\ asked[q].at = "new" /\ cookie # NoUser
  /\ asked' = [asked EXCEPT ![q] = [at |-> "resolve", user |-> cookie, conv |-> field]]
  /\ UNCHANGED <<cookie, page, owner, msgs, stream, broken, faults>>

MayContinueAny(q) == FoundForAll(asked[q].conv, asked[q].user)
MayContinue(q) == Owns(asked[q].conv, asked[q].user)
\* A conversation that is not the user's is replaced by a new one.
ResolveConversation(q) ==
  /\ asked[q].at = "resolve"
  /\ IF MayContinue(q)
     THEN /\ asked' = [asked EXCEPT ![q].at = "append"]
          /\ UNCHANGED owner
     ELSE \E c \in Convs :
            /\ owner[c] = NoUser
            /\ owner' = [owner EXCEPT ![c] = asked[q].user]
            /\ asked' = [asked EXCEPT ![q].at = "append", ![q].conv = c]
  /\ UNCHANGED <<cookie, page, msgs, stream, broken, faults>>

AppendQuestion(q) ==
  /\ asked[q].at = "append"
  /\ msgs' = msgs \cup {Message(q, "user", 0, "full")}
  /\ asked' = [asked EXCEPT ![q].at = "respond"]
  /\ UNCHANGED <<cookie, page, owner, stream, broken, faults>>

\* A statement fails: the user gets an error page fragment, the conversation may
\* have been created.
AskFails(q) ==
  /\ asked[q].at \in {"resolve", "append"}
  /\ Fault
  /\ asked' = [asked EXCEPT ![q].at = "done"]
  /\ UNCHANGED <<cookie, page, owner, msgs, stream, broken>>

\* The fragment: the question, a bubble that is waiting and the conversation's id.
ReceiveFragment(q) ==
  /\ asked[q].at = "respond"
  /\ asked' = [asked EXCEPT ![q].at = "done"]
  /\ field' = asked[q].conv
  /\ shown' = shown \cup {[to |-> asked[q].user, m |-> Message(q, "user", 0, "full")]}
  /\ bubble' = [bubble EXCEPT ![q] = "waiting"]
  /\ UNCHANGED <<cookie, conn, owner, msgs, stream, broken, faults>>

-----------------------------------------------------------------------------
\* The page connects while the bubble waits, and again after every broken stream;
\* slots are taken in order.
UnopenedOnce(q, n) == n = 1 /\ stream[q][n].at = "no"
Unopened(q, n) == stream[q][n].at = "no" /\ \A i \in 1 .. n - 1 : stream[q][i].at # "no"
OpenStream(q, n) ==
  /\ bubble[q] = "waiting" /\ conn[q] = 0
  /\ cookie # NoUser  \* 401 otherwise
  /\ Unopened(q, n)
  /\ conn' = [conn EXCEPT ![q] = n]
  /\ stream' = [stream EXCEPT ![q][n] = [at |-> "lookup", user |-> cookie, text |-> ""]]
  /\ UNCHANGED <<cookie, field, bubble, shown, owner, msgs, asked, broken, faults>>

\* handleChatStream looks the question up among the user's own messages; 404 ends the
\* connection, and the page tries again.
MayReadAny(q, u) == FoundForAll(asked[q].conv, u)
MayRead(q, u) == Owns(asked[q].conv, u)
LookUpQuestion(q, n) ==
  /\ stream[q][n].at = "lookup"
  /\ IF MayRead(q, stream[q][n].user)
     THEN /\ stream' = [stream EXCEPT ![q][n].at = "llm"]
          /\ UNCHANGED conn
     ELSE /\ stream' = [stream EXCEPT ![q][n] = NotOpened]
          /\ conn' = [conn EXCEPT ![q] = IF @ = n THEN 0 ELSE @]
  /\ UNCHANGED <<cookie, field, bubble, shown, owner, msgs, asked, broken, faults>>

\* Retrieval and the model's tokens, which are sent on as they come.
StreamToken(q, n) ==
  /\ stream[q][n].at = "llm"
  /\ stream' = [stream EXCEPT ![q][n] =
       IF @.text = "" THEN [@ EXCEPT !.text = "part"] ELSE [@ EXCEPT !.text = "full", !.at = "store"]]
  /\ UNCHANGED <<cookie, page, owner, msgs, asked, broken, faults>>

\* Retrieval fails, the model answers an error, or its reply breaks off, with an
\* error or as if it were complete: what has come is the answer, or an apology.
StreamStops(q, n) ==
  /\ stream[q][n].at = "llm"
  /\ Fault
  /\ \E text \in IF stream[q][n].text = "" THEN {"", "apology"} ELSE {"part"} :
       stream' = [stream EXCEPT ![q][n].at = "store", ![q][n].text = text]
  /\ UNCHANGED <<cookie, page, owner, msgs, asked, broken>>

\* AppendMessage: message and updated_at in one transaction.
StoreAnswer(q, n) ==
  /\ stream[q][n].at = "store"
  /\ msgs' = msgs \cup {Message(q, "assistant", n, stream[q][n].text)}
  /\ stream' = [stream EXCEPT ![q][n].at = "send"]
  /\ UNCHANGED <<cookie, page, owner, asked, broken, faults>>

\* The transaction fails, or the handler finds its connection gone: the request's
\* context is cancelled, the model's reply breaks off and nothing is stored.
StoreFails(q, n) ==
  /\ \/ stream[q][n].at = "store" /\ Fault
     \/ /\ stream[q][n].at \in {"llm", "store"} /\ conn[q] # n
        /\ UNCHANGED faults
  /\ stream' = [stream EXCEPT ![q][n].at = "send", ![q][n].text = "unstored"]
  /\ UNCHANGED <<cookie, page, owner, msgs, asked, broken>>

\* The done event replaces the bubble, whose EventSource closes with it.
KeepsListening(q) == conn' = [conn EXCEPT ![q] = 0] /\ UNCHANGED bubble
CloseBubble(q) == conn' = [conn EXCEPT ![q] = 0] /\ bubble' = [bubble EXCEPT ![q] = "answered"]
SendDone(q, n) ==
  LET s == stream[q][n] IN
  /\ s.at = "send"
  /\ stream' = [stream EXCEPT ![q][n].at = "end"]
  /\ IF conn[q] # n THEN UNCHANGED page
     ELSE /\ CloseBubble(q)
          /\ shown' = IF s.text = "unstored" THEN shown
                      ELSE shown \cup {[to |-> s.user, m |-> Message(q, "assistant", n, s.text)]}
          /\ UNCHANGED field
  /\ UNCHANGED <<cookie, owner, msgs, asked, broken, faults>>

\* The connection breaks: network, proxy, or the process of the server.
Break(q) ==
  /\ conn[q] # 0
  /\ Fault
  /\ conn' = [conn EXCEPT ![q] = 0]
  /\ broken' = [broken EXCEPT ![q] = @ \cup {conn[q]}]
  /\ UNCHANGED <<cookie, field, bubble, shown, owner, msgs, asked, stream>>
BreakByCrash ==
  /\ \E q \in Questions, n \in Streams : stream[q][n].at \notin {"no", "end"}
  /\ Fault
  /\ stream' = [q \in Questions |-> [n \in Streams |->
                  IF stream[q][n].at = "no" THEN NotOpened ELSE [stream[q][n] EXCEPT !.at = "end"]]]
  /\ broken' = [q \in Questions |-> broken[q] \cup (IF conn[q] = 0 THEN {} ELSE {conn[q]})]
  /\ conn' = [q \in Questions |-> 0]
  /\ UNCHANGED <<cookie, field, bubble, shown, owner, msgs, asked>>

Handle(q, n) ==
  LookUpQuestion(q, n) \/ StreamToken(q, n) \/ StoreAnswer(q, n) \/ SendDone(q, n)

Next ==
  \/ HandleLogout \/ \E u \in Users : SignIn(u)
  \/ \E c \in Convs \cup {NoConv} : HandleChatPage(c)
  \/ BreakByCrash
  \/ \E q \in Questions :
       \/ Ask(q) \/ ResolveConversation(q) \/ AppendQuestion(q) \/ AskFails(q)
       \/ ReceiveFragment(q) \/ Break(q)
       \/ \E n \in Streams : \/ OpenStream(q, n) \/ Handle(q, n)
                             \/ StreamStops(q, n) \/ StoreFails(q, n)

\* The server goes on with each request, and the page keeps connecting; the user
\* need not do anything.
Fairness ==
  \A q \in Questions, n \in Streams :
    WF_vars(OpenStream(q, n)) /\ WF_vars(Handle(q, n))

Spec == Init /\ [][Next]_vars /\ Fairness

-----------------------------------------------------------------------------
\* Nobody is shown, or has an answer generated from, a message of another user's
\* conversation, and what a page shows is stored: a reload shows it again.  This
\* holds for a page that was left open while another user signed in, and for ids of
\* other users' conversations.
ShownIsOwnAndStored ==
  /\ \A s \in shown : s.m \in msgs /\ owner[s.m.conv] = s.to
  /\ \A q \in Questions, n \in Streams :
       stream[q][n].at \in {"llm", "store", "send"} => owner[asked[q].conv] = stream[q][n].user

\* Everything in a conversation was asked by its owner, or answers the owner.
WrittenByOwner == \A m \in msgs : owner[m.conv] = asked[m.q].user

\* A question has more than one stored answer only if the connection broke as many
\* times (the page then connects again to the same stream, which answers again).
RepeatsAreBreaks ==
  \A q \in Questions :
    Cardinality({m \in msgs : m.q = q /\ m.role = "assistant"}) <= 1 + Cardinality(broken[q])

\* As long as the asker stays signed in, a waiting bubble is answered in the end, by
\* the answer, an apology or the note that it was not stored, over breaks and
\* restarts; or the page is left.
WaitingEnds ==
  \A q \in Questions :
    <>[](cookie # NoUser /\ cookie = asked[q].user) => (bubble[q] = "waiting" ~> bubble[q] # "waiting")
=============================================================================
