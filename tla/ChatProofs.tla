----------------------------- MODULE ChatProofs -----------------------------
(***************************************************************************)
(* Chat, for any users, conversations, questions, streams and faults.      *)
(***************************************************************************)
EXTENDS Chat, FiniteSetTheorems, TLAPS

Texts == {"", "part", "full", "apology", "unstored"}
Messages == [conv : Convs, role : {"user", "assistant"}, q : Questions,
             n : {0} \cup Streams, text : Texts]

AskedStates == [at : {"new", "resolve", "append", "respond", "done"},
                user : Users \cup {NoUser}, conv : Convs \cup {NoConv}]
StreamStates == [at : {"no", "lookup", "llm", "store", "send", "end"},
                 user : Users \cup {NoUser}, text : Texts]

Places ==
  /\ cookie \in Users \cup {NoUser} /\ field \in Convs \cup {NoConv}
  /\ owner \in [Convs -> Users \cup {NoUser}]
  /\ asked \in [Questions -> AskedStates]
  /\ bubble \in [Questions -> {"none", "waiting", "answered", "left"}]
  /\ conn \in [Questions -> {0} \cup Streams]
  /\ stream \in [Questions -> [Streams -> StreamStates]]
  /\ broken \in [Questions -> SUBSET Streams]
  /\ msgs \subseteq Messages
  /\ shown \subseteq [to : Users, m : Messages]

\* The conversation of q is there and is the asker's.
IsAskers(q) ==
  /\ asked[q].user \in Users /\ asked[q].conv \in Convs
  /\ owner[asked[q].conv] = asked[q].user

\* A question gets its conversation before anything is written or shown for it.
AskedInOwn ==
  \A q \in Questions :
    /\ asked[q].at # "new" => asked[q].user \in Users
    /\ asked[q].at \in {"append", "respond"} \/ bubble[q] # "none" => IsAskers(q)
    /\ asked[q].at = "respond" => Message(q, "user", 0, "full") \in msgs
    /\ bubble[q] # "none" => asked[q].at = "done"

\* A message is of a question whose conversation will not change any more, an answer
\* of a stream that has stored it.
MessagesFollow ==
  \A m \in msgs :
    /\ asked[m.q].at \in {"respond", "done"} /\ IsAskers(m.q) /\ m.conv = asked[m.q].conv
    /\ m.role = "assistant" => m.n \in Streams /\ stream[m.q][m.n].at \in {"send", "end"}

\* A stream that has found its question is the asker's; it shows what it has stored.
StreamsFollow ==
  \A q \in Questions, n \in Streams :
    LET s == stream[q][n] IN
    /\ s.at # "no" => bubble[q] # "none"
    /\ s.at \in {"llm", "store", "send"} => owner[asked[q].conv] = s.user
    /\ s.at \in {"lookup", "llm", "store"} => s.text # "unstored"
    /\ s.at = "send" => s.text = "unstored" \/ Message(q, "assistant", n, s.text) \in msgs

\* A stream stores one answer.
OneAnswer ==
  \A m, o \in msgs :
    m.role = "assistant" /\ o.role = "assistant" /\ m.q = o.q /\ m.n = o.n => m = o

\* All streams of a question but one have broken; while the bubble waits that is the one
\* which is connected.
Opened(q) == {n \in Streams : stream[q][n].at # "no"}
AllButOneBroke ==
  \A q \in Questions :
    /\ \E n \in {0} \cup Streams : Opened(q) \subseteq broken[q] \cup {n}
    /\ bubble[q] = "waiting" => Opened(q) \subseteq broken[q] \cup {conn[q]}
    /\ conn[q] # 0 => bubble[q] = "waiting"

Inv ==
  Places /\ AskedInOwn /\ MessagesFollow /\ StreamsFollow /\ OneAnswer /\ AllButOneBroke
  /\ ShownIsOwnAndStored

-----------------------------------------------------------------------------
\* What the n-th stream of q becomes, while the other streams and all questions stay.
Becomes(q, n, at, user, text) ==
  /\ stream' \in [Questions -> [Streams -> StreamStates]]
  /\ stream'[q][n] = [at |-> at, user |-> user, text |-> text]
  /\ \A p \in Questions, i \in Streams : p # q \/ i # n => stream'[p][i] = stream[p][i]
  /\ UNCHANGED <<cookie, field, owner, asked, broken>>

\* What the POST of q becomes, while the others stay.
AskedBecomes(q, at, user, conv) ==
  /\ asked' \in [Questions -> AskedStates]
  /\ asked'[q] = [at |-> at, user |-> user, conv |-> conv]
  /\ \A p \in Questions : p # q => asked'[p] = asked[p]
  /\ UNCHANGED <<cookie, conn, stream, broken>>

\* A stream that is opened takes a slot that is free.
OpenEffect(q, n) ==
  /\ cookie \in Users
  /\ \E text \in Texts \ {"unstored"} : Becomes(q, n, "lookup", cookie, text)
  /\ stream[q][n].at = "no" /\ bubble[q] = "waiting" /\ conn[q] = 0
  /\ conn' = [conn EXCEPT ![q] = n] /\ UNCHANGED <<bubble, shown, msgs>>

\* The question is found among the user's own, or the slot is free again.
LookUpEffect(q, n) ==
  /\ stream[q][n].at = "lookup" /\ UNCHANGED <<bubble, shown, msgs>>
  /\ \/ /\ MayRead(q, stream[q][n].user)
        /\ Becomes(q, n, "llm", stream[q][n].user, stream[q][n].text) /\ UNCHANGED conn
     \/ /\ \E text \in Texts : Becomes(q, n, "no", NoUser, text)
        /\ conn' = [conn EXCEPT ![q] = IF conn[q] = n THEN 0 ELSE conn[q]]

\* The answer grows until it is whole, or ends as it is.
TokenEffect(q, n) ==
  /\ stream[q][n].at = "llm" /\ UNCHANGED <<bubble, conn, shown, msgs>>
  /\ \E at \in {"llm", "store"}, text \in Texts \ {"unstored"} :
       Becomes(q, n, at, stream[q][n].user, text)

\* The answer is stored, or it is not and nothing else changes.
StoreEffect(q, n) ==
  /\ stream[q][n].at \in {"llm", "store"} /\ UNCHANGED <<bubble, conn, shown>>
  /\ \/ /\ stream[q][n].at = "store"
        /\ Becomes(q, n, "send", stream[q][n].user, stream[q][n].text)
        /\ msgs' = msgs \cup {Message(q, "assistant", n, stream[q][n].text)}
     \/ Becomes(q, n, "send", stream[q][n].user, "unstored") /\ UNCHANGED msgs

\* The done event reaches the page if the stream is connected.
DoneEffect(q, n) ==
  LET s == stream[q][n] IN
  /\ s.at = "send" /\ Becomes(q, n, "end", s.user, s.text) /\ UNCHANGED msgs
  /\ \/ UNCHANGED <<bubble, conn, shown>>
     \/ /\ conn[q] = n /\ conn' = [conn EXCEPT ![q] = 0]
        /\ bubble' = [bubble EXCEPT ![q] = "answered"]
        /\ \/ UNCHANGED shown
           \/ /\ s.text # "unstored"
              /\ shown' = shown \cup
                   {[to |-> s.user, m |-> Message(q, "assistant", n, s.text)]}

\* A crash ends the streams that are open.
CrashEffect ==
  /\ UNCHANGED <<cookie, field, owner, asked, bubble, shown, msgs>>
  /\ stream' \in [Questions -> [Streams -> StreamStates]]
  /\ \A q \in Questions, n \in Streams :
       stream'[q][n].at = IF stream[q][n].at = "no" THEN "no" ELSE "end"
  /\ conn' = [q \in Questions |-> 0]
  /\ broken' = [q \in Questions |-> broken[q] \cup ({conn[q]} \ {0})]

\* The question goes out with the page's conversation.
AskEffect(q) ==
  /\ asked[q].at = "new" /\ cookie \in Users
  /\ AskedBecomes(q, "resolve", cookie, field)
  /\ UNCHANGED <<field, bubble, owner, msgs, shown>>

\* The question gets a conversation of its asker, a new one unless the page's is one.
ResolveEffect(q) ==
  /\ asked[q].at = "resolve" /\ UNCHANGED <<field, bubble, msgs, shown>>
  /\ \E c \in Convs :
       /\ AskedBecomes(q, "append", asked[q].user, c)
       /\ owner'[c] = asked[q].user /\ owner' \in [Convs -> Users \cup {NoUser}]
       /\ \A d \in Convs : owner[d] # NoUser => owner'[d] = owner[d]

\* The question is stored.
AppendEffect(q) ==
  /\ asked[q].at = "append"
  /\ AskedBecomes(q, "respond", asked[q].user, asked[q].conv)
  /\ msgs' = msgs \cup {Message(q, "user", 0, "full")}
  /\ UNCHANGED <<field, bubble, owner, shown>>

\* A POST that fails has shown nothing.
AskFailsEffect(q) ==
  /\ asked[q].at \in {"resolve", "append"}
  /\ AskedBecomes(q, "done", asked[q].user, asked[q].conv)
  /\ UNCHANGED <<field, bubble, owner, msgs, shown>>

\* The page shows the question and waits.
ReceiveEffect(q) ==
  /\ asked[q].at = "respond"
  /\ AskedBecomes(q, "done", asked[q].user, asked[q].conv)
  /\ field' = asked[q].conv /\ bubble' = [bubble EXCEPT ![q] = "waiting"]
  /\ shown' = shown \cup {[to |-> asked[q].user, m |-> Message(q, "user", 0, "full")]}
  /\ UNCHANGED <<owner, msgs>>

\* A page that is left waits for nothing; what it shows is the user's own.
PageEffect(c) ==
  /\ field' = c /\ cookie \in Users /\ conn' = [q \in Questions |-> 0]
  /\ asked' \in [Questions -> AskedStates]
  /\ \A q \in Questions :
       /\ asked'[q].user = asked[q].user /\ asked'[q].conv = asked[q].conv
       /\ asked'[q].at = IF asked[q].at = "new" THEN "new" ELSE "done"
       /\ bubble'[q] = IF bubble[q] = "waiting" THEN "left" ELSE bubble[q]
  /\ bubble' \in [Questions -> {"none", "waiting", "answered", "left"}]
  /\ \A s \in shown' : s.m \in msgs /\ s.to = cookie /\ owner[s.m.conv] = cookie
  /\ shown' \subseteq [to : {cookie}, m : msgs]
  /\ UNCHANGED <<cookie, owner, msgs, stream, broken>>

\* The stream that was connected has broken.
BreakEffect(q) ==
  /\ conn[q] \in Streams /\ conn' = [conn EXCEPT ![q] = 0]
  /\ broken' = [broken EXCEPT ![q] = broken[q] \cup {conn[q]}]
  /\ UNCHANGED <<cookie, field, bubble, shown, owner, msgs, asked, stream>>

\* Signing in and out leaves the page as it is.
CookieEffect ==
  /\ cookie' \in Users \cup {NoUser}
  /\ UNCHANGED <<field, bubble, conn, shown, owner, msgs, asked, stream, broken>>

\* A stream is opened.
LEMMA OpenHasEffect ==
  ASSUME Places, NEW q \in Questions, NEW n \in Streams, OpenStream(q, n)
  PROVE  OpenEffect(q, n)
BY DEF OpenStream, Unopened, Places, Becomes, StreamStates, Texts, OpenEffect

\* The question is looked up.
LEMMA LookUpHasEffect ==
  ASSUME Places, NEW q \in Questions, NEW n \in Streams, LookUpQuestion(q, n)
  PROVE  LookUpEffect(q, n)
<1> DEFINE s == stream[q][n]
<1>1. s \in StreamStates /\ s.at = "lookup" /\ UNCHANGED <<bubble, shown, msgs>>
      /\ UNCHANGED <<cookie, field, owner, asked, broken>>
  BY DEF LookUpQuestion, Places
<1>2. CASE MayRead(q, s.user)
  <2>1. stream' = [stream EXCEPT ![q][n] = [s EXCEPT !.at = "llm"]] /\ UNCHANGED conn
    BY <1>2 DEF LookUpQuestion, Places
  <2>2. QED
    BY <1>1, <1>2, <2>1 DEF Becomes, Places, StreamStates, LookUpEffect
<1>3. CASE ~MayRead(q, s.user)
  <2>1. stream' = [stream EXCEPT ![q][n] = NotOpened]
        /\ conn' = [conn EXCEPT ![q] = IF conn[q] = n THEN 0 ELSE conn[q]]
    BY <1>3 DEF LookUpQuestion, Places
  <2>2. QED
    BY <1>1, <2>1 DEF Becomes, Places, StreamStates, NotOpened, Texts, LookUpEffect
<1>4. QED
  BY <1>2, <1>3

\* A token comes, or the reply stops.
LEMMA TokenHasEffect ==
  ASSUME Places, NEW q \in Questions, NEW n \in Streams,
         StreamToken(q, n) \/ StreamStops(q, n)
  PROVE  TokenEffect(q, n)
<1> DEFINE s == stream[q][n]
<1>0. s \in StreamStates
  BY DEF Places
<1>1. /\ s.at = "llm" /\ UNCHANGED <<bubble, conn, shown, msgs>>
      /\ UNCHANGED <<cookie, field, owner, asked, broken>>
  <2>1. CASE StreamToken(q, n)
    BY <2>1 DEF StreamToken, page
  <2>2. CASE StreamStops(q, n)
    BY <2>2 DEF StreamStops, page
  <2>3. QED
    BY <2>1, <2>2
<1>2. \E at \in {"llm", "store"}, text \in Texts \ {"unstored"} :
        stream' = [stream EXCEPT ![q][n] = [s EXCEPT !.at = at, !.text = text]]
  <2>1. CASE StreamToken(q, n) /\ s.text = ""
    <3>1. stream' = [stream EXCEPT ![q][n] = [s EXCEPT !.at = "llm", !.text = "part"]]
      BY <1>0, <1>1, <2>1 DEF StreamToken, Places, StreamStates
    <3>2. QED
      BY <3>1 DEF Texts
  <2>2. CASE StreamToken(q, n) /\ s.text # ""
    <3>1. stream' = [stream EXCEPT ![q][n] = [s EXCEPT !.at = "store", !.text = "full"]]
      BY <2>2 DEF StreamToken, Places, StreamStates
    <3>2. QED
      BY <3>1 DEF Texts
  <2>3. CASE StreamStops(q, n)
    <3>1. PICK text \in {"", "apology", "part"} :
            stream' = [stream EXCEPT ![q][n].at = "store", ![q][n].text = text]
      BY <2>3 DEF StreamStops
    <3>2. stream' = [stream EXCEPT ![q][n] = [s EXCEPT !.at = "store", !.text = text]]
      BY <3>1 DEF Places, StreamStates
    <3>3. QED
      BY <3>2 DEF Texts
  <2>4. QED
    BY <2>1, <2>2, <2>3
<1>3. PICK at \in {"llm", "store"}, text \in Texts \ {"unstored"} :
        stream' = [stream EXCEPT ![q][n] = [s EXCEPT !.at = at, !.text = text]]
  BY <1>2
<1>4. QED
  BY <1>0, <1>1, <1>3 DEF Becomes, Places, StreamStates, TokenEffect

\* The answer is stored, or not.
LEMMA StoreHasEffect ==
  ASSUME Places, NEW q \in Questions, NEW n \in Streams,
         StoreAnswer(q, n) \/ StoreFails(q, n)
  PROVE  StoreEffect(q, n)
<1> DEFINE s == stream[q][n]
<1>1. /\ s \in StreamStates /\ s.at \in {"llm", "store"}
      /\ UNCHANGED <<bubble, conn, shown, cookie, field, owner, asked, broken>>
  BY DEF StoreAnswer, StoreFails, Places, page
<1>2. CASE StoreAnswer(q, n)
  <2>1. stream' = [stream EXCEPT ![q][n] = [s EXCEPT !.at = "send"]] /\ s.at = "store"
        /\ msgs' = msgs \cup {Message(q, "assistant", n, s.text)}
    BY <1>2 DEF StoreAnswer, Places
  <2>2. QED
    BY <1>1, <2>1 DEF Becomes, Places, StreamStates, StoreEffect
<1>3. CASE StoreFails(q, n)
  <2>1. stream' = [stream EXCEPT ![q][n] = [s EXCEPT !.at = "send", !.text = "unstored"]]
        /\ UNCHANGED msgs
    BY <1>3 DEF StoreFails, Places
  <2>2. QED
    BY <1>1, <2>1 DEF Becomes, Places, StreamStates, Texts, StoreEffect
<1>4. QED
  BY <1>2, <1>3

\* The done event is sent.
LEMMA DoneHasEffect ==
  ASSUME Places, NEW q \in Questions, NEW n \in Streams, SendDone(q, n)
  PROVE  DoneEffect(q, n)
<1> DEFINE s == stream[q][n]
<1>1. /\ s \in StreamStates /\ s.at = "send" /\ UNCHANGED msgs
      /\ UNCHANGED <<cookie, field, owner, asked, broken>>
  BY DEF SendDone, Places, page
<1>2. Becomes(q, n, "end", s.user, s.text)
  <2>1. stream' = [stream EXCEPT ![q][n] = [s EXCEPT !.at = "end"]]
    BY DEF SendDone, Places
  <2>2. QED
    BY <1>1, <2>1 DEF Becomes, Places, StreamStates
<1>3. QED
  BY <1>1, <1>2 DEF SendDone, page, CloseBubble, DoneEffect

\* The server crashes.
LEMMA CrashHasEffect ==
  ASSUME Places, BreakByCrash
  PROVE  CrashEffect
<1> DEFINE Ended(t) == IF t.at = "no" THEN NotOpened ELSE [t EXCEPT !.at = "end"]
<1>1. \A t \in StreamStates :
        Ended(t) \in StreamStates /\ Ended(t).at = IF t.at = "no" THEN "no" ELSE "end"
  BY DEF StreamStates, NotOpened, Texts
<1>2. stream' = [q \in Questions |-> [n \in Streams |-> Ended(stream[q][n])]]
  BY DEF BreakByCrash
<1> HIDE DEF Ended
<1>3. \A q \in Questions, n \in Streams : stream[q][n] \in StreamStates
  BY DEF Places
<1>4. stream' \in [Questions -> [Streams -> StreamStates]]
  BY <1>1, <1>2, <1>3
<1>5. \A q \in Questions, n \in Streams :
        stream'[q][n].at = IF stream[q][n].at = "no" THEN "no" ELSE "end"
  BY <1>1, <1>2, <1>3
<1>6. /\ UNCHANGED <<cookie, field, owner, asked, bubble, shown, msgs>>
      /\ conn' = [q \in Questions |-> 0]
      /\ broken' = [q \in Questions |-> broken[q] \cup ({conn[q]} \ {0})]
  BY DEF BreakByCrash
<1>7. QED
  BY <1>4, <1>5, <1>6 DEF CrashEffect

\* A question is sent.
LEMMA AskHasEffect ==
  ASSUME Places, NEW q \in Questions, Ask(q)
  PROVE  AskEffect(q)
BY DEF Ask, Places, page, AskedBecomes, AskedStates, AskEffect

\* Its conversation is resolved.
LEMMA ResolveHasEffect ==
  ASSUME Places, NEW q \in Questions, ResolveConversation(q), asked[q].user \in Users
  PROVE  ResolveEffect(q)
<1> DEFINE a == asked[q]
<1>1. /\ a \in AskedStates /\ a.at = "resolve"
      /\ UNCHANGED <<cookie, conn, stream, broken, field, bubble, msgs, shown>>
  BY DEF ResolveConversation, Places, page
<1>2. CASE MayContinue(q)
  <2>1. asked' = [asked EXCEPT ![q] = [a EXCEPT !.at = "append"]] /\ UNCHANGED owner
    BY <1>2 DEF ResolveConversation, Places
  <2>2. a.conv \in Convs /\ owner[a.conv] = a.user
    BY <1>1, <1>2 DEF MayContinue, Owns, AskedStates
  <2>3. AskedBecomes(q, "append", a.user, a.conv)
    BY <1>1, <2>1 DEF AskedBecomes, Places, AskedStates
  <2>4. QED
    BY <1>1, <2>1, <2>2, <2>3 DEF Places, ResolveEffect
<1>3. CASE ~MayContinue(q)
  <2>1. PICK c \in Convs :
          /\ owner[c] = NoUser /\ owner' = [owner EXCEPT ![c] = asked[q].user]
          /\ asked' = [asked EXCEPT ![q].at = "append", ![q].conv = c]
    BY <1>3 DEF ResolveConversation
  <2>2. asked' = [asked EXCEPT ![q] = [a EXCEPT !.at = "append", !.conv = c]]
    BY <2>1 DEF Places
  <2>3. AskedBecomes(q, "append", a.user, c)
    BY <1>1, <2>2 DEF AskedBecomes, Places, AskedStates
  <2>4. QED
    BY <1>1, <2>1, <2>3 DEF Places, ResolveEffect
<1>4. QED
  BY <1>2, <1>3

\* It is stored.
LEMMA AppendHasEffect ==
  ASSUME Places, NEW q \in Questions, AppendQuestion(q)
  PROVE  AppendEffect(q)
<1>1. asked' = [asked EXCEPT ![q] = [asked[q] EXCEPT !.at = "respond"]]
  BY DEF AppendQuestion
<1>2. AskedBecomes(q, "respond", asked[q].user, asked[q].conv)
  BY <1>1 DEF AppendQuestion, page, AskedBecomes, Places, AskedStates
<1>3. QED
  BY <1>2 DEF AppendQuestion, page, AppendEffect

\* Its POST fails.
LEMMA AskFailsHasEffect ==
  ASSUME Places, NEW q \in Questions, AskFails(q)
  PROVE  AskFailsEffect(q)
<1>1. asked' = [asked EXCEPT ![q] = [asked[q] EXCEPT !.at = "done"]]
  BY DEF AskFails
<1>2. AskedBecomes(q, "done", asked[q].user, asked[q].conv)
  BY <1>1 DEF AskFails, page, AskedBecomes, Places, AskedStates
<1>3. QED
  BY <1>2 DEF AskFails, page, AskFailsEffect

\* Its fragment arrives.
LEMMA ReceiveHasEffect ==
  ASSUME Places, NEW q \in Questions, ReceiveFragment(q)
  PROVE  ReceiveEffect(q)
<1>1. asked' = [asked EXCEPT ![q] = [asked[q] EXCEPT !.at = "done"]]
  BY DEF ReceiveFragment
<1>2. AskedBecomes(q, "done", asked[q].user, asked[q].conv)
  BY <1>1 DEF ReceiveFragment, AskedBecomes, Places, AskedStates
<1>3. QED
  BY <1>2 DEF ReceiveFragment, ReceiveEffect

\* A page is loaded.
LEMMA PageHasEffect ==
  ASSUME Places, NEW c \in Convs \cup {NoConv}, HandleChatPage(c)
  PROVE  PageEffect(c)
<1> DEFINE Left(t) == IF t.at \in {"new", "done"} THEN t ELSE [t EXCEPT !.at = "done"]
<1>1. \A t \in AskedStates :
        /\ Left(t) \in AskedStates /\ Left(t).user = t.user /\ Left(t).conv = t.conv
        /\ Left(t).at = IF t.at = "new" THEN "new" ELSE "done"
  BY DEF AskedStates
<1>2. asked' = [q \in Questions |-> Left(asked[q])]
      /\ \A q \in Questions : asked[q] \in AskedStates
  BY DEF HandleChatPage, Places
<1> HIDE DEF Left
<1>3. /\ asked' \in [Questions -> AskedStates]
      /\ \A q \in Questions :
           /\ asked'[q].user = asked[q].user /\ asked'[q].conv = asked[q].conv
           /\ asked'[q].at = IF asked[q].at = "new" THEN "new" ELSE "done"
  BY <1>1, <1>2
<1>4. /\ \A s \in shown' : s.m \in msgs /\ s.to = cookie /\ owner[s.m.conv] = cookie
      /\ shown' \subseteq [to : {cookie}, m : msgs]
  BY DEF HandleChatPage, Owns
<1>5. QED
  BY <1>3, <1>4 DEF HandleChatPage, Places, PageEffect

\* A connection breaks.
LEMMA BreakHasEffect ==
  ASSUME Places, NEW q \in Questions, Break(q)
  PROVE  BreakEffect(q)
BY DEF Break, Places, BreakEffect

\* Every step has one of these effects.
LEMMA Effects ==
  ASSUME Places, AskedInOwn, [Next]_vars
  PROVE  \/ CookieEffect
         \/ \E c \in Convs \cup {NoConv} : PageEffect(c)
         \/ CrashEffect
         \/ \E q \in Questions :
              \/ AskEffect(q) \/ ResolveEffect(q) \/ AppendEffect(q) \/ AskFailsEffect(q)
              \/ ReceiveEffect(q) \/ BreakEffect(q)
              \/ \E n \in Streams :
                   \/ OpenEffect(q, n) \/ LookUpEffect(q, n) \/ TokenEffect(q, n)
                   \/ StoreEffect(q, n) \/ DoneEffect(q, n)
<1>1. CASE UNCHANGED vars
  BY <1>1 DEF vars, CookieEffect, Places
<1>2. CASE HandleLogout \/ \E u \in Users : SignIn(u)
  BY <1>2 DEF HandleLogout, SignIn, page, CookieEffect
<1>3. CASE (\E c \in Convs \cup {NoConv} : HandleChatPage(c)) \/ BreakByCrash
  BY <1>3, PageHasEffect, CrashHasEffect
<1>4. ASSUME NEW q \in Questions, ResolveConversation(q) PROVE ResolveEffect(q)
  <2>1. asked[q].user \in Users
    BY <1>4 DEF ResolveConversation, AskedInOwn
  <2>2. QED
    BY <1>4, <2>1, ResolveHasEffect
<1>5. ASSUME NEW q \in Questions,
             Ask(q) \/ ResolveConversation(q) \/ AppendQuestion(q) \/ AskFails(q)
               \/ ReceiveFragment(q) \/ Break(q)
      PROVE  \/ AskEffect(q) \/ ResolveEffect(q) \/ AppendEffect(q) \/ AskFailsEffect(q)
             \/ ReceiveEffect(q) \/ BreakEffect(q)
  BY <1>4, <1>5, AskHasEffect, AppendHasEffect, AskFailsHasEffect, ReceiveHasEffect,
     BreakHasEffect
<1>6. ASSUME NEW q \in Questions, NEW n \in Streams,
             OpenStream(q, n) \/ Handle(q, n) \/ StreamStops(q, n) \/ StoreFails(q, n)
      PROVE  \/ OpenEffect(q, n) \/ LookUpEffect(q, n) \/ TokenEffect(q, n)
             \/ StoreEffect(q, n) \/ DoneEffect(q, n)
  BY <1>6, OpenHasEffect, LookUpHasEffect, TokenHasEffect, StoreHasEffect, DoneHasEffect
    DEF Handle
<1>7. QED
  BY <1>1, <1>2, <1>3, <1>5, <1>6 DEF Next

-----------------------------------------------------------------------------
\* What can have happened to a question, to a bubble, to a stream, and where a message
\* of the store or on the page can have come from.
Leaves == \E c \in Convs \cup {NoConv} : PageEffect(c)

QuestionChanged(p) ==
  \/ asked'[p] = asked[p]
  \/ Leaves \/ AskEffect(p) \/ ResolveEffect(p) \/ AppendEffect(p)
  \/ AskFailsEffect(p) \/ ReceiveEffect(p)
BubbleChanged(p) ==
  \/ bubble'[p] = bubble[p] /\ conn'[p] = conn[p] /\ broken'[p] = broken[p]
  \/ Leaves \/ CrashEffect \/ ReceiveEffect(p) \/ BreakEffect(p)
  \/ \E n \in Streams : OpenEffect(p, n) \/ LookUpEffect(p, n) \/ DoneEffect(p, n)
StreamChanged(p, i) ==
  \/ stream'[p][i] = stream[p][i]
  \/ CrashEffect
  \/ OpenEffect(p, i) \/ LookUpEffect(p, i) \/ TokenEffect(p, i)
  \/ StoreEffect(p, i) \/ DoneEffect(p, i)
Kept == msgs \subseteq msgs' /\ \A d \in Convs : owner[d] # NoUser => owner'[d] = owner[d]
MessageIsNew(m) ==
  \/ \E q \in Questions : AppendEffect(q) /\ m = Message(q, "user", 0, "full")
  \/ \E q \in Questions, n \in Streams :
       /\ StoreEffect(q, n) /\ stream[q][n].at = "store"
       /\ m = Message(q, "assistant", n, stream[q][n].text)
ShownIsNew(s) ==
  \/ Leaves
  \/ \E q \in Questions :
       ReceiveEffect(q) /\ s = [to |-> asked[q].user, m |-> Message(q, "user", 0, "full")]
  \/ \E q \in Questions, n \in Streams :
       /\ DoneEffect(q, n) /\ stream[q][n].text # "unstored"
       /\ s = [to |-> stream[q][n].user, m |-> Message(q, "assistant", n, stream[q][n].text)]

\* Conversations keep their owners and messages stay.
LEMMA OwnersStay ==
  ASSUME Places, AskedInOwn, [Next]_vars
  PROVE  Kept
<1> USE DEF Kept
<1>1. CASE CookieEffect
  BY <1>1 DEF CookieEffect
<1>2. ASSUME NEW c \in Convs \cup {NoConv}, PageEffect(c) PROVE Kept
  BY <1>2 DEF PageEffect
<1>3. CASE CrashEffect
  BY <1>3 DEF CrashEffect
<1>4. ASSUME NEW q \in Questions, AskEffect(q) PROVE Kept
  BY <1>4 DEF AskEffect, AskedBecomes
<1>5. ASSUME NEW q \in Questions, ResolveEffect(q) PROVE Kept
  BY <1>5 DEF ResolveEffect, AskedBecomes
<1>6. ASSUME NEW q \in Questions, AppendEffect(q) PROVE Kept
  BY <1>6 DEF AppendEffect, AskedBecomes
<1>7. ASSUME NEW q \in Questions, AskFailsEffect(q) PROVE Kept
  BY <1>7 DEF AskFailsEffect, AskedBecomes
<1>8. ASSUME NEW q \in Questions, ReceiveEffect(q) PROVE Kept
  BY <1>8 DEF ReceiveEffect, AskedBecomes
<1>9. ASSUME NEW q \in Questions, BreakEffect(q) PROVE Kept
  BY <1>9 DEF BreakEffect
<1>10. ASSUME NEW q \in Questions, NEW n \in Streams, OpenEffect(q, n) PROVE Kept
  BY <1>10 DEF OpenEffect, Becomes
<1>11. ASSUME NEW q \in Questions, NEW n \in Streams, LookUpEffect(q, n) PROVE Kept
  BY <1>11 DEF LookUpEffect, Becomes
<1>12. ASSUME NEW q \in Questions, NEW n \in Streams, TokenEffect(q, n) PROVE Kept
  BY <1>12 DEF TokenEffect, Becomes
<1>13. ASSUME NEW q \in Questions, NEW n \in Streams, StoreEffect(q, n) PROVE Kept
  BY <1>13 DEF StoreEffect, Becomes
<1>14. ASSUME NEW q \in Questions, NEW n \in Streams, DoneEffect(q, n) PROVE Kept
  BY <1>14 DEF DoneEffect, Becomes
<1>15. QED
  BY <1>1, <1>2, <1>3, <1>4, <1>5, <1>6, <1>7, <1>8, <1>9, <1>10, <1>11, <1>12, <1>13,
     <1>14, Effects

\* One question at a time, but for a page that is left.
LEMMA QuestionChanges ==
  ASSUME Places, AskedInOwn, [Next]_vars, NEW p \in Questions
  PROVE  QuestionChanged(p)
<1> USE DEF QuestionChanged, Leaves
<1>1. CASE CookieEffect
  BY <1>1 DEF CookieEffect
<1>2. ASSUME NEW c \in Convs \cup {NoConv}, PageEffect(c) PROVE QuestionChanged(p)
  BY <1>2 DEF PageEffect
<1>3. CASE CrashEffect
  BY <1>3 DEF CrashEffect
<1>4. ASSUME NEW q \in Questions, AskEffect(q) PROVE QuestionChanged(p)
  BY <1>4 DEF AskEffect, AskedBecomes
<1>5. ASSUME NEW q \in Questions, ResolveEffect(q) PROVE QuestionChanged(p)
  BY <1>5 DEF ResolveEffect, AskedBecomes
<1>6. ASSUME NEW q \in Questions, AppendEffect(q) PROVE QuestionChanged(p)
  BY <1>6 DEF AppendEffect, AskedBecomes
<1>7. ASSUME NEW q \in Questions, AskFailsEffect(q) PROVE QuestionChanged(p)
  BY <1>7 DEF AskFailsEffect, AskedBecomes
<1>8. ASSUME NEW q \in Questions, ReceiveEffect(q) PROVE QuestionChanged(p)
  BY <1>8 DEF ReceiveEffect, AskedBecomes
<1>9. ASSUME NEW q \in Questions, BreakEffect(q) PROVE QuestionChanged(p)
  BY <1>9 DEF BreakEffect
<1>10. ASSUME NEW q \in Questions, NEW n \in Streams, OpenEffect(q, n)
       PROVE  QuestionChanged(p)
  BY <1>10 DEF OpenEffect, Becomes
<1>11. ASSUME NEW q \in Questions, NEW n \in Streams, LookUpEffect(q, n)
       PROVE  QuestionChanged(p)
  BY <1>11 DEF LookUpEffect, Becomes
<1>12. ASSUME NEW q \in Questions, NEW n \in Streams, TokenEffect(q, n)
       PROVE  QuestionChanged(p)
  BY <1>12 DEF TokenEffect, Becomes
<1>13. ASSUME NEW q \in Questions, NEW n \in Streams, StoreEffect(q, n)
       PROVE  QuestionChanged(p)
  BY <1>13 DEF StoreEffect, Becomes
<1>14. ASSUME NEW q \in Questions, NEW n \in Streams, DoneEffect(q, n)
       PROVE  QuestionChanged(p)
  BY <1>14 DEF DoneEffect, Becomes
<1>15. QED
  BY <1>1, <1>2, <1>3, <1>4, <1>5, <1>6, <1>7, <1>8, <1>9, <1>10, <1>11, <1>12, <1>13,
     <1>14, Effects

\* One bubble at a time, but for a page that is left and a crash.
LEMMA BubbleChanges ==
  ASSUME Places, AskedInOwn, [Next]_vars, NEW p \in Questions
  PROVE  BubbleChanged(p)
<1> USE DEF BubbleChanged, Leaves, Places
<1>1. CASE CookieEffect
  BY <1>1 DEF CookieEffect
<1>2. ASSUME NEW c \in Convs \cup {NoConv}, PageEffect(c) PROVE BubbleChanged(p)
  BY <1>2 DEF PageEffect
<1>3. CASE CrashEffect
  BY <1>3 DEF CrashEffect
<1>4. ASSUME NEW q \in Questions, AskEffect(q) PROVE BubbleChanged(p)
  BY <1>4 DEF AskEffect, AskedBecomes
<1>5. ASSUME NEW q \in Questions, ResolveEffect(q) PROVE BubbleChanged(p)
  BY <1>5 DEF ResolveEffect, AskedBecomes
<1>6. ASSUME NEW q \in Questions, AppendEffect(q) PROVE BubbleChanged(p)
  BY <1>6 DEF AppendEffect, AskedBecomes
<1>7. ASSUME NEW q \in Questions, AskFailsEffect(q) PROVE BubbleChanged(p)
  BY <1>7 DEF AskFailsEffect, AskedBecomes
<1>8. ASSUME NEW q \in Questions, ReceiveEffect(q) PROVE BubbleChanged(p)
  <2>1. CASE q = p
    BY <1>8, <2>1
  <2>2. CASE ~(q = p)
    BY <1>8, <2>2 DEF ReceiveEffect, AskedBecomes
  <2>3. QED
    BY <2>1, <2>2
<1>9. ASSUME NEW q \in Questions, BreakEffect(q) PROVE BubbleChanged(p)
  BY <1>9 DEF BreakEffect
<1>10. ASSUME NEW q \in Questions, NEW n \in Streams, OpenEffect(q, n)
       PROVE  BubbleChanged(p)
  <2>1. CASE q = p
    BY <1>10, <2>1
  <2>2. CASE ~(q = p)
    BY <1>10, <2>2 DEF OpenEffect, Becomes
  <2>3. QED
    BY <2>1, <2>2
<1>11. ASSUME NEW q \in Questions, NEW n \in Streams, LookUpEffect(q, n)
       PROVE  BubbleChanged(p)
  <2>1. CASE q = p
    BY <1>11, <2>1
  <2>2. CASE ~(q = p)
    BY <1>11, <2>2 DEF LookUpEffect, Becomes
  <2>3. QED
    BY <2>1, <2>2
<1>12. ASSUME NEW q \in Questions, NEW n \in Streams, TokenEffect(q, n)
       PROVE  BubbleChanged(p)
  BY <1>12 DEF TokenEffect, Becomes
<1>13. ASSUME NEW q \in Questions, NEW n \in Streams, StoreEffect(q, n)
       PROVE  BubbleChanged(p)
  BY <1>13 DEF StoreEffect, Becomes
<1>14. ASSUME NEW q \in Questions, NEW n \in Streams, DoneEffect(q, n)
       PROVE  BubbleChanged(p)
  <2>1. CASE q = p
    BY <1>14, <2>1
  <2>2. CASE ~(q = p)
    BY <1>14, <2>2 DEF DoneEffect, Becomes
  <2>3. QED
    BY <2>1, <2>2
<1>15. QED
  BY <1>1, <1>2, <1>3, <1>4, <1>5, <1>6, <1>7, <1>8, <1>9, <1>10, <1>11, <1>12, <1>13,
     <1>14, Effects

\* One stream at a time, but for a crash.
LEMMA StreamChanges ==
  ASSUME Places, AskedInOwn, [Next]_vars, NEW p \in Questions, NEW i \in Streams
  PROVE  StreamChanged(p, i)
<1> USE DEF StreamChanged
<1>1. CASE CookieEffect
  BY <1>1 DEF CookieEffect
<1>2. ASSUME NEW c \in Convs \cup {NoConv}, PageEffect(c) PROVE StreamChanged(p, i)
  BY <1>2 DEF PageEffect
<1>3. CASE CrashEffect
  BY <1>3 DEF CrashEffect
<1>4. ASSUME NEW q \in Questions, AskEffect(q) PROVE StreamChanged(p, i)
  BY <1>4 DEF AskEffect, AskedBecomes
<1>5. ASSUME NEW q \in Questions, ResolveEffect(q) PROVE StreamChanged(p, i)
  BY <1>5 DEF ResolveEffect, AskedBecomes
<1>6. ASSUME NEW q \in Questions, AppendEffect(q) PROVE StreamChanged(p, i)
  BY <1>6 DEF AppendEffect, AskedBecomes
<1>7. ASSUME NEW q \in Questions, AskFailsEffect(q) PROVE StreamChanged(p, i)
  BY <1>7 DEF AskFailsEffect, AskedBecomes
<1>8. ASSUME NEW q \in Questions, ReceiveEffect(q) PROVE StreamChanged(p, i)
  BY <1>8 DEF ReceiveEffect, AskedBecomes
<1>9. ASSUME NEW q \in Questions, BreakEffect(q) PROVE StreamChanged(p, i)
  BY <1>9 DEF BreakEffect
<1>10. ASSUME NEW q \in Questions, NEW n \in Streams, OpenEffect(q, n)
       PROVE  StreamChanged(p, i)
  <2>1. CASE q = p /\ n = i
    BY <1>10, <2>1
  <2>2. CASE ~(q = p /\ n = i)
    BY <1>10, <2>2 DEF OpenEffect, Becomes
  <2>3. QED
    BY <2>1, <2>2
<1>11. ASSUME NEW q \in Questions, NEW n \in Streams, LookUpEffect(q, n)
       PROVE  StreamChanged(p, i)
  <2>1. CASE q = p /\ n = i
    BY <1>11, <2>1
  <2>2. CASE ~(q = p /\ n = i)
    BY <1>11, <2>2 DEF LookUpEffect, Becomes
  <2>3. QED
    BY <2>1, <2>2
<1>12. ASSUME NEW q \in Questions, NEW n \in Streams, TokenEffect(q, n)
       PROVE  StreamChanged(p, i)
  BY <1>12 DEF TokenEffect, Becomes
<1>13. ASSUME NEW q \in Questions, NEW n \in Streams, StoreEffect(q, n)
       PROVE  StreamChanged(p, i)
  BY <1>13 DEF StoreEffect, Becomes
<1>14. ASSUME NEW q \in Questions, NEW n \in Streams, DoneEffect(q, n)
       PROVE  StreamChanged(p, i)
  BY <1>14 DEF DoneEffect, Becomes
<1>15. QED
  BY <1>1, <1>2, <1>3, <1>4, <1>5, <1>6, <1>7, <1>8, <1>9, <1>10, <1>11, <1>12, <1>13,
     <1>14, Effects

\* Questions and answers are stored.
LEMMA MessageChanges ==
  ASSUME Places, AskedInOwn, [Next]_vars, NEW m \in msgs'
  PROVE  m \in msgs \/ MessageIsNew(m)
<1> USE DEF MessageIsNew
<1>1. CASE CookieEffect
  BY <1>1 DEF CookieEffect
<1>2. ASSUME NEW c \in Convs \cup {NoConv}, PageEffect(c)
      PROVE  m \in msgs \/ MessageIsNew(m)
  BY <1>2 DEF PageEffect
<1>3. CASE CrashEffect
  BY <1>3 DEF CrashEffect
<1>4. ASSUME NEW q \in Questions, AskEffect(q) PROVE m \in msgs \/ MessageIsNew(m)
  BY <1>4 DEF AskEffect, AskedBecomes
<1>5. ASSUME NEW q \in Questions, ResolveEffect(q) PROVE m \in msgs \/ MessageIsNew(m)
  BY <1>5 DEF ResolveEffect, AskedBecomes
<1>6. ASSUME NEW q \in Questions, AppendEffect(q) PROVE m \in msgs \/ MessageIsNew(m)
  BY <1>6 DEF AppendEffect, AskedBecomes
<1>7. ASSUME NEW q \in Questions, AskFailsEffect(q) PROVE m \in msgs \/ MessageIsNew(m)
  BY <1>7 DEF AskFailsEffect, AskedBecomes
<1>8. ASSUME NEW q \in Questions, ReceiveEffect(q) PROVE m \in msgs \/ MessageIsNew(m)
  BY <1>8 DEF ReceiveEffect, AskedBecomes
<1>9. ASSUME NEW q \in Questions, BreakEffect(q) PROVE m \in msgs \/ MessageIsNew(m)
  BY <1>9 DEF BreakEffect
<1>10. ASSUME NEW q \in Questions, NEW n \in Streams, OpenEffect(q, n)
       PROVE  m \in msgs \/ MessageIsNew(m)
  BY <1>10 DEF OpenEffect, Becomes
<1>11. ASSUME NEW q \in Questions, NEW n \in Streams, LookUpEffect(q, n)
       PROVE  m \in msgs \/ MessageIsNew(m)
  BY <1>11 DEF LookUpEffect, Becomes
<1>12. ASSUME NEW q \in Questions, NEW n \in Streams, TokenEffect(q, n)
       PROVE  m \in msgs \/ MessageIsNew(m)
  BY <1>12 DEF TokenEffect, Becomes
<1>13. ASSUME NEW q \in Questions, NEW n \in Streams, StoreEffect(q, n)
       PROVE  m \in msgs \/ MessageIsNew(m)
  BY <1>13 DEF StoreEffect, Becomes
<1>14. ASSUME NEW q \in Questions, NEW n \in Streams, DoneEffect(q, n)
       PROVE  m \in msgs \/ MessageIsNew(m)
  BY <1>14 DEF DoneEffect, Becomes
<1>15. QED
  BY <1>1, <1>2, <1>3, <1>4, <1>5, <1>6, <1>7, <1>8, <1>9, <1>10, <1>11, <1>12, <1>13,
     <1>14, Effects

\* They are shown by their fragments, the done events and a page that is loaded.
LEMMA ShownChanges ==
  ASSUME Places, AskedInOwn, [Next]_vars, NEW s \in shown'
  PROVE  s \in shown \/ ShownIsNew(s)
<1> USE DEF ShownIsNew, Leaves
<1>1. CASE CookieEffect
  BY <1>1 DEF CookieEffect
<1>2. ASSUME NEW c \in Convs \cup {NoConv}, PageEffect(c)
      PROVE  s \in shown \/ ShownIsNew(s)
  BY <1>2 DEF PageEffect
<1>3. CASE CrashEffect
  BY <1>3 DEF CrashEffect
<1>4. ASSUME NEW q \in Questions, AskEffect(q) PROVE s \in shown \/ ShownIsNew(s)
  BY <1>4 DEF AskEffect, AskedBecomes
<1>5. ASSUME NEW q \in Questions, ResolveEffect(q) PROVE s \in shown \/ ShownIsNew(s)
  BY <1>5 DEF ResolveEffect, AskedBecomes
<1>6. ASSUME NEW q \in Questions, AppendEffect(q) PROVE s \in shown \/ ShownIsNew(s)
  BY <1>6 DEF AppendEffect, AskedBecomes
<1>7. ASSUME NEW q \in Questions, AskFailsEffect(q) PROVE s \in shown \/ ShownIsNew(s)
  BY <1>7 DEF AskFailsEffect, AskedBecomes
<1>8. ASSUME NEW q \in Questions, ReceiveEffect(q) PROVE s \in shown \/ ShownIsNew(s)
  BY <1>8 DEF ReceiveEffect, AskedBecomes
<1>9. ASSUME NEW q \in Questions, BreakEffect(q) PROVE s \in shown \/ ShownIsNew(s)
  BY <1>9 DEF BreakEffect
<1>10. ASSUME NEW q \in Questions, NEW n \in Streams, OpenEffect(q, n)
       PROVE  s \in shown \/ ShownIsNew(s)
  BY <1>10 DEF OpenEffect, Becomes
<1>11. ASSUME NEW q \in Questions, NEW n \in Streams, LookUpEffect(q, n)
       PROVE  s \in shown \/ ShownIsNew(s)
  BY <1>11 DEF LookUpEffect, Becomes
<1>12. ASSUME NEW q \in Questions, NEW n \in Streams, TokenEffect(q, n)
       PROVE  s \in shown \/ ShownIsNew(s)
  BY <1>12 DEF TokenEffect, Becomes
<1>13. ASSUME NEW q \in Questions, NEW n \in Streams, StoreEffect(q, n)
       PROVE  s \in shown \/ ShownIsNew(s)
  BY <1>13 DEF StoreEffect, Becomes
<1>14. ASSUME NEW q \in Questions, NEW n \in Streams, DoneEffect(q, n)
       PROVE  s \in shown \/ ShownIsNew(s)
  BY <1>14 DEF DoneEffect, Becomes
<1>15. QED
  BY <1>1, <1>2, <1>3, <1>4, <1>5, <1>6, <1>7, <1>8, <1>9, <1>10, <1>11, <1>12, <1>13,
     <1>14, Effects

-----------------------------------------------------------------------------
\* The asker of a question that has one stays, and the conversation that is the asker's.
LEMMA AskersStay ==
  ASSUME Inv, [Next]_vars, NEW p \in Questions, asked[p].at # "new"
  PROVE  /\ asked'[p].user = asked[p].user /\ asked'[p].at # "new"
         /\ asked[p].at # "resolve" => asked'[p].conv = asked[p].conv
         /\ asked[p].at # "resolve" /\ IsAskers(p) => IsAskers(p)'
         /\ asked[p].at \in {"respond", "done"} => asked'[p].at \in {"respond", "done"}
<1>1. Places /\ AskedInOwn /\ QuestionChanged(p)
  BY QuestionChanges DEF Inv
<1>2. /\ asked'[p].user = asked[p].user /\ asked'[p].at # "new"
      /\ asked[p].at # "resolve" => asked'[p].conv = asked[p].conv
      /\ asked[p].at \in {"respond", "done"} => asked'[p].at \in {"respond", "done"}
  <2>1. CASE asked'[p] = asked[p]
    BY <2>1
  <2>2. CASE Leaves
    BY <2>2 DEF Leaves, PageEffect
  <2>3. CASE ResolveEffect(p)
    BY <2>3 DEF ResolveEffect, AskedBecomes
  <2>4. CASE AskEffect(p) \/ AppendEffect(p) \/ AskFailsEffect(p) \/ ReceiveEffect(p)
    BY <2>4 DEF AskEffect, AppendEffect, AskFailsEffect, ReceiveEffect, AskedBecomes
  <2>5. QED
    BY <1>1, <2>1, <2>2, <2>3, <2>4 DEF QuestionChanged
<1>3. ASSUME asked[p].at # "resolve", IsAskers(p) PROVE IsAskers(p)'
  <2>1. \A d \in Convs : owner[d] # NoUser => owner'[d] = owner[d]
    BY <1>1, OwnersStay DEF Kept
  <2>2. QED
    BY <1>2, <1>3, <2>1, ChatAssumption DEF IsAskers
<1>4. QED
  BY <1>2, <1>3

\* A question has its conversation before anything is written or shown for it.
LEMMA AskedInOwnStep ==
  ASSUME Inv, [Next]_vars
  PROVE  AskedInOwn'
<1>1. Places /\ AskedInOwn
  BY DEF Inv
<1> SUFFICES ASSUME NEW p \in Questions
             PROVE  (/\ asked[p].at # "new" => asked[p].user \in Users
                     /\ asked[p].at \in {"append", "respond"} \/ bubble[p] # "none" => IsAskers(p)
                     /\ asked[p].at = "respond" => Message(p, "user", 0, "full") \in msgs
                     /\ bubble[p] # "none" => asked[p].at = "done")'
  BY DEF AskedInOwn
<1>2. /\ asked[p].at # "new" => asked[p].user \in Users
      /\ asked[p].at \in {"append", "respond"} \/ bubble[p] # "none" => IsAskers(p)
      /\ asked[p].at = "respond" => Message(p, "user", 0, "full") \in msgs
      /\ bubble[p] # "none" => asked[p].at = "done"
  BY <1>1 DEF AskedInOwn
<1>3. CASE Leaves
  BY <1>2, <1>3 DEF Leaves, PageEffect, IsAskers
<1>4. CASE ReceiveEffect(p)
  BY <1>2, <1>4, AskersStay DEF ReceiveEffect, AskedBecomes
<1>5. CASE ~Leaves /\ ~ReceiveEffect(p)
  <2>1. bubble'[p] # "none" => bubble[p] # "none"
    <3>1. ASSUME NEW n \in Streams, DoneEffect(p, n) PROVE bubble[p] # "none"
      BY <3>1 DEF DoneEffect, Inv, StreamsFollow
    <3>2. ASSUME NEW n \in Streams, OpenEffect(p, n) \/ LookUpEffect(p, n)
          PROVE  bubble' = bubble
      BY <3>2 DEF OpenEffect, LookUpEffect
    <3>3. CASE CrashEffect \/ BreakEffect(p)
      BY <3>3 DEF CrashEffect, BreakEffect
    <3>4. QED
      BY <1>1, <1>5, <3>1, <3>2, <3>3, BubbleChanges DEF BubbleChanged
  <2>2. CASE asked'[p] = asked[p]
    <3>1. msgs \subseteq msgs'
      BY <1>1, OwnersStay DEF Kept
    <3>2. asked[p].at \in {"append", "respond"} \/ bubble[p] # "none" => IsAskers(p)'
      BY <1>2, AskersStay
    <3>3. QED
      BY <1>2, <2>1, <2>2, <3>1, <3>2 DEF Message
  <2>3. CASE AskEffect(p)
    BY <1>2, <2>3 DEF AskEffect, AskedBecomes
  <2>4. CASE ResolveEffect(p)
    BY <1>2, <2>4 DEF ResolveEffect, AskedBecomes, IsAskers
  <2>5. CASE AppendEffect(p)
    BY <1>2, <2>5, AskersStay DEF AppendEffect, AskedBecomes, Message
  <2>6. CASE AskFailsEffect(p)
    BY <1>2, <2>6 DEF AskFailsEffect, AskedBecomes
  <2>7. QED
    BY <1>1, <1>5, <2>2, <2>3, <2>4, <2>5, <2>6, QuestionChanges DEF QuestionChanged
<1>6. QED
  BY <1>3, <1>4, <1>5

\* A message keeps its question's conversation, and a stream does not store twice.
LEMMA MessagesFollowStep ==
  ASSUME Inv, [Next]_vars
  PROVE  MessagesFollow'
<1>1. Places /\ AskedInOwn /\ MessagesFollow /\ AskedInOwn'
  BY AskedInOwnStep DEF Inv
<1> SUFFICES ASSUME NEW m \in msgs'
             PROVE  (/\ asked[m.q].at \in {"respond", "done"} /\ IsAskers(m.q) /\ m.conv = asked[m.q].conv
                     /\ m.role = "assistant" => m.n \in Streams /\ stream[m.q][m.n].at \in {"send", "end"})'
  BY DEF MessagesFollow
<1>2. CASE m \in msgs
  <2>1. /\ m.q \in Questions /\ asked[m.q].at \in {"respond", "done"}
        /\ IsAskers(m.q) /\ m.conv = asked[m.q].conv
        /\ m.role = "assistant" => m.n \in Streams /\ stream[m.q][m.n].at \in {"send", "end"}
    BY <1>1, <1>2 DEF MessagesFollow, Places, Messages
  <2>2. asked'[m.q].at \in {"respond", "done"} /\ IsAskers(m.q)' /\ m.conv = asked'[m.q].conv
    BY <2>1, AskersStay
  <2>3. ASSUME m.role = "assistant" PROVE stream'[m.q][m.n].at \in {"send", "end"}
    <3>1. StreamChanged(m.q, m.n)
      BY <1>1, <2>1, <2>3, StreamChanges
    <3>2. CASE CrashEffect
      BY <2>1, <2>3, <3>2 DEF CrashEffect
    <3>3. CASE DoneEffect(m.q, m.n)
      BY <3>3 DEF DoneEffect, Becomes
    <3>4. CASE stream'[m.q][m.n] = stream[m.q][m.n]
      BY <2>1, <2>3, <3>4
    <3>5. QED
      BY <2>1, <2>3, <3>1, <3>2, <3>3, <3>4
         DEF StreamChanged, OpenEffect, LookUpEffect, TokenEffect, StoreEffect
  <2>4. QED
    BY <2>1, <2>2, <2>3
<1>3. ASSUME NEW q \in Questions, AppendEffect(q), m = Message(q, "user", 0, "full")
      PROVE  /\ asked'[m.q].at \in {"respond", "done"} /\ IsAskers(m.q)' /\ m.conv = asked'[m.q].conv
             /\ m.role # "assistant"
  <2>1. IsAskers(q)' /\ m.conv = asked[q].conv /\ m.q = q /\ m.role = "user"
    BY <1>1, <1>3 DEF AppendEffect, AskedBecomes, AskedInOwn, Message
  <2>2. QED
    BY <1>3, <2>1 DEF AppendEffect, AskedBecomes
<1>4. ASSUME NEW q \in Questions, NEW n \in Streams, StoreEffect(q, n),
             stream[q][n].at = "store", m = Message(q, "assistant", n, stream[q][n].text)
      PROVE  /\ asked'[m.q].at \in {"respond", "done"} /\ IsAskers(m.q)' /\ m.conv = asked'[m.q].conv
             /\ m.n \in Streams /\ stream'[m.q][m.n].at = "send"
  <2>1. m.q = q /\ m.n = n /\ m.conv = asked[q].conv
    BY <1>4 DEF Message
  <2>2. bubble[q] # "none"
    BY <1>4 DEF Inv, StreamsFollow
  <2>3. stream'[q][n].at = "send" /\ UNCHANGED <<asked, owner>>
    BY <1>4 DEF StoreEffect, Becomes
  <2>4. asked[q].at = "done" /\ IsAskers(q)
    BY <1>1, <2>2 DEF AskedInOwn
  <2>5. QED
    BY <2>1, <2>3, <2>4 DEF IsAskers
<1>5. QED
  BY <1>1, <1>2, <1>3, <1>4, MessageChanges DEF MessageIsNew

\* A stream that goes on is still the asker's.
LEMMA StreamsFollowStep ==
  ASSUME Inv, [Next]_vars
  PROVE  StreamsFollow'
<1>1. Places /\ AskedInOwn
  BY DEF Inv
<1> DEFINE Follows(p, i) ==
      LET s == stream[p][i] IN
      /\ s.at # "no" => bubble[p] # "none"
      /\ s.at \in {"llm", "store", "send"} => owner[asked[p].conv] = s.user
      /\ s.at \in {"lookup", "llm", "store"} => s.text # "unstored"
      /\ s.at = "send" => s.text = "unstored" \/ Message(p, "assistant", i, s.text) \in msgs
<1> SUFFICES ASSUME NEW p \in Questions, NEW i \in Streams PROVE Follows(p, i)'
  BY DEF StreamsFollow
<1> DEFINE s == stream[p][i]
<1>2. Follows(p, i)
  BY DEF Inv, StreamsFollow
<1>3. CASE s.at # "no"
  <2>1. bubble[p] # "none"
    BY <1>2, <1>3
  <2>2. asked[p].at = "done" /\ IsAskers(p)
    BY <1>1, <2>1 DEF AskedInOwn
  <2>3. asked'[p].conv = asked[p].conv /\ owner'[asked[p].conv] = owner[asked[p].conv]
    BY <2>2, AskersStay DEF IsAskers
  <2>4. bubble'[p] # "none" /\ msgs \subseteq msgs'
    <3>1. ASSUME NEW n \in Streams, DoneEffect(p, n) PROVE bubble'[p] # "none"
      BY <1>1, <2>1, <3>1 DEF DoneEffect, Places
    <3>2. ASSUME NEW n \in Streams, OpenEffect(p, n) \/ LookUpEffect(p, n)
          PROVE  bubble' = bubble
      BY <3>2 DEF OpenEffect, LookUpEffect
    <3>3. CASE CrashEffect \/ BreakEffect(p) \/ Leaves \/ ReceiveEffect(p)
      BY <1>1, <2>1, <3>3
        DEF CrashEffect, BreakEffect, Leaves, PageEffect, ReceiveEffect, Places
    <3>4. BubbleChanged(p) /\ msgs \subseteq msgs'
      BY <1>1, BubbleChanges, OwnersStay DEF Kept
    <3>5. QED
      BY <2>1, <3>1, <3>2, <3>3, <3>4 DEF BubbleChanged
  <2>5. CASE stream'[p][i] = stream[p][i]
    BY <1>2, <2>1, <2>3, <2>4, <2>5 DEF Message
  <2>6. CASE CrashEffect
    <3>1. stream'[p][i].at = "end"
      BY <1>3, <2>6 DEF CrashEffect
    <3>2. QED
      BY <2>4, <3>1
  <2>7. CASE LookUpEffect(p, i)
    <3>1. CASE \E text \in Texts : Becomes(p, i, "no", NoUser, text)
      <4>1. stream'[p][i].at = "no"
        BY <3>1 DEF Becomes
      <4>2. QED
        BY <4>1
    <3>2. CASE MayRead(p, s.user) /\ Becomes(p, i, "llm", s.user, s.text)
      <4>1. stream'[p][i].at = "llm" /\ stream'[p][i].user = s.user /\ stream'[p][i].text = s.text
        BY <3>2 DEF Becomes
      <4>2. owner[asked[p].conv] = s.user /\ s.text # "unstored"
        BY <1>2, <2>7, <3>2 DEF LookUpEffect, MayRead, Owns
      <4>3. QED
        BY <2>3, <2>4, <4>1, <4>2
    <3>3. QED
      BY <2>7, <3>1, <3>2 DEF LookUpEffect
  <2>8. CASE TokenEffect(p, i)
    BY <1>2, <2>1, <2>3, <2>4, <2>8 DEF TokenEffect, Becomes
  <2>9. CASE StoreEffect(p, i)
    BY <1>2, <2>1, <2>3, <2>4, <2>9 DEF StoreEffect, Becomes, Message
  <2>10. CASE DoneEffect(p, i)
    BY <2>1, <2>4, <2>10 DEF DoneEffect, Becomes
  <2>11. QED
    BY <1>1, <1>3, <2>5, <2>6, <2>7, <2>8, <2>9, <2>10, StreamChanges
      DEF StreamChanged, OpenEffect
<1>4. CASE s.at = "no"
  <2>1. CASE OpenEffect(p, i)
    <3>1. stream'[p][i].at = "lookup" /\ stream'[p][i].text # "unstored" /\ bubble'[p] # "none"
      BY <2>1 DEF OpenEffect, Becomes
    <3>2. QED
      BY <3>1
  <2>2. CASE ~OpenEffect(p, i)
    <3>1. stream'[p][i].at = "no"
      <4>1. CASE CrashEffect
        BY <1>4, <4>1 DEF CrashEffect
      <4>2. QED
        BY <1>1, <1>4, <2>2, <4>1, StreamChanges
           DEF StreamChanged, LookUpEffect, TokenEffect, StoreEffect, DoneEffect
    <3>2. QED
      BY <3>1
  <2>3. QED
    BY <2>1, <2>2
<1>5. QED
  BY <1>3, <1>4

\* The only answer of a stream is the one that it stores.
LEMMA OneAnswerStep ==
  ASSUME Inv, [Next]_vars
  PROVE  OneAnswer'
<1>1. Places /\ AskedInOwn /\ MessagesFollow /\ OneAnswer
  BY DEF Inv
<1>2. ASSUME NEW m \in msgs', m \notin msgs, m.role = "assistant"
      PROVE  /\ \A o \in msgs : o.role = "assistant" => o.q # m.q \/ o.n # m.n
             /\ \A o \in msgs' \ msgs : o.role = "assistant" /\ o.q = m.q /\ o.n = m.n => o = m
  <2>1. \A o \in msgs' \ msgs : o.role = "assistant" =>
          /\ o.q \in Questions /\ o.n \in Streams /\ stream[o.q][o.n].at = "store"
          /\ o = Message(o.q, "assistant", o.n, stream[o.q][o.n].text)
    BY <1>1, MessageChanges DEF MessageIsNew, Message
  <2>2. QED
    BY <1>1, <1>2, <2>1 DEF MessagesFollow
<1>3. QED
  BY <1>1, <1>2 DEF OneAnswer

\* What is shown was stored before, for the same user.
LEMMA ShownStep ==
  ASSUME Inv, [Next]_vars
  PROVE  ShownIsOwnAndStored'
<1>1. Places /\ AskedInOwn /\ MessagesFollow /\ StreamsFollow /\ ShownIsOwnAndStored
  BY DEF Inv
<1>2. Kept
  BY <1>1, OwnersStay DEF Kept
<1>3. \A q \in Questions, n \in Streams :
        stream'[q][n].at \in {"llm", "store", "send"} => owner'[asked'[q].conv] = stream'[q][n].user
  BY StreamsFollowStep DEF StreamsFollow
<1>4. ASSUME NEW s \in shown' PROVE s.m \in msgs /\ owner[s.m.conv] = s.to
  <2>1. CASE s \in shown
    BY <1>1, <2>1 DEF ShownIsOwnAndStored
  <2>2. CASE Leaves
    BY <2>2 DEF Leaves, PageEffect
  <2>3. ASSUME NEW q \in Questions, ReceiveEffect(q),
               s = [to |-> asked[q].user, m |-> Message(q, "user", 0, "full")]
        PROVE  s.m \in msgs /\ owner[s.m.conv] = s.to
    BY <1>1, <2>3 DEF ReceiveEffect, AskedInOwn, IsAskers, Message
  <2>4. ASSUME NEW q \in Questions, NEW n \in Streams, DoneEffect(q, n),
               stream[q][n].text # "unstored",
               s = [to |-> stream[q][n].user, m |-> Message(q, "assistant", n, stream[q][n].text)]
        PROVE  s.m \in msgs /\ owner[s.m.conv] = s.to
    BY <1>1, <2>4 DEF DoneEffect, StreamsFollow, Message
  <2>5. QED
    BY <1>1, <2>1, <2>2, <2>3, <2>4, ShownChanges DEF ShownIsNew
<1>5. \A m \in msgs : m.conv \in Convs /\ owner[m.conv] # NoUser
  BY <1>1, ChatAssumption DEF MessagesFollow, IsAskers
<1>6. QED
  BY <1>2, <1>3, <1>4, <1>5 DEF Kept, ShownIsOwnAndStored

\* What is open stays open or ends; a slot is taken by a stream that is opened.
LEMMA OpenedChanges ==
  ASSUME Inv, [Next]_vars, NEW p \in Questions, NEW i \in Streams, stream'[p][i].at # "no"
  PROVE  stream[p][i].at # "no" \/ OpenEffect(p, i)
<1>1. StreamChanged(p, i)
  BY StreamChanges DEF Inv
<1>2. CASE CrashEffect
  BY <1>2 DEF CrashEffect
<1>3. QED
  BY <1>1, <1>2 DEF StreamChanged, LookUpEffect, TokenEffect, StoreEffect, DoneEffect

\* A stream is opened when all before it have broken.
LEMMA AllButOneBrokeStep ==
  ASSUME Inv, [Next]_vars
  PROVE  AllButOneBroke'
<1>1. Places /\ AskedInOwn /\ StreamsFollow /\ AllButOneBroke /\ 0 \notin Streams
  BY DEF Inv, Streams
<1> SUFFICES ASSUME NEW p \in Questions
             PROVE  (/\ \E n \in {0} \cup Streams : Opened(p) \subseteq broken[p] \cup {n}
                     /\ bubble[p] = "waiting" => Opened(p) \subseteq broken[p] \cup {conn[p]}
                     /\ conn[p] # 0 => bubble[p] = "waiting")'
  BY DEF AllButOneBroke
<1>2. /\ \E n \in {0} \cup Streams : Opened(p) \subseteq broken[p] \cup {n}
      /\ bubble[p] = "waiting" => Opened(p) \subseteq broken[p] \cup {conn[p]}
      /\ conn[p] # 0 => bubble[p] = "waiting"
  BY <1>1 DEF AllButOneBroke
<1>3. conn[p] \in {0} \cup Streams /\ Opened(p) \subseteq Streams
  BY <1>1 DEF Places, Opened
<1>4. CASE \E n \in Streams : OpenEffect(p, n)
  <2>1. PICK n \in Streams : OpenEffect(p, n)
    BY <1>4
  <2>2. /\ bubble'[p] = "waiting" /\ bubble[p] = "waiting" /\ conn[p] = 0 /\ conn'[p] = n
        /\ broken' = broken /\ \A i \in Streams : i # n => stream'[p][i] = stream[p][i]
    BY <1>1, <2>1 DEF OpenEffect, Becomes, Places
  <2>3. Opened(p)' \subseteq Opened(p) \cup {n}
    BY <2>2 DEF Opened
  <2>4. Opened(p) \subseteq broken[p]
    BY <1>1, <1>2, <1>3, <2>2
  <2>5. Opened(p)' \subseteq broken'[p] \cup {n}
    BY <2>2, <2>3, <2>4
  <2>6. QED
    BY <2>2, <2>5
<1>5. CASE ~\E n \in Streams : OpenEffect(p, n)
  <2>1. Opened(p)' \subseteq Opened(p)
    BY <1>5, OpenedChanges DEF Opened
  <2>2. CASE bubble'[p] = bubble[p] /\ conn'[p] = conn[p] /\ broken'[p] = broken[p]
    BY <1>2, <2>1, <2>2
  <2>3. CASE Leaves
    <3>1. conn'[p] = 0 /\ bubble'[p] # "waiting" /\ broken' = broken
      BY <2>3 DEF Leaves, PageEffect
    <3>2. QED
      BY <1>2, <2>1, <3>1
  <2>4. CASE CrashEffect
    <3>1. conn'[p] = 0 /\ bubble'[p] = bubble[p] /\ broken'[p] = broken[p] \cup ({conn[p]} \ {0})
      BY <2>4 DEF CrashEffect
    <3>2. QED
      BY <1>1, <1>2, <1>3, <2>1, <3>1
  <2>5. CASE ReceiveEffect(p)
    <3>1. bubble[p] = "none" /\ conn' = conn /\ broken' = broken
      BY <1>1, <2>5 DEF ReceiveEffect, AskedBecomes, AskedInOwn
    <3>2. Opened(p) = {} /\ conn[p] = 0
      BY <1>1, <1>2, <3>1 DEF StreamsFollow, Opened
    <3>3. QED
      BY <2>1, <3>1, <3>2
  <2>6. CASE BreakEffect(p)
    <3>1. conn'[p] = 0 /\ bubble'[p] = bubble[p] /\ broken'[p] = broken[p] \cup {conn[p]} /\ conn[p] # 0
      BY <1>1, <2>6 DEF BreakEffect, Places
    <3>2. QED
      BY <1>2, <1>3, <2>1, <3>1
  <2>7. ASSUME NEW n \in Streams, LookUpEffect(p, n)
        PROVE  \/ bubble'[p] = bubble[p] /\ conn'[p] = conn[p] /\ broken'[p] = broken[p]
               \/ /\ bubble'[p] = bubble[p] /\ broken'[p] = broken[p]
                  /\ conn[p] = n /\ conn'[p] = 0 /\ n \notin Opened(p)'
    <3>1. bubble' = bubble /\ broken' = broken
      BY <2>7 DEF LookUpEffect, Becomes
    <3>2. CASE conn' = conn
      BY <3>1, <3>2
    <3>3. CASE /\ conn' = [conn EXCEPT ![p] = IF conn[p] = n THEN 0 ELSE conn[p]]
               /\ \E text \in Texts : Becomes(p, n, "no", NoUser, text)
      <4>1. n \notin Opened(p)'
        BY <3>3 DEF Becomes, Opened
      <4>2. conn'[p] = IF conn[p] = n THEN 0 ELSE conn[p]
        BY <1>1, <3>3 DEF Places
      <4>3. QED
        BY <3>1, <4>1, <4>2
    <3>4. QED
      BY <2>7, <3>2, <3>3 DEF LookUpEffect
  <2>8. ASSUME NEW n \in Streams, DoneEffect(p, n)
        PROVE  \/ bubble'[p] = bubble[p] /\ conn'[p] = conn[p] /\ broken'[p] = broken[p]
               \/ bubble'[p] = "answered" /\ conn'[p] = 0 /\ broken'[p] = broken[p]
    BY <1>1, <2>8 DEF DoneEffect, Becomes, Places
  <2>9. ASSUME NEW n \in Streams, LookUpEffect(p, n) \/ DoneEffect(p, n)
        PROVE  /\ \E i \in {0} \cup Streams : Opened(p)' \subseteq broken'[p] \cup {i}
               /\ bubble'[p] = "waiting" => Opened(p)' \subseteq broken'[p] \cup {conn'[p]}
               /\ conn'[p] # 0 => bubble'[p] = "waiting"
    <3>1. /\ \E i \in {0} \cup Streams : Opened(p)' \subseteq broken'[p] \cup {i}
          /\ conn'[p] # 0 => bubble'[p] = "waiting"
      BY <1>2, <2>1, <2>7, <2>8, <2>9
    <3>2. bubble'[p] = "waiting" => Opened(p)' \subseteq broken'[p] \cup {conn'[p]}
      BY <1>2, <2>1, <2>7, <2>8, <2>9
    <3>3. QED
      BY <3>1, <3>2
  <2>10. BubbleChanged(p)
    BY <1>1, BubbleChanges
  <2>11. QED
    BY <1>5, <2>2, <2>3, <2>4, <2>5, <2>6, <2>9, <2>10 DEF BubbleChanged
<1>6. QED
  BY <1>4, <1>5

\* The variables keep their types, but for the two that hold messages.
Typed ==
  /\ cookie \in Users \cup {NoUser} /\ field \in Convs \cup {NoConv}
  /\ owner \in [Convs -> Users \cup {NoUser}]
  /\ asked \in [Questions -> AskedStates]
  /\ bubble \in [Questions -> {"none", "waiting", "answered", "left"}]
  /\ conn \in [Questions -> {0} \cup Streams]
  /\ stream \in [Questions -> [Streams -> StreamStates]]
  /\ broken \in [Questions -> SUBSET Streams]

\* Every step keeps them.
LEMMA TypedStep ==
  ASSUME Inv, [Next]_vars
  PROVE  Typed'
<1>0. Places /\ AskedInOwn /\ Typed
  BY DEF Inv, Places, Typed
<1> USE <1>0 DEF Typed
<1>1. CASE CookieEffect
  BY <1>1 DEF CookieEffect
<1>2. ASSUME NEW c \in Convs \cup {NoConv}, PageEffect(c) PROVE Typed'
  BY <1>2 DEF PageEffect
<1>3. CASE CrashEffect
  <2>1. \A q \in Questions : broken[q] \cup ({conn[q]} \ {0}) \in SUBSET Streams
    BY <1>0
  <2>2. broken' \in [Questions -> SUBSET Streams]
    BY <1>3, <2>1 DEF CrashEffect
  <2>3. QED
    BY <1>3, <2>2 DEF CrashEffect
<1>4. ASSUME NEW q \in Questions, AskEffect(q) PROVE Typed'
  BY <1>4 DEF AskEffect, AskedBecomes
<1>5. ASSUME NEW q \in Questions, ResolveEffect(q) PROVE Typed'
  BY <1>5 DEF ResolveEffect, AskedBecomes
<1>6. ASSUME NEW q \in Questions, AppendEffect(q) PROVE Typed'
  BY <1>6 DEF AppendEffect, AskedBecomes
<1>7. ASSUME NEW q \in Questions, AskFailsEffect(q) PROVE Typed'
  BY <1>7 DEF AskFailsEffect, AskedBecomes
<1>8. ASSUME NEW q \in Questions, ReceiveEffect(q) PROVE Typed'
  BY <1>8 DEF ReceiveEffect, AskedBecomes, AskedStates, AskedInOwn, IsAskers
<1>9. ASSUME NEW q \in Questions, BreakEffect(q) PROVE Typed'
  BY <1>9 DEF BreakEffect
<1>10. ASSUME NEW q \in Questions, NEW n \in Streams, OpenEffect(q, n) PROVE Typed'
  BY <1>10 DEF OpenEffect, Becomes
<1>11. ASSUME NEW q \in Questions, NEW n \in Streams, LookUpEffect(q, n) PROVE Typed'
  BY <1>11 DEF LookUpEffect, Becomes
<1>12. ASSUME NEW q \in Questions, NEW n \in Streams, TokenEffect(q, n) PROVE Typed'
  BY <1>12 DEF TokenEffect, Becomes
<1>13. ASSUME NEW q \in Questions, NEW n \in Streams, StoreEffect(q, n) PROVE Typed'
  BY <1>13 DEF StoreEffect, Becomes
<1>14. ASSUME NEW q \in Questions, NEW n \in Streams, DoneEffect(q, n) PROVE Typed'
  BY <1>14 DEF DoneEffect, Becomes
<1>15. QED
  BY <1>1, <1>2, <1>3, <1>4, <1>5, <1>6, <1>7, <1>8, <1>9, <1>10, <1>11, <1>12, <1>13,
     <1>14, Effects

\* A message is of its question's conversation.
LEMMA PlacesStep ==
  ASSUME Inv, [Next]_vars
  PROVE  Places'
<1>1. Places /\ AskedInOwn /\ StreamsFollow /\ MessagesFollow /\ ShownIsOwnAndStored
  BY DEF Inv
<1>2. ASSUME NEW m \in msgs' PROVE m \in Messages
  <2>1. CASE m \in msgs
    BY <1>1, <2>1 DEF Places
  <2>2. ASSUME NEW q \in Questions, AppendEffect(q), m = Message(q, "user", 0, "full")
        PROVE  m \in Messages
    <3>1. asked[q].conv \in Convs
      BY <1>1, <2>2 DEF AppendEffect, AskedInOwn, IsAskers
    <3>2. QED
      BY <2>2, <3>1 DEF Message, Messages, Texts
  <2>3. ASSUME NEW q \in Questions, NEW n \in Streams, StoreEffect(q, n),
               stream[q][n].at = "store", m = Message(q, "assistant", n, stream[q][n].text)
        PROVE  m \in Messages
    <3>1. bubble[q] # "none" /\ stream[q][n].text \in Texts
      BY <1>1, <2>3 DEF StreamsFollow, Places, StreamStates
    <3>2. asked[q].conv \in Convs
      BY <1>1, <3>1 DEF AskedInOwn, IsAskers
    <3>3. QED
      BY <2>3, <3>1, <3>2 DEF Message, Messages
  <2>4. QED
    BY <1>1, <2>1, <2>2, <2>3, MessageChanges DEF MessageIsNew
<1>3. ASSUME NEW s \in shown' PROVE s \in [to : Users, m : Messages]
  <2>1. CASE s \in shown
    BY <1>1, <2>1 DEF Places
  <2>2. CASE Leaves
    BY <1>1, <2>2 DEF Leaves, PageEffect, Places
  <2>3. ASSUME NEW q \in Questions, ReceiveEffect(q),
               s = [to |-> asked[q].user, m |-> Message(q, "user", 0, "full")]
        PROVE  s \in [to : Users, m : Messages]
    BY <1>1, <2>3 DEF ReceiveEffect, AskedInOwn, Places
  <2>4. ASSUME NEW q \in Questions, NEW n \in Streams, DoneEffect(q, n),
               stream[q][n].text # "unstored",
               s = [to |-> stream[q][n].user, m |-> Message(q, "assistant", n, stream[q][n].text)]
        PROVE  s \in [to : Users, m : Messages]
    <3>1. /\ s.m \in msgs /\ bubble[q] # "none" /\ owner[asked[q].conv] = stream[q][n].user
      BY <1>1, <2>4 DEF DoneEffect, StreamsFollow
    <3>2. stream[q][n].user \in Users
      BY <1>1, <3>1 DEF AskedInOwn, IsAskers
    <3>3. QED
      BY <1>1, <2>4, <3>1, <3>2 DEF Places
  <2>5. QED
    BY <1>1, <2>1, <2>2, <2>3, <2>4, ShownChanges DEF ShownIsNew
<1>4. Typed'
  BY TypedStep
<1>5. QED
  BY <1>2, <1>3, <1>4 DEF Places, Typed

-----------------------------------------------------------------------------
\* At first there are the questions that were asked before.
LEMMA InitInv ==
  ASSUME Init
  PROVE  Inv
<1>1. \A e \in Earlier :
        /\ e.q \in Questions /\ e.user \in Users /\ e.conv \in Convs
        /\ asked[e.q] = [at |-> "done", user |-> e.user, conv |-> e.conv]
        /\ owner[e.conv] = e.user
  <2> TAKE e \in Earlier
  <2>1. e.q \in Questions /\ e.user \in Users /\ e.conv \in Convs
    BY ChatAssumption
  <2>2. asked[e.q] = [at |-> "done", user |-> e.user, conv |-> e.conv]
    <3>1. (CHOOSE f \in Earlier : f.q = e.q) = e
      BY ChatAssumption
    <3>2. QED
      BY <2>1, <3>1 DEF Init
  <2>3. owner[e.conv] = e.user
    <3> DEFINE c == e.conv
    <3>1. (CHOOSE f \in Earlier : f.conv = c) \in Earlier
          /\ (CHOOSE f \in Earlier : f.conv = c).conv = c
      OBVIOUS
    <3>2. (CHOOSE f \in Earlier : f.conv = c).user = e.user
      BY <3>1, ChatAssumption
    <3>3. QED
      BY <2>1, <3>2 DEF Init
  <2>4. QED
    BY <2>1, <2>2, <2>3
<1>2. \A q \in Questions :
        \/ asked[q] = NotAsked
        \/ \E e \in Earlier : asked[q] = [at |-> "done", user |-> e.user, conv |-> e.conv]
  BY DEF Init
<1>3. Typed
  <2>1. owner \in [Convs -> Users \cup {NoUser}]
    <3>1. \A c \in Convs : owner[c] \in Users \cup {NoUser}
      <4> TAKE c \in Convs
      <4>1. CASE \E e \in Earlier : e.conv = c
        <5>1. PICK e \in Earlier : e.conv = c
          BY <4>1
        <5>2. owner[e.conv] = e.user /\ e.user \in Users
          BY <1>1
        <5>3. QED
          BY <5>1, <5>2
      <4>2. CASE ~\E e \in Earlier : e.conv = c
        BY <4>2 DEF Init
      <4>3. QED
        BY <4>1, <4>2
    <3>2. QED
      BY <3>1 DEF Init
  <2>2. asked \in [Questions -> AskedStates]
    <3>1. \A q \in Questions : asked[q] \in AskedStates
      <4> TAKE q \in Questions
      <4>1. CASE asked[q] = NotAsked
        BY <4>1 DEF AskedStates, NotAsked
      <4>2. ASSUME NEW e \in Earlier, 
                   asked[q] = [at |-> "done", user |-> e.user, conv |-> e.conv]
            PROVE  asked[q] \in AskedStates
        BY <1>1, <4>2 DEF AskedStates
      <4>3. QED
        BY <1>2, <4>1, <4>2
    <3>2. QED
      BY <3>1 DEF Init
  <2>3. stream \in [Questions -> [Streams -> StreamStates]]
    <3>1. NotOpened \in StreamStates
      BY DEF NotOpened, StreamStates, Texts
    <3>2. QED
      BY <3>1 DEF Init
  <2>4. QED
    BY <2>1, <2>2, <2>3 DEF Init, Typed
<1>4. \A m \in msgs : \E e \in Earlier :
        /\ m.conv = e.conv /\ m.role = "user" /\ m.q = e.q /\ m.n = 0 /\ m.text = "full"
        /\ m \in Messages
  <2>1. msgs = {Message(e.q, "user", 0, "full") : e \in Earlier}
    BY DEF Init
  <2>2. ASSUME NEW e \in Earlier
        PROVE  LET m == Message(e.q, "user", 0, "full") IN
               /\ m.conv = e.conv /\ m.role = "user" /\ m.q = e.q /\ m.n = 0 /\ m.text = "full"
               /\ m \in Messages
    <3>1. e.q \in Questions /\ e.conv \in Convs
          /\ asked[e.q] = [at |-> "done", user |-> e.user, conv |-> e.conv]
      BY <1>1
    <3>2. asked[e.q].conv = e.conv
      BY <3>1
    <3>3. QED
      BY <3>1, <3>2 DEF Message, Messages, Texts
  <2>3. QED
    BY <2>1, <2>2
<1>5. \A q \in Questions, n \in Streams : stream[q][n].at = "no" /\ stream[q][n].text # "unstored"
  BY DEF Init, NotOpened
<1>6. Places
  <2>1. msgs \subseteq Messages
    BY <1>4
  <2>2. QED
    BY <1>3, <2>1 DEF Places, Typed, Init
<1>7. AskedInOwn
  BY <1>1, <1>2 DEF AskedInOwn, NotAsked, Init
<1>8. MessagesFollow
  <2> SUFFICES ASSUME NEW m \in msgs
               PROVE  /\ asked[m.q].at = "done" /\ IsAskers(m.q) /\ m.conv = asked[m.q].conv
                      /\ m.role = "user"
    BY DEF MessagesFollow
  <2>1. PICK e \in Earlier : m.conv = e.conv /\ m.role = "user" /\ m.q = e.q
    BY <1>4
  <2>2. /\ e.user \in Users /\ e.conv \in Convs /\ owner[e.conv] = e.user
        /\ asked[e.q] = [at |-> "done", user |-> e.user, conv |-> e.conv]
    BY <1>1
  <2>3. QED
    BY <2>1, <2>2 DEF IsAskers
<1>9. StreamsFollow /\ AllButOneBroke /\ ShownIsOwnAndStored /\ OneAnswer
  <2>1. StreamsFollow
    BY <1>5 DEF StreamsFollow
  <2>2. AllButOneBroke
    BY <1>5 DEF AllButOneBroke, Opened, Init
  <2>3. ShownIsOwnAndStored
    BY <1>5 DEF ShownIsOwnAndStored, Init
  <2>4. OneAnswer
    BY <1>4 DEF OneAnswer
  <2>5. QED
    BY <2>1, <2>2, <2>3, <2>4
<1>10. QED
  BY <1>6, <1>7, <1>8, <1>9 DEF Inv

\* Every conversation is its asker's, every message follows its question and every
\* stream shows what it has stored, over logins, breaks and crashes.
THEOREM ChatInvariant == Spec => []Inv
<1>1. Inv /\ [Next]_vars => Inv'
  BY PlacesStep, AskedInOwnStep, MessagesFollowStep, StreamsFollowStep, OneAnswerStep,
     AllButOneBrokeStep, ShownStep DEF Inv
<1>2. QED
  BY <1>1, InitInv, PTL DEF Spec

\* Nobody is shown, or has an answer generated from, a message of another user's
\* conversation, and what a page shows is stored: web.go passes the user of the session
\* to every query, and the page of one user never shows another what it got.
THEOREM ShownIsOwn == Spec => []ShownIsOwnAndStored
<1>1. Inv => ShownIsOwnAndStored
  BY DEF Inv
<1>2. QED
  BY <1>1, ChatInvariant, PTL

\* Everything in a conversation was asked by its owner, or answers the owner: a page
\* that names somebody else's conversation gets a new one.
THEOREM ConversationsAreOwn == Spec => []WrittenByOwner
<1>1. Inv => WrittenByOwner
  BY DEF Inv, MessagesFollow, IsAskers, WrittenByOwner
<1>2. QED
  BY <1>1, ChatInvariant, PTL

\* The answers to q are those of its streams, one of each at most.
LEMMA AnswersAreBounded ==
  ASSUME Inv, NEW q \in Questions
  PROVE  Cardinality({m \in msgs : m.q = q /\ m.role = "assistant"})
           <= 1 + Cardinality(broken[q])
<1> DEFINE Answers == {m \in msgs : m.q = q /\ m.role = "assistant"}
           num == [m \in Answers |-> m.n]
<1>1. broken[q] \subseteq Streams /\ IsFiniteSet(Streams)
  BY ChatAssumption, FS_Interval DEF Inv, Places, Streams
<1>2. IsFiniteSet(broken[q]) /\ Cardinality(broken[q]) \in Nat
  BY <1>1, FS_Subset, FS_CardinalityType
<1>3. PICK n \in {0} \cup Streams : Opened(q) \subseteq broken[q] \cup {n}
  BY DEF Inv, AllButOneBroke
<1>4. /\ IsFiniteSet(broken[q] \cup {n})
      /\ Cardinality(broken[q] \cup {n}) <= 1 + Cardinality(broken[q])
      /\ Cardinality(broken[q] \cup {n}) \in Nat
  <2>1. /\ IsFiniteSet(broken[q] \cup {n})
        /\ \/ Cardinality(broken[q] \cup {n}) = Cardinality(broken[q])
           \/ Cardinality(broken[q] \cup {n}) = Cardinality(broken[q]) + 1
    BY <1>2, FS_AddElement
  <2>2. QED
    BY <1>2, <2>1
<1>5. \A m \in Answers : m.n \in broken[q] \cup {n}
  <2>1. \A m \in Answers : m.n \in Streams /\ stream[q][m.n].at \in {"send", "end"}
    BY DEF Inv, MessagesFollow
  <2>2. QED
    BY <1>3, <2>1 DEF Opened
<1>6. num \in Injection(Answers, broken[q] \cup {n})
  <2>1. num \in [Answers -> broken[q] \cup {n}]
    BY <1>5
  <2>2. \A m, o \in Answers : num[m] = num[o] => m = o
    BY DEF Inv, OneAnswer
  <2>3. QED
    BY <2>1, <2>2 DEF Injection, IsInjective
<1> HIDE DEF num, Answers
<1>7. IsFiniteSet(Answers) /\ Cardinality(Answers) <= Cardinality(broken[q] \cup {n})
  BY <1>4, <1>6, FS_Injection
<1>8. Cardinality(Answers) \in Nat
  BY <1>7, FS_CardinalityType
<1>9. Cardinality(Answers) <= 1 + Cardinality(broken[q])
  BY <1>2, <1>4, <1>7, <1>8
<1>10. QED
  BY <1>9 DEF Answers

\* A question is answered once more for each connection that broke, never for one that
\* did not: the page opens a stream only when the last one is gone.
THEOREM AnswersNeedBreaks == Spec => []RepeatsAreBreaks
<1>1. Inv => RepeatsAreBreaks
  BY AnswersAreBounded DEF RepeatsAreBreaks
<1>2. QED
  BY <1>1, ChatInvariant, PTL
=============================================================================
