------------------------------- MODULE Login -------------------------------
(***************************************************************************)
(* Signing in through the identity provider (internal/auth/oidc.go):       *)
(* HandleLogin sends the browser away with a state that the process        *)
(* remembers for TTL and the browser carries in a cookie; HandleCallback   *)
(* takes the state back, asks the provider for the token and sets the      *)
(* session cookie.  Several browsers, several tabs of each, a callback     *)
(* that arrives late, twice or in the wrong browser, and restarts of the   *)
(* process, whose memory of the states is gone.  Time is in ticks.         *)
(***************************************************************************)
EXTENDS Naturals, FiniteSets

CONSTANTS
  Browsers,
  States,       \* the random states, one for each login begun
  TTL,          \* 10 minutes
  LastTick, MaxRestarts  \* bounds of the model

LoginAssumption == TTL \in Nat \ {0} /\ LastTick \in Nat /\ MaxRestarts \in Nat

VARIABLES
  now,
  process,      \* incarnations of the process so far
  nonce,        \* the process' memory: states with the time they expire
  cookie,       \* cookie[b]: set of at most one rag_svc_state, with its expiry
  begun,        \* begun[s]: the login that drew s (a set of at most one record)
  taken,        \* callbacks that took their state and wait for the provider
  spent,        \* states that a callback has taken (auxiliary)
  sessions,     \* sessions opened: [state, browser, at] (auxiliary)
  wronged       \* callbacks refused without an excuse (auxiliary)

loginVars == <<now, process, nonce, cookie, begun, taken, spent, sessions, wronged>>
memory == <<now, process, nonce, begun>>

LoginInit ==
  /\ now = 0 /\ process = 1
  /\ nonce = {} /\ taken = {} /\ spent = {} /\ sessions = {} /\ wronged = {}
  /\ cookie = [b \in Browsers |-> {}]
  /\ begun = [s \in States |-> {}]

\* The opportunistic sweep of HandleLogin.
Swept(remembered) == {e \in remembered : now > e.expires}
Live(remembered) == {e \in remembered : e.expires >= now}

HandleLogin(b, s) ==
  /\ begun[s] = {}
  /\ begun' = [begun EXCEPT ![s] = {[browser |-> b, at |-> now, process |-> process]}]
  /\ nonce' = Live(nonce \cup {[state |-> s, expires |-> now + TTL]})
  /\ cookie' = [cookie EXCEPT ![b] = {[state |-> s, expires |-> now + TTL]}]
  /\ UNCHANGED <<now, process, taken, spent, sessions, wronged>>

\* What the browser sends: its cookie, or nothing once the cookie has expired by the
\* browser's clock, which may be behind.
Sent(b) == {cookie[b]} \cup (IF \E c \in cookie[b] : c.expires <= now THEN {{}} ELSE {})

\* The login of s is the last thing that touched this browser's state cookie.
IsLatest(b, s) == \E c \in cookie[b] : c.state = s

\* A callback has an excuse to fail unless it is the first for the latest login of this
\* browser, in time and in the same process.
Excused(b, s) ==
  \/ s \in spent \/ ~IsLatest(b, s)
  \/ \A l \in begun[s] : l.browser # b \/ l.process # process \/ now >= l.at + TTL

Refuse(b, s) == wronged' = wronged \cup (IF Excused(b, s) THEN {} ELSE {[state |-> s, browser |-> b]})

\* Missing cookie, or one of another login.
RefuseMismatch(b, s) ==
  /\ begun[s] # {}
  /\ \E c \in Sent(b) : \A k \in c : k.state # s
  /\ Refuse(b, s)
  /\ UNCHANGED <<memory, cookie, taken, spent, sessions>>

RemainingAll(s) == nonce
Remaining(s) == {e \in nonce : e.state # s}
IsFresh(s) == \E e \in nonce : e.state = s /\ now <= e.expires

\* The state is forgotten whether it was good or not.
TakeState(b, s) ==
  /\ begun[s] # {}
  /\ \E c \in Sent(b) : \E k \in c : k.state = s
  /\ nonce' = Remaining(s)
  /\ spent' = spent \cup {s}
  /\ \/ /\ IsFresh(s)
        /\ taken' = taken \cup {[state |-> s, browser |-> b, at |-> now]}
        /\ UNCHANGED wronged
     \/ /\ ~IsFresh(s)
        /\ Refuse(b, s)
        /\ UNCHANGED taken
  /\ UNCHANGED <<now, process, begun, cookie, sessions>>

\* The exchange, the token or its claims are no good: the state is spent all the same.
ProviderFails(t) ==
  /\ taken' = taken \ {t}
  /\ UNCHANGED <<memory, cookie, spent, sessions, wronged>>

\* The state cookie goes, whichever login it is of by now; the session cookie is set.
OpenSession(t) ==
  /\ taken' = taken \ {t}
  /\ sessions' = sessions \cup {t}
  /\ cookie' = [cookie EXCEPT ![t.browser] = {}]
  /\ UNCHANGED <<memory, spent, wronged>>

Restart ==
  /\ process <= MaxRestarts
  /\ process' = process + 1
  /\ nonce' = {} /\ taken' = {}
  /\ UNCHANGED <<now, cookie, begun, spent, sessions, wronged>>

TimePasses ==
  /\ now < LastTick /\ now' = now + 1
  /\ UNCHANGED <<process, nonce, cookie, begun, taken, spent, sessions, wronged>>

LoginNext ==
  \/ \E b \in Browsers, s \in States :
       HandleLogin(b, s) \/ RefuseMismatch(b, s) \/ TakeState(b, s)
  \/ \E t \in taken : ProviderFails(t) \/ OpenSession(t)
  \/ Restart
  \/ TimePasses

LoginSpec == LoginInit /\ [][LoginNext]_loginVars

\* A login opens at most one session, in the browser that began it and within the time
\* the state lives: whatever is repeated, late or copied to another browser, and
\* however the callbacks overlap.
OneSessionPerLogin ==
  \A t \in sessions : /\ \A l \in begun[t.state] : t.browser = l.browser /\ t.at <= l.at + TTL
                     /\ \A u \in sessions : u.state = t.state => u = t

\* The first callback of a browser's latest login, in time and in the same process, is
\* never refused: not by the sweep of another login, and not by another's callback.
RefusalsHaveACause == wronged = {}
=============================================================================
