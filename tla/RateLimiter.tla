---------------------------- MODULE RateLimiter ----------------------------
(***************************************************************************)
(* The rate limiter of /search, /sources, /projects, /spaces and /upload   *)
(* (internal/http/ratelimit.go): a counter per principal and window in     *)
(* Redis, by INCR and, for the first of a window, EXPIRE.  Requests        *)
(* overlap; Redis fails, restarts and expires keys; the process dies       *)
(* between the two commands.  Time is in ticks.                            *)
(***************************************************************************)
EXTENDS Naturals

CONSTANTS
  Principals,          \* emails of sessions, "bearer:<name>" of tokens
  Requests,
  Limit,               \* requests of one principal in one window
  Window, Padding,     \* ticks of the window, and of the margin of a key's expiry
  MaxDelay,            \* ticks from the clock read to INCR and to EXPIRE at most
  Never, MaxTime, MaxMishaps  \* the last two are bounds of the model

\* Nothing in the code bounds MaxDelay but the Redis client's time-outs.
RateLimiterAssumption ==
  /\ \A x \in {Limit, Window, Padding} : x \in Nat \ {0}
  /\ MaxDelay \in Nat /\ MaxDelay < Padding
  /\ MaxTime \in Nat /\ MaxMishaps \in Nat /\ Never \notin Nat

VARIABLES
  clock,
  request,         \* request[r]: where it is
  counter,         \* Redis: the count of a key and its expiry, Never before EXPIRE
  incremented,     \* requests of a principal and window counted so far (auxiliary)
  passed,          \* and those let through (auxiliary)
  mishaps          \* failures of Redis and of the process

limiterVars == <<clock, request, counter, incremented, passed, mishaps>>

Windows == 0 .. MaxTime \div Window
Keys == Principals \X Windows
NoKey == [n |-> 0, expires |-> Never]

Init ==
  /\ clock = 0 /\ mishaps = 0
  /\ request = [r \in Requests |-> [at |-> "new"]]
  /\ counter = [k \in Keys |-> NoKey]
  /\ incremented = [k \in Keys |-> 0] /\ passed = [k \in Keys |-> 0]

Mishap == mishaps < MaxMishaps /\ mishaps' = mishaps + 1
At(r, place) == request[r].at = place
Move(r, place) == request' = [request EXCEPT ![r].at = place]

\* The request's principal and window, whatever the limiter's keys are.
Bucket(r) == <<request[r].by, request[r].window>>
KeyOfPrincipal(r) == <<request[r].by, 0>>
KeyOf(r) == Bucket(r)
Pass(r) == passed' = [passed EXCEPT ![Bucket(r)] = @ + 1]

\* An authenticated request; the clock is read once.
Arrive(r, p) ==
  /\ At(r, "new")
  /\ request' = [request EXCEPT ![r] =
                   [at |-> "keyed", by |-> p, window |-> clock \div Window, since |-> clock]]
  /\ UNCHANGED <<clock, counter, incremented, passed, mishaps>>

\* The first of a window goes on to EXPIRE, the others are let through or refused.
Incr(r) ==
  LET n == counter[KeyOf(r)].n + 1 IN
  /\ At(r, "keyed")
  /\ counter' = [counter EXCEPT ![KeyOf(r)].n = n]
  /\ incremented' = [incremented EXCEPT ![Bucket(r)] = @ + 1]
  /\ \/ n = 1 /\ Move(r, "first") /\ UNCHANGED passed
     \/ n \in 2 .. Limit /\ Move(r, "passed") /\ Pass(r)
     \/ n > 1 /\ n > Limit /\ Move(r, "refused") /\ UNCHANGED passed
  /\ UNCHANGED <<clock, mishaps>>

FailOpen(r) ==
  /\ At(r, "keyed") /\ Mishap
  /\ Move(r, "passed") /\ Pass(r)
  /\ UNCHANGED <<clock, counter, incremented>>

ExpiryWithoutPadding == clock + Window
Expiry == clock + Window + Padding

\* The error of EXPIRE is ignored: the key then stays.
Expire(r) ==
  /\ At(r, "first")
  /\ \/ /\ counter[KeyOf(r)].n > 0
        /\ counter' = [counter EXCEPT ![KeyOf(r)].expires = Expiry]
        /\ UNCHANGED mishaps
     \/ counter[KeyOf(r)].n = 0 /\ UNCHANGED <<counter, mishaps>>
     \/ Mishap /\ UNCHANGED counter
  /\ Move(r, "passed") /\ Pass(r)
  /\ UNCHANGED <<clock, incremented>>

Crash ==
  /\ Mishap
  /\ request' = [r \in Requests |-> IF At(r, "keyed") \/ At(r, "first")
                                     THEN [at |-> "lost"] ELSE request[r]]
  /\ UNCHANGED <<clock, counter, incremented, passed>>

RedisRestarts ==
  /\ Mishap
  /\ counter' = [k \in Keys |-> NoKey]
  /\ UNCHANGED <<clock, request, incremented, passed>>

\* Keys whose time has come are gone; a request is not kept between its commands.
Tick ==
  /\ clock < MaxTime
  /\ \A r \in Requests : At(r, "keyed") \/ At(r, "first") => clock < request[r].since + MaxDelay
  /\ clock' = clock + 1
  /\ counter' = [k \in Keys |-> IF counter[k].expires \in Nat /\ counter[k].expires <= clock + 1
                                THEN NoKey ELSE counter[k]]
  /\ UNCHANGED <<request, incremented, passed, mishaps>>

Next ==
  \/ \E r \in Requests :
       (\E p \in Principals : Arrive(r, p)) \/ Incr(r) \/ FailOpen(r) \/ Expire(r)
  \/ Crash \/ RedisRestarts \/ Tick

Spec == Init /\ [][Next]_limiterVars

\* A principal gets no more than Limit requests of one window through, although they
\* overlap and the window's key may expire under the late ones; each failure of Redis
\* lets at most Limit more through.
LimitHolds == \A k \in Keys : passed[k] <= Limit * (1 + mishaps)

\* A request is refused for the requests of its own principal and window only: what
\* other windows left in Redis, a key without expiry too, costs nobody a request.
RefusedForOwnWindow ==
  \A r \in Requests : At(r, "refused") => incremented[Bucket(r)] > Limit
=============================================================================
