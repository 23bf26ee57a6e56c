---------------------------- MODULE AccessProofs ----------------------------
(***************************************************************************)
(* Who is let in: the rate limiter, bearer tokens and signing in.          *)
(***************************************************************************)
EXTENDS RateLimiter, Tokens, Login, FiniteSetTheorems, TLAPS

(***************************************************************************)
(* RateLimiter, for any principals, requests, limit, window, padding and   *)
(* delay below it, and any number of failures.                             *)
(***************************************************************************)
PlacedRequest == [at : {"keyed", "first", "passed", "refused"}, by : Principals, window : Windows, since : Nat]
RequestPlaces == [at : {"new", "lost"}] \cup PlacedRequest
Counts == [n : Nat, expires : Nat \cup {Never}]

LimiterTypes ==
  /\ clock \in 0 .. MaxTime /\ mishaps \in Nat
  /\ request \in [Requests -> RequestPlaces]
  /\ counter \in [Keys -> Counts]
  /\ incremented \in [Keys -> Nat] /\ passed \in [Keys -> Nat]

Waiting(r) == At(r, "keyed") \/ At(r, "first")
Firsts(k) == {r \in Requests : At(r, "first") /\ Bucket(r) = k}

\* When no request of the window is waiting any more.
End(k) == (k[2] + 1) * Window + Padding
Limited(n) == IF n < Limit THEN n ELSE Limit

\* A waiting request is in its window, but for the delay.
InTime ==
  \A r \in Requests : Waiting(r) =>
    LET w == request[r].window
        s == request[r].since
    IN  w * Window <= s /\ s < (w + 1) * Window /\ s <= clock /\ clock <= s + MaxDelay

\* A key stays until its window's last request has been counted.
Padded == \A k \in Keys : counter[k].expires \in Nat => End(k) <= counter[k].expires

\* What is let through, or will be after EXPIRE, is paid for by the count or by a failure;
\* once the window is over the count may be gone.
Paid ==
  \A k \in Keys :
    /\ IsFiniteSet(Firsts(k))
    /\ \/ passed[k] + Cardinality(Firsts(k)) <= Limit * mishaps + Limited(counter[k].n)
       \/ End(k) <= clock /\ passed[k] + Cardinality(Firsts(k)) <= Limit * mishaps + Limit

\* Redis forgets counts and never invents them.
Counted == \A k \in Keys : counter[k].n <= incremented[k]

LimiterInv == LimiterTypes /\ InTime /\ Padded /\ Paid /\ Counted /\ RefusedForOwnWindow

---------------------------------------------------------------------------
\* Multiplication and division, as the solver needs them stated.
LEMMA OneMore ==
  ASSUME NEW l \in Nat, NEW m \in Nat
  PROVE  l * m \in Nat /\ l * (m + 1) = l * m + l /\ l * (1 + m) = l * m + l
OBVIOUS

\* Comparing multiples compares the factors.
LEMMA Larger ==
  ASSUME NEW a \in Nat, NEW b \in Nat, NEW n \in Nat \ {0}, a * n < (b + 1) * n
  PROVE  a <= b
<1>1. CASE a <= b
  BY <1>1
<1>2. CASE b + 1 <= a
  <2>1. PICK d \in Nat : a = b + 1 + d
    BY <1>2
  <2>2. a * n = (b + 1) * n + d * n /\ d * n \in Nat /\ (b + 1) * n \in Nat
    BY <2>1
  <2> QED BY <2>2
<1> QED BY <1>1, <1>2

\* The window of a time contains it.
LEMMA WindowOf ==
  ASSUME RateLimiterAssumption, NEW t \in 0 .. MaxTime
  PROVE  LET w == t \div Window IN
         w \in Windows /\ w \in Nat /\ w * Window <= t /\ t < (w + 1) * Window
<1> DEFINE w == t \div Window
           v == MaxTime \div Window
<1>1. Window \in Nat \ {0} /\ t \in Nat /\ MaxTime \in Nat /\ t <= MaxTime
  BY DEF RateLimiterAssumption
<1>2. w \in Nat /\ t = Window * w + (t % Window) /\ t % Window \in 0 .. Window - 1
  BY <1>1
<1>3. v \in Nat /\ MaxTime = Window * v + (MaxTime % Window) /\ MaxTime % Window \in 0 .. Window - 1
  BY <1>1
<1> HIDE DEF w, v
<1>4. /\ Window * w = w * Window /\ (w + 1) * Window = w * Window + Window
      /\ Window * v = v * Window /\ (v + 1) * Window = v * Window + Window
      /\ w * Window \in Nat /\ v * Window \in Nat
  BY <1>1, <1>2, <1>3
<1>5. w * Window <= t /\ t < (w + 1) * Window /\ w * Window < (v + 1) * Window
  BY <1>1, <1>2, <1>3, <1>4
<1>6. w <= v
  BY <1>1, <1>2, <1>3, <1>5, Larger
<1> QED BY <1>2, <1>3, <1>5, <1>6 DEF Windows, w, v

\* What the assumption says of each constant, and that the end of a window is a time.
LEMMA Constants ==
  ASSUME RateLimiterAssumption
  PROVE  /\ Limit \in Nat \ {0} /\ Window \in Nat \ {0} /\ Padding \in Nat /\ MaxDelay \in Nat
         /\ MaxDelay < Padding /\ MaxTime \in Nat /\ Never \notin Nat
         /\ Windows \subseteq Nat /\ \A k \in Keys : k[2] \in Nat /\ End(k) \in Nat
<1>1. Windows \subseteq Nat
  BY DEF Windows
<1>2. Limit \in Nat \ {0} /\ Window \in Nat \ {0} /\ Padding \in Nat \ {0}
  BY DEF RateLimiterAssumption
<1>3. \A k \in Keys : k[2] \in Nat
  BY <1>1 DEF Keys
<1>4. \A k \in Keys : End(k) \in Nat
  <2> TAKE k \in Keys
  <2>1. k[2] \in Nat
    BY <1>3
  <2>2. (k[2] + 1) * Window \in Nat
    BY <1>2, <2>1
  <2> QED BY <1>2, <2>2 DEF End
<1> QED BY <1>1, <1>2, <1>3, <1>4 DEF RateLimiterAssumption

\* A waiting request has a principal and a window, whose end is not reached.
LEMMA WaitingIsPlaced ==
  ASSUME RateLimiterAssumption, LimiterTypes, NEW r \in Requests, Waiting(r)
  PROVE  /\ request[r] \in PlacedRequest /\ Bucket(r) \in Keys /\ KeyOf(r) = Bucket(r)
         /\ Bucket(r)[2] = request[r].window /\ request[r].window \in Nat /\ request[r].since \in Nat
<1>1. request[r] \in PlacedRequest
  BY DEF LimiterTypes, RequestPlaces, PlacedRequest, Waiting, At
<1>2. request[r].by \in Principals /\ request[r].window \in Windows /\ request[r].since \in Nat
  BY <1>1 DEF PlacedRequest
<1> QED BY <1>1, <1>2, Constants DEF Bucket, KeyOf, Keys

\* A waiting request's window is not over, and EXPIRE now outlasts it.
LEMMA WaitingIsInside ==
  ASSUME RateLimiterAssumption, LimiterTypes, InTime, NEW r \in Requests, Waiting(r)
  PROVE  clock < End(Bucket(r)) /\ End(Bucket(r)) <= clock + Window + Padding
<1> DEFINE w == request[r].window
           s == request[r].since
<1>1. w \in Nat /\ s \in Nat /\ Bucket(r)[2] = w
  BY WaitingIsPlaced
<1>2. w * Window <= s /\ s < (w + 1) * Window /\ s <= clock /\ clock <= s + MaxDelay
  BY DEF InTime
<1> HIDE DEF w, s
<1>3. (w + 1) * Window = w * Window + Window /\ w * Window \in Nat
  BY <1>1, Constants
<1>4. clock \in Nat
  BY Constants DEF LimiterTypes
<1> QED BY <1>1, <1>2, <1>3, <1>4, Constants DEF End

\* What Move leaves.
LEMMA Moved ==
  ASSUME RateLimiterAssumption, LimiterTypes, NEW r \in Requests, Waiting(r),
         NEW place \in {"first", "passed", "refused"}, Move(r, place)
  PROVE  /\ request' \in [Requests -> RequestPlaces]
         /\ request'[r].at = place /\ request'[r].by = request[r].by
         /\ request'[r].window = request[r].window /\ request'[r].since = request[r].since
         /\ \A q \in Requests \ {r} : request'[q] = request[q]
         /\ \A k \in Keys : Firsts(k)' = IF place = "first" /\ k = Bucket(r) THEN Firsts(k) \cup {r}
                                         ELSE Firsts(k) \ {r}
<1>1. request[r] \in PlacedRequest
  BY WaitingIsPlaced
<1>2. request' = [request EXCEPT ![r] = [request[r] EXCEPT !.at = place]]
  BY DEF Move, LimiterTypes
<1>3. [request[r] EXCEPT !.at = place] \in PlacedRequest
  BY <1>1 DEF PlacedRequest
<1>4. request' \in [Requests -> RequestPlaces] /\ \A q \in Requests \ {r} : request'[q] = request[q]
  BY <1>2, <1>3 DEF LimiterTypes, RequestPlaces
<1>5. /\ request'[r].at = place /\ request'[r].by = request[r].by
      /\ request'[r].window = request[r].window /\ request'[r].since = request[r].since
  BY <1>1, <1>2 DEF LimiterTypes, PlacedRequest
<1>6. ASSUME NEW k \in Keys
      PROVE  Firsts(k)' = IF place = "first" /\ k = Bucket(r) THEN Firsts(k) \cup {r} ELSE Firsts(k) \ {r}
  <2>1. Bucket(r)' = Bucket(r) /\ (At(r, "first")' <=> place = "first")
    BY <1>5 DEF Bucket, At
  <2>2. \A q \in Requests \ {r} : Bucket(q)' = Bucket(q) /\ (At(q, "first")' <=> At(q, "first"))
    BY <1>4 DEF Bucket, At
  <2> QED BY <2>1, <2>2 DEF Firsts
<1> QED BY <1>4, <1>5, <1>6

\* A request that moves on disturbs neither the others nor its own window.
LEMMA MovedInTime ==
  ASSUME RateLimiterAssumption, LimiterTypes, InTime, NEW r \in Requests, Waiting(r),
         NEW place \in {"first", "passed", "refused"}, Move(r, place), clock' = clock
  PROVE  InTime'
<1>1. ASSUME NEW q \in Requests, Waiting(q)'
      PROVE  /\ Waiting(q) /\ request'[q].window = request[q].window
             /\ request'[q].since = request[q].since
  BY <1>1, Moved DEF Waiting, At
<1> QED BY <1>1 DEF InTime
---------------------------------------------------------------------------
\* No request has arrived and Redis is empty.
LEMMA LimiterStart == ASSUME RateLimiterAssumption, Init PROVE LimiterInv
<1>1. LimiterTypes
  BY Constants DEF Init, LimiterTypes, RequestPlaces, NoKey, Counts
<1>2. InTime /\ RefusedForOwnWindow
  BY DEF Init, InTime, Waiting, At, RefusedForOwnWindow
<1>3. Padded /\ Counted
  BY Constants DEF Init, Padded, Counted, NoKey
<1>4. Paid
  <2>1. \A k \in Keys : Firsts(k) = {}
    BY DEF Init, Firsts, At
  <2>2. Limit * mishaps \in Nat
    BY Constants, OneMore DEF Init
  <2> SUFFICES ASSUME NEW k \in Keys
               PROVE  /\ IsFiniteSet(Firsts(k))
                      /\ passed[k] + Cardinality(Firsts(k)) <= Limit * mishaps + Limited(counter[k].n)
    BY DEF Paid
  <2>3. passed[k] = 0 /\ counter[k].n = 0 /\ Limited(0) = 0
    BY Constants DEF Init, NoKey, Limited
  <2>4. IsFiniteSet(Firsts(k)) /\ Cardinality(Firsts(k)) = 0
    BY <2>1, FS_EmptySet
  <2> QED BY <2>2, <2>3, <2>4
<1> QED BY <1>1, <1>2, <1>3, <1>4 DEF LimiterInv

\* A request that arrives is placed in the window of now.
LEMMA ArriveInv ==
  ASSUME RateLimiterAssumption, LimiterInv, NEW r \in Requests, NEW p \in Principals, Arrive(r, p) PROVE LimiterInv'
<1> DEFINE placed == [at |-> "keyed", by |-> p, window |-> clock \div Window, since |-> clock]
<1>1. /\ request' = [request EXCEPT ![r] = placed] /\ request[r].at = "new"
      /\ UNCHANGED <<clock, counter, incremented, passed, mishaps>>
  BY DEF Arrive, At
<1>2. clock \in Nat /\ clock \in 0 .. MaxTime
  BY Constants DEF LimiterInv, LimiterTypes
<1>3. placed \in PlacedRequest /\ placed.at = "keyed" /\ placed.window = clock \div Window /\ placed.since = clock
  BY <1>2, WindowOf DEF PlacedRequest
<1> HIDE DEF placed
<1>4. request'[r] = placed /\ \A q \in Requests \ {r} : request'[q] = request[q]
  BY <1>1 DEF LimiterInv, LimiterTypes
<1>5. LimiterTypes'
  BY <1>1, <1>3 DEF LimiterInv, LimiterTypes, RequestPlaces
<1>6. InTime'
  <2> SUFFICES ASSUME NEW q \in Requests, Waiting(q)'
               PROVE  /\ request'[q].window * Window <= request'[q].since
                      /\ request'[q].since < (request'[q].window + 1) * Window
                      /\ request'[q].since <= clock' /\ clock' <= request'[q].since + MaxDelay
    BY DEF InTime
  <2>1. CASE q = r
    <3> DEFINE w == clock \div Window
    <3>1. w * Window <= clock /\ clock < (w + 1) * Window
      BY <1>2, WindowOf
    <3>2. request'[q].window = w /\ request'[q].since = clock
      BY <1>3, <1>4, <2>1
    <3> HIDE DEF w
    <3> QED BY <1>1, <1>2, <3>1, <3>2, Constants
  <2>2. CASE q # r
    BY <1>1, <1>4, <2>2 DEF LimiterInv, InTime, Waiting, At
  <2> QED BY <2>1, <2>2
<1>7. \A k \in Keys : Firsts(k)' = Firsts(k)
  <2>1. ~At(r, "first") /\ ~At(r, "first")'
    BY <1>1, <1>3, <1>4 DEF At
  <2>2. \A q \in Requests \ {r} : Bucket(q)' = Bucket(q) /\ (At(q, "first")' <=> At(q, "first"))
    BY <1>4 DEF Bucket, At
  <2> QED BY <2>1, <2>2 DEF Firsts
<1>8. Padded' /\ Paid' /\ Counted'
  BY <1>1, <1>7 DEF LimiterInv, Padded, Paid, Counted, End
<1>9. RefusedForOwnWindow'
  BY <1>1, <1>3, <1>4 DEF LimiterInv, RefusedForOwnWindow, At, Bucket
<1> QED BY <1>5, <1>6, <1>8, <1>9 DEF LimiterInv

\* INCR pays for the request it lets through, and is not undone while the window lasts.
LEMMA IncrInv == ASSUME RateLimiterAssumption, LimiterInv, NEW r \in Requests, Incr(r) PROVE LimiterInv'
<1>0. At(r, "keyed") /\ Waiting(r)
  BY DEF Incr, Waiting
<1>k. PICK k \in Keys : k = Bucket(r)
  BY <1>0, WaitingIsPlaced DEF LimiterInv
<1> DEFINE n == counter[k].n + 1
<1>1. At(r, "keyed") /\ Waiting(r) /\ KeyOf(r) = k /\ Bucket(r) = k /\ clock < End(k)
  BY <1>0, <1>k, WaitingIsInside DEF LimiterInv, KeyOf
<1>2. /\ counter' = [counter EXCEPT ![k].n = n]
      /\ incremented' = [incremented EXCEPT ![k] = @ + 1]
      /\ UNCHANGED <<clock, mishaps>>
  BY <1>1 DEF Incr
<1>3. PICK place \in {"first", "passed", "refused"} :
        /\ Move(r, place)
        /\ place = "first" => n = 1 /\ passed' = passed
        /\ place = "passed" => n \in 2 .. Limit /\ passed' = [passed EXCEPT ![k] = @ + 1]
        /\ place = "refused" => n > Limit /\ passed' = passed
  BY <1>1 DEF Incr, Pass
<1>4. counter[k] \in Counts /\ counter[k].n \in Nat /\ n \in Nat
  BY <1>1 DEF LimiterInv, LimiterTypes, Counts
<1> HIDE DEF n
<1>5. /\ counter' \in [Keys -> Counts] /\ counter'[k].n = n /\ counter'[k].expires = counter[k].expires
      /\ \A j \in Keys \ {k} : counter'[j] = counter[j]
  BY <1>1, <1>2, <1>4 DEF LimiterInv, LimiterTypes, Counts
<1>6. /\ incremented' \in [Keys -> Nat] /\ incremented'[k] = incremented[k] + 1
      /\ \A j \in Keys \ {k} : incremented'[j] = incremented[j]
  BY <1>1, <1>2 DEF LimiterInv, LimiterTypes
<1>7. /\ passed' \in [Keys -> Nat] /\ passed'[k] = IF place = "passed" THEN passed[k] + 1 ELSE passed[k]
      /\ \A j \in Keys \ {k} : passed'[j] = passed[j]
  BY <1>1, <1>3 DEF LimiterInv, LimiterTypes
<1>8. /\ request' \in [Requests -> RequestPlaces] /\ request'[r].at = place /\ Bucket(r)' = k
      /\ \A q \in Requests \ {r} : request'[q] = request[q]
      /\ \A j \in Keys : Firsts(j)' = IF place = "first" /\ j = k THEN Firsts(j) \cup {r} ELSE Firsts(j) \ {r}
  BY <1>1, <1>3, Moved DEF LimiterInv, Bucket
<1>9. LimiterTypes' /\ InTime'
  BY <1>1, <1>2, <1>3, <1>5, <1>6, <1>7, <1>8, MovedInTime DEF LimiterInv, LimiterTypes
<1>10. Padded'
  BY <1>5 DEF LimiterInv, Padded, End
<1>11. Counted'
  BY <1>1, <1>4, <1>5, <1>6 DEF LimiterInv, Counted, n, LimiterTypes
<1>12. \A j \in Keys : Firsts(j)' = IF place = "first" /\ j = k THEN Firsts(j) \cup {r} ELSE Firsts(j)
  <2>1. \A j \in Keys : r \notin Firsts(j)
    BY <1>1 DEF Firsts, At
  <2> QED BY <1>8, <2>1
<1>13. Paid'
  <2>1. \A j \in Keys \ {k} :
          Firsts(j)' = Firsts(j) /\ counter'[j] = counter[j] /\ passed'[j] = passed[j] /\ End(j)' = End(j)
    BY <1>5, <1>7, <1>12 DEF End
  <2>2. /\ IsFiniteSet(Firsts(k)) /\ Cardinality(Firsts(k)) \in Nat
        /\ passed[k] + Cardinality(Firsts(k)) <= Limit * mishaps + Limited(n - 1)
    <3>1. IsFiniteSet(Firsts(k)) /\ n - 1 = counter[k].n /\ clock \in Nat /\ End(k) \in Nat
      BY <1>1, <1>4, Constants DEF LimiterInv, Paid, n, LimiterTypes
    <3>2. ~(End(k) <= clock)
      BY <1>1, <3>1
    <3> QED BY <1>1, <3>1, <3>2, FS_CardinalityType DEF LimiterInv, Paid
  <2>3. /\ IsFiniteSet(Firsts(k)') /\ Cardinality(Firsts(k)') \in Nat
        /\ Cardinality(Firsts(k)') = IF place = "first" THEN Cardinality(Firsts(k)) + 1 ELSE Cardinality(Firsts(k))
    <3>1. r \notin Firsts(k)
      BY <1>1 DEF Firsts, At
    <3>2. CASE place = "first"
      BY <1>1, <1>12, <2>2, <3>1, <3>2, FS_AddElement
    <3>3. CASE place # "first"
      BY <1>1, <1>12, <2>2, <3>3
    <3> QED BY <3>2, <3>3
  <2>4. passed'[k] + Cardinality(Firsts(k)') <= Limit * mishaps + Limited(n)
    <3>1. Limit * mishaps \in Nat /\ Limit \in Nat \ {0} /\ passed[k] \in Nat
      BY <1>1, Constants, OneMore DEF LimiterInv, LimiterTypes
    <3>2. Limited(n - 1) <= Limited(n) /\ Limited(n - 1) \in Nat /\ Limited(n) \in Nat
      BY <1>4, <3>1 DEF Limited, n
    <3>3. place # "refused" => Limited(n) = Limited(n - 1) + 1
      BY <1>3, <1>4, <3>1 DEF Limited
    <3> HIDE DEF Limited
    <3> QED BY <1>7, <2>2, <2>3, <3>1, <3>2, <3>3
  <2>5. k \in Keys => /\ IsFiniteSet(Firsts(k)')
                      /\ passed'[k] + Cardinality(Firsts(k)') <= Limit * mishaps' + Limited(counter'[k].n)
    BY <1>2, <1>5, <2>3, <2>4
  <2>6. ASSUME NEW j \in Keys \ {k}
        PROVE  /\ IsFiniteSet(Firsts(j)')
               /\ \/ passed'[j] + Cardinality(Firsts(j)') <= Limit * mishaps' + Limited(counter'[j].n)
                  \/ End(j)' <= clock' /\ passed'[j] + Cardinality(Firsts(j)') <= Limit * mishaps' + Limit
    BY <1>2, <2>1 DEF LimiterInv, Paid
  <2> QED BY <2>5, <2>6 DEF Paid, Limited, End
<1>14. RefusedForOwnWindow'
  <2>1. At(r, "refused")' => incremented'[Bucket(r)'] > Limit
    <3>1. At(r, "refused")' => n > Limit
      BY <1>3, <1>8 DEF At
    <3>2. n <= incremented'[k]
      BY <1>1, <1>4, <1>6 DEF LimiterInv, Counted, n, LimiterTypes
    <3> QED BY <1>1, <1>4, <1>6, <1>8, <3>1, <3>2, Constants
  <2>2. ASSUME NEW q \in Requests \ {r}, At(q, "refused")' PROVE incremented'[Bucket(q)'] > Limit
    <3>1. At(q, "refused") /\ Bucket(q)' = Bucket(q) /\ request[q] \in PlacedRequest
      BY <1>8, <2>2 DEF At, Bucket, LimiterInv, LimiterTypes, RequestPlaces
    <3>2. Bucket(q) \in Keys /\ incremented[Bucket(q)] > Limit
      BY <3>1 DEF PlacedRequest, Bucket, Keys, LimiterInv, RefusedForOwnWindow
    <3> QED BY <1>1, <1>6, <3>1, <3>2, Constants DEF LimiterInv, LimiterTypes
  <2> QED BY <2>1, <2>2 DEF RefusedForOwnWindow
<1> QED BY <1>9, <1>10, <1>11, <1>13, <1>14 DEF LimiterInv

\* What letting a waiting request through changes, with and without EXPIRE.
LEMMA PassedOn ==
  ASSUME RateLimiterAssumption, LimiterInv, NEW r \in Requests, Waiting(r), NEW k \in Keys, k = Bucket(r),
         Move(r, "passed"), Pass(r), UNCHANGED <<clock, incremented>>
  PROVE  /\ request' \in [Requests -> RequestPlaces] /\ passed' \in [Keys -> Nat]
         /\ passed'[k] = passed[k] + 1 /\ \A j \in Keys \ {k} : passed'[j] = passed[j]
         /\ \A j \in Keys : Firsts(j)' = Firsts(j) \ {r}
         /\ InTime' /\ RefusedForOwnWindow'
<1>1. /\ request' \in [Requests -> RequestPlaces] /\ request'[r].at = "passed"
      /\ \A q \in Requests \ {r} : request'[q] = request[q]
      /\ \A j \in Keys : Firsts(j)' = Firsts(j) \ {r}
  BY Moved DEF LimiterInv
<1>2. /\ passed' \in [Keys -> Nat]
      /\ passed'[k] = passed[k] + 1 /\ \A j \in Keys \ {k} : passed'[j] = passed[j]
  BY DEF LimiterInv, LimiterTypes, Pass
<1>3. InTime'
  BY MovedInTime DEF LimiterInv
<1>4. RefusedForOwnWindow'
  BY <1>1 DEF LimiterInv, RefusedForOwnWindow, At, Bucket
<1> QED BY <1>1, <1>2, <1>3, <1>4

\* A request let through on an error is paid for by the failure.
LEMMA FailOpenInv == ASSUME RateLimiterAssumption, LimiterInv, NEW r \in Requests, FailOpen(r) PROVE LimiterInv'
<1>1. /\ At(r, "keyed") /\ Waiting(r) /\ Move(r, "passed") /\ Pass(r)
      /\ mishaps' = mishaps + 1 /\ UNCHANGED <<clock, counter, incremented>>
  BY DEF FailOpen, Waiting, Mishap
<1>2. PICK k \in Keys : k = Bucket(r)
  BY <1>1, WaitingIsPlaced DEF LimiterInv
<1>3. /\ request' \in [Requests -> RequestPlaces] /\ passed' \in [Keys -> Nat]
      /\ passed'[k] = passed[k] + 1 /\ \A j \in Keys \ {k} : passed'[j] = passed[j]
      /\ \A j \in Keys : Firsts(j)' = Firsts(j) \ {r}
      /\ InTime' /\ RefusedForOwnWindow'
  BY <1>1, <1>2, PassedOn
<1>4. LimiterTypes'
  BY <1>1, <1>3 DEF LimiterInv, LimiterTypes
<1>5. Padded' /\ Counted'
  BY <1>1 DEF LimiterInv, Padded, Counted, End
<1>6. Paid'
  <2>1. \A j \in Keys : Firsts(j)' = Firsts(j)
    BY <1>1, <1>3 DEF Firsts, At
  <2>2. /\ Limit * mishaps \in Nat /\ Limit \in Nat \ {0}
        /\ Limit * mishaps' = Limit * mishaps + Limit
    BY <1>1, Constants, OneMore DEF LimiterInv, LimiterTypes
  <2> SUFFICES ASSUME NEW j \in Keys
               PROVE  /\ IsFiniteSet(Firsts(j))
                      /\ \/ passed'[j] + Cardinality(Firsts(j)) <= Limit * mishaps' + Limited(counter[j].n)
                         \/ End(j) <= clock /\ passed'[j] + Cardinality(Firsts(j)) <= Limit * mishaps' + Limit
    BY <1>1, <2>1 DEF Paid, Limited, End
  <2>3. /\ IsFiniteSet(Firsts(j)) /\ Cardinality(Firsts(j)) \in Nat /\ passed[j] \in Nat
        /\ counter[j].n \in Nat /\ Limited(counter[j].n) \in Nat
    BY FS_CardinalityType, Constants DEF LimiterInv, Paid, LimiterTypes, Counts, Limited
  <2>4. passed'[j] <= passed[j] + 1 /\ passed'[j] \in Nat
    BY <1>3, <2>3
  <2> QED BY <2>2, <2>3, <2>4 DEF LimiterInv, Paid
<1> QED BY <1>3, <1>4, <1>5, <1>6 DEF LimiterInv

\* EXPIRE keeps the key past the end of its window, or fails and leaves it as it is.
LEMMA ExpireInv == ASSUME RateLimiterAssumption, LimiterInv, NEW r \in Requests, Expire(r) PROVE LimiterInv'
<1>1. /\ At(r, "first") /\ Waiting(r) /\ Move(r, "passed") /\ Pass(r)
      /\ UNCHANGED <<clock, incremented>>
  BY DEF Expire, Waiting
<1>2. PICK k \in Keys : k = Bucket(r)
  BY <1>1, WaitingIsPlaced DEF LimiterInv
<1>3. /\ request' \in [Requests -> RequestPlaces] /\ passed' \in [Keys -> Nat]
      /\ passed'[k] = passed[k] + 1 /\ \A j \in Keys \ {k} : passed'[j] = passed[j]
      /\ \A j \in Keys : Firsts(j)' = Firsts(j) \ {r}
      /\ InTime' /\ RefusedForOwnWindow'
  BY <1>1, <1>2, PassedOn
<1>4. /\ counter' = counter \/ counter' = [counter EXCEPT ![k].expires = Expiry]
      /\ mishaps' \in Nat /\ mishaps' \in {mishaps, mishaps + 1}
  BY <1>2 DEF LimiterInv, LimiterTypes, Expire, KeyOf, Mishap
<1>5. Expiry \in Nat /\ End(k) <= Expiry /\ clock < End(k)
  <2>1. clock < End(k) /\ End(k) <= clock + Window + Padding /\ clock \in Nat
    BY <1>1, <1>2, WaitingIsInside, Constants DEF LimiterInv, LimiterTypes
  <2> QED BY <2>1, Constants DEF Expiry
<1>6. /\ counter' \in [Keys -> Counts] /\ \A j \in Keys : counter'[j].n = counter[j].n
      /\ \A j \in Keys : counter'[j].expires \in {counter[j].expires, Expiry}
      /\ \A j \in Keys \ {k} : counter'[j] = counter[j]
  <2>1. CASE counter' = counter
    BY <2>1 DEF LimiterInv, LimiterTypes
  <2>2. CASE counter' = [counter EXCEPT ![k].expires = Expiry]
    BY <1>5, <2>2 DEF LimiterInv, LimiterTypes, Counts
  <2> QED BY <1>4, <2>1, <2>2
<1>7. LimiterTypes' /\ Counted'
  BY <1>1, <1>3, <1>4, <1>6 DEF LimiterInv, LimiterTypes, Counted
<1>8. Padded'
  <2>1. \A j \in Keys : End(j)' = End(j)
    BY DEF End
  <2> QED BY <1>5, <1>6, <2>1 DEF LimiterInv, Padded
<1>9. Paid'
  <2>1. r \in Firsts(k) /\ \A j \in Keys \ {k} : r \notin Firsts(j)
    BY <1>1, <1>2 DEF Firsts
  <2>2. /\ Limit * mishaps \in Nat /\ Limit \in Nat \ {0}
        /\ Limit * mishaps <= Limit * mishaps' /\ Limit * mishaps' \in Nat
    BY <1>4, Constants, OneMore DEF LimiterInv, LimiterTypes
  <2> SUFFICES ASSUME NEW j \in Keys
               PROVE  /\ IsFiniteSet(Firsts(j) \ {r})
                      /\ \/ passed'[j] + Cardinality(Firsts(j) \ {r}) <= Limit * mishaps' + Limited(counter[j].n)
                         \/ /\ End(j) <= clock
                            /\ passed'[j] + Cardinality(Firsts(j) \ {r}) <= Limit * mishaps' + Limit
    BY <1>1, <1>3, <1>6 DEF Paid, Limited, End
  <2>3. /\ IsFiniteSet(Firsts(j)) /\ Cardinality(Firsts(j)) \in Nat /\ passed[j] \in Nat
        /\ counter[j].n \in Nat /\ Limited(counter[j].n) \in Nat
    BY FS_CardinalityType, Constants DEF LimiterInv, Paid, LimiterTypes, Counts, Limited
  <2>4. /\ IsFiniteSet(Firsts(j) \ {r}) /\ Cardinality(Firsts(j) \ {r}) \in Nat
        /\ passed'[j] + Cardinality(Firsts(j) \ {r}) = passed[j] + Cardinality(Firsts(j))
    <3>1. /\ IsFiniteSet(Firsts(j) \ {r})
          /\ Cardinality(Firsts(j) \ {r}) =
               IF r \in Firsts(j) THEN Cardinality(Firsts(j)) - 1 ELSE Cardinality(Firsts(j))
      BY <2>3, FS_RemoveElement
    <3>2. Cardinality(Firsts(j) \ {r}) \in Nat
      BY <3>1, FS_CardinalityType
    <3> QED BY <1>3, <2>1, <2>3, <3>1, <3>2
  <2> QED BY <2>2, <2>3, <2>4 DEF LimiterInv, Paid
<1> QED BY <1>3, <1>7, <1>8, <1>9 DEF LimiterInv

\* A crash loses the requests under way, which are let through nowhere.
LEMMA CrashInv == ASSUME RateLimiterAssumption, LimiterInv, Crash PROVE LimiterInv'
<1>1. /\ request' = [r \in Requests |-> IF Waiting(r) THEN [at |-> "lost"] ELSE request[r]]
      /\ mishaps' = mishaps + 1 /\ UNCHANGED <<clock, counter, incremented, passed>>
  BY DEF Crash, Mishap, Waiting
<1>2. \A r \in Requests : ~Waiting(r)' /\ (At(r, "refused")' => request'[r] = request[r])
  BY <1>1 DEF Waiting, At
<1>3. LimiterTypes'
  BY <1>1 DEF LimiterInv, LimiterTypes, RequestPlaces
<1>4. InTime' /\ RefusedForOwnWindow'
  BY <1>1, <1>2 DEF LimiterInv, InTime, RefusedForOwnWindow, At, Bucket
<1>5. Padded' /\ Counted'
  BY <1>1 DEF LimiterInv, Padded, Counted, End
<1>6. Paid'
  <2>1. \A j \in Keys : Firsts(j)' = {}
    BY <1>2 DEF Firsts, Waiting
  <2>2. /\ Limit * mishaps \in Nat /\ Limit \in Nat \ {0}
        /\ Limit * mishaps' = Limit * mishaps + Limit
    BY <1>1, Constants, OneMore DEF LimiterInv, LimiterTypes
  <2> SUFFICES ASSUME NEW j \in Keys
               PROVE  passed[j] <= Limit * mishaps' + Limited(counter[j].n)
    <3>1. \A j \in Keys : passed[j] \in Nat /\ passed[j] + 0 = passed[j]
      BY DEF LimiterInv, LimiterTypes
    <3> QED BY <1>1, <2>1, <3>1, FS_EmptySet DEF Paid, Limited
  <2>3. /\ IsFiniteSet(Firsts(j)) /\ Cardinality(Firsts(j)) \in Nat /\ passed[j] \in Nat
        /\ counter[j].n \in Nat /\ Limited(counter[j].n) \in Nat
    BY FS_CardinalityType, Constants DEF LimiterInv, Paid, LimiterTypes, Counts, Limited
  <2> QED BY <2>2, <2>3 DEF LimiterInv, Paid
<1> QED BY <1>3, <1>4, <1>5, <1>6 DEF LimiterInv

\* Counts lost in a restart are paid for by the failure.
LEMMA RedisRestartsInv == ASSUME RateLimiterAssumption, LimiterInv, RedisRestarts PROVE LimiterInv'
<1>1. /\ counter' = [k \in Keys |-> NoKey]
      /\ mishaps' = mishaps + 1 /\ UNCHANGED <<clock, request, incremented, passed>>
  BY DEF RedisRestarts, Mishap
<1>2. LimiterTypes'
  BY <1>1 DEF LimiterInv, LimiterTypes, Counts, NoKey
<1>3. InTime' /\ RefusedForOwnWindow'
  BY <1>1 DEF LimiterInv, InTime, Waiting, RefusedForOwnWindow, At, Bucket
<1>4. Padded' /\ Counted'
  BY <1>1, Constants DEF LimiterInv, LimiterTypes, Padded, Counted, NoKey
<1>5. Paid'
  <2>1. \A j \in Keys : Firsts(j)' = Firsts(j)
    BY <1>1 DEF Firsts, At, Bucket
  <2>2. /\ Limit * mishaps \in Nat /\ Limit \in Nat \ {0}
        /\ Limit * mishaps' = Limit * mishaps + Limit
    BY <1>1, Constants, OneMore DEF LimiterInv, LimiterTypes
  <2> SUFFICES ASSUME NEW j \in Keys
               PROVE  /\ IsFiniteSet(Firsts(j))
                      /\ passed[j] + Cardinality(Firsts(j)) <= Limit * mishaps' + Limited(0)
    BY <1>1, <2>1 DEF Paid, Limited, NoKey
  <2>3. /\ IsFiniteSet(Firsts(j)) /\ Cardinality(Firsts(j)) \in Nat /\ passed[j] \in Nat
        /\ Limited(counter[j].n) \in Nat /\ Limited(counter[j].n) <= Limit /\ Limited(0) = 0
    BY FS_CardinalityType, Constants DEF LimiterInv, Paid, LimiterTypes, Counts, Limited
  <2> QED BY <2>2, <2>3 DEF LimiterInv, Paid
<1> QED BY <1>2, <1>3, <1>4, <1>5 DEF LimiterInv

\* A key that expires is of a window that is over.
LEMMA TickInv == ASSUME RateLimiterAssumption, LimiterInv, Tick PROVE LimiterInv'
<1>1. /\ clock \in Nat /\ clock' = clock + 1 /\ clock' \in 0 .. MaxTime
      /\ UNCHANGED <<request, incremented, passed, mishaps>>
  BY Constants DEF LimiterInv, LimiterTypes, Tick
<1>2. ASSUME NEW k \in Keys
      PROVE  \/ counter'[k] = counter[k]
             \/ counter'[k] = NoKey /\ counter[k].expires \in Nat /\ counter[k].expires <= clock'
  BY <1>1 DEF Tick
<1>3. LimiterTypes'
  <2>1. counter' \in [Keys -> Counts]
    BY DEF LimiterInv, LimiterTypes, Tick, NoKey, Counts
  <2> QED BY <1>1, <2>1 DEF LimiterInv, LimiterTypes
<1>4. InTime'
  <2>1. \A r \in Requests : (Waiting(r)' <=> Waiting(r)) /\ request'[r] = request[r]
    BY <1>1 DEF Waiting, At
  <2>2. \A r \in Requests : Waiting(r) => request[r].since \in Nat /\ clock < request[r].since + MaxDelay
    BY WaitingIsPlaced DEF LimiterInv, Tick, Waiting
  <2> QED BY <1>1, <2>1, <2>2, Constants DEF LimiterInv, InTime
<1>5. RefusedForOwnWindow'
  BY <1>1 DEF LimiterInv, RefusedForOwnWindow, At, Bucket
<1>6. Padded' /\ Counted'
  BY <1>1, <1>2, Constants DEF LimiterInv, LimiterTypes, Padded, Counted, NoKey, End
<1>7. Paid'
  <2>1. \A j \in Keys : Firsts(j)' = Firsts(j)
    BY <1>1 DEF Firsts, At, Bucket
  <2>2. Limit * mishaps \in Nat /\ Limit \in Nat \ {0}
    BY Constants, OneMore DEF LimiterInv, LimiterTypes
  <2> SUFFICES ASSUME NEW j \in Keys
               PROVE  /\ IsFiniteSet(Firsts(j))
                      /\ \/ passed[j] + Cardinality(Firsts(j)) <= Limit * mishaps + Limited(counter'[j].n)
                         \/ End(j) <= clock' /\ passed[j] + Cardinality(Firsts(j)) <= Limit * mishaps + Limit
    BY <1>1, <2>1 DEF Paid, Limited, End
  <2>3. /\ IsFiniteSet(Firsts(j)) /\ Cardinality(Firsts(j)) \in Nat /\ passed[j] \in Nat
        /\ Limited(counter[j].n) \in Nat /\ Limited(counter[j].n) <= Limit /\ End(j) \in Nat
    BY FS_CardinalityType, Constants DEF LimiterInv, Paid, LimiterTypes, Counts, Limited
  <2>4. CASE counter'[j] = counter[j]
    BY <1>1, <2>3, <2>4 DEF LimiterInv, Paid
  <2>5. CASE counter[j].expires \in Nat /\ counter[j].expires <= clock'
    <3>1. End(j) <= clock'
      BY <1>1, <2>3, <2>5 DEF LimiterInv, Padded
    <3> QED BY <2>2, <2>3, <3>1 DEF LimiterInv, Paid
  <2> QED BY <1>2, <2>4, <2>5
<1> QED BY <1>3, <1>4, <1>5, <1>6, <1>7 DEF LimiterInv

---------------------------------------------------------------------------
\* The inductive invariant.
THEOREM LimiterInvariant == ASSUME RateLimiterAssumption PROVE Spec => []LimiterInv
<1>1. Init => LimiterInv
  BY LimiterStart
<1>2. LimiterInv /\ [Next]_limiterVars => LimiterInv'
  <2> SUFFICES ASSUME LimiterInv, [Next]_limiterVars PROVE LimiterInv'
    OBVIOUS
  <2>1. CASE Next
    BY <2>1, ArriveInv, IncrInv, FailOpenInv, ExpireInv, CrashInv, RedisRestartsInv, TickInv DEF Next
  <2>2. CASE UNCHANGED limiterVars
    BY <2>2 DEF limiterVars, LimiterInv, LimiterTypes, InTime, Waiting, At, Padded, Paid, Firsts, Bucket, End,
                Limited, Counted, RefusedForOwnWindow
  <2> QED BY <2>1, <2>2
<1> QED BY <1>1, <1>2, PTL DEF Spec

\* No more than the limit of one window is let through, plus as much for each failure, for
\* any limit, window and number of requests (ratelimit.go).
THEOREM LimitIsKept == ASSUME RateLimiterAssumption PROVE Spec => []LimitHolds
<1>1. LimiterInv => LimitHolds
  <2> SUFFICES ASSUME LimiterInv, NEW k \in Keys PROVE passed[k] <= Limit * (1 + mishaps)
    BY DEF LimitHolds
  <2>1. /\ Limit * mishaps \in Nat /\ Limit \in Nat \ {0}
        /\ Limit * (1 + mishaps) = Limit * mishaps + Limit
    BY Constants, OneMore DEF LimiterInv, LimiterTypes
  <2>2. /\ IsFiniteSet(Firsts(k)) /\ Cardinality(Firsts(k)) \in Nat /\ passed[k] \in Nat
        /\ Limited(counter[k].n) \in Nat /\ Limited(counter[k].n) <= Limit
    BY FS_CardinalityType, Constants DEF LimiterInv, Paid, LimiterTypes, Counts, Limited
  <2> QED BY <2>1, <2>2 DEF LimiterInv, Paid
<1> QED BY <1>1, LimiterInvariant, PTL

\* Nobody is refused for the requests of others or of other windows (ratelimit.go).
THEOREM RefusalsAreOwn == ASSUME RateLimiterAssumption PROVE Spec => []RefusedForOwnWindow
<1>1. LimiterInv => RefusedForOwnWindow
  BY DEF LimiterInv
<1> QED BY <1>1, LimiterInvariant, PTL

-----------------------------------------------------------------------------
(***************************************************************************)
(* Tokens, for any set of tokens, requests and revocations.  What is       *)
(* claimed is not inductive: a lookup is before what is still to end only  *)
(* because its time is over.                                               *)
(***************************************************************************)
Stamp == Nat \cup {NoTime}
Rows == [created : Stamp, revoked : Stamp, used : Stamp]
Creation == [began : Nat, ended : Stamp]
Revocation == [token : Raws, began : Nat, ended : Stamp]
Authenticated ==
  [at : {"handled", "touching", "touched", "unauthorized"}, token : Raws, since : Nat, stamp : Stamp]

TokensTypes ==
  /\ time \in Nat
  /\ row \in [Raws -> Rows]
  /\ creation \in [Raws -> {NotBegun} \cup Creation]
  /\ revocation \in [Revokers -> {NotBegun} \cup Revocation]
  /\ call \in [Callers -> [at : {"new"}] \cup Authenticated]

\* What was looked up or has ended, was so before now.
InThePast ==
  /\ \A r \in Callers : call[r].at # "new" => call[r].since < time
  /\ \A t \in Raws : IsOver(creation[t]) => creation[t].ended < time
  /\ \A v \in Revokers : IsOver(revocation[v]) => revocation[v].ended < time

TokensInv == TokensTypes /\ InThePast /\ RevocationBinds

\* A request that is past the middleware has its token and the time of its lookup.
LEMMA PastTheMiddleware ==
  ASSUME TokensTypes, NEW r \in Callers, call[r].at # "new"
  PROVE  call[r] \in Authenticated /\ call[r].token \in Raws /\ call[r].since \in Nat
BY DEF TokensTypes, Authenticated

\* Nothing has begun and no row exists.
LEMMA TokensStart == ASSUME TokensAssumption, TokensInit PROVE TokensInv
<1>1. TokensTypes /\ InThePast /\ LetInIfActive
  BY DEF TokensAssumption, TokensInit, TokensTypes, InThePast, LetInIfActive, IsOver, NoRow, NotBegun, Rows, Stamp
<1>2. StampsTell
  BY DEF TokensInit, StampsTell, IsOver, NoRow, NotBegun
<1> QED BY <1>1, <1>2 DEF TokensInv, RevocationBinds

\* The database's clock moves with each beginning and each end.
LEMMA ClockMoves == ASSUME TokensTypes, Clock PROVE time \in Nat /\ time' \in Nat /\ time < time'
BY DEF TokensTypes, Clock

\* What began was not begun, and has its time.
LEMMA BegunHasTimes ==
  ASSUME TokensAssumption, TokensTypes
  PROVE  /\ \A t \in Raws : creation[t].began # NoTime => creation[t] \in Creation
         /\ \A t \in Raws : IsOver(creation[t]) => creation[t] \in Creation /\ creation[t].began \in Nat
         /\ \A v \in Revokers : revocation[v].began # NoTime => revocation[v] \in Revocation
         /\ \A v \in Revokers : IsOver(revocation[v]) => revocation[v] \in Revocation /\ revocation[v].began \in Nat
BY DEF TokensAssumption, TokensTypes, Creation, Revocation, NotBegun, IsOver, Stamp

\* What ends now ends after every lookup: to those that were answered nothing has changed.
LEMMA LookupsKeep ==
  ASSUME TokensInv, time \in Nat,
         \A r \in Callers :
           /\ call'[r].at # "new" <=> call[r].at # "new"
           /\ call[r].at # "new" =>
                /\ call'[r].at # "unauthorized" <=> call[r].at # "unauthorized"
                /\ call'[r].token = call[r].token /\ call'[r].since = call[r].since,
         \A t \in Raws : \/ creation'[t] = creation[t]
                         \/ ~IsOver(creation[t]) /\ creation'[t].ended \in {NoTime, time},
         \A v \in Revokers : \/ revocation'[v] = revocation[v]
                             \/ ~IsOver(revocation[v]) /\ revocation'[v].ended \in {NoTime, time}
  PROVE  LetInIfActive'
<1> SUFFICES ASSUME NEW r \in Callers, call'[r].at # "new"
             PROVE  call'[r].at # "unauthorized" <=>
                      /\ IsOverBefore(creation'[call'[r].token], call'[r].since)
                      /\ \A v \in Revokers :
                           IsOver(revocation'[v]) /\ revocation'[v].token = call'[r].token
                             => ~IsOverBefore(revocation'[v], call'[r].since)
  BY DEF LetInIfActive, IsOver, IsOverBefore
<1> DEFINE t == call[r].token
           since == call[r].since
<1>1. /\ call[r].at # "new" /\ call'[r].token = t /\ call'[r].since = since
      /\ call'[r].at # "unauthorized" <=> call[r].at # "unauthorized"
  OBVIOUS
<1>2. t \in Raws /\ since \in Nat /\ since < time
  BY <1>1, PastTheMiddleware DEF TokensInv, InThePast
<1>3. IsOverBefore(creation'[t], since) <=> IsOverBefore(creation[t], since)
  BY <1>2 DEF IsOver, IsOverBefore
<1>4. ASSUME NEW v \in Revokers
      PROVE  (IsOver(revocation'[v]) /\ revocation'[v].token = t => ~IsOverBefore(revocation'[v], since))
               <=> (IsOver(revocation[v]) /\ revocation[v].token = t => ~IsOverBefore(revocation[v], since))
  BY <1>2 DEF IsOver, IsOverBefore
<1>5. call[r].at # "unauthorized" <=>
        /\ IsOverBefore(creation[t], since)
        /\ \A v \in Revokers :
             IsOver(revocation[v]) /\ revocation[v].token = t => ~IsOverBefore(revocation[v], since)
  BY <1>1 DEF TokensInv, RevocationBinds, LetInIfActive
<1> HIDE DEF t, since
<1> QED BY <1>1, <1>3, <1>4, <1>5

\* A creation that begins shows nothing yet.
LEMMA BeginCreateInv ==
  ASSUME TokensAssumption, TokensInv, NEW t \in Raws, BeginCreate(t) PROVE TokensInv'
<1>1. time \in Nat /\ time' \in Nat /\ time < time'
  BY ClockMoves DEF TokensInv, BeginCreate
<1>2. /\ row' = row /\ revocation' = revocation /\ call' = call
      /\ creation[t] = NotBegun /\ creation' = [creation EXCEPT ![t].began = time]
  BY DEF BeginCreate
<1>3. /\ creation'[t] = [began |-> time, ended |-> NoTime]
      /\ \A u \in Raws \ {t} : creation'[u] = creation[u]
  BY <1>2 DEF TokensInv, TokensTypes, NotBegun
<1>4. \A u \in Raws : \/ creation'[u] = creation[u]
                      \/ ~IsOver(creation[u]) /\ creation'[u].ended = NoTime
  BY <1>2, <1>3 DEF IsOver, NotBegun
<1>5. TokensTypes'
  <2>1. creation' \in [Raws -> {NotBegun} \cup Creation]
    BY <1>1, <1>2 DEF TokensInv, TokensTypes, NotBegun, Creation, Stamp
  <2> QED BY <1>1, <1>2, <2>1 DEF TokensInv, TokensTypes
<1>6. InThePast'
  BY <1>1, <1>2, <1>4, PastTheMiddleware, BegunHasTimes DEF TokensInv, InThePast, IsOver, Stamp, Creation, Revocation
<1>7. LetInIfActive'
  BY <1>1, <1>2, <1>4, LookupsKeep
<1>8. StampsTell'
  <2>1. \A u \in Raws : /\ IsOver(creation'[u]) <=> IsOver(creation[u])
                        /\ IsOver(creation[u]) => creation'[u] = creation[u]
    BY <1>4 DEF IsOver
  <2>2. \A u \in Raws : row[u].created = IF IsOver(creation[u]) THEN creation[u].began ELSE NoTime
    BY DEF TokensInv, RevocationBinds, StampsTell
  <2>3. \A u \in Raws : row'[u].created = IF IsOver(creation'[u]) THEN creation'[u].began ELSE NoTime
    BY <1>2, <2>1, <2>2
  <2> QED BY <1>2, <2>3 DEF TokensInv, RevocationBinds, StampsTell, IsOver
<1> QED BY <1>5, <1>6, <1>7, <1>8 DEF TokensInv, RevocationBinds

\* A token that is there from now on was not there for the requests already answered.
LEMMA CreateInv ==
  ASSUME TokensAssumption, TokensInv, NEW t \in Raws, CreateToken(t) PROVE TokensInv'
<1>1. time \in Nat /\ time' \in Nat /\ time < time'
  BY ClockMoves DEF TokensInv, CreateToken
<1>2. /\ row' = [row EXCEPT ![t].created = creation[t].began] /\ revocation' = revocation /\ call' = call
      /\ creation[t].began # NoTime /\ ~IsOver(creation[t]) /\ creation' = [creation EXCEPT ![t].ended = time]
  BY DEF CreateToken, IsUnderWay, IsOver
<1>3. /\ creation[t] \in Creation
      /\ creation'[t] = [began |-> creation[t].began, ended |-> time]
      /\ \A u \in Raws \ {t} : creation'[u] = creation[u]
  BY <1>2, BegunHasTimes DEF TokensInv, TokensTypes, Creation
<1>4. /\ row' \in [Raws -> Rows]
      /\ row'[t].created = creation[t].began
      /\ \A u \in Raws \ {t} : row'[u].created = row[u].created
      /\ \A u \in Raws : row'[u].revoked = row[u].revoked
  BY <1>2, <1>3 DEF TokensInv, TokensTypes, Rows, Creation, Stamp
<1>5. TokensTypes'
  <2>1. creation' \in [Raws -> {NotBegun} \cup Creation]
    BY <1>1, <1>2, <1>3 DEF TokensInv, TokensTypes, Creation, Stamp
  <2> QED BY <1>1, <1>2, <1>4, <2>1 DEF TokensInv, TokensTypes
<1>6. \A u \in Raws : \/ creation'[u] = creation[u]
                      \/ ~IsOver(creation[u]) /\ creation'[u].ended = time
  BY <1>2, <1>3
<1>7. InThePast'
  BY <1>1, <1>2, <1>6, PastTheMiddleware, BegunHasTimes DEF TokensInv, InThePast, IsOver, Stamp, Creation, Revocation
<1>8. LetInIfActive'
  BY <1>1, <1>2, <1>6, LookupsKeep
<1>9. StampsTell'
  <2>1. IsOver(creation'[t])
    BY <1>1, <1>3 DEF IsOver, TokensAssumption
  <2> QED BY <1>2, <1>3, <1>4, <2>1 DEF TokensInv, RevocationBinds, StampsTell, IsOver
<1> QED BY <1>5, <1>7, <1>8, <1>9 DEF TokensInv, RevocationBinds

\* A lookup is answered from the row as it is committed by now.
LEMMA MiddlewareInv ==
  ASSUME TokensAssumption, TokensInv, NEW r \in Callers, NEW t \in Raws, BearerMiddleware(r, t) PROVE TokensInv'
<1>1. time \in Nat /\ time' \in Nat /\ time < time'
  BY ClockMoves DEF TokensInv, BearerMiddleware
<1> DEFINE answer == [at |-> IF IsActive(t) THEN "handled" ELSE "unauthorized",
                      token |-> t, since |-> time, stamp |-> NoTime]
<1>2. call' = [call EXCEPT ![r] = answer] /\ row' = row /\ creation' = creation /\ revocation' = revocation
  BY DEF BearerMiddleware
<1>3. answer \in Authenticated
  BY <1>1 DEF Authenticated, Stamp
<1>4. /\ answer.token = t /\ answer.since = time
      /\ answer.at # "unauthorized" <=> (row[t].created # NoTime /\ row[t].revoked = NoTime)
  BY DEF answer, IsActive, Exists
<1> HIDE DEF answer
<1>5. call'[r] = answer /\ \A q \in Callers \ {r} : call'[q] = call[q]
  BY <1>2 DEF TokensInv, TokensTypes
<1>6. TokensTypes'
  BY <1>1, <1>2, <1>3 DEF TokensInv, TokensTypes
<1>7. InThePast'
  <2>1. ASSUME NEW q \in Callers, call'[q].at # "new" PROVE call'[q].since < time'
    <3>1. CASE q = r
      BY <1>1, <1>4, <1>5, <3>1
    <3>2. CASE q # r
      BY <1>1, <1>5, <2>1, <3>2, PastTheMiddleware DEF TokensInv, InThePast
    <3> QED BY <3>1, <3>2
  <2> QED BY <1>1, <1>2, <2>1, BegunHasTimes DEF TokensInv, InThePast, IsOver, Stamp, Creation, Revocation
<1>8. LetInIfActive'
  <2>1. row[t].created # NoTime <=> IsOverBefore(creation[t], time)
    BY BegunHasTimes DEF TokensInv, InThePast, RevocationBinds, StampsTell, IsOver, IsOverBefore, TokensAssumption
  <2>2. row[t].revoked = NoTime <=> ~\E v \in Revokers : IsOver(revocation[v]) /\ revocation[v].token = t
    BY BegunHasTimes DEF TokensInv, RevocationBinds, StampsTell, TokensAssumption
  <2>3. \A v \in Revokers : IsOver(revocation[v]) => IsOverBefore(revocation[v], time)
    BY DEF TokensInv, InThePast, IsOverBefore
  <2>4. ASSUME NEW q \in Callers, call'[q].at # "new"
        PROVE  call'[q].at # "unauthorized" <=>
                 /\ IsOverBefore(creation[call'[q].token], call'[q].since)
                 /\ \A v \in Revokers :
                      IsOver(revocation[v]) /\ revocation[v].token = call'[q].token
                        => ~IsOverBefore(revocation[v], call'[q].since)
    <3>1. CASE q = r
      BY <1>4, <1>5, <2>1, <2>2, <2>3, <3>1
    <3>2. CASE q # r
      BY <1>5, <2>4, <3>2 DEF TokensInv, RevocationBinds, LetInIfActive
    <3> QED BY <3>1, <3>2
  <2> QED BY <1>2, <2>4 DEF LetInIfActive
<1>9. StampsTell'
  BY <1>2 DEF TokensInv, RevocationBinds, StampsTell
<1> QED BY <1>6, <1>7, <1>8, <1>9 DEF TokensInv, RevocationBinds

\* Stamping the last use, its beginning and its end, touches nothing a lookup depends on.
LEMMA TouchKeeps ==
  ASSUME TokensAssumption, TokensInv, NEW r \in Callers, Clock, call[r].at \in {"handled", "touching"},
         call'[r] \in Authenticated, call'[r].at \in {"touching", "touched"},
         call'[r].token = call[r].token, call'[r].since = call[r].since,
         call' = [call EXCEPT ![r] = call'[r]],
         row' \in [Raws -> Rows],
         \A u \in Raws : row'[u].created = row[u].created /\ row'[u].revoked = row[u].revoked,
         creation' = creation, revocation' = revocation
  PROVE  TokensInv'
<1>1. time \in Nat /\ time' \in Nat /\ time < time'
  BY ClockMoves DEF TokensInv
<1>2. \A q \in Callers \ {r} : call'[q] = call[q]
  BY DEF TokensInv, TokensTypes
<1>3. TokensTypes'
  BY <1>1 DEF TokensInv, TokensTypes
<1>4. \A q \in Callers :
        /\ call'[q].at # "new" <=> call[q].at # "new"
        /\ call[q].at # "new" => /\ call'[q].at # "unauthorized" <=> call[q].at # "unauthorized"
                                 /\ call'[q].token = call[q].token /\ call'[q].since = call[q].since
  BY <1>2
<1>5. InThePast'
  BY <1>1, <1>4, PastTheMiddleware, BegunHasTimes DEF TokensInv, InThePast, IsOver, Stamp, Creation, Revocation
<1>6. LetInIfActive'
  BY <1>1, <1>4, LookupsKeep
<1>7. StampsTell'
  BY DEF TokensInv, RevocationBinds, StampsTell
<1> QED BY <1>3, <1>5, <1>6, <1>7 DEF TokensInv, RevocationBinds

\* The stamp is taken; the row is as it was.
LEMMA BeginTouchInv ==
  ASSUME TokensAssumption, TokensInv, NEW r \in Callers, BeginTouch(r) PROVE TokensInv'
<1>1. time \in Nat
  BY DEF TokensInv, TokensTypes
<1>2. /\ Clock /\ call[r].at = "handled" /\ row' = row /\ creation' = creation /\ revocation' = revocation
      /\ call' = [call EXCEPT ![r] = [call[r] EXCEPT !.at = "touching", !.stamp = time]]
  BY DEF BeginTouch, TokensInv, TokensTypes
<1>3. call[r] \in Authenticated
  BY <1>2, PastTheMiddleware DEF TokensInv
<1>4. call'[r] = [call[r] EXCEPT !.at = "touching", !.stamp = time]
  BY <1>2 DEF TokensInv, TokensTypes
<1>5. /\ call'[r] \in Authenticated /\ call'[r].at = "touching"
      /\ call'[r].token = call[r].token /\ call'[r].since = call[r].since
  BY <1>1, <1>3, <1>4 DEF Authenticated, Stamp
<1>6. row' \in [Raws -> Rows]
  BY <1>2 DEF TokensInv, TokensTypes
<1> QED BY <1>2, <1>4, <1>5, <1>6, TouchKeeps

\* One column is set in the row as it is.
LEMMA TouchInv ==
  ASSUME TokensAssumption, TokensInv, NEW r \in Callers, TouchLastUsed(r) PROVE TokensInv'
<1>1. /\ Clock /\ call[r].at = "touching" /\ creation' = creation /\ revocation' = revocation
      /\ row' = [row EXCEPT ![call[r].token] = Touched(r)]
      /\ call' = [call EXCEPT ![r] = [call[r] EXCEPT !.at = "touched"]]
  BY DEF TouchLastUsed, TokensInv, TokensTypes
<1>2. call[r] \in Authenticated /\ call[r].token \in Raws
  BY <1>1, PastTheMiddleware DEF TokensInv
<1>3. call'[r] = [call[r] EXCEPT !.at = "touched"]
  BY <1>1 DEF TokensInv, TokensTypes
<1>4. /\ call'[r] \in Authenticated /\ call'[r].at = "touched"
      /\ call'[r].token = call[r].token /\ call'[r].since = call[r].since
  BY <1>2, <1>3 DEF Authenticated
<1>5. Touched(r) \in Rows /\ Touched(r).created = row[call[r].token].created
                          /\ Touched(r).revoked = row[call[r].token].revoked
  BY <1>2 DEF TokensInv, TokensTypes, Touched, Rows, Authenticated
<1>6. /\ row' \in [Raws -> Rows]
      /\ \A u \in Raws : row'[u].created = row[u].created /\ row'[u].revoked = row[u].revoked
  BY <1>1, <1>2, <1>5 DEF TokensInv, TokensTypes
<1> QED BY <1>1, <1>3, <1>4, <1>6, TouchKeeps

\* A revocation that begins is of a token that exists, and shows nothing yet.
LEMMA BeginRevokeInv ==
  ASSUME TokensAssumption, TokensInv, NEW v \in Revokers, NEW matching \in SUBSET Raws, BeginRevoke(v, matching)
  PROVE  TokensInv'
<1>1. time \in Nat /\ time' \in Nat /\ time < time'
  BY ClockMoves DEF TokensInv, BeginRevoke
<1>2. PICK t \in Raws : revocation' = [revocation EXCEPT ![v] = [token |-> t, began |-> time, ended |-> NoTime]]
  BY DEF BeginRevoke
<1>3. row' = row /\ creation' = creation /\ call' = call /\ revocation[v] = NotBegun
  BY DEF BeginRevoke
<1>4. /\ revocation'[v] = [token |-> t, began |-> time, ended |-> NoTime]
      /\ \A w \in Revokers \ {v} : revocation'[w] = revocation[w]
  BY <1>2 DEF TokensInv, TokensTypes
<1>5. \A w \in Revokers : \/ revocation'[w] = revocation[w]
                          \/ ~IsOver(revocation[w]) /\ ~IsOver(revocation'[w]) /\ revocation'[w].ended = NoTime
  BY <1>3, <1>4 DEF IsOver, NotBegun
<1>6. TokensTypes'
  <2>1. [token |-> t, began |-> time, ended |-> NoTime] \in Revocation
    BY <1>1 DEF Revocation, Stamp
  <2> QED BY <1>1, <1>2, <1>3, <2>1 DEF TokensInv, TokensTypes
<1>7. InThePast'
  BY <1>1, <1>3, <1>5, PastTheMiddleware, BegunHasTimes DEF TokensInv, InThePast, IsOver, Stamp, Creation, Revocation
<1>8. LetInIfActive'
  BY <1>1, <1>3, <1>5, LookupsKeep
<1>9. StampsTell'
  <2>1. \A u \in Raws :
          {w \in Revokers : IsOver(revocation'[w]) /\ revocation'[w].token = u}
            = {w \in Revokers : IsOver(revocation[w]) /\ revocation[w].token = u}
    BY <1>5
  <2>2. \A w \in Revokers : IsOver(revocation[w]) => revocation'[w] = revocation[w]
    BY <1>5
  <2> QED BY <1>3, <2>1, <2>2 DEF TokensInv, RevocationBinds, StampsTell, IsOver
<1> QED BY <1>6, <1>7, <1>8, <1>9 DEF TokensInv, RevocationBinds

\* A revocation ends after every lookup that let a request in; the first stamp stays.
LEMMA RevokeInv ==
  ASSUME TokensAssumption, TokensInv, NEW v \in Revokers, RevokeToken(v) PROVE TokensInv'
<1> DEFINE t == revocation[v].token
<1>1. time \in Nat /\ time' \in Nat /\ time < time'
  BY ClockMoves DEF TokensInv, RevokeToken
<1>2. /\ row' = [row EXCEPT ![t].revoked = FirstStamp(v)] /\ creation' = creation /\ call' = call
      /\ revocation[v].began # NoTime /\ ~IsOver(revocation[v])
      /\ revocation' = [revocation EXCEPT ![v].ended = time]
  BY DEF RevokeToken, IsUnderWay, IsOver
<1>3. revocation[v] \in Revocation /\ t \in Raws /\ revocation[v].began \in Nat
  BY <1>2, BegunHasTimes DEF TokensInv, Revocation
<1>4. /\ revocation'[v] = [token |-> t, began |-> revocation[v].began, ended |-> time]
      /\ \A w \in Revokers \ {v} : revocation'[w] = revocation[w]
  BY <1>2, <1>3 DEF TokensInv, TokensTypes, Revocation
<1>5. IsOver(revocation'[v])
  BY <1>1, <1>4 DEF IsOver, TokensAssumption
<1>6. \A w \in Revokers : \/ revocation'[w] = revocation[w]
                          \/ ~IsOver(revocation[w]) /\ revocation'[w].ended = time
  BY <1>2, <1>4
<1>7. FirstStamp(v) = IF row[t].revoked = NoTime THEN revocation[v].began ELSE row[t].revoked
  BY DEF FirstStamp
<1> HIDE DEF t
<1>8. /\ row' \in [Raws -> Rows]
      /\ row'[t].revoked = IF row[t].revoked = NoTime THEN revocation[v].began ELSE row[t].revoked
      /\ \A u \in Raws : /\ row'[u].created = row[u].created
                         /\ u # t => row'[u].revoked = row[u].revoked
  BY <1>2, <1>3, <1>7 DEF TokensInv, TokensTypes, Rows, Stamp
<1>9. TokensTypes'
  <2>1. [token |-> t, began |-> revocation[v].began, ended |-> time] \in Revocation
    BY <1>1, <1>3 DEF Revocation, Stamp
  <2>2. revocation' = [revocation EXCEPT ![v] = [token |-> t, began |-> revocation[v].began, ended |-> time]]
    BY <1>2, <1>4 DEF TokensInv, TokensTypes
  <2>3. revocation' \in [Revokers -> {NotBegun} \cup Revocation]
    BY <2>1, <2>2 DEF TokensInv, TokensTypes
  <2> QED BY <1>1, <1>2, <1>8, <2>3 DEF TokensInv, TokensTypes
<1>10. InThePast'
  BY <1>1, <1>2, <1>6, PastTheMiddleware, BegunHasTimes DEF TokensInv, InThePast, IsOver, Stamp, Creation, Revocation
<1>11. LetInIfActive'
  BY <1>1, <1>2, <1>6, LookupsKeep
<1>12. StampsTell'
  <2> SUFFICES ASSUME NEW u \in Raws
               PROVE  /\ row'[u].created = IF IsOver(creation[u]) THEN creation[u].began ELSE NoTime
                      /\ LET over == {w \in Revokers : IsOver(revocation'[w]) /\ revocation'[w].token = u}
                         IN  IF over = {} THEN row'[u].revoked = NoTime
                             ELSE \E w \in over : row'[u].revoked = revocation'[w].began
    BY <1>2 DEF StampsTell, IsOver
  <2> DEFINE was == {w \in Revokers : IsOver(revocation[w]) /\ revocation[w].token = u}
             over == {w \in Revokers : IsOver(revocation'[w]) /\ revocation'[w].token = u}
  <2>1. row'[u].created = IF IsOver(creation[u]) THEN creation[u].began ELSE NoTime
    BY <1>8 DEF TokensInv, RevocationBinds, StampsTell
  <2>2. IF was = {} THEN row[u].revoked = NoTime ELSE \E w \in was : row[u].revoked = revocation[w].began
    BY DEF TokensInv, RevocationBinds, StampsTell
  <2>3. v \notin was /\ over = IF u = t THEN was \cup {v} ELSE was
    BY <1>2, <1>4, <1>5
  <2>4. \A w \in was : revocation'[w] = revocation[w]
    BY <1>4, <2>3
  <2> HIDE DEF was, over
  <2>5. IF over = {} THEN row'[u].revoked = NoTime ELSE \E w \in over : row'[u].revoked = revocation'[w].began
    <3>1. CASE u = t /\ was = {}
      <4>1. row'[u].revoked = revocation'[v].began /\ v \in over
        BY <1>4, <1>8, <2>2, <2>3, <3>1
      <4> QED BY <4>1
    <3>2. CASE u = t /\ was # {}
      <4>1. PICK w \in was : row[u].revoked = revocation[w].began
        BY <2>2, <3>2
      <4>2. row[u].revoked # NoTime
        BY <4>1, BegunHasTimes DEF was, TokensInv, TokensAssumption
      <4>3. w \in over /\ row'[u].revoked = revocation'[w].began
        BY <1>8, <2>3, <2>4, <3>2, <4>1, <4>2
      <4> QED BY <4>3
    <3>3. CASE u # t
      BY <1>8, <2>2, <2>3, <2>4, <3>3
    <3> QED BY <3>1, <3>2, <3>3
  <2> QED BY <2>1, <2>5 DEF over
<1> QED BY <1>9, <1>10, <1>11, <1>12 DEF TokensInv, RevocationBinds

\* The inductive invariant.
THEOREM TokensInvariant == ASSUME TokensAssumption PROVE TokensSpec => []TokensInv
<1>1. TokensInit => TokensInv
  BY TokensStart
<1>2. TokensInv /\ [TokensNext]_tokenVars => TokensInv'
  <2> SUFFICES ASSUME TokensInv, [TokensNext]_tokenVars PROVE TokensInv'
    OBVIOUS
  <2>1. CASE TokensNext
    BY <2>1, BeginCreateInv, CreateInv, MiddlewareInv, BeginTouchInv, TouchInv, BeginRevokeInv, RevokeInv
       DEF TokensNext
  <2>2. CASE UNCHANGED tokenVars
    BY <2>2 DEF tokenVars, TokensInv, TokensTypes, InThePast, RevocationBinds, LetInIfActive, StampsTell,
                IsOver, IsOverBefore
  <2> QED BY <2>1, <2>2
<1> QED BY <1>1, <1>2, PTL DEF TokensSpec

\* A revoked token lets nobody in once the revocation is over, for any number of tokens,
\* requests and revocations, however their beginnings and ends interleave (tokens.go,
\* bearer.go).
THEOREM RevokedStaysOut == ASSUME TokensAssumption PROVE TokensSpec => []RevocationBinds
<1>1. TokensInv => RevocationBinds
  BY DEF TokensInv
<1> QED BY <1>1, TokensInvariant, PTL

-----------------------------------------------------------------------------
(***************************************************************************)
(* Login, for any browsers and states, any life time of a state, and any   *)
(* number of restarts of the process.                                      *)
(***************************************************************************)
Logged == [browser : Browsers, at : Nat, process : Nat]
Remembered == [state : States, expires : Nat]
Callback == [state : States, browser : Browsers, at : Nat]

LoginTypes ==
  /\ now \in Nat /\ process \in Nat
  /\ nonce \subseteq Remembered /\ cookie \in [Browsers -> SUBSET Remembered]
  /\ begun \in [States -> SUBSET Logged]
  /\ taken \subseteq Callback /\ sessions \subseteq Callback

\* A state belongs to one login; what the process and the browsers remember of it is
\* of that login, and the process does not remember one that was taken.
OfOneLogin ==
  /\ \A s \in States : s \in spent => begun[s] # {}
  /\ \A e \in nonce : /\ begun[e.state] # {} /\ e.state \notin spent
                      /\ \A l \in begun[e.state] : e.expires = l.at + TTL
  /\ \A b \in Browsers : \A k \in cookie[b] :
       /\ begun[k.state] # {}
       /\ \A l \in begun[k.state] : l.browser = b /\ k.expires = l.at + TTL
       /\ \A m \in cookie[b] : m = k

\* A callback that was let in took its state, from its own browser and in time.
TakenOnce ==
  \A t \in taken \cup sessions :
    /\ t.state \in spent /\ begun[t.state] # {}
    /\ \A l \in begun[t.state] : t.browser = l.browser /\ t.at <= l.at + TTL
    /\ \A u \in taken \cup sessions : u.state = t.state => u = t

\* The process remembers every state it drew, until it is taken or has expired.
NotForgotten ==
  \A s \in States : \A l \in begun[s] :
    /\ l.process <= process
    /\ l.process = process /\ s \notin spent /\ now <= l.at + TTL =>
         \E e \in nonce : e.state = s /\ e.expires = l.at + TTL

LoginInv == LoginTypes /\ OfOneLogin /\ TakenOnce /\ NotForgotten /\ wronged = {}

-----------------------------------------------------------------------------
\* No login has begun at the start.
LEMMA LoginStart == LoginAssumption /\ LoginInit => LoginInv
  BY DEF LoginInit, LoginInv, LoginTypes, OfOneLogin, TakenOnce, NotForgotten

\* A login draws a state that nobody has, and the sweep takes only what has expired.
LEMMA HandleLoginKeeps ==
  ASSUME LoginAssumption, LoginInv, NEW b \in Browsers, NEW s \in States, HandleLogin(b, s)
  PROVE  LoginInv'
  <1> USE DEF LoginInv, LoginTypes
  <1> DEFINE l == [browser |-> b, at |-> now, process |-> process]
             e == [state |-> s, expires |-> now + TTL]
  <1>1. /\ begun[s] = {} /\ begun' = [begun EXCEPT ![s] = {l}]
        /\ nonce' = {f \in nonce \cup {e} : f.expires >= now}
        /\ cookie' = [cookie EXCEPT ![b] = {e}]
        /\ UNCHANGED <<now, process, taken, spent, sessions, wronged>>
    BY DEF HandleLogin, Live
  <1>2. l \in Logged /\ e \in Remembered /\ e \in nonce' /\ e.state = s /\ e.expires = l.at + TTL
    BY <1>1 DEF LoginAssumption, Logged, Remembered
  <1>3. l.browser = b /\ l.process = process /\ l.at = now
    OBVIOUS
  <1> HIDE DEF l, e
  <1>4. /\ begun'[s] = {l} /\ \A z \in States \ {s} : begun'[z] = begun[z]
        /\ cookie'[b] = {e} /\ \A d \in Browsers \ {b} : cookie'[d] = cookie[d]
    BY <1>1
  <1>5. /\ s \notin spent /\ \A f \in nonce : f.state # s
        /\ \A d \in Browsers : \A k \in cookie[d] : k.state # s
        /\ \A t \in taken \cup sessions : t.state # s
    BY <1>1 DEF OfOneLogin, TakenOnce
  <1>6. LoginTypes'
    BY <1>1, <1>2
  <1>7. OfOneLogin'
    <2>1. \A z \in States : z \in spent' => begun'[z] # {}
      BY <1>1, <1>4 DEF OfOneLogin
    <2>2. ASSUME NEW f \in nonce'
          PROVE  /\ begun'[f.state] # {} /\ f.state \notin spent'
                 /\ \A m \in begun'[f.state] : f.expires = m.at + TTL
      <3>1. CASE f = e
        BY <1>1, <1>2, <1>4, <1>5, <3>1
      <3>2. CASE f # e
        <4>1. f \in nonce /\ f.state \in States \ {s}
          BY <1>1, <1>5, <3>2 DEF Remembered
        <4>2. QED
          BY <1>1, <1>4, <4>1 DEF OfOneLogin
      <3>3. QED
        BY <3>1, <3>2
    <2>3. ASSUME NEW d \in Browsers, NEW k \in cookie'[d]
          PROVE  /\ begun'[k.state] # {}
                 /\ \A m \in begun'[k.state] : m.browser = d /\ k.expires = m.at + TTL
                 /\ \A m \in cookie'[d] : m = k
      <3>1. CASE d = b
        BY <1>2, <1>3, <1>4, <3>1
      <3>2. CASE d # b
        <4>1. cookie'[d] = cookie[d] /\ k.state \in States \ {s}
          BY <1>4, <1>5, <3>2 DEF Remembered
        <4>2. QED
          BY <1>4, <4>1 DEF OfOneLogin
      <3>3. QED
        BY <3>1, <3>2
    <2>4. QED
      BY <2>1, <2>2, <2>3 DEF OfOneLogin
  <1>8. TakenOnce'
    <2>1. \A t \in taken \cup sessions : t.state \in States \ {s}
      BY <1>5 DEF Callback
    <2>2. QED
      BY <1>1, <1>4, <2>1 DEF TakenOnce
  <1>9. NotForgotten'
    <2>1. ASSUME NEW z \in States, NEW m \in begun'[z]
          PROVE  /\ m.process <= process'
                 /\ m.process = process' /\ z \notin spent' /\ now' <= m.at + TTL =>
                      \E f \in nonce' : f.state = z /\ f.expires = m.at + TTL
      <3>1. CASE z = s
        BY <1>1, <1>2, <1>3, <1>4, <3>1
      <3>2. CASE z # s
        <4>1. m \in begun[z]
          BY <1>4, <3>2
        <4>2. QED
          BY <1>1, <4>1 DEF NotForgotten
      <3>3. QED
        BY <3>1, <3>2
    <2>2. QED
      BY <2>1 DEF NotForgotten
  <1>10. QED
    BY <1>1, <1>6, <1>7, <1>8, <1>9

\* A refusal without a matching cookie has its excuse: the browser has begun another
\* login since, or its cookie has expired.
LEMMA RefuseMismatchKeeps ==
  ASSUME LoginAssumption, LoginInv, NEW b \in Browsers, NEW s \in States, RefuseMismatch(b, s)
  PROVE  LoginInv'
  <1> USE DEF LoginInv, LoginTypes
  <1>1. UNCHANGED <<now, process, nonce, begun, cookie, taken, spent, sessions>>
    BY DEF RefuseMismatch, memory
  <1>2. Excused(b, s)
    <2>1. PICK c \in Sent(b) : \A k \in c : k.state # s
      BY DEF RefuseMismatch
    <2>2. CASE c = cookie[b]
      BY <2>1, <2>2 DEF Excused, IsLatest
    <2>3. CASE \E k \in cookie[b] : k.expires <= now
      <3>1. PICK k \in cookie[b] : k.expires <= now
        BY <2>3
      <3>2. ASSUME IsLatest(b, s)
            PROVE  \A l \in begun[s] : now >= l.at + TTL
        <4>1. k.state = s
          BY <3>2 DEF IsLatest, OfOneLogin
        <4>2. \A l \in begun[s] : k.expires = l.at + TTL
          BY <4>1 DEF OfOneLogin
        <4>3. QED
          BY <3>1, <4>2
      <3>3. QED
        BY <3>2 DEF Excused
    <2>4. QED
      BY <2>1, <2>2, <2>3 DEF Sent
  <1>3. wronged' = {}
    BY <1>2 DEF RefuseMismatch, Refuse
  <1>4. QED
    BY <1>1, <1>3 DEF OfOneLogin, TakenOnce, NotForgotten

\* The first to come takes the state away; a later one, or one that is too late, finds
\* nothing and has its excuse.
LEMMA TakeStateKeeps ==
  ASSUME LoginAssumption, LoginInv, NEW b \in Browsers, NEW s \in States, TakeState(b, s)
  PROVE  LoginInv'
  <1> USE DEF LoginInv, LoginTypes
  <1> DEFINE t == [state |-> s, browser |-> b, at |-> now]
  <1>1. /\ begun[s] # {} /\ spent' = spent \cup {s}
        /\ nonce' = {e \in nonce : e.state # s}
        /\ UNCHANGED <<now, process, begun, cookie, sessions>>
    BY DEF TakeState, Remaining
  <1>2. PICK k \in cookie[b] : k.state = s
    BY DEF TakeState, Sent
  <1>3. \A l \in begun[s] : l.browser = b /\ k.expires = l.at + TTL
    BY <1>2 DEF OfOneLogin
  <1>4. \/ IsFresh(s) /\ taken' = taken \cup {t} /\ wronged' = {}
        \/ ~IsFresh(s) /\ taken' = taken /\ wronged' = {}
    <2>1. ASSUME ~IsFresh(s)
          PROVE  Excused(b, s)
      <3>1. ASSUME s \notin spent, NEW l \in begun[s], l.process = process, now < l.at + TTL
            PROVE  FALSE
        <4>1. \E e \in nonce : e.state = s /\ e.expires = l.at + TTL
          BY <3>1 DEF NotForgotten, Logged, LoginAssumption
        <4>2. QED
          BY <2>1, <3>1, <4>1 DEF IsFresh, Logged, LoginAssumption
      <3>2. \A l \in begun[s] : l.at + TTL \in Nat
        BY DEF Logged, LoginAssumption
      <3>3. QED
        BY <3>1, <3>2 DEF Excused
    <2>2. QED
      BY <2>1 DEF TakeState, Refuse
  <1>5. t \in Callback /\ t.state = s /\ t.browser = b /\ t.at = now
    BY DEF Callback
  <1> HIDE DEF t
  <1>6. LoginTypes'
    BY <1>1, <1>4, <1>5
  <1>7. OfOneLogin'
    BY <1>1 DEF OfOneLogin
  <1>8. TakenOnce'
    <2>1. CASE taken' = taken
      BY <1>1, <2>1 DEF TakenOnce
    <2>2. CASE IsFresh(s) /\ taken' = taken \cup {t}
      <3>1. PICK e \in nonce : e.state = s /\ now <= e.expires
        BY <2>2 DEF IsFresh
      <3>2. s \notin spent /\ \A l \in begun[s] : now <= l.at + TTL
        BY <3>1 DEF OfOneLogin
      <3>3. \A u \in taken \cup sessions : u.state # s
        BY <3>2 DEF TakenOnce
      <3>4. QED
        BY <1>1, <1>3, <1>5, <2>2, <3>2, <3>3 DEF TakenOnce
    <2>3. QED
      BY <1>4, <2>1, <2>2
  <1>9. NotForgotten'
    BY <1>1 DEF NotForgotten
  <1>10. QED
    BY <1>4, <1>6, <1>7, <1>8, <1>9

\* A session comes of a callback that has taken its state; a failure of the provider
\* opens none.
LEMMA ProviderKeeps ==
  ASSUME LoginInv, NEW t \in taken, ProviderFails(t) \/ OpenSession(t)
  PROVE  LoginInv'
  <1> USE DEF LoginInv, LoginTypes
  <1>1. /\ taken' \subseteq taken /\ taken' \cup sessions' \subseteq taken \cup sessions
        /\ UNCHANGED <<now, process, nonce, begun, spent, wronged>>
        /\ cookie' = cookie \/ cookie' = [cookie EXCEPT ![t.browser] = {}]
    BY DEF ProviderFails, OpenSession, memory
  <1>2. cookie' \in [Browsers -> SUBSET Remembered] /\ \A b \in Browsers : cookie'[b] \subseteq cookie[b]
    BY <1>1
  <1>3. LoginTypes'
    BY <1>1, <1>2
  <1>4. OfOneLogin'
    BY <1>1, <1>2 DEF OfOneLogin
  <1>5. TakenOnce' /\ NotForgotten'
    BY <1>1 DEF TakenOnce, NotForgotten
  <1>6. QED
    BY <1>1, <1>3, <1>4, <1>5

\* A restarted process owes nothing to the logins of the one before.
LEMMA RestartKeeps == LoginInv /\ Restart => LoginInv'
  <1> SUFFICES ASSUME LoginInv, Restart PROVE LoginInv'
    OBVIOUS
  <1> USE DEF LoginInv, LoginTypes
  <1>1. /\ process' = process + 1 /\ nonce' = {} /\ taken' = {}
        /\ UNCHANGED <<now, cookie, begun, spent, sessions, wronged>>
    BY DEF Restart
  <1>2. LoginTypes' /\ OfOneLogin' /\ TakenOnce'
    BY <1>1 DEF OfOneLogin, TakenOnce
  <1>3. \A s \in States : \A l \in begun[s] : l.process \in Nat /\ l.process <= process
    BY DEF NotForgotten, Logged
  <1>4. NotForgotten'
    BY <1>1, <1>3 DEF NotForgotten
  <1>5. QED
    BY <1>1, <1>2, <1>4

\* Time passes.
LEMMA TickKeeps ==
  ASSUME LoginAssumption, LoginInv, TimePasses
  PROVE  LoginInv'
  <1> USE DEF LoginInv, LoginTypes
  <1>1. /\ now' = now + 1
        /\ UNCHANGED <<process, nonce, cookie, begun, taken, spent, sessions, wronged>>
    BY DEF TimePasses
  <1>2. LoginTypes' /\ OfOneLogin' /\ TakenOnce'
    BY <1>1 DEF OfOneLogin, TakenOnce
  <1>3. \A s \in States : \A l \in begun[s] : l.at + TTL \in Nat
    BY DEF Logged, LoginAssumption
  <1>4. NotForgotten'
    BY <1>1, <1>3 DEF NotForgotten
  <1>5. QED
    BY <1>1, <1>2, <1>4

-----------------------------------------------------------------------------
\* Whatever callbacks are repeated, late or in the wrong browser, and however often the
\* process restarts: a state belongs to one login and is taken at most once.
THEOREM LoginInvariant == LoginAssumption => (LoginSpec => []LoginInv)
  <1> SUFFICES ASSUME LoginAssumption PROVE LoginSpec => []LoginInv
    OBVIOUS
  <1>1. LoginInit => LoginInv
    BY LoginStart
  <1>2. LoginInv /\ [LoginNext]_loginVars => LoginInv'
    <2> SUFFICES ASSUME LoginInv, [LoginNext]_loginVars PROVE LoginInv'
      OBVIOUS
    <2>1. CASE LoginNext
      BY <2>1, HandleLoginKeeps, RefuseMismatchKeeps, TakeStateKeeps, ProviderKeeps,
         RestartKeeps, TickKeeps DEF LoginNext
    <2>2. CASE UNCHANGED loginVars
      BY <2>2 DEF loginVars, LoginInv, LoginTypes, OfOneLogin, TakenOnce, NotForgotten
    <2>3. QED
      BY <2>1, <2>2
  <1>3. QED
    BY <1>1, <1>2, PTL DEF LoginSpec

\* A login opens at most one session, in the browser that began it and within the time
\* its state lives (oidc.go: HandleCallback takes the state back under the lock).
THEOREM SessionsAreSingle == LoginAssumption => (LoginSpec => []OneSessionPerLogin)
  <1>1. LoginInv => OneSessionPerLogin
    BY DEF LoginInv, TakenOnce, OneSessionPerLogin
  <1>2. QED
    BY <1>1, LoginInvariant, PTL

\* The first callback of a browser's latest login, in time and in the same process, is
\* not refused (oidc.go: the sweep of HandleLogin takes only what has expired).
THEOREM RefusalsAreExcused == LoginAssumption => (LoginSpec => []RefusalsHaveACause)
  <1>1. LoginInv => RefusalsHaveACause
    BY DEF LoginInv, RefusalsHaveACause
  <1>2. QED
    BY <1>1, LoginInvariant, PTL
=============================================================================
