------------------------------- MODULE Tokens -------------------------------
(***************************************************************************)
(* Bearer tokens: the table (internal/store/tokens.go), the commands that  *)
(* create and revoke them (cmd/rag-svc/main.go), and the requests that     *)
(* carry one (internal/auth/bearer.go), each with a goroutine of its own   *)
(* that stamps the token's last use.  Statements of several callers are in *)
(* any order.  One that writes has the database's time of its beginning,   *)
(* may wait for the lock of the row, finds the row as the last writer left *)
(* it, and is seen when it is committed: it begins and ends in two steps.  *)
(* One that never ends has failed.                                         *)
(***************************************************************************)
EXTENDS Naturals, FiniteSets

CONSTANTS
  Raws,          \* raw tokens
  Callers,
  Revokers,
  NoTime, MaxStatements \* time is a count of beginnings and endings, and bounded

TokensAssumption == NoTime \notin Nat /\ MaxStatements \in Nat

VARIABLES
  time,
  row,           \* row[t]: created_at, revoked_at and last_used_at of the token t, as committed
  creation,      \* creation[t]: when the INSERT of the token t began and ended
  revocation,    \* revocation[v]: its token, and when its UPDATE began and ended
  call           \* call[r]: a request: where it is, its token, the times of its lookup and of its stamp

tokenVars == <<time, row, creation, revocation, call>>

NoRow == [created |-> NoTime, revoked |-> NoTime, used |-> NoTime]
NotBegun == [began |-> NoTime, ended |-> NoTime]
TokensInit ==
  /\ time = 1
  /\ row = [t \in Raws |-> NoRow]
  /\ creation = [t \in Raws |-> NotBegun]
  /\ revocation = [v \in Revokers |-> NotBegun]
  /\ call = [r \in Callers |-> [at |-> "new"]]

Clock == time < MaxStatements /\ time' = time + 1
IsUnderWay(s) == s.began # NoTime /\ s.ended = NoTime

BeginCreate(t) ==
  /\ Clock
  /\ creation[t] = NotBegun
  /\ creation' = [creation EXCEPT ![t].began = time]
  /\ UNCHANGED <<row, revocation, call>>

CreateToken(t) ==
  /\ Clock
  /\ IsUnderWay(creation[t])
  /\ row' = [row EXCEPT ![t].created = creation[t].began]
  /\ creation' = [creation EXCEPT ![t].ended = time]
  /\ UNCHANGED <<revocation, call>>

\* LookupActiveToken sees rows that are not revoked.
Exists(t) == row[t].created # NoTime
IsActive(t) == Exists(t) /\ row[t].revoked = NoTime

\* The request goes on, whatever becomes of the token; or is answered 401.
BearerMiddleware(r, t) ==
  /\ Clock
  /\ call[r].at = "new"
  /\ call' = [call EXCEPT ![r] = [at |-> IF IsActive(t) THEN "handled" ELSE "unauthorized",
                                  token |-> t, since |-> time, stamp |-> NoTime]]
  /\ UNCHANGED <<row, creation, revocation>>

\* The goroutine of the request, at any time after it, or never.
BeginTouch(r) ==
  /\ Clock
  /\ call[r].at = "handled"
  /\ call' = [call EXCEPT ![r].at = "touching", ![r].stamp = time]
  /\ UNCHANGED <<row, creation, revocation>>

\* The one column is set, in the row as it is by now.
TouchedAsLookedUp(r) == [row[call[r].token] EXCEPT !.used = call[r].stamp, !.revoked = NoTime]
Touched(r) == [row[call[r].token] EXCEPT !.used = call[r].stamp]

TouchLastUsed(r) ==
  /\ Clock
  /\ call[r].at = "touching"
  /\ row' = [row EXCEPT ![call[r].token] = Touched(r)]
  /\ call' = [call EXCEPT ![r].at = "touched"]
  /\ UNCHANGED <<creation, revocation>>

\* RevokeToken by an id, or by a prefix of the ids `matching`: one, none or several.
BeginRevoke(v, matching) ==
  /\ Clock
  /\ revocation[v] = NotBegun
  /\ Cardinality(matching) = 1
  /\ \E t \in matching :
       /\ Exists(t)
       /\ revocation' = [revocation EXCEPT ![v] = [token |-> t, began |-> time, ended |-> NoTime]]
  /\ UNCHANGED <<row, creation, call>>

\* COALESCE, when the row is locked: a stamp that is there by now stays.
FirstStamp(v) ==
  LET before == row[revocation[v].token].revoked IN IF before = NoTime THEN revocation[v].began ELSE before

RevokeToken(v) ==
  /\ Clock
  /\ IsUnderWay(revocation[v])
  /\ row' = [row EXCEPT ![revocation[v].token].revoked = FirstStamp(v)]
  /\ revocation' = [revocation EXCEPT ![v].ended = time]
  /\ UNCHANGED <<creation, call>>

TokensNext ==
  \/ \E t \in Raws : BeginCreate(t) \/ CreateToken(t)
  \/ \E r \in Callers : BeginTouch(r) \/ TouchLastUsed(r) \/ \E t \in Raws : BearerMiddleware(r, t)
  \/ \E v \in Revokers : RevokeToken(v) \/ \E matching \in SUBSET Raws : BeginRevoke(v, matching)

TokensSpec == TokensInit /\ [][TokensNext]_tokenVars

IsOver(s) == s.ended # NoTime
IsOverBefore(s, at) == IsOver(s) /\ s.ended < at

\* A token lets a request in if its creation was over when it was looked up, and no
\* revocation of it was.
LetInIfActive ==
  \A r \in Callers : call[r].at # "new" =>
    (call[r].at # "unauthorized" <=>
       /\ IsOverBefore(creation[call[r].token], call[r].since)
       /\ \A v \in Revokers :
            IsOver(revocation[v]) /\ revocation[v].token = call[r].token
              => ~IsOverBefore(revocation[v], call[r].since))

\* created_at is of the token's creation when that is over, and revoked_at is of one of its
\* revocations that are over.
StampsTell ==
  \A t \in Raws :
    /\ row[t].created = IF IsOver(creation[t]) THEN creation[t].began ELSE NoTime
    /\ LET over == {v \in Revokers : IsOver(revocation[v]) /\ revocation[v].token = t}
       IN  IF over = {} THEN row[t].revoked = NoTime
           ELSE \E v \in over : row[t].revoked = revocation[v].began

\* When RevokeToken has returned, the token lets no request in again, whatever is under way
\* or comes later, be it another revocation or the stamp of a last use; until then one may
\* be let in, and so after revoked_at, which is the time the revocation began.  A token is
\* not refused before.  The table tells what was done (tokens.go, bearer.go).
RevocationBinds == LetInIfActive /\ StampsTell
=============================================================================
