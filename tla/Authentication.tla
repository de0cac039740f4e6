--------------------------- MODULE Authentication ----------------------------
(***************************************************************************)
(* API-key authentication (auth_middleware.py): each thread of the gateway *)
(* fetches the global authenticator, creating it on first use, and lets it *)
(* authenticate a request: look the key up, check status and expiry, let   *)
(* the authenticator's own rate limiter charge it, commit last_used_at,    *)
(* and read the key again, because the commit has expired what was read.   *)
(* Administrators meanwhile change, revoke and delete keys.                *)
(*                                                                         *)
(* The limiter is the quota of RateQuota, which TokenBucket implements: an *)
(* account for each key.  A check takes two locks one after the other: the *)
(* limiter's, to find the account, and the account's, to charge it.  In    *)
(* between another check may close an account that has been idle for long, *)
(* and the call is then answered from an account nobody else uses.         *)
(***************************************************************************)
EXTENDS Naturals

CONSTANTS
  Threads, Keys,
  Sizes,     \* numbers of tokens a request can ask for
  LimitOf,   \* the limit of each key: [rpm, tpm]
  Minute,    \* ticks in which a limit's worth of credit accrues
  Scopes,    \* sets of scopes a key can have
  None, NoRow, Closed

Rows == [status : {"active", "revoked"}, scopes : Scopes]
Accounts == [limit : [rpm : Nat, tpm : Nat], credit : [rpm : Nat, tpm : Nat]]

ASSUME AuthenticationAssumption ==
  /\ Sizes \subseteq Nat /\ Minute \in Nat \ {0}
  /\ LimitOf \in [Keys -> [rpm : Nat \ {0}, tpm : Nat]]
  /\ None \notin Threads /\ None \notin [key : Keys, tokens : Sizes]
  /\ NoRow \notin Rows /\ Closed \notin Accounts

VARIABLES
  current,   \* _authenticator, named after the thread that created it
  row,       \* [status, scopes] of each key in the database, or NoRow
  expired,   \* the keys whose expires_at has passed
  account,   \* the account of each key with each authenticator, or Closed
  overtaken, \* the threads whose account was closed before they charged it
  pc, using, \* of each thread: its next step, and its authenticator
  req,       \* the key and the tokens of its request
  loaded,    \* the scopes in its copy of the row
  result,    \* the outcome of its last request, with the scopes granted
  genuine,   \* whether the key was valid when the request began
  offered    \* the scopes the key has had since the request's commit

locals == <<pc, using, req, loaded, result, genuine, offered>>
limiter == <<account, overtaken>>
vars == <<current, row, expired, limiter, locals>>

Quota == INSTANCE RateQuota WITH
  Callers <- Threads, Limits <- {LimitOf[k] : k \in Keys}, NoCall <- None,
  call <- req, reply <- result

Valid(k) == row[k] # NoRow /\ row[k].status = "active" /\ k \notin expired

Outcome(what, scopes) == [is |-> what, scopes |-> scopes]
Outcomes == [is : {"none", "authenticated", "invalid", "limited", "error"},
             scopes : Scopes \cup {None}]

Init ==
  /\ current = None
  /\ row \in [Keys -> {r \in Rows : r.status = "active"}]
  /\ expired = {}
  /\ account = [a \in Threads |-> [k \in Keys |-> Closed]]
  /\ overtaken = {}
  /\ pc = [t \in Threads |-> "idle"] /\ using = [t \in Threads |-> None]
  /\ req = [t \in Threads |-> None] /\ loaded = [t \in Threads |-> None]
  /\ result = [t \in Threads |-> Outcome("none", None)]
  /\ genuine = [t \in Threads |-> FALSE] /\ offered = [t \in Threads |-> {}]

Goto(t, label) == pc' = [pc EXCEPT ![t] = label]

\* The request goes on, with a copy of the row, or is answered.
Proceed(t, label, copy) ==
  /\ Goto(t, label)
  /\ loaded' = [loaded EXCEPT ![t] = copy]
  /\ UNCHANGED <<using, req, result, genuine>>

Finish(t, what, scopes) ==
  /\ Goto(t, "idle")
  /\ result' = [result EXCEPT ![t] = Outcome(what, scopes)]
  /\ using' = [using EXCEPT ![t] = None] /\ req' = [req EXCEPT ![t] = None]
  /\ loaded' = [loaded EXCEPT ![t] = None]
  /\ genuine' = [genuine EXCEPT ![t] = FALSE]
  /\ offered' = [offered EXCEPT ![t] = {}]

-----------------------------------------------------------------------------
(* get_authenticator.                                                      *)

\* A slip: every request makes an authenticator of its own.
RequestCreates(t) ==
  /\ pc[t] = "idle"
  /\ \E k \in Keys, n \in Sizes :
       /\ req' = [req EXCEPT ![t] = [key |-> k, tokens |-> n]]
       /\ genuine' = [genuine EXCEPT ![t] = Valid(k)]
  /\ Goto(t, "create")
  /\ result' = [result EXCEPT ![t] = Outcome("none", None)]
  /\ UNCHANGED <<current, row, expired, limiter, using, loaded, offered>>

\* A request for a known key arrives; the global is tested without a lock.
Request(t) ==
  /\ pc[t] = "idle"
  /\ \E k \in Keys, n \in Sizes :
       /\ req' = [req EXCEPT ![t] = [key |-> k, tokens |-> n]]
       /\ genuine' = [genuine EXCEPT ![t] = Valid(k)]
  /\ Goto(t, IF current = None THEN "create" ELSE "return")
  /\ result' = [result EXCEPT ![t] = Outcome("none", None)]
  /\ UNCHANGED <<current, row, expired, limiter, using, loaded, offered>>

\* The new authenticator replaces whatever the global is by now.
Create(t) ==
  /\ pc[t] = "create"
  /\ current' = t
  /\ Goto(t, "return")
  /\ UNCHANGED <<row, expired, limiter, using, req, loaded, result, genuine, offered>>

\* What is returned is the global as it is at the end.
Return(t) ==
  /\ pc[t] = "return"
  /\ using' = [using EXCEPT ![t] = current]
  /\ Goto(t, "lookup")
  /\ UNCHANGED <<current, row, expired, limiter, req, loaded, result, genuine, offered>>

-----------------------------------------------------------------------------
(* authenticate.                                                           *)

\* Slip: the expiry is not checked.
LookupStatus(t) ==
  /\ pc[t] = "lookup"
  /\ LET k == req[t].key
     IN IF row[k] # NoRow /\ row[k].status = "active"
        THEN Proceed(t, "bucket", row[k].scopes) /\ UNCHANGED offered
        ELSE Finish(t, "invalid", None)
  /\ UNCHANGED <<current, row, expired, limiter>>

\* The row is read, and its status and expiry are checked.
Lookup(t) ==
  /\ pc[t] = "lookup"
  /\ LET k == req[t].key
     IN IF Valid(k)
        THEN Proceed(t, "bucket", row[k].scopes) /\ UNCHANGED offered
        ELSE Finish(t, "invalid", None)
  /\ UNCHANGED <<current, row, expired, limiter>>

\* Slip: only the first of the two buckets is checked.
AnswerRequests(acct, n) == IF acct.credit.rpm < Minute THEN "rpm_limit" ELSE "allowed"

Answer(acct, n) == Quota!Answer(acct, n)

\* A slip: an account is evicted whatever credit it has left.
IdleHowever(acct, k) == acct # Closed

\* An account that has been idle for longer than the TTL, which is a minute at
\* least, holds all the credit it can.
Idle(acct, k) == acct = Quota!Open(LimitOf[k])

\* check_and_consume, under the limiter's lock: idle accounts are evicted, and
\* the account of the key is found or opened.
GetAccount(t) ==
  /\ pc[t] = "bucket"
  /\ \E evicted \in SUBSET {k \in Keys : Idle(account[using[t]][k], k)} :
       LET a == using[t]
           key == req[t].key
           kept(k) == IF k \in evicted THEN Closed ELSE account[a][k]
       IN /\ account' = [account EXCEPT ![a] =
               [k \in Keys |-> IF k = key /\ kept(k) = Closed
                               THEN Quota!Open(LimitOf[k]) ELSE kept(k)]]
          /\ overtaken' = overtaken \cup
               {u \in Threads : pc[u] = "consume" /\ using[u] = a /\ req[u].key \in evicted}
  /\ Proceed(t, "consume", loaded[t])
  /\ UNCHANGED <<current, row, expired, offered>>

\* The check is passed; or the request is answered, and closing the session may
\* end in an error of the database.
LetThrough(t) == Proceed(t, "commit", loaded[t]) /\ UNCHANGED offered
TurnAway(t) == \E what \in {"limited", "error"} : Finish(t, what, None)

\* check_and_consume, under the account's lock.
Consume(t) ==
  /\ pc[t] = "consume" /\ t \notin overtaken
  /\ LET a == using[t]
         k == req[t].key
         n == req[t].tokens
     IN IF Answer(account[a][k], n) = "allowed"
        THEN /\ account' = [account EXCEPT ![a][k] = Quota!Charge(@, n)]
             /\ LetThrough(t)
        ELSE UNCHANGED account /\ TurnAway(t)
  /\ UNCHANGED <<current, row, expired, overtaken>>

\* The account that the thread has in its hand is not the key's any more: what
\* it says, and what it is charged, concerns nobody else.
ConsumeOvertaken(t) ==
  /\ t \in overtaken
  /\ overtaken' = overtaken \ {t}
  /\ LetThrough(t) \/ TurnAway(t)
  /\ UNCHANGED <<current, row, expired, account>>

\* Slip: the row is written as it was read.
CommitRow(t) ==
  /\ pc[t] = "commit"
  /\ LET k == req[t].key
         copy == [status |-> "active", scopes |-> loaded[t]]
     IN /\ row' = [row EXCEPT ![k] = copy]
        /\ offered' = [offered EXCEPT ![t] = {loaded[t]}]
  /\ Proceed(t, "refresh", loaded[t])
  /\ UNCHANGED <<current, expired, limiter>>

\* last_used_at is written, and nothing else of the row; an update of a row
\* that is gone is an error.
Commit(t) ==
  /\ pc[t] = "commit"
  /\ LET k == req[t].key
     IN IF row[k] = NoRow THEN Finish(t, "error", None)
        ELSE /\ Proceed(t, "refresh", loaded[t])
             /\ offered' = [offered EXCEPT ![t] = {row[k].scopes}]
  /\ UNCHANGED <<current, row, expired, limiter>>

\* Slip: the copy outlives the commit (expire_on_commit is off).
RefreshNothing(t) ==
  /\ pc[t] = "refresh"
  /\ Finish(t, "authenticated", loaded[t])
  /\ UNCHANGED <<current, row, expired, limiter>>

\* The commit has expired the copy: reading its scopes reads the row again.
Refresh(t) ==
  /\ pc[t] = "refresh"
  /\ LET k == req[t].key
     IN IF row[k] = NoRow THEN Finish(t, "error", None)
        ELSE Finish(t, "authenticated", row[k].scopes)
  /\ UNCHANGED <<current, row, expired, limiter>>

\* The database fails under a query or a commit: "Authentication service
\* error".  What was consumed is not given back.
DatabaseFails(t) ==
  /\ pc[t] \in {"lookup", "commit", "refresh"}
  /\ Finish(t, "error", None)
  /\ UNCHANGED <<current, row, expired, limiter>>

-----------------------------------------------------------------------------
(* Administrators, and time.                                               *)

SetScopes(k, s) ==
  /\ row[k] # NoRow
  /\ row' = [row EXCEPT ![k].scopes = s]
  /\ offered' = [t \in Threads |-> IF pc[t] = "refresh" /\ req[t].key = k
                                   THEN offered[t] \cup {s} ELSE offered[t]]
  /\ UNCHANGED <<current, expired, limiter, pc, using, req, loaded, result, genuine>>

Revoke(k) ==
  /\ row[k] # NoRow
  /\ row' = [row EXCEPT ![k].status = "revoked"]
  /\ UNCHANGED <<current, expired, limiter, locals>>

DeleteKey(k) ==
  /\ row' = [row EXCEPT ![k] = NoRow]
  /\ UNCHANGED <<current, expired, limiter, locals>>

Expire(k) ==
  /\ expired' = expired \cup {k}
  /\ UNCHANGED <<current, row, limiter, locals>>

Accrue ==
  /\ account' = [a \in Threads |-> [k \in Keys |->
       IF account[a][k] = Closed THEN Closed ELSE Quota!Grow(account[a][k])]]
  /\ UNCHANGED <<current, row, expired, overtaken, locals>>

\* What a thread does but for the limiter's check.
Serve(t) ==
  \/ Request(t) \/ Create(t) \/ Return(t)
  \/ Lookup(t) \/ Commit(t) \/ Refresh(t) \/ DatabaseFails(t)

Administer ==
  \E k \in Keys :
    \/ Revoke(k) \/ DeleteKey(k) \/ Expire(k)
    \/ \E s \in Scopes : SetScopes(k, s)

Next ==
  \/ Accrue
  \/ \E t \in Threads : Serve(t) \/ GetAccount(t) \/ Consume(t) \/ ConsumeOvertaken(t)
  \/ Administer

Spec == Init /\ [][Next]_vars

-----------------------------------------------------------------------------
Labels == {"idle", "create", "return", "lookup", "bucket", "consume", "commit", "refresh"}

\* No account is overdrawn, or holds more than its limit.
Sound(acct, limit) ==
  /\ acct.limit = limit
  /\ acct.credit.rpm <= limit.rpm * Minute /\ acct.credit.tpm <= limit.tpm * Minute

SharedOK ==
  /\ current \in Threads \cup {None}
  /\ row \in [Keys -> Rows \cup {NoRow}] /\ expired \subseteq Keys
  /\ account \in [Threads -> [Keys -> Accounts \cup {Closed}]]
  /\ \A a \in Threads, k \in Keys :
       account[a][k] # Closed => Sound(account[a][k], LimitOf[k])
  /\ overtaken \subseteq Threads

LocalsOK ==
  /\ pc \in [Threads -> Labels]
  /\ using \in [Threads -> Threads \cup {None}]
  /\ req \in [Threads -> [key : Keys, tokens : Sizes] \cup {None}]
  /\ loaded \in [Threads -> Scopes \cup {None}]
  /\ result \in [Threads -> Outcomes]
  /\ genuine \in [Threads -> BOOLEAN] /\ offered \in [Threads -> SUBSET Scopes]

TypeOK == SharedOK /\ LocalsOK

Authenticates(t) ==
  pc[t] # "idle" /\ pc'[t] = "idle" /\ result'[t].is = "authenticated"

\* A key that was revoked, expired or deleted before a request began is
\* neither charged for it nor authenticated.
OnlyGenuine ==
  [][\A t \in Threads :
       Authenticates(t) \/ pc'[t] = "commit" => genuine[t]]_vars

\* The scopes granted are no older than the request's commit: what was taken
\* from the key before that is not granted any more.
ScopesFresh ==
  [][\A t \in Threads : Authenticates(t) => result'[t].scopes \in offered[t]]_vars

\* No authentication in progress brings back a key that was revoked or deleted
\* meanwhile by writing what it had read.
RevocationSticks ==
  [][\A k \in Keys :
       /\ row[k] = NoRow => row'[k] = NoRow
       /\ row[k] # NoRow /\ row[k].status = "revoked"
            => row'[k] = NoRow \/ row'[k].status = "revoked"]_vars

\* There is one authenticator, for those at work and for all who come.
Settled ==
  /\ current # None
  /\ \A t \in Threads : pc[t] # "create" /\ using[t] \in {None, current}

\* Threads that start together may each create an authenticator, with full
\* accounts of its own; once they have settled on one, it stays the only one.
StaysSettled == [][Settled => Settled' /\ current' = current]_vars

=============================================================================
