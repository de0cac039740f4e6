------------------------ MODULE AuthenticationProofs -------------------------
(***************************************************************************)
(* Theorems about Authentication, for any threads, keys, limits and        *)
(* scopes.                                                                 *)
(*                                                                         *)
(* OnlyGenuine rests on the fact that validity is only ever lost: a key    *)
(* that is still valid at the lookup was valid when the request began.     *)
(* ScopesFresh rests on the copy of the row being read after the commit.   *)
(* RateBound rests on an account for every key: what it has been charged   *)
(* with since the window opened, together with the credit that is left, is *)
(* covered by the limit and what has accrued meanwhile.  An account that   *)
(* is closed counts as full, so that evicting a full one changes nothing.  *)
(***************************************************************************)
EXTENDS RateWindow, TLAPS

\* A thread at work has a request, and from the lookup on an authenticator.
AtWork(t) ==
  /\ pc[t] # "idle" => req[t] # None
  /\ pc[t] = "return" => current # None
  /\ pc[t] \in {"lookup", "bucket", "consume", "commit", "refresh"} => using[t] # None

\* What the lookup has accepted, and what it would accept, was valid at first.
Genuine(t) ==
  /\ pc[t] \in {"bucket", "consume", "commit", "refresh"} => genuine[t]
  /\ pc[t] \in {"create", "return", "lookup"} /\ Valid(req[t].key) => genuine[t]

\* The row of a committed request has scopes it was offered with.
Fresh(t) ==
  pc[t] = "refresh" /\ row[req[t].key] # NoRow => row[req[t].key].scopes \in offered[t]

\* A thread that is about to charge an account has one that is the key's, unless
\* it was overtaken.
Held(t) ==
  /\ t \in overtaken => pc[t] = "consume"
  /\ pc[t] = "consume" /\ t \notin overtaken => account[using[t]][req[t].key] # Closed

Core == TypeOK /\ \A t \in Threads : AtWork(t) /\ Genuine(t) /\ Fresh(t)

Inv == Core /\ \A t \in Threads : Held(t)

\* Credit is charged and grows within its limits.
LEMMA OpenSound ==
  ASSUME NEW k \in Keys
  PROVE  Quota!Open(LimitOf[k]) \in Accounts /\ Sound(Quota!Open(LimitOf[k]), LimitOf[k])
  BY AuthenticationAssumption DEF Quota!Open, Quota!Amount, Accounts, Sound

LEMMA ChargeSound ==
  ASSUME NEW k \in Keys, NEW acct \in Accounts, Sound(acct, LimitOf[k]),
         NEW n \in Sizes, Answer(acct, n) = "allowed"
  PROVE  Quota!Charge(acct, n) \in Accounts /\ Sound(Quota!Charge(acct, n), LimitOf[k])
<1>. DEFINE r == LimitOf[k].rpm * Minute
            p == LimitOf[k].tpm * Minute
            m == n * Minute
<1>1. r \in Nat /\ p \in Nat /\ m \in Nat /\ Minute \in Nat  BY AuthenticationAssumption
<1>2. acct.credit.rpm \in Nat /\ acct.credit.tpm \in Nat /\ acct.limit \in [rpm : Nat, tpm : Nat]
  BY DEF Accounts
<1>3. Minute <= acct.credit.rpm /\ m <= acct.credit.tpm
  BY <1>1, <1>2 DEF Answer, Quota!Answer
<1>4. acct.credit.rpm <= r /\ acct.credit.tpm <= p /\ acct.limit = LimitOf[k]  BY DEF Sound
<1>5. Quota!Charge(acct, n) =
        [limit |-> acct.limit,
         credit |-> [rpm |-> acct.credit.rpm - Minute, tpm |-> acct.credit.tpm - m]]
  BY DEF Quota!Charge, Accounts
<1>. HIDE DEF r, p, m
<1>6. Quota!Charge(acct, n) \in Accounts  BY <1>1, <1>2, <1>3, <1>5 DEF Accounts
<1>7. /\ Quota!Charge(acct, n).credit.rpm <= r /\ Quota!Charge(acct, n).credit.tpm <= p
      /\ Quota!Charge(acct, n).limit = LimitOf[k]
  BY <1>1, <1>2, <1>3, <1>4, <1>5
<1>. QED  BY <1>6, <1>7 DEF Sound, r, p

LEMMA GrowSound ==
  ASSUME NEW k \in Keys, NEW acct \in Accounts, Sound(acct, LimitOf[k])
  PROVE  Quota!Grow(acct) \in Accounts /\ Sound(Quota!Grow(acct), LimitOf[k])
<1>. DEFINE r == LimitOf[k].rpm * Minute
            p == LimitOf[k].tpm * Minute
            x == Quota!Least(r, acct.credit.rpm + acct.limit.rpm)
            y == Quota!Least(p, acct.credit.tpm + acct.limit.tpm)
<1>1. r \in Nat /\ p \in Nat  BY AuthenticationAssumption
<1>2. acct.limit = LimitOf[k] /\ acct.limit \in [rpm : Nat, tpm : Nat]
  BY DEF Sound, Accounts
<1>3. Quota!Grow(acct) = [limit |-> acct.limit, credit |-> [rpm |-> x, tpm |-> y]]
  BY <1>2 DEF Quota!Grow, Accounts
<1>. HIDE DEF r, p
<1>4. acct.credit.rpm + acct.limit.rpm \in Nat /\ acct.credit.tpm + acct.limit.tpm \in Nat
  BY DEF Accounts
<1>5. x \in Nat /\ y \in Nat /\ x <= r /\ y <= p  BY <1>1, <1>4 DEF Quota!Least
<1>. HIDE DEF x, y
<1>6. Quota!Grow(acct) \in Accounts  BY <1>2, <1>3, <1>5 DEF Accounts
<1>7. /\ Quota!Grow(acct).limit = LimitOf[k]
      /\ Quota!Grow(acct).credit.rpm <= r /\ Quota!Grow(acct).credit.tpm <= p
  BY <1>2, <1>3, <1>5
<1>. QED  BY <1>6, <1>7 DEF Sound, r, p

-----------------------------------------------------------------------------
(* The locals.                                                             *)

\* What an answer and a step forward do to a thread, and that they leave the
\* others alone.
LEMMA FinishType ==
  ASSUME LocalsOK, NEW t \in Threads, NEW scopes \in Scopes \cup {None},
         NEW what \in {"authenticated", "invalid", "limited", "error"}, Finish(t, what, scopes)
  PROVE  /\ LocalsOK'
         /\ pc'[t] = "idle" /\ result'[t] = Outcome(what, scopes)
         /\ \A u \in Threads \ {t} : /\ pc'[u] = pc[u] /\ using'[u] = using[u]
                                      /\ req'[u] = req[u] /\ genuine'[u] = genuine[u]
                                      /\ offered'[u] = offered[u] /\ result'[u] = result[u]
  BY DEF LocalsOK, Finish, Goto, Labels, Outcome, Outcomes

LEMMA ProceedType ==
  ASSUME LocalsOK, NEW t \in Threads, NEW label \in Labels,
         NEW copy \in Scopes \cup {None}, Proceed(t, label, copy)
  PROVE  /\ pc' \in [Threads -> Labels] /\ loaded' \in [Threads -> Scopes \cup {None}]
         /\ UNCHANGED <<using, req, result, genuine>>
         /\ pc'[t] = label /\ \A u \in Threads \ {t} : pc'[u] = pc[u]
  BY DEF LocalsOK, Proceed, Goto

LEMMA RequestOf ==
  ASSUME LocalsOK, NEW t \in Threads, AtWork(t), pc[t] # "idle"
  PROVE  req[t] \in [key : Keys, tokens : Sizes]
  BY DEF LocalsOK, AtWork

\* A thread is as good as before when nothing but its key's validity and
\* other threads have changed.
LEMMA Undisturbed ==
  ASSUME NEW u \in Threads, AtWork(u), Genuine(u), Fresh(u),
         current' # None \/ current' = current, UNCHANGED row, expired \subseteq expired',
         pc'[u] = pc[u], using'[u] = using[u], req'[u] = req[u],
         genuine'[u] = genuine[u], offered'[u] = offered[u]
  PROVE  AtWork(u)' /\ Genuine(u)' /\ Fresh(u)'
<1>1. AtWork(u)'  BY DEF AtWork
<1>2. Genuine(u)'  BY DEF Genuine, Valid
<1>3. Fresh(u)'  BY DEF Fresh
<1>. QED  BY <1>1, <1>2, <1>3

\* An answered thread has nothing to be right about.
LEMMA Answered ==
  ASSUME Core, NEW t \in Threads, NEW scopes \in Scopes \cup {None},
         NEW what \in {"authenticated", "invalid", "limited", "error"}, Finish(t, what, scopes),
         UNCHANGED <<current, row, expired>>, SharedOK'
  PROVE  Core'
<1>1. LocalsOK' /\ pc'[t] = "idle"  BY FinishType DEF Core, TypeOK
<1>2. AtWork(t)' /\ Genuine(t)' /\ Fresh(t)'  BY <1>1 DEF AtWork, Genuine, Fresh
<1>3. \A u \in Threads \ {t} : AtWork(u)' /\ Genuine(u)' /\ Fresh(u)'
  BY FinishType, Undisturbed DEF Core, TypeOK
<1>. QED  BY <1>1, <1>2, <1>3 DEF Core, TypeOK

LEMMA SharedSame ==
  ASSUME SharedOK, UNCHANGED <<current, row, expired, limiter>>
  PROVE  SharedOK'
  BY DEF SharedOK, limiter

-----------------------------------------------------------------------------
(* The steps.                                                              *)

LEMMA ArriveStep ==
  ASSUME Core, NEW t \in Threads, Request(t) \/ Create(t) \/ Return(t)
  PROVE  Core'
<1>0. SharedOK /\ LocalsOK /\ AtWork(t) /\ Genuine(t)  BY DEF Core, TypeOK
<1>1. CASE Request(t)
  <2>1. PICK k \in Keys, n \in Sizes :
          /\ req' = [req EXCEPT ![t] = [key |-> k, tokens |-> n]]
          /\ genuine' = [genuine EXCEPT ![t] = Valid(k)]
    BY <1>1 DEF Request
  <2>2. /\ pc' = [pc EXCEPT ![t] = IF current = None THEN "create" ELSE "return"]
        /\ result' = [result EXCEPT ![t] = Outcome("none", None)]
        /\ UNCHANGED <<current, row, expired, limiter, using, loaded, offered>>
    BY <1>1 DEF Request, Goto
  <2>3. LocalsOK'  BY <1>0, <2>1, <2>2 DEF LocalsOK, Labels, Outcome, Outcomes, Valid
  <2>4. AtWork(t)'
    <3>1. req'[t] # None  BY <1>0, <2>1, AuthenticationAssumption DEF LocalsOK
    <3>2. pc'[t] = IF current = None THEN "create" ELSE "return"
      BY <1>0, <2>2 DEF LocalsOK
    <3>. QED  BY <2>2, <3>1, <3>2 DEF AtWork
  <2>5. Genuine(t)'  BY <1>0, <2>1, <2>2 DEF Genuine, LocalsOK, Valid
  <2>6. Fresh(t)'  BY <1>0, <2>2 DEF Fresh, LocalsOK
  <2>7. \A u \in Threads \ {t} : AtWork(u)' /\ Genuine(u)' /\ Fresh(u)'
    BY <1>0, <2>1, <2>2, Undisturbed DEF LocalsOK, Core
  <2>. QED  BY <1>0, <2>2, <2>3, <2>4, <2>5, <2>6, <2>7, SharedSame DEF Core, TypeOK
<1>2. CASE Create(t)
  <2>1. /\ current' = t /\ pc' = [pc EXCEPT ![t] = "return"] /\ pc[t] = "create"
        /\ UNCHANGED <<row, expired, limiter, using, req, loaded, result, genuine, offered>>
    BY <1>2 DEF Create, Goto
  <2>2. current' # None  BY <2>1, AuthenticationAssumption
  <2>3. LocalsOK' /\ SharedOK'  BY <1>0, <2>1 DEF LocalsOK, SharedOK, Labels, limiter
  <2>4. AtWork(t)' /\ Genuine(t)' /\ Fresh(t)'
    BY <1>0, <2>1, <2>2 DEF AtWork, Genuine, Fresh, Valid, LocalsOK
  <2>5. \A u \in Threads \ {t} : AtWork(u)' /\ Genuine(u)' /\ Fresh(u)'
    BY <1>0, <2>1, <2>2, Undisturbed DEF LocalsOK, Core
  <2>. QED  BY <2>3, <2>4, <2>5 DEF Core, TypeOK
<1>3. CASE Return(t)
  <2>1. /\ using' = [using EXCEPT ![t] = current]
        /\ pc' = [pc EXCEPT ![t] = "lookup"] /\ pc[t] = "return"
        /\ UNCHANGED <<current, row, expired, limiter, req, loaded, result, genuine, offered>>
    BY <1>3 DEF Return, Goto
  <2>2. LocalsOK'  BY <1>0, <2>1 DEF LocalsOK, SharedOK, Labels
  <2>3. AtWork(t)' /\ Genuine(t)' /\ Fresh(t)'
    BY <1>0, <2>1 DEF AtWork, Genuine, Fresh, Valid, LocalsOK
  <2>4. \A u \in Threads \ {t} : AtWork(u)' /\ Genuine(u)' /\ Fresh(u)'
    BY <1>0, <2>1, Undisturbed DEF LocalsOK, Core
  <2>. QED  BY <1>0, <2>1, <2>2, <2>3, <2>4, SharedSame DEF Core, TypeOK
<1>. QED  BY <1>1, <1>2, <1>3

LEMMA LookupStep ==
  ASSUME Core, NEW t \in Threads, Lookup(t)
  PROVE  Core'
<1>0. SharedOK /\ LocalsOK /\ AtWork(t) /\ Genuine(t)  BY DEF Core, TypeOK
<1>1. pc[t] = "lookup" /\ UNCHANGED <<current, row, expired, limiter>> /\ SharedOK'
  BY <1>0, SharedSame DEF Lookup
<1>2. req[t].key \in Keys  BY <1>0, <1>1, RequestOf
<1>3. CASE Valid(req[t].key)
  <2>1. Proceed(t, "bucket", row[req[t].key].scopes) /\ UNCHANGED offered
    BY <1>3 DEF Lookup
  <2>2. row[req[t].key].scopes \in Scopes  BY <1>0, <1>2, <1>3 DEF SharedOK, Valid, Rows
  <2>3. /\ pc' \in [Threads -> Labels] /\ loaded' \in [Threads -> Scopes \cup {None}]
        /\ UNCHANGED <<using, req, result, genuine>>
        /\ pc'[t] = "bucket" /\ \A u \in Threads \ {t} : pc'[u] = pc[u]
    BY <1>0, <2>1, <2>2, ProceedType DEF Labels
  <2>4. LocalsOK'  BY <1>0, <2>1, <2>3 DEF LocalsOK
  <2>5. AtWork(t)' /\ Genuine(t)' /\ Fresh(t)'
    BY <1>0, <1>1, <1>3, <2>3 DEF AtWork, Genuine, Fresh
  <2>6. \A u \in Threads \ {t} : AtWork(u)' /\ Genuine(u)' /\ Fresh(u)'
    BY <1>1, <2>1, <2>3, Undisturbed DEF Core
  <2>. QED  BY <1>1, <2>4, <2>5, <2>6 DEF Core, TypeOK
<1>4. CASE ~Valid(req[t].key)
  <2>1. Finish(t, "invalid", None)  BY <1>4 DEF Lookup
  <2>. QED  BY <1>1, <2>1, Answered
<1>. QED  BY <1>3, <1>4

\* The account is found in the table, or opened full; what was evicted was full.
LEMMA GetAccountStep ==
  ASSUME Core, NEW t \in Threads, GetAccount(t)
  PROVE  Core'
<1>0. SharedOK /\ LocalsOK /\ AtWork(t) /\ Genuine(t)  BY DEF Core, TypeOK
<1>1. /\ pc[t] = "bucket" /\ UNCHANGED <<current, row, expired, offered>>
      /\ Proceed(t, "consume", loaded[t])
  BY DEF GetAccount
<1>2. using[t] \in Threads  BY <1>0, <1>1 DEF AtWork, LocalsOK
<1>3. SharedOK'
  <2>1. PICK evicted \in SUBSET Keys :
          /\ account' = [account EXCEPT ![using[t]] =
               [k \in Keys |->
                  IF k = req[t].key
                     /\ (IF k \in evicted THEN Closed ELSE account[using[t]][k]) = Closed
                  THEN Quota!Open(LimitOf[k])
                  ELSE IF k \in evicted THEN Closed ELSE account[using[t]][k]]]
          /\ overtaken' \subseteq Threads
    BY <1>0 DEF GetAccount, SharedOK
  <2>2. \A a \in Threads, k \in Keys :
          \/ account'[a][k] = Closed
          \/ account'[a][k] = Quota!Open(LimitOf[k])
          \/ account'[a][k] = account[a][k]
    BY <1>0, <1>2, <2>1 DEF SharedOK
  <2>3. \A a \in Threads, k \in Keys :
          account'[a][k] # Closed =>
            account'[a][k] \in Accounts /\ Sound(account'[a][k], LimitOf[k])
    BY <1>0, <2>2, OpenSound DEF SharedOK
  <2>4. account' \in [Threads -> [Keys -> Accounts \cup {Closed}]]
    <3>1. \A k \in Keys :
            (IF k = req[t].key
                /\ (IF k \in evicted THEN Closed ELSE account[using[t]][k]) = Closed
             THEN Quota!Open(LimitOf[k])
             ELSE IF k \in evicted THEN Closed ELSE account[using[t]][k])
              \in Accounts \cup {Closed}
      BY <1>0, <1>2, OpenSound DEF SharedOK
    <3>. QED  BY <1>0, <1>2, <2>1, <3>1 DEF SharedOK
  <2>. QED  BY <1>0, <1>1, <2>1, <2>3, <2>4 DEF SharedOK
<1>4. loaded[t] \in Scopes \cup {None}  BY <1>0 DEF LocalsOK
<1>5. /\ pc' \in [Threads -> Labels] /\ loaded' \in [Threads -> Scopes \cup {None}]
      /\ UNCHANGED <<using, req, result, genuine>>
      /\ pc'[t] = "consume" /\ \A u \in Threads \ {t} : pc'[u] = pc[u]
  BY <1>0, <1>1, <1>4, ProceedType DEF Labels
<1>6. LocalsOK'  BY <1>0, <1>1, <1>5 DEF LocalsOK
<1>7. AtWork(t)' /\ Genuine(t)' /\ Fresh(t)'
  BY <1>0, <1>1, <1>5 DEF AtWork, Genuine, Fresh
<1>8. \A u \in Threads \ {t} : AtWork(u)' /\ Genuine(u)' /\ Fresh(u)'
  BY <1>1, <1>5, Undisturbed DEF Core
<1>. QED  BY <1>3, <1>6, <1>7, <1>8 DEF Core, TypeOK

\* What a thread becomes that is let through or turned away.
LEMMA ChargedStep ==
  ASSUME Core, NEW t \in Threads, pc[t] = "consume", LetThrough(t) \/ TurnAway(t),
         UNCHANGED <<current, row, expired>>, SharedOK'
  PROVE  Core'
<1>0. SharedOK /\ LocalsOK /\ AtWork(t) /\ Genuine(t)  BY DEF Core, TypeOK
<1>1. CASE LetThrough(t)
  <2>1. Proceed(t, "commit", loaded[t]) /\ UNCHANGED offered  BY <1>1 DEF LetThrough
  <2>2. loaded[t] \in Scopes \cup {None}  BY <1>0 DEF LocalsOK
  <2>3. /\ pc' \in [Threads -> Labels] /\ loaded' \in [Threads -> Scopes \cup {None}]
        /\ UNCHANGED <<using, req, result, genuine>>
        /\ pc'[t] = "commit" /\ \A u \in Threads \ {t} : pc'[u] = pc[u]
    BY <1>0, <2>1, <2>2, ProceedType DEF Labels
  <2>4. LocalsOK'  BY <1>0, <2>1, <2>3 DEF LocalsOK
  <2>5. AtWork(t)' /\ Genuine(t)' /\ Fresh(t)'
    BY <1>0, <2>3 DEF AtWork, Genuine, Fresh
  <2>6. \A u \in Threads \ {t} : AtWork(u)' /\ Genuine(u)' /\ Fresh(u)'
    BY <2>1, <2>3, Undisturbed DEF Core
  <2>. QED  BY <2>4, <2>5, <2>6 DEF Core, TypeOK
<1>2. CASE TurnAway(t)  BY <1>2, Answered DEF TurnAway
<1>. QED  BY <1>1, <1>2

\* A call that was not overtaken and is allowed is charged to the key's account.
LEMMA Charged ==
  ASSUME Inv, NEW t \in Threads, Consume(t),
         NEW a, a = using[t], NEW k, k = req[t].key, NEW n, n = req[t].tokens
  PROVE  /\ a \in Threads /\ k \in Keys /\ n \in Sizes
         /\ account[a][k] \in Accounts /\ Sound(account[a][k], LimitOf[k])
         /\ Answer(account[a][k], n) # "allowed" => UNCHANGED account /\ TurnAway(t)
         /\ Answer(account[a][k], n) = "allowed" =>
              /\ LetThrough(t)
              /\ account' = [account EXCEPT ![a][k] = Quota!Charge(account[a][k], n)]
              /\ Quota!Charge(account[a][k], n) \in Accounts
              /\ Sound(Quota!Charge(account[a][k], n), LimitOf[k])
<1>0. SharedOK /\ LocalsOK /\ AtWork(t) /\ Held(t)  BY DEF Inv, Core, TypeOK
<1>1. pc[t] = "consume" /\ t \notin overtaken  BY DEF Consume
<1>2. a \in Threads /\ k \in Keys /\ n \in Sizes
  BY <1>0, <1>1, RequestOf DEF AtWork, LocalsOK
<1>3. account[a][k] \in Accounts /\ Sound(account[a][k], LimitOf[k])
  BY <1>0, <1>1, <1>2 DEF Held, SharedOK
<1>4. Answer(account[a][k], n) # "allowed" => UNCHANGED account /\ TurnAway(t)
  BY DEF Consume
<1>5. ASSUME Answer(account[a][k], n) = "allowed"
      PROVE  /\ LetThrough(t)
             /\ account' = [account EXCEPT ![a][k] = Quota!Charge(account[a][k], n)]
             /\ Quota!Charge(account[a][k], n) \in Accounts
             /\ Sound(Quota!Charge(account[a][k], n), LimitOf[k])
  <2>1. LetThrough(t) /\ account' = [account EXCEPT ![a][k] = Quota!Charge(@, n)]
    BY <1>5 DEF Consume
  <2>2. account' = [account EXCEPT ![a][k] = Quota!Charge(account[a][k], n)]
    BY <2>1
  <2>. QED  BY <1>2, <1>3, <1>5, <2>1, <2>2, ChargeSound
<1>. QED  BY <1>2, <1>3, <1>4, <1>5

LEMMA ConsumeStep ==
  ASSUME Inv, NEW t \in Threads, Consume(t) \/ ConsumeOvertaken(t)
  PROVE  Core'
<1>0. SharedOK /\ LocalsOK /\ Held(t) /\ Core  BY DEF Inv, Core, TypeOK
<1>1. pc[t] = "consume" /\ UNCHANGED <<current, row, expired>>
  BY <1>0 DEF Consume, ConsumeOvertaken, Held
<1>2. (LetThrough(t) \/ TurnAway(t)) /\ overtaken' \subseteq Threads
  BY <1>0 DEF Consume, ConsumeOvertaken, SharedOK
<1>3. SharedOK'
  <2>1. CASE UNCHANGED account  BY <1>0, <1>1, <1>2, <2>1 DEF SharedOK
  <2>2. ASSUME NEW a \in Threads, NEW k \in Keys, NEW next \in Accounts,
               Sound(next, LimitOf[k]), account' = [account EXCEPT ![a][k] = next]
        PROVE  SharedOK'
    BY <1>0, <1>1, <1>2, <2>2 DEF SharedOK
  <2>. QED  BY <2>1, <2>2, Charged DEF ConsumeOvertaken
<1>. QED  BY <1>0, <1>1, <1>2, <1>3, ChargedStep

LEMMA CommitStep ==
  ASSUME Core, NEW t \in Threads, Commit(t)
  PROVE  Core'
<1>0. SharedOK /\ LocalsOK /\ AtWork(t) /\ Genuine(t)  BY DEF Core, TypeOK
<1>1. pc[t] = "commit" /\ UNCHANGED <<current, row, expired, limiter>> /\ SharedOK'
  BY <1>0, SharedSame DEF Commit
<1>2. req[t].key \in Keys  BY <1>0, <1>1, RequestOf
<1>3. CASE row[req[t].key] = NoRow
  <2>1. Finish(t, "error", None)  BY <1>3 DEF Commit
  <2>. QED  BY <1>1, <2>1, Answered
<1>4. CASE row[req[t].key] # NoRow
  <2>1. /\ Proceed(t, "refresh", loaded[t])
        /\ offered' = [offered EXCEPT ![t] = {row[req[t].key].scopes}]
    BY <1>4 DEF Commit
  <2>2. row[req[t].key].scopes \in Scopes /\ loaded[t] \in Scopes \cup {None}
    BY <1>0, <1>2, <1>4 DEF SharedOK, LocalsOK, Rows
  <2>3. /\ pc' \in [Threads -> Labels] /\ loaded' \in [Threads -> Scopes \cup {None}]
        /\ UNCHANGED <<using, req, result, genuine>>
        /\ pc'[t] = "refresh" /\ \A u \in Threads \ {t} : pc'[u] = pc[u]
    BY <1>0, <2>1, <2>2, ProceedType DEF Labels
  <2>4. LocalsOK'  BY <1>0, <2>1, <2>2, <2>3 DEF LocalsOK
  <2>5. AtWork(t)' /\ Genuine(t)'  BY <1>0, <1>1, <2>3 DEF AtWork, Genuine
  <2>6. Fresh(t)'  BY <1>0, <1>1, <2>1, <2>3 DEF Fresh, LocalsOK
  <2>7. \A u \in Threads \ {t} : AtWork(u)' /\ Genuine(u)' /\ Fresh(u)'
    <3>1. \A u \in Threads \ {t} : offered'[u] = offered[u]  BY <1>0, <2>1 DEF LocalsOK
    <3>. QED  BY <1>1, <2>3, <3>1, Undisturbed DEF Core
  <2>. QED  BY <1>1, <2>4, <2>5, <2>6, <2>7 DEF Core, TypeOK
<1>. QED  BY <1>3, <1>4

LEMMA AnswerStep ==
  ASSUME Core, NEW t \in Threads, Refresh(t) \/ DatabaseFails(t)
  PROVE  Core'
<1>0. SharedOK /\ LocalsOK /\ AtWork(t)  BY DEF Core, TypeOK
<1>1. pc[t] # "idle" /\ UNCHANGED <<current, row, expired, limiter>> /\ SharedOK'
  BY <1>0, SharedSame DEF Refresh, DatabaseFails
<1>2. req[t].key \in Keys  BY <1>0, <1>1, RequestOf
<1>3. \/ Finish(t, "error", None)
      \/ row[req[t].key] # NoRow /\ Finish(t, "authenticated", row[req[t].key].scopes)
  BY DEF Refresh, DatabaseFails
<1>4. row[req[t].key] # NoRow => row[req[t].key].scopes \in Scopes
  BY <1>0, <1>2 DEF SharedOK, Rows
<1>. QED  BY <1>1, <1>3, <1>4, Answered

\* Administrators take validity away, never give it.
LEMMA AdminStep ==
  ASSUME Core, NEW k \in Keys,
         \/ Revoke(k) \/ DeleteKey(k) \/ Expire(k)
         \/ \E s \in Scopes : SetScopes(k, s)
  PROVE  Core'
<1>0. SharedOK /\ LocalsOK  BY DEF Core, TypeOK
<1>1. UNCHANGED <<current, limiter, pc, using, req, loaded, result, genuine>>
  BY DEF Revoke, DeleteKey, Expire, SetScopes, locals
<1>2. row' \in [Keys -> Rows \cup {NoRow}] /\ expired' \subseteq Keys
  BY <1>0 DEF Revoke, DeleteKey, Expire, SetScopes, SharedOK, Rows
<1>3. offered' \in [Threads -> SUBSET Scopes]
  BY <1>0 DEF Revoke, DeleteKey, Expire, SetScopes, LocalsOK, locals
<1>4. SharedOK' /\ LocalsOK'  BY <1>0, <1>1, <1>2, <1>3 DEF SharedOK, LocalsOK, limiter
<1>5. \A j \in Keys : Valid(j)' => Valid(j)
  BY <1>0 DEF Valid, Revoke, DeleteKey, Expire, SetScopes, SharedOK, Rows
<1>6. ASSUME NEW u \in Threads PROVE AtWork(u)' /\ Genuine(u)' /\ Fresh(u)'
  <2>1. AtWork(u) /\ Genuine(u) /\ Fresh(u)  BY DEF Core
  <2>2. AtWork(u)'  BY <1>1, <2>1 DEF AtWork
  <2>3. pc[u] # "idle" => req[u].key \in Keys  BY <1>0, <2>1, RequestOf
  <2>4. Genuine(u)'  BY <1>1, <1>5, <2>1, <2>3 DEF Genuine
  <2>5. Fresh(u)'
    <3>1. SUFFICES ASSUME pc[u] = "refresh", row'[req[u].key] # NoRow
                   PROVE  row'[req[u].key].scopes \in offered'[u]
      BY <1>1 DEF Fresh
    <3>2. req[u].key \in Keys  BY <2>3, <3>1
    <3>3. CASE Revoke(k) \/ DeleteKey(k) \/ Expire(k)
      <4>1. /\ offered' = offered /\ row[req[u].key] # NoRow
            /\ row'[req[u].key].scopes = row[req[u].key].scopes
        BY <1>0, <3>1, <3>2, <3>3 DEF Revoke, DeleteKey, Expire, locals, SharedOK, Rows
      <4>. QED  BY <2>1, <3>1, <4>1 DEF Fresh
    <3>4. ASSUME NEW s \in Scopes, SetScopes(k, s)
          PROVE  row'[req[u].key].scopes \in offered'[u]
      <4>1. /\ row[k] # NoRow /\ row' = [row EXCEPT ![k].scopes = s]
            /\ offered' = [t \in Threads |-> IF pc[t] = "refresh" /\ req[t].key = k
                                             THEN offered[t] \cup {s} ELSE offered[t]]
        BY <3>4 DEF SetScopes
      <4>2. CASE req[u].key = k  BY <1>0, <3>1, <4>1, <4>2 DEF SharedOK, Rows
      <4>3. CASE req[u].key # k
        BY <1>0, <2>1, <3>1, <3>2, <4>1, <4>3 DEF Fresh, SharedOK
      <4>. QED  BY <4>2, <4>3
    <3>. QED  BY <3>3, <3>4
  <2>. QED  BY <2>2, <2>4, <2>5
<1>. QED  BY <1>4, <1>6 DEF Core, TypeOK

LEMMA AccrueStep ==
  ASSUME Core, Accrue
  PROVE  Core'
<1>0. SharedOK /\ LocalsOK  BY DEF Core, TypeOK
<1>1. UNCHANGED <<current, row, expired, pc, using, req, loaded, result, genuine, offered>>
  BY DEF Accrue, locals
<1>2. \A a \in Threads, k \in Keys : account[a][k] # Closed =>
        /\ account[a][k] \in Accounts
        /\ Quota!Grow(account[a][k]) \in Accounts
        /\ Sound(Quota!Grow(account[a][k]), LimitOf[k])
  BY <1>0, GrowSound DEF SharedOK
<1>3. SharedOK'  BY <1>0, <1>1, <1>2 DEF SharedOK, Accrue
<1>4. LocalsOK'  BY <1>0, <1>1 DEF LocalsOK
<1>5. \A u \in Threads : AtWork(u)' /\ Genuine(u)' /\ Fresh(u)'
  BY <1>1, Undisturbed DEF Core
<1>. QED  BY <1>3, <1>4, <1>5 DEF Core, TypeOK

\* A thread that leaves the accounts alone, or is overtaken and answered, and is
\* not left in front of the account's lock.
LEMMA HeldApart ==
  ASSUME Inv, NEW t \in Threads, UNCHANGED account, overtaken' = overtaken \ {t},
         pc'[t] # "consume",
         \A u \in Threads \ {t} : pc'[u] = pc[u] /\ using'[u] = using[u] /\ req'[u] = req[u]
  PROVE  \A u \in Threads : Held(u)'
<1>1. Held(t)'  BY DEF Held
<1>2. ASSUME NEW u \in Threads \ {t} PROVE Held(u)'  BY <1>2 DEF Inv, Held
<1>. QED  BY <1>1, <1>2

LEMMA ServeHeld ==
  ASSUME Inv, NEW t \in Threads, Serve(t)
  PROVE  \A u \in Threads : Held(u)'
<1>0. LocalsOK /\ Held(t)  BY DEF Inv, Core, TypeOK
<1>1. UNCHANGED <<account, overtaken>> /\ pc[t] # "consume"
  BY DEF Serve, Request, Create, Return, Lookup, Commit, Refresh, DatabaseFails, limiter
<1>2. overtaken' = overtaken \ {t}  BY <1>0, <1>1 DEF Held
<1>3. ASSUME NEW label \in Labels \ {"consume"}, Goto(t, label)
      PROVE  pc'[t] # "consume" /\ \A u \in Threads \ {t} : pc'[u] = pc[u]
  BY <1>0, <1>3 DEF Goto, LocalsOK
<1>4. ASSUME NEW what, NEW scopes, Finish(t, what, scopes)
      PROVE  \A u \in Threads : Held(u)'
  <2>1. \A u \in Threads \ {t} : using'[u] = using[u] /\ req'[u] = req[u]
    BY <1>0, <1>4 DEF Finish, LocalsOK
  <2>. QED  BY <1>1, <1>2, <1>3, <1>4, <2>1, HeldApart DEF Finish, Labels
<1>5. ASSUME NEW label \in Labels \ {"consume"}, NEW copy, Proceed(t, label, copy)
      PROVE  \A u \in Threads : Held(u)'
  BY <1>1, <1>2, <1>3, <1>5, HeldApart DEF Proceed
<1>6. CASE Request(t)
  <2>1. UNCHANGED using /\ \E label \in Labels \ {"consume"} : Goto(t, label)
    BY <1>6 DEF Request, Labels
  <2>2. \A u \in Threads \ {t} : req'[u] = req[u]  BY <1>0, <1>6 DEF Request, LocalsOK
  <2>. QED  BY <1>1, <1>2, <1>3, <2>1, <2>2, HeldApart
<1>7. CASE Create(t)
  <2>1. UNCHANGED <<using, req>> /\ Goto(t, "return")  BY <1>7 DEF Create
  <2>. QED  BY <1>1, <1>2, <1>3, <2>1, HeldApart DEF Labels
<1>8. CASE Return(t)
  <2>1. UNCHANGED req /\ Goto(t, "lookup")  BY <1>8 DEF Return
  <2>2. \A u \in Threads \ {t} : using'[u] = using[u]  BY <1>0, <1>8 DEF Return, LocalsOK
  <2>. QED  BY <1>1, <1>2, <1>3, <2>1, <2>2, HeldApart DEF Labels
<1>9. CASE Lookup(t) \/ Commit(t) \/ Refresh(t) \/ DatabaseFails(t)
  BY <1>4, <1>5, <1>9 DEF Lookup, Commit, Refresh, DatabaseFails, Labels
<1>. QED  BY <1>6, <1>7, <1>8, <1>9 DEF Serve

\* The thread gets an account that is the key's; whoever loses one is overtaken.
LEMMA GetAccountHeld ==
  ASSUME Inv, NEW t \in Threads, GetAccount(t)
  PROVE  \A u \in Threads : Held(u)'
<1>. DEFINE a == using[t]
            kept(evicted, k) == IF k \in evicted THEN Closed ELSE account[a][k]
<1>0. SharedOK /\ LocalsOK /\ AtWork(t) /\ Held(t)  BY DEF Inv, Core, TypeOK
<1>1. pc[t] = "bucket" /\ pc' = [pc EXCEPT ![t] = "consume"] /\ UNCHANGED <<using, req>>
  BY DEF GetAccount, Proceed, Goto
<1>2. a \in Threads /\ req[t].key \in Keys
  BY <1>0, <1>1, RequestOf DEF AtWork, LocalsOK
<1>3. PICK evicted \in SUBSET Keys :
        /\ account' = [account EXCEPT ![a] =
             [k \in Keys |-> IF k = req[t].key /\ kept(evicted, k) = Closed
                             THEN Quota!Open(LimitOf[k]) ELSE kept(evicted, k)]]
        /\ overtaken' = overtaken \cup
             {u \in Threads : pc[u] = "consume" /\ using[u] = a /\ req[u].key \in evicted}
  BY DEF GetAccount
<1>4. \A k \in Keys : Quota!Open(LimitOf[k]) # Closed
  BY OpenSound, AuthenticationAssumption
<1>5. \A k \in Keys : account'[a][k] = IF k = req[t].key /\ kept(evicted, k) = Closed
                                       THEN Quota!Open(LimitOf[k]) ELSE kept(evicted, k)
  BY <1>0, <1>2, <1>3 DEF SharedOK
<1>6. \A b \in Threads \ {a} : account'[b] = account[b]  BY <1>0, <1>3 DEF SharedOK
<1>7. Held(t)'
  <2>1. pc'[t] = "consume"  BY <1>0, <1>1 DEF LocalsOK
  <2>2. account'[a][req[t].key] # Closed  BY <1>2, <1>4, <1>5
  <2>. QED  BY <1>1, <2>1, <2>2 DEF Held
<1>8. ASSUME NEW u \in Threads \ {t} PROVE Held(u)'
  <2>1. pc'[u] = pc[u] /\ Held(u) /\ AtWork(u)
    BY <1>0, <1>1 DEF LocalsOK, Inv, Core
  <2>2. u \in overtaken' => pc[u] = "consume"  BY <1>3, <2>1 DEF Held
  <2>3. ASSUME pc[u] = "consume", u \notin overtaken'
        PROVE  account'[using[u]][req[u].key] # Closed
    <3>1. account[using[u]][req[u].key] # Closed  BY <1>3, <2>1, <2>3 DEF Held
    <3>2. using[u] \in Threads /\ req[u].key \in Keys
      BY <1>0, <2>1, <2>3, RequestOf DEF AtWork, LocalsOK
    <3>3. CASE using[u] = a
      <4>1. req[u].key \notin evicted  BY <1>3, <2>3, <3>3
      <4>2. kept(evicted, req[u].key) # Closed  BY <3>1, <3>3, <4>1
      <4>. QED  BY <1>4, <1>5, <3>2, <3>3, <4>2
    <3>4. CASE using[u] # a  BY <1>6, <3>1, <3>2, <3>4
    <3>. QED  BY <3>3, <3>4
  <2>. QED  BY <1>1, <2>1, <2>2, <2>3 DEF Held
<1>. QED  BY <1>7, <1>8

LEMMA ConsumeHeld ==
  ASSUME Inv, NEW t \in Threads, Consume(t) \/ ConsumeOvertaken(t)
  PROVE  \A u \in Threads : Held(u)'
<1>0. SharedOK /\ LocalsOK /\ AtWork(t) /\ Held(t)  BY DEF Inv, Core, TypeOK
<1>1. pc[t] = "consume" /\ overtaken' = overtaken \ {t}
  BY <1>0 DEF Consume, ConsumeOvertaken, Held
<1>2. /\ pc'[t] # "consume"
      /\ \A u \in Threads \ {t} : pc'[u] = pc[u] /\ using'[u] = using[u] /\ req'[u] = req[u]
  BY <1>0 DEF Consume, ConsumeOvertaken, LetThrough, TurnAway, Proceed, Finish, Goto, LocalsOK
<1>3. \A x \in Threads, k \in Keys : account[x][k] # Closed => account'[x][k] # Closed
  <2>1. CASE UNCHANGED account  BY <2>1
  <2>2. ASSUME NEW a \in Threads, NEW k \in Keys, NEW next \in Accounts,
               account' = [account EXCEPT ![a][k] = next]
        PROVE  \A x \in Threads, j \in Keys : account[x][j] # Closed => account'[x][j] # Closed
    BY <1>0, <2>2, AuthenticationAssumption DEF SharedOK
  <2>. QED  BY <2>1, <2>2, Charged DEF ConsumeOvertaken
<1>4. Held(t)'  BY <1>1, <1>2 DEF Held
<1>5. ASSUME NEW u \in Threads \ {t} PROVE Held(u)'
  <2>1. Held(u) /\ AtWork(u)  BY DEF Inv, Core
  <2>2. pc[u] = "consume" => using[u] \in Threads /\ req[u].key \in Keys
    BY <1>0, <2>1, RequestOf DEF AtWork, LocalsOK
  <2>. QED  BY <1>1, <1>2, <1>3, <2>1, <2>2 DEF Held
<1>. QED  BY <1>4, <1>5

LEMMA AccrueHeld ==
  ASSUME Inv, Accrue
  PROVE  \A u \in Threads : Held(u)'
<1>0. SharedOK /\ LocalsOK  BY DEF Inv, Core, TypeOK
<1>1. UNCHANGED <<pc, using, req, overtaken>>  BY DEF Accrue, locals
<1>2. \A x \in Threads, k \in Keys : account[x][k] # Closed => account'[x][k] # Closed
  BY <1>0, GrowSound, AuthenticationAssumption DEF Accrue, SharedOK
<1>3. ASSUME NEW u \in Threads PROVE Held(u)'
  <2>1. Held(u) /\ AtWork(u)  BY DEF Inv, Core
  <2>2. pc[u] = "consume" => using[u] \in Threads /\ req[u].key \in Keys
    BY <1>0, <2>1, RequestOf DEF AtWork, LocalsOK
  <2>. QED  BY <1>1, <1>2, <2>1, <2>2 DEF Held
<1>. QED  BY <1>3

LEMMA InvStep == Inv /\ [Next]_vars => Inv'
<1>. SUFFICES ASSUME Inv, [Next]_vars PROVE Inv'
  OBVIOUS
<1>0. Core  BY DEF Inv
<1>1. CASE UNCHANGED vars
  <2>1. UNCHANGED <<current, row, expired, account, overtaken, pc, using, req, loaded,
                    result, genuine, offered>>
    BY <1>1 DEF vars, locals, limiter
  <2>2. TypeOK'  BY <1>0, <2>1 DEF Core, TypeOK, SharedOK, LocalsOK
  <2>3. \A u \in Threads : AtWork(u)' /\ Genuine(u)' /\ Fresh(u)'
    BY <1>0, <2>1, Undisturbed DEF Core
  <2>4. \A u \in Threads : Held(u)'  BY <2>1 DEF Inv, Held
  <2>. QED  BY <2>2, <2>3, <2>4 DEF Inv, Core
<1>2. CASE Accrue  BY <1>0, <1>2, AccrueStep, AccrueHeld DEF Inv
<1>3. ASSUME NEW t \in Threads, Serve(t) PROVE Inv'
  <2>1. Core'  BY <1>0, <1>3, ArriveStep, LookupStep, CommitStep, AnswerStep DEF Serve
  <2>. QED  BY <1>3, <2>1, ServeHeld DEF Inv
<1>4. ASSUME NEW t \in Threads, GetAccount(t) PROVE Inv'
  BY <1>0, <1>4, GetAccountStep, GetAccountHeld DEF Inv
<1>5. ASSUME NEW t \in Threads, Consume(t) \/ ConsumeOvertaken(t) PROVE Inv'
  BY <1>5, ConsumeStep, ConsumeHeld DEF Inv
<1>6. CASE Administer
  <2>1. Core'  BY <1>0, <1>6, AdminStep DEF Administer
  <2>2. UNCHANGED <<account, overtaken, pc, using, req>>
    BY <1>6 DEF Administer, Revoke, DeleteKey, Expire, SetScopes, locals, limiter
  <2>. QED  BY <2>1, <2>2 DEF Inv, Held
<1>. QED  BY <1>1, <1>2, <1>3, <1>4, <1>5, <1>6 DEF Next

LEMMA InitInv == Init => Inv
<1>. SUFFICES ASSUME Init PROVE Inv
  OBVIOUS
<1>1. SharedOK  BY DEF Init, SharedOK
<1>2. LocalsOK  BY DEF Init, LocalsOK, Labels, Outcome, Outcomes
<1>3. \A t \in Threads : AtWork(t) /\ Genuine(t) /\ Fresh(t) /\ Held(t)
  BY DEF Init, AtWork, Genuine, Fresh, Held
<1>. QED  BY <1>1, <1>2, <1>3 DEF Inv, Core, TypeOK

LEMMA InvHolds == Spec => []Inv
BY InitInv, InvStep, PTL DEF Spec

-----------------------------------------------------------------------------
(* The properties.                                                         *)

\* The types of all variables; in particular no account is overdrawn.
THEOREM TypeCorrect == Spec => []TypeOK
<1>1. Inv => TypeOK  BY DEF Inv, Core
<1>. QED  BY <1>1, InvHolds, PTL

\* How a request can end as authenticated, and how it can reach the commit.
LEMMA OnlyRefreshAuthenticates ==
  ASSUME Inv, Next, NEW t \in Threads, Authenticates(t)
  PROVE  /\ pc[t] = "refresh" /\ row[req[t].key] # NoRow
         /\ result'[t].is = "authenticated"
         /\ result'[t].scopes = row[req[t].key].scopes
<1>0. LocalsOK  BY DEF Inv, Core, TypeOK
<1>1. ASSUME NEW u \in Threads, NEW what \in {"invalid", "limited", "error"},
             Finish(u, what, None)
      PROVE  FALSE
  <2>1. what \in {"authenticated", "invalid", "limited", "error"}  OBVIOUS
  <2>2. /\ result'[u] = Outcome(what, None)
        /\ \A v \in Threads \ {u} : pc'[v] = pc[v]
    BY <1>0, <1>1, <2>1, FinishType
  <2>. QED  BY <2>2 DEF Authenticates, Outcome
<1>2. ASSUME pc' = pc PROVE FALSE  BY <1>2 DEF Authenticates
<1>3. ASSUME NEW u \in Threads, NEW label \in Labels \ {"idle"}, Goto(u, label)
      PROVE  FALSE
  BY <1>0, <1>3 DEF Authenticates, Goto, LocalsOK
<1>4. PICK u \in Threads : Refresh(u) /\ row[req[u].key] # NoRow
                           /\ Finish(u, "authenticated", row[req[u].key].scopes)
  <2>1. CASE Accrue  BY <1>2, <2>1 DEF Accrue, locals
  <2>2. ASSUME NEW k \in Keys, \/ Revoke(k) \/ DeleteKey(k) \/ Expire(k)
                                \/ \E s \in Scopes : SetScopes(k, s)
        PROVE FALSE
    BY <1>2, <2>2 DEF Revoke, DeleteKey, Expire, SetScopes, locals
  <2>3. ASSUME NEW u \in Threads, Request(u) \/ Create(u) \/ Return(u)
        PROVE FALSE
    BY <1>3, <2>3 DEF Request, Create, Return, Labels
  <2>4. ASSUME NEW u \in Threads, Lookup(u) \/ Commit(u)
        PROVE FALSE
    BY <1>1, <1>3, <2>4 DEF Lookup, Commit, Proceed, Labels
  <2>5. ASSUME NEW u \in Threads, GetAccount(u) \/ Consume(u) \/ ConsumeOvertaken(u)
        PROVE FALSE
    BY <1>1, <1>3, <2>5 DEF GetAccount, Consume, ConsumeOvertaken, LetThrough, TurnAway,
                            Proceed, Labels
  <2>6. ASSUME NEW u \in Threads, DatabaseFails(u)
        PROVE FALSE
    BY <1>1, <2>6 DEF DatabaseFails
  <2>. QED  BY <1>1, <2>1, <2>2, <2>3, <2>4, <2>5, <2>6 DEF Next, Serve, Administer, Refresh
<1>5. u = t
  <2>1. \A v \in Threads \ {u} : pc'[v] = pc[v]
    BY <1>0, <1>4 DEF Finish, Goto, LocalsOK
  <2>. QED  BY <2>1 DEF Authenticates
<1>6. result'[t] = Outcome("authenticated", row[req[t].key].scopes)
  BY <1>0, <1>4, <1>5 DEF Finish, LocalsOK
<1>7. pc[t] = "refresh" /\ row[req[t].key] # NoRow  BY <1>4, <1>5 DEF Refresh
<1>. QED  BY <1>6, <1>7 DEF Outcome

LEMMA OnlyConsumeCommits ==
  ASSUME Inv, Next, NEW t \in Threads, pc'[t] = "commit"
  PROVE  pc[t] \in {"consume", "commit"}
<1>0. LocalsOK  BY DEF Inv, Core, TypeOK
<1>1. CASE pc' = pc  BY <1>1
<1>2. ASSUME NEW u \in Threads, NEW label \in Labels \ {"commit"}, Goto(u, label)
      PROVE  pc[t] = "commit"
  BY <1>0, <1>2 DEF Goto, LocalsOK
<1>3. CASE Accrue  BY <1>1, <1>3 DEF Accrue, locals
<1>4. ASSUME NEW k \in Keys, \/ Revoke(k) \/ DeleteKey(k) \/ Expire(k)
                              \/ \E s \in Scopes : SetScopes(k, s)
      PROVE  pc[t] = "commit"
  BY <1>4 DEF Revoke, DeleteKey, Expire, SetScopes, locals
<1>5. ASSUME NEW u \in Threads, Request(u) \/ Create(u) \/ Return(u)
      PROVE  pc[t] = "commit"
  BY <1>2, <1>5 DEF Request, Create, Return, Labels
<1>6. ASSUME NEW u \in Threads, \/ Lookup(u) \/ GetAccount(u)
                                 \/ Commit(u) \/ Refresh(u) \/ DatabaseFails(u)
      PROVE  pc[t] = "commit"
  BY <1>2, <1>6 DEF Lookup, GetAccount, Commit, Refresh, DatabaseFails, Proceed, Finish, Labels
<1>7. ASSUME NEW u \in Threads, Consume(u) \/ ConsumeOvertaken(u)
      PROVE  pc[t] \in {"consume", "commit"}
  <2>1. pc[u] = "consume" /\ \E label \in Labels : Goto(u, label)
    BY <1>7 DEF Consume, ConsumeOvertaken, LetThrough, TurnAway, Proceed, Finish, Labels,
                Inv, Held
  <2>. QED  BY <1>0, <2>1 DEF Goto, LocalsOK
<1>. QED  BY <1>3, <1>4, <1>5, <1>6, <1>7 DEF Next, Serve, Administer

\* A key that was revoked, expired or deleted before a request began is neither
\* charged for it nor authenticated.
THEOREM Genuinely == Spec => OnlyGenuine
<1>. DEFINE Step == \A t \in Threads : Authenticates(t) \/ pc'[t] = "commit" => genuine[t]
<1>1. ASSUME Inv, [Next]_vars PROVE [Step]_vars
  <2>1. SUFFICES ASSUME Next, NEW t \in Threads, Authenticates(t) \/ pc'[t] = "commit"
                 PROVE  genuine[t]
    BY <1>1
  <2>2. pc[t] \in {"consume", "commit", "refresh"}
    BY <1>1, <2>1, OnlyRefreshAuthenticates, OnlyConsumeCommits
  <2>. QED  BY <1>1, <2>2 DEF Inv, Core, Genuine
<1>. QED  BY <1>1, InvHolds, PTL DEF Spec, OnlyGenuine

\* The scopes granted are no older than the request's commit.
THEOREM Freshly == Spec => ScopesFresh
<1>. DEFINE Step == \A t \in Threads : Authenticates(t) => result'[t].scopes \in offered[t]
<1>1. ASSUME Inv, [Next]_vars PROVE [Step]_vars
  <2>1. SUFFICES ASSUME Next, NEW t \in Threads, Authenticates(t)
                 PROVE  result'[t].scopes \in offered[t]
    BY <1>1
  <2>. QED  BY <1>1, <2>1, OnlyRefreshAuthenticates DEF Inv, Core, Fresh
<1>. QED  BY <1>1, InvHolds, PTL DEF Spec, ScopesFresh

\* No authentication in progress brings back a key that was revoked or deleted.
THEOREM Sticks == Spec => RevocationSticks
<1>. DEFINE Step == \A k \in Keys :
       /\ row[k] = NoRow => row'[k] = NoRow
       /\ row[k] # NoRow /\ row[k].status = "revoked"
            => row'[k] = NoRow \/ row'[k].status = "revoked"
<1>1. ASSUME Inv, [Next]_vars PROVE [Step]_vars
  <2>0. SharedOK  BY <1>1 DEF Inv, Core, TypeOK
  <2>1. CASE row' = row  BY <2>1
  <2>2. ASSUME NEW k \in Keys, \/ Revoke(k) \/ DeleteKey(k)
                                \/ \E s \in Scopes : SetScopes(k, s)
        PROVE Step
    BY <2>0, <2>2 DEF Revoke, DeleteKey, SetScopes, SharedOK, Rows
  <2>3. CASE Next
    <3>1. ASSUME NEW t \in Threads,
                 \/ Request(t) \/ Create(t) \/ Return(t)
                 \/ Lookup(t) \/ GetAccount(t) \/ Consume(t) \/ ConsumeOvertaken(t)
                 \/ Commit(t) \/ Refresh(t) \/ DatabaseFails(t)
          PROVE  row' = row
      BY <3>1 DEF Request, Create, Return, Lookup, GetAccount, Consume, ConsumeOvertaken,
                  Commit, Refresh, DatabaseFails
    <3>2. ASSUME NEW k \in Keys, Expire(k) PROVE row' = row  BY <3>2 DEF Expire
    <3>3. CASE Accrue  BY <2>1, <3>3 DEF Accrue
    <3>. QED  BY <2>1, <2>2, <2>3, <3>1, <3>2, <3>3 DEF Next, Serve, Administer
  <2>. QED  BY <1>1, <2>3
<1>. QED  BY <1>1, InvHolds, PTL DEF Spec, RevocationSticks
-----------------------------------------------------------------------------
(* One authenticator.                                                      *)

\* A thread that has settled starts to create no other, and returns the one
\* that is there.
LEMMA ServeSettles ==
  ASSUME Inv, Settled, NEW t \in Threads,
         \/ Serve(t) \/ GetAccount(t) \/ Consume(t) \/ ConsumeOvertaken(t)
  PROVE  Settled' /\ current' = current
<1>0. /\ LocalsOK /\ current # None /\ pc[t] # "create"
      /\ \A u \in Threads : pc[u] # "create" /\ using[u] \in {None, current}
  BY DEF Inv, Core, TypeOK, Settled
<1>1. current' = current
  BY <1>0 DEF Serve, Request, Create, Return, Lookup, Commit, Refresh, DatabaseFails,
                GetAccount, Consume, ConsumeOvertaken
<1>2. ASSUME NEW label \in Labels \ {"create"}, Goto(t, label),
             \/ UNCHANGED using \/ using' = [using EXCEPT ![t] = None]
             \/ using' = [using EXCEPT ![t] = current]
      PROVE  Settled'
  BY <1>0, <1>1, <1>2 DEF Goto, Settled, LocalsOK
<1>3. ASSUME NEW what, NEW scopes, Finish(t, what, scopes) PROVE Settled'
  BY <1>2, <1>3 DEF Finish, Labels
<1>4. ASSUME NEW label \in Labels \ {"create"}, NEW copy, Proceed(t, label, copy) PROVE Settled'
  BY <1>2, <1>4 DEF Proceed
<1>5. CASE Request(t)  BY <1>0, <1>2, <1>5 DEF Request, Labels
<1>6. CASE Return(t)  BY <1>2, <1>6 DEF Return, Labels
<1>7. CASE Lookup(t) \/ Commit(t) \/ Refresh(t) \/ DatabaseFails(t)
  BY <1>3, <1>4, <1>7 DEF Lookup, Commit, Refresh, DatabaseFails, Labels
<1>8. CASE GetAccount(t) \/ Consume(t) \/ ConsumeOvertaken(t)
  BY <1>3, <1>4, <1>8 DEF GetAccount, Consume, ConsumeOvertaken, LetThrough, TurnAway, Labels
<1>9. ~Create(t)  BY <1>0 DEF Create
<1>. QED  BY <1>1, <1>5, <1>6, <1>7, <1>8, <1>9 DEF Serve

LEMMA OthersSettle ==
  ASSUME Settled, Accrue \/ Administer \/ UNCHANGED vars
  PROVE  Settled' /\ current' = current
BY DEF Settled, Accrue, Administer, Revoke, DeleteKey, Expire, SetScopes, vars, locals

\* Once the threads have settled on one authenticator, it stays the only one.
THEOREM Settling == Spec => StaysSettled
<1>1. ASSUME Inv, [Next]_vars PROVE [Settled => Settled' /\ current' = current]_vars
  BY <1>1, ServeSettles, OthersSettle DEF Next
<1>. QED  BY <1>1, InvHolds, PTL DEF Spec, StaysSettled

-----------------------------------------------------------------------------
(* The window.                                                             *)

\* What a key has with the authenticator: an account that is not open yet
\* will be opened full.
CreditOf(k) ==
  IF account[current][k] = Closed THEN Quota!Amount(LimitOf[k]) ELSE account[current][k].credit

\* What has passed and what could pass at once stay within the limit and what
\* has accrued.
Covered(k) ==
  /\ passed[k].rpm * Minute + CreditOf(k).rpm <= LimitOf[k].rpm * (Minute + ticks)
  /\ passed[k].tpm * Minute + CreditOf(k).tpm <= LimitOf[k].tpm * (Minute + ticks)

WindowInv ==
  /\ Inv /\ WindowTypeOK
  /\ ~watching => ticks = 0 /\ passed = NonePassed
  /\ watching => Settled /\ \A k \in Keys : Covered(k)

LEMMA CreditType ==
  ASSUME SharedOK, current # None, NEW k \in Keys
  PROVE  /\ CreditOf(k) \in [rpm : Nat, tpm : Nat]
         /\ CreditOf(k).rpm <= LimitOf[k].rpm * Minute
         /\ CreditOf(k).tpm <= LimitOf[k].tpm * Minute
<1>. DEFINE r == LimitOf[k].rpm * Minute
            p == LimitOf[k].tpm * Minute
<1>1. r \in Nat /\ p \in Nat  BY AuthenticationAssumption
<1>2. current \in Threads  BY DEF SharedOK
<1>3. CASE account[current][k] = Closed
  <2>1. CreditOf(k) = [rpm |-> r, tpm |-> p]  BY <1>3 DEF CreditOf, Quota!Amount
  <2>. HIDE DEF r, p
  <2>2. /\ CreditOf(k) \in [rpm : Nat, tpm : Nat]
        /\ CreditOf(k).rpm <= r /\ CreditOf(k).tpm <= p
    BY <1>1, <2>1
  <2>. QED  BY <2>2 DEF r, p
<1>4. CASE account[current][k] # Closed
  <2>1. account[current][k] \in Accounts /\ Sound(account[current][k], LimitOf[k])
    BY <1>2, <1>4 DEF SharedOK
  <2>. QED  BY <1>4, <2>1 DEF CreditOf, Accounts, Sound
<1>. QED  BY <1>3, <1>4

\* The arithmetic of the bound: a payment moves credit to what has passed, and
\* a tick adds the limit to both sides.
LEMMA Pays ==
  ASSUME NEW p \in Nat, NEW n \in Nat, NEW c \in Nat
  PROVE  (p + n) * Minute + (c - n * Minute) = p * Minute + c
BY AuthenticationAssumption

LEMMA Ticks ==
  ASSUME NEW limit \in Nat, NEW i \in Nat
  PROVE  limit * (Minute + (i + 1)) = limit * (Minute + i) + limit
BY AuthenticationAssumption

\* The check charges the authenticator on which the threads have settled.
LEMMA ConsumeCredit ==
  ASSUME Inv, Settled, NEW t \in Threads, Consume(t),
         NEW k \in Keys, k = req[t].key, NEW n \in Sizes, n = req[t].tokens
  PROVE  /\ pc'[t] # "commit" => \A j \in Keys : CreditOf(j)' = CreditOf(j)
         /\ pc'[t] = "commit" =>
              /\ \A j \in Keys \ {k} : CreditOf(j)' = CreditOf(j)
              /\ Minute <= CreditOf(k).rpm /\ n * Minute <= CreditOf(k).tpm
              /\ CreditOf(k)' = [rpm |-> CreditOf(k).rpm - Minute,
                                 tpm |-> CreditOf(k).tpm - n * Minute]
<1>. DEFINE acct == account[current][k]
<1>0. SharedOK /\ LocalsOK /\ AtWork(t)  BY DEF Inv, Core, TypeOK
<1>1. pc[t] = "consume" /\ current' = current  BY DEF Consume
<1>2. current \in Threads /\ using[t] = current
  BY <1>0, <1>1 DEF AtWork, LocalsOK, Settled
<1>3. acct \in Accounts /\ acct.credit = CreditOf(k)
  BY <1>2, Charged, AuthenticationAssumption DEF CreditOf
<1>4. CASE Answer(acct, n) = "allowed"
  <2>1. /\ account' = [account EXCEPT ![current][k] = Quota!Charge(acct, n)]
        /\ Quota!Charge(acct, n) \in Accounts /\ LetThrough(t)
    BY <1>2, <1>4, Charged
  <2>2. Quota!Charge(acct, n).credit = [rpm |-> acct.credit.rpm - Minute,
                                        tpm |-> acct.credit.tpm - n * Minute]
    BY <1>3 DEF Quota!Charge, Accounts
  <2>3. Minute <= acct.credit.rpm /\ n * Minute <= acct.credit.tpm
    <3>1. Minute \in Nat /\ n * Minute \in Nat  BY AuthenticationAssumption
    <3>. QED  BY <1>3, <1>4, <3>1 DEF Answer, Quota!Answer, Accounts
  <2>4. pc'[t] = "commit"  BY <1>0, <2>1 DEF LetThrough, Proceed, Goto, LocalsOK
  <2>5. CreditOf(k)' = Quota!Charge(acct, n).credit
    <3>1. account'[current][k] = Quota!Charge(acct, n)
      BY <1>0, <1>2, <2>1 DEF SharedOK
    <3>. QED  BY <1>1, <2>1, <3>1, AuthenticationAssumption DEF CreditOf
  <2>6. \A j \in Keys \ {k} : CreditOf(j)' = CreditOf(j)
    <3>1. \A j \in Keys \ {k} : account'[current][j] = account[current][j]
      BY <1>0, <1>2, <2>1 DEF SharedOK
    <3>. QED  BY <1>1, <3>1 DEF CreditOf
  <2>. QED  BY <1>3, <2>2, <2>3, <2>4, <2>5, <2>6
<1>5. CASE Answer(acct, n) # "allowed"
  <2>1. UNCHANGED account /\ TurnAway(t)  BY <1>2, <1>5, Charged
  <2>2. pc'[t] # "commit"  BY <1>0, <2>1 DEF TurnAway, Finish, Goto, LocalsOK
  <2>3. \A j \in Keys : CreditOf(j)' = CreditOf(j)  BY <1>1, <2>1 DEF CreditOf
  <2>. QED  BY <2>2, <2>3
<1>. QED  BY <1>4, <1>5

\* What is evicted is full, and what is opened is full: no credit changes.
LEMMA GetAccountCredit ==
  ASSUME Inv, Settled, NEW t \in Threads, GetAccount(t), NEW k \in Keys
  PROVE  CreditOf(k)' = CreditOf(k)
<1>0. SharedOK /\ LocalsOK /\ AtWork(t)  BY DEF Inv, Core, TypeOK
<1>1. pc[t] = "bucket" /\ current' = current  BY DEF GetAccount
<1>2. current \in Threads /\ using[t] = current
  BY <1>0, <1>1 DEF AtWork, LocalsOK, Settled
<1>3. \/ account'[current][k] = account[current][k]
      \/ /\ account'[current][k] \in {Closed, Quota!Open(LimitOf[k])}
         /\ account[current][k] \in {Closed, Quota!Open(LimitOf[k])}
  <2>. DEFINE kept(evicted, x) == IF x \in evicted THEN Closed ELSE account[using[t]][x]
  <2>1. PICK evicted \in SUBSET {x \in Keys : Idle(account[using[t]][x], x)} :
          account' = [account EXCEPT ![using[t]] =
            [x \in Keys |-> IF x = req[t].key /\ kept(evicted, x) = Closed
                            THEN Quota!Open(LimitOf[x]) ELSE kept(evicted, x)]]
    BY DEF GetAccount
  <2>2. account'[current][k] = IF k = req[t].key /\ kept(evicted, k) = Closed
                               THEN Quota!Open(LimitOf[k]) ELSE kept(evicted, k)
    BY <1>0, <1>2, <2>1 DEF SharedOK
  <2>3. k \in evicted => account[current][k] = Quota!Open(LimitOf[k])  BY <1>2, <2>1 DEF Idle
  <2>. QED  BY <1>2, <2>2, <2>3
<1>4. Quota!Open(LimitOf[k]) # Closed /\ Quota!Open(LimitOf[k]).credit = Quota!Amount(LimitOf[k])
  BY OpenSound, AuthenticationAssumption DEF Quota!Open
<1>. QED  BY <1>1, <1>3, <1>4 DEF CreditOf

\* A tick adds at most the limit to any credit.
LEMMA AccrueCredit ==
  ASSUME SharedOK, current # None, Accrue, NEW k \in Keys
  PROVE  /\ CreditOf(k)' \in [rpm : Nat, tpm : Nat]
         /\ CreditOf(k)'.rpm <= CreditOf(k).rpm + LimitOf[k].rpm
         /\ CreditOf(k)'.tpm <= CreditOf(k).tpm + LimitOf[k].tpm
<1>1. current' = current /\ current \in Threads  BY DEF Accrue, SharedOK
<1>2. account'[current][k] = IF account[current][k] = Closed THEN Closed
                             ELSE Quota!Grow(account[current][k])
  BY <1>1 DEF Accrue
<1>3. LimitOf[k] \in [rpm : Nat, tpm : Nat]  BY AuthenticationAssumption
<1>4. CASE account[current][k] = Closed
  <2>1. CreditOf(k)' = CreditOf(k)  BY <1>1, <1>2, <1>4 DEF CreditOf
  <2>. QED  BY <1>3, <2>1, CreditType
<1>5. CASE account[current][k] # Closed
  <2>. DEFINE acct == account[current][k]
              r == acct.limit.rpm * Minute
              p == acct.limit.tpm * Minute
  <2>1. acct \in Accounts /\ Sound(acct, LimitOf[k])  BY <1>1, <1>5 DEF SharedOK
  <2>2. Quota!Grow(acct) \in Accounts  BY <2>1, GrowSound
  <2>3. CreditOf(k)' = Quota!Grow(acct).credit /\ CreditOf(k) = acct.credit
    BY <1>1, <1>2, <1>5, <2>2, AuthenticationAssumption DEF CreditOf
  <2>4. Quota!Grow(acct).credit = [rpm |-> Quota!Least(r, acct.credit.rpm + acct.limit.rpm),
                                   tpm |-> Quota!Least(p, acct.credit.tpm + acct.limit.tpm)]
    BY <2>1 DEF Quota!Grow, Accounts
  <2>5. r \in Nat /\ p \in Nat  BY <2>1, AuthenticationAssumption DEF Accounts
  <2>6. acct.limit = LimitOf[k]  BY <2>1 DEF Sound
  <2>. HIDE DEF r, p
  <2>7. /\ Quota!Least(r, acct.credit.rpm + acct.limit.rpm) <= acct.credit.rpm + acct.limit.rpm
        /\ Quota!Least(p, acct.credit.tpm + acct.limit.tpm) <= acct.credit.tpm + acct.limit.tpm
    BY <2>1, <2>5 DEF Quota!Least, Accounts
  <2>. QED  BY <2>2, <2>3, <2>4, <2>6, <2>7 DEF Accounts
<1>. QED  BY <1>4, <1>5

LEMMA TickStep ==
  ASSUME WindowInv, Tick
  PROVE  WindowInv'
<1>0. Inv /\ WindowTypeOK /\ SharedOK  BY DEF WindowInv, Inv, Core, TypeOK
<1>1. Inv'  BY <1>0, InvStep DEF Tick, Next
<1>2. WindowTypeOK'
  <2>1. NonePassed \in [Keys -> [rpm : Nat, tpm : Nat]]  BY DEF NonePassed
  <2>2. ticks < MaxTicks => ticks + 1 \in 0..MaxTicks
    BY <1>0, WindowAssumption DEF WindowTypeOK
  <2>3. 0 \in 0..MaxTicks  BY WindowAssumption
  <2>. QED  BY <1>0, <2>1, <2>2, <2>3 DEF WindowTypeOK, Tick
<1>3. ~watching' => ticks' = 0 /\ passed' = NonePassed
  BY <1>0 DEF WindowInv, WindowTypeOK, Tick
<1>4. ASSUME watching' PROVE Settled' /\ \A k \in Keys : Covered(k)'
  <2>1. /\ watching /\ Accrue /\ ticks' = ticks + 1 /\ passed' = passed
        /\ Settled /\ \A k \in Keys : Covered(k)
    BY <1>4 DEF Tick, WindowInv
  <2>2. Settled'  BY <2>1, OthersSettle
  <2>3. ASSUME NEW k \in Keys PROVE Covered(k)'
    <3>1. current # None  BY <2>1 DEF Settled
    <3>2. /\ CreditOf(k) \in [rpm : Nat, tpm : Nat] /\ CreditOf(k)' \in [rpm : Nat, tpm : Nat]
          /\ CreditOf(k)'.rpm <= CreditOf(k).rpm + LimitOf[k].rpm
          /\ CreditOf(k)'.tpm <= CreditOf(k).tpm + LimitOf[k].tpm
      BY <1>0, <2>1, <3>1, CreditType, AccrueCredit
    <3>3. LimitOf[k].rpm \in Nat /\ LimitOf[k].tpm \in Nat /\ ticks \in Nat
      BY <1>0, AuthenticationAssumption, WindowAssumption DEF WindowTypeOK
    <3>4. /\ LimitOf[k].rpm * (Minute + ticks') = LimitOf[k].rpm * (Minute + ticks) + LimitOf[k].rpm
          /\ LimitOf[k].tpm * (Minute + ticks') = LimitOf[k].tpm * (Minute + ticks) + LimitOf[k].tpm
      BY <2>1, <3>3, Ticks
    <3>. DEFINE sumR == LimitOf[k].rpm * (Minute + ticks)
                sumT == LimitOf[k].tpm * (Minute + ticks)
                r == passed[k].rpm * Minute
                p == passed[k].tpm * Minute
    <3>5. sumR \in Nat /\ sumT \in Nat /\ r \in Nat /\ p \in Nat
      BY <1>0, <3>3, AuthenticationAssumption DEF WindowTypeOK
    <3>6. r + CreditOf(k).rpm <= sumR /\ p + CreditOf(k).tpm <= sumT  BY <2>1 DEF Covered
    <3>. HIDE DEF sumR, sumT, r, p
    <3>7. /\ r + CreditOf(k)'.rpm <= sumR + LimitOf[k].rpm
          /\ p + CreditOf(k)'.tpm <= sumT + LimitOf[k].tpm
      BY <3>2, <3>3, <3>5, <3>6
    <3>. QED  BY <2>1, <3>4, <3>7 DEF Covered, sumR, sumT, r, p
  <2>. QED  BY <2>2, <2>3
<1>. QED  BY <1>1, <1>2, <1>3, <1>4 DEF WindowInv

\* A request that is let through is paid for.
LEMMA CheckStep ==
  ASSUME WindowInv, NEW t \in Threads, Check(t)
  PROVE  WindowInv'
<1>0. Inv /\ WindowTypeOK /\ LocalsOK /\ SharedOK  BY DEF WindowInv, Inv, Core, TypeOK
<1>1. Inv' /\ UNCHANGED <<watching, ticks>>  BY <1>0, InvStep DEF Check, Next
<1>2. PICK k \in Keys, n \in Sizes : k = req[t].key /\ n = req[t].tokens
  BY <1>0, RequestOf DEF Check, Consume, Inv, Core
<1>3. n \in Nat  BY AuthenticationAssumption
<1>4. CASE ~(watching /\ pc'[t] = "commit")
  <2>1. passed' = passed  BY <1>4 DEF Check
  <2>2. watching => Settled /\ Settled' /\ \A j \in Keys : CreditOf(j)' = CreditOf(j)
    BY <1>0, <1>2, <1>4, ConsumeCredit, ServeSettles DEF WindowInv, Check
  <2>. QED  BY <1>1, <2>1, <2>2 DEF WindowInv, WindowTypeOK, Covered
<1>5. CASE watching /\ pc'[t] = "commit"
  <2>1. passed' = [passed EXCEPT ![k] = [rpm |-> @.rpm + 1, tpm |-> @.tpm + n]]
    BY <1>2, <1>5 DEF Check
  <2>2. WindowTypeOK'  BY <1>0, <1>1, <1>3, <2>1 DEF WindowTypeOK
  <2>3. Settled /\ Settled' /\ current # None
    BY <1>0, <1>5, ServeSettles DEF WindowInv, Check, Settled
  <2>4. /\ \A j \in Keys \ {k} : CreditOf(j)' = CreditOf(j)
        /\ Minute <= CreditOf(k).rpm /\ n * Minute <= CreditOf(k).tpm
        /\ CreditOf(k)' = [rpm |-> CreditOf(k).rpm - Minute,
                           tpm |-> CreditOf(k).tpm - n * Minute]
    BY <1>0, <1>2, <1>5, <2>3, ConsumeCredit DEF Check
  <2>5. ASSUME NEW j \in Keys \ {k} PROVE Covered(j)'
    <3>1. passed'[j] = passed[j] /\ Covered(j)
      BY <1>0, <1>5, <2>1 DEF WindowInv, WindowTypeOK
    <3>. QED  BY <1>1, <2>4, <3>1 DEF Covered
  <2>6. Covered(k)'
    <3>1. /\ passed[k].rpm \in Nat /\ passed[k].tpm \in Nat
          /\ CreditOf(k).rpm \in Nat /\ CreditOf(k).tpm \in Nat
      BY <1>0, <2>3, CreditType DEF WindowTypeOK
    <3>2. passed'[k] = [rpm |-> passed[k].rpm + 1, tpm |-> passed[k].tpm + n]
      BY <1>0, <2>1 DEF WindowTypeOK
    <3>3. (passed[k].rpm + 1) * Minute + (CreditOf(k).rpm - 1 * Minute)
            = passed[k].rpm * Minute + CreditOf(k).rpm
      <4>1. 1 \in Nat  OBVIOUS
      <4>. QED  BY <3>1, <4>1, Pays
    <3>4. (passed[k].tpm + n) * Minute + (CreditOf(k).tpm - n * Minute)
            = passed[k].tpm * Minute + CreditOf(k).tpm
      BY <1>3, <3>1, Pays
    <3>5. 1 * Minute = Minute  BY AuthenticationAssumption
    <3>. QED  BY <1>1, <1>5, <2>4, <3>2, <3>3, <3>4, <3>5 DEF Covered, WindowInv
  <2>. QED  BY <1>1, <1>5, <2>2, <2>3, <2>5, <2>6 DEF WindowInv
<1>. QED  BY <1>4, <1>5

\* Nothing else touches an account, and a window opens on a sound one.
LEMMA UnchargedStep ==
  ASSUME WindowInv, \/ Open \/ UNCHANGED allvars
                    \/ (\E t \in Threads : Uncharged(t)) /\ UNCHANGED window
                    \/ Administer /\ UNCHANGED window
  PROVE  WindowInv'
<1>0. Inv /\ WindowTypeOK /\ SharedOK  BY DEF WindowInv, Inv, Core, TypeOK
<1>1. Inv'
  <2>1. [Next]_vars  BY DEF Open, allvars, Next, vars, Uncharged
  <2>. QED  BY <1>0, <2>1, InvStep
<1>2. UNCHANGED <<ticks, passed>>  BY DEF Open, allvars, window
<1>3. WindowTypeOK'  BY <1>0, <1>2 DEF WindowTypeOK, Open, allvars, window
<1>4. ASSUME Settled, NEW k \in Keys PROVE CreditOf(k)' = CreditOf(k)
  <2>1. current' = current
    BY <1>0, <1>4, ServeSettles, OthersSettle DEF Open, allvars, Uncharged
  <2>2. CASE UNCHANGED account  BY <2>1, <2>2 DEF CreditOf
  <2>3. ASSUME NEW t \in Threads, GetAccount(t) PROVE CreditOf(k)' = CreditOf(k)
    BY <1>0, <1>4, <2>3, GetAccountCredit
  <2>. QED
    BY <2>2, <2>3
       DEF Open, allvars, vars, limiter, Uncharged, Serve, Request, Create, Return, Lookup,
           Commit, Refresh, DatabaseFails, ConsumeOvertaken, Administer, Revoke, DeleteKey,
           Expire, SetScopes
<1>5. CASE Open
  <2>1. Settled /\ Settled' /\ current' = current /\ watching' /\ ~watching
    BY <1>5, OthersSettle DEF Open
  <2>2. ASSUME NEW k \in Keys PROVE Covered(k)'
    <3>1. passed[k] = [rpm |-> 0, tpm |-> 0] /\ ticks = 0
      BY <2>1 DEF WindowInv, NonePassed
    <3>2. /\ CreditOf(k)' = CreditOf(k) /\ CreditOf(k) \in [rpm : Nat, tpm : Nat]
          /\ CreditOf(k).rpm <= LimitOf[k].rpm * Minute
          /\ CreditOf(k).tpm <= LimitOf[k].tpm * Minute
      BY <1>0, <1>4, <2>1, CreditType DEF Settled
    <3>3. Minute + 0 = Minute /\ 0 * Minute = 0  BY AuthenticationAssumption
    <3>. QED  BY <1>2, <3>1, <3>2, <3>3 DEF Covered
  <2>. QED  BY <1>1, <1>3, <2>1, <2>2 DEF WindowInv
<1>6. CASE ~Open
  <2>1. watching' = watching  BY <1>6 DEF allvars, window
  <2>2. Settled => Settled' /\ current' = current
    BY <1>0, <1>6, ServeSettles, OthersSettle DEF allvars, Uncharged
  <2>3. watching' => Settled' /\ \A k \in Keys : Covered(k)'
    BY <1>2, <1>4, <2>1, <2>2 DEF WindowInv, Covered
  <2>. QED  BY <1>1, <1>2, <1>3, <2>1, <2>3 DEF WindowInv
<1>. QED  BY <1>5, <1>6

\* A window only watches: with one or without, the gateway behaves the same.
THEOREM OnlyWatches == WindowSpec => Spec
<1>1. WindowInit => Init  BY DEF WindowInit
<1>2. [WindowNext]_allvars => [Next]_vars
  BY DEF WindowNext, Open, Tick, Check, Uncharged, Next, allvars, vars
<1>. QED  BY <1>1, <1>2, PTL DEF WindowSpec, Spec

LEMMA WindowHolds == WindowSpec => []WindowInv
<1>1. WindowInit => WindowInv
  <2>. SUFFICES ASSUME WindowInit PROVE WindowInv
    OBVIOUS
  <2>1. Inv  BY InitInv DEF WindowInit
  <2>2. NonePassed \in [Keys -> [rpm : Nat, tpm : Nat]]  BY DEF NonePassed
  <2>3. 0 \in 0..MaxTicks  BY WindowAssumption
  <2>4. WindowTypeOK  BY <2>2, <2>3 DEF WindowInit, WindowTypeOK
  <2>. QED  BY <2>1, <2>4 DEF WindowInit, WindowInv
<1>2. WindowInv /\ [WindowNext]_allvars => WindowInv'
  BY TickStep, CheckStep, UnchargedStep DEF WindowNext
<1>. QED  BY <1>1, <1>2, PTL DEF WindowSpec

\* However many threads share the authenticator on which they have settled, and
\* however accounts are evicted and opened again meanwhile: whenever one starts
\* to count, no key's account is charged with more requests or tokens than its
\* limit and what accrues meanwhile.  The calls that an eviction overtook between
\* the two locks are not charged to it, and are not counted.
THEOREM Bounded == WindowSpec => []RateBound
<1>1. WindowInv => RateBound
  <2>. SUFFICES ASSUME WindowInv, watching, NEW k \in Keys
                PROVE  /\ passed[k].rpm * Minute <= LimitOf[k].rpm * (Minute + ticks)
                       /\ passed[k].tpm * Minute <= LimitOf[k].tpm * (Minute + ticks)
    BY DEF RateBound
  <2>1. Covered(k) /\ CreditOf(k) \in [rpm : Nat, tpm : Nat]
    BY CreditType DEF WindowInv, Inv, Core, TypeOK, Settled
  <2>. DEFINE sumR == LimitOf[k].rpm * (Minute + ticks)
              sumT == LimitOf[k].tpm * (Minute + ticks)
              r == passed[k].rpm * Minute
              p == passed[k].tpm * Minute
  <2>2. sumR \in Nat /\ sumT \in Nat /\ r \in Nat /\ p \in Nat
    BY AuthenticationAssumption, WindowAssumption DEF WindowInv, WindowTypeOK
  <2>3. r + CreditOf(k).rpm <= sumR /\ p + CreditOf(k).tpm <= sumT  BY <2>1 DEF Covered
  <2>. HIDE DEF sumR, sumT, r, p
  <2>4. r <= sumR /\ p <= sumT  BY <2>1, <2>2, <2>3
  <2>. QED  BY <2>4 DEF sumR, sumT, r, p
<1>. QED  BY <1>1, WindowHolds, PTL
=============================================================================
