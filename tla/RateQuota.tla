----------------------------- MODULE RateQuota ------------------------------
(***************************************************************************)
(* What a per-key rate limiter promises: every key has one account, whose  *)
(* credit grows steadily up to its limit; a call is allowed exactly when   *)
(* the credit covers it, and then pays for it in full; a refused call pays *)
(* nothing.  An account may be closed when its credit is complete, because *)
(* the account opened next says the same, or by an explicit reset.         *)
(*                                                                         *)
(* Only a call that was under way when its key's account was closed is not *)
(* charged to the account that replaces it.                                *)
(***************************************************************************)
EXTENDS Naturals

CONSTANTS
  Callers, Keys,
  Sizes,    \* numbers of tokens a call can ask for
  Limits,   \* limits an account can be opened with: [rpm, tpm]
  Minute,   \* ticks in which a limit's worth of credit accrues
  Closed, NoCall

VARIABLES
  account,    \* [limit, credit] of each key, or Closed
  call,       \* [key, tokens] under way for each caller, or NoCall
  overtaken,  \* the callers whose account was closed under them
  reply       \* the answer to each caller's last call, or "none" yet

quotaVars == <<account, call, overtaken, reply>>

\* Credit is counted in units of 1/Minute of a request or token, so that one
\* tick adds exactly `limit' units.
Amount(limit) == [rpm |-> limit.rpm * Minute, tpm |-> limit.tpm * Minute]
Open(limit)   == [limit |-> limit, credit |-> Amount(limit)]

Least(a, b) == IF a <= b THEN a ELSE b

Grow(acct) ==
  [acct EXCEPT !.credit =
     [rpm |-> Least(acct.limit.rpm * Minute, acct.credit.rpm + acct.limit.rpm),
      tpm |-> Least(acct.limit.tpm * Minute, acct.credit.tpm + acct.limit.tpm)]]

Charge(acct, tokens) ==
  [acct EXCEPT !.credit = [rpm |-> acct.credit.rpm - Minute,
                           tpm |-> acct.credit.tpm - tokens * Minute]]

Answer(acct, tokens) ==
  IF acct.credit.rpm < Minute THEN "rpm_limit"
  ELSE IF acct.credit.tpm < tokens * Minute THEN "tpm_limit"
  ELSE "allowed"

CallersOn(keys) == {w \in Callers : call[w] # NoCall /\ call[w].key \in keys}

QuotaInit ==
  /\ account = [k \in Keys |-> Closed]
  /\ call = [w \in Callers |-> NoCall]
  /\ overtaken = {}
  /\ reply = [w \in Callers |-> "none"]

\* A call begins; accounts with complete credit may be closed, and the one
\* it needs is opened if it is closed.
Begin(w, k, tokens, limit, closing) ==
  /\ call[w] = NoCall
  /\ \A x \in closing : account[x] # Closed /\ account[x] = Open(account[x].limit)
  /\ account' = [x \in Keys |->
       IF x = k /\ (account[x] = Closed \/ x \in closing) THEN Open(limit)
       ELSE IF x \in closing THEN Closed ELSE account[x]]
  /\ call' = [call EXCEPT ![w] = [key |-> k, tokens |-> tokens]]
  /\ overtaken' = overtaken \cup CallersOn(closing)
  /\ reply' = [reply EXCEPT ![w] = "none"]

Reply(w) ==
  /\ call[w] # NoCall /\ w \notin overtaken
  /\ LET k == call[w].key
         n == call[w].tokens
     IN /\ account[k] # Closed
        /\ reply' = [reply EXCEPT ![w] = Answer(account[k], n)]
        /\ account' = IF Answer(account[k], n) = "allowed"
                      THEN [account EXCEPT ![k] = Charge(@, n)] ELSE account
  /\ call' = [call EXCEPT ![w] = NoCall]
  /\ UNCHANGED overtaken

ReplyOvertaken(w) ==
  /\ w \in overtaken
  /\ \E r \in {"allowed", "rpm_limit", "tpm_limit"} :
       reply' = [reply EXCEPT ![w] = r]
  /\ call' = [call EXCEPT ![w] = NoCall]
  /\ overtaken' = overtaken \ {w}
  /\ UNCHANGED account

Close(keys) ==
  /\ account' = [k \in Keys |-> IF k \in keys THEN Closed ELSE account[k]]
  /\ overtaken' = overtaken \cup CallersOn(keys)
  /\ UNCHANGED <<call, reply>>

Accrue ==
  /\ account' = [k \in Keys |->
                   IF account[k] = Closed THEN Closed ELSE Grow(account[k])]
  /\ UNCHANGED <<call, overtaken, reply>>

QuotaNext ==
  \/ Accrue
  \/ \E keys \in SUBSET Keys : Close(keys)
  \/ \E w \in Callers :
       \/ Reply(w)
       \/ ReplyOvertaken(w)
       \/ \E k \in Keys, n \in Sizes, l \in Limits, closing \in SUBSET Keys :
            Begin(w, k, n, l, closing)

QuotaSpec == QuotaInit /\ [][QuotaNext]_quotaVars
=============================================================================
