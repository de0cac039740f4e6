----------------------------- MODULE RateWindow ------------------------------
(***************************************************************************)
(* Authentication, watched for a window of time: how many requests, and    *)
(* how many tokens, the limiter lets through for each key.  A window may   *)
(* open at any moment at which the threads have settled on one             *)
(* authenticator, and lasts as long as it is watched.                      *)
(*                                                                         *)
(* What is counted is what the key's account was charged with.  A call     *)
(* whose account was closed between the limiter's lock and the account's   *)
(* is answered from the closed account, and may pass beside those counted. *)
(***************************************************************************)
EXTENDS Authentication

CONSTANT MaxTicks   \* bound: ticks of a window

ASSUME WindowAssumption == MaxTicks \in Nat

VARIABLES
  watching,  \* a window is open
  ticks,     \* the ticks since it opened
  passed     \* the requests and tokens charged to each key since

window  == <<watching, ticks, passed>>
allvars == <<vars, window>>

NonePassed == [k \in Keys |-> [rpm |-> 0, tpm |-> 0]]

WindowTypeOK ==
  /\ watching \in BOOLEAN /\ ticks \in 0..MaxTicks
  /\ passed \in [Keys -> [rpm : Nat, tpm : Nat]]

WindowInit == Init /\ watching = FALSE /\ ticks = 0 /\ passed = NonePassed

Open ==
  /\ Settled /\ ~watching
  /\ watching' = TRUE
  /\ UNCHANGED <<vars, ticks, passed>>

\* Time passes, and the window is closed when it has been open for long enough.
Tick ==
  /\ Accrue
  /\ IF watching /\ ticks < MaxTicks
     THEN ticks' = ticks + 1 /\ UNCHANGED <<watching, passed>>
     ELSE watching' = FALSE /\ ticks' = 0 /\ passed' = NonePassed

\* The limiter's check: a request that goes on has been charged.
Check(t) ==
  /\ Consume(t)
  /\ passed' = IF watching /\ pc'[t] = "commit"
               THEN [passed EXCEPT ![req[t].key] =
                       [rpm |-> @.rpm + 1, tpm |-> @.tpm + req[t].tokens]]
               ELSE passed
  /\ UNCHANGED <<watching, ticks>>

\* The other steps of a thread, among them the check of an overtaken one.
Uncharged(t) == Serve(t) \/ GetAccount(t) \/ ConsumeOvertaken(t)

WindowNext ==
  \/ Open \/ Tick
  \/ \E t \in Threads : Check(t) \/ (Uncharged(t) /\ UNCHANGED window)
  \/ Administer /\ UNCHANGED window

WindowSpec == WindowInit /\ [][WindowNext]_allvars

\* Whenever the window opens, and however threads share the authenticator and
\* evict accounts, the calls charged to a key's account and let through are no
\* more than its limit and what accrues while the window is open: closing an
\* account and opening it again gives nothing away.  Only a call that was
\* overtaken by the eviction of its own account can pass beside them.
RateBound ==
  watching => \A k \in Keys :
    /\ passed[k].rpm * Minute <= LimitOf[k].rpm * (Minute + ticks)
    /\ passed[k].tpm * Minute <= LimitOf[k].tpm * (Minute + ticks)
=============================================================================
