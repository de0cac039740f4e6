----------------------------- MODULE TokenBucket ----------------------------
(***************************************************************************)
(* toolkit_extensions/rate_limiter.py: the token-bucket limiter that       *)
(* authentication consults for every request.                              *)
(*                                                                         *)
(* A call takes two locks, one after the other: under the limiter's lock   *)
(* it evicts stale buckets and finds or creates the key's bucket; under    *)
(* that bucket's lock it refills it and consumes from it.  In between, a   *)
(* reset or another call's eviction can remove the bucket from the table;  *)
(* the thread goes on with the object it holds.                            *)
(*                                                                         *)
(* Levels are counted in units of 1/Minute of a token, so refilling is     *)
(* exact where the code uses floats.  last_refill and last_access are set  *)
(* together, always to the present: one age per bucket stands for both,    *)
(* saturated just past the TTL.                                            *)
(***************************************************************************)
EXTENDS Integers

CONSTANTS
  Threads, Keys,
  Buckets,                   \* identities of TokenBucket objects
  NoBucket,
  Minute,                    \* 60 seconds, in ticks of the monotonic clock
  BucketTTLSeconds,          \* the bucket_ttl_seconds parameter, in ticks
  DefaultRpm, DefaultTpm,    \* the default_rpm and default_tpm parameters
  RpmOverrides, TpmOverrides,  \* what the database may hold for a key
  NoOverride,                \* a NULL there
  TokenCounts,               \* the `tokens' arguments
  NoCall                     \* no check_and_consume under way

ASSUME LimiterAssumption ==
  /\ Minute \in Nat \ {0}
  /\ BucketTTLSeconds \in Int
  /\ DefaultRpm \in Int /\ DefaultTpm \in Int
  /\ RpmOverrides \subseteq Int \cup {NoOverride}
  /\ TpmOverrides \subseteq Int \cup {NoOverride}
  /\ TokenCounts \subseteq Int
  /\ NoBucket \notin Buckets
  /\ NoOverride \notin Int

AtLeast(low, n) == IF n < low THEN low ELSE n
AtMost(high, n) == IF n > high THEN high ELSE n

\* A slip: the configured TTL is used as it comes.
UnclampedTTL == BucketTTLSeconds

bucket_ttl == AtLeast(Minute, BucketTTLSeconds)

\* An override of 0 is falsy: it means the default, like NULL.
EffectiveLimit(override, default) ==
  IF override \in {NoOverride, 0} THEN AtLeast(1, default) ELSE AtLeast(1, override)

Limits == [rpm : {EffectiveLimit(r, DefaultRpm) : r \in RpmOverrides},
           tpm : {EffectiveLimit(t, DefaultTpm) : t \in TpmOverrides}]
Sizes == {AtLeast(0, n) : n \in TokenCounts}

\* The markers for "nothing" are not bucket accounts or calls.
ASSUME MarkerAssumption ==
  /\ NoBucket \notin [limit : Limits, credit : [rpm : Nat, tpm : Nat]]
  /\ NoCall \notin [key : Keys, tokens : Sizes]

VARIABLES
  table,   \* _buckets: the bucket of each key, or NoBucket
  heap,    \* the TokenBucket objects somebody refers to
  pc,      \* each thread: idle, consume or status (between its two locks)
  held,    \* the bucket each thread refers to, or NoBucket
  asked,   \* [key, tokens] each thread asked for between its locks, or NoCall
  reply    \* what check_and_consume returned to each thread, or "none" yet

vars == <<table, heap, pc, held, asked, reply>>

Replies == {"none", "allowed", "rpm_limit", "tpm_limit"}

\* An object nobody refers to is collected.
Referenced == ({table[k] : k \in Keys} \cup {held[w] : w \in Threads}) \ {NoBucket}

\* The types of the limiter's fields; levels stay between empty and full.
BucketOK(b) ==
  /\ b \in [limit : Limits, rpm : Nat, tpm : Nat, age : 0..(bucket_ttl + 1)]
  /\ b.rpm <= b.limit.rpm * Minute
  /\ b.tpm <= b.limit.tpm * Minute

TypeOK ==
  /\ table \in [Keys -> Buckets \cup {NoBucket}]
  /\ held \in [Threads -> Buckets \cup {NoBucket}]
  /\ DOMAIN heap = Referenced
  /\ \A b \in Referenced : BucketOK(heap[b])
  /\ pc \in [Threads -> {"idle", "consume", "status"}]
  /\ \A w \in Threads : pc[w] = "idle" <=> held[w] = NoBucket
  /\ asked \in [Threads -> [key : Keys, tokens : Sizes] \cup {NoCall}]
  /\ \A w \in Threads : pc[w] = "consume" <=> asked[w] # NoCall
  /\ reply \in [Threads -> Replies]

Init ==
  /\ table = [k \in Keys |-> NoBucket]
  /\ heap = [b \in {} |-> 0]
  /\ pc = [w \in Threads |-> "idle"]
  /\ held = [w \in Threads |-> NoBucket]
  /\ asked = [w \in Threads |-> NoCall]
  /\ reply = [w \in Threads |-> "none"]

----------------------------------------------------------------------------
FullBucket(limit) ==
  [limit |-> limit, rpm |-> limit.rpm * Minute, tpm |-> limit.tpm * Minute, age |-> 0]

\* A slip: the refilled level is not capped.
RefillUncapped(b) ==
  [limit |-> b.limit,
   rpm   |-> b.rpm + b.age * b.limit.rpm,
   tpm   |-> AtMost(b.limit.tpm * Minute, b.tpm + b.age * b.limit.tpm),
   age   |-> 0]

Refill(b) ==
  [limit |-> b.limit,
   rpm   |-> AtMost(b.limit.rpm * Minute, b.rpm + b.age * b.limit.rpm),
   tpm   |-> AtMost(b.limit.tpm * Minute, b.tpm + b.age * b.limit.tpm),
   age   |-> 0]

\* What check_and_consume answers on a refilled bucket.
Verdict(b, tokens) ==
  IF b.rpm < Minute THEN "rpm_limit"
  ELSE IF tokens > 0 /\ b.tpm < tokens * Minute THEN "tpm_limit"
  ELSE "allowed"

\* What it leaves in the bucket.
Consumed(b, tokens) ==
  IF Verdict(b, tokens) # "allowed" THEN b
  ELSE [limit |-> b.limit,
        rpm   |-> b.rpm - Minute,
        tpm   |-> b.tpm - tokens * Minute,
        age   |-> b.age]

\* A slip: the time to a full bucket, not to the missing amount.
RetryAfterWhole(b, tokens) ==
  IF Verdict(b, tokens) = "rpm_limit"
  THEN [units |-> Minute, rate |-> b.limit.rpm]
  ELSE [units |-> tokens * Minute, rate |-> b.limit.tpm]

\* retry_after of a refusal: so many units at so many units a tick.
RetryAfter(b, tokens) ==
  IF Verdict(b, tokens) = "rpm_limit"
  THEN [units |-> Minute - b.rpm, rate |-> b.limit.rpm]
  ELSE [units |-> tokens * Minute - b.tpm, rate |-> b.limit.tpm]

\* _cleanup_stale_buckets
Stale(k) == table[k] # NoBucket /\ heap[table[k]].age > bucket_ttl
Swept == [k \in Keys |-> IF Stale(k) THEN NoBucket ELSE table[k]]

\* _get_or_create_bucket, under the limiter's lock.
GetBucket(w, k, n, limit) ==
  /\ pc[w] = "idle"
  /\ pc' = [pc EXCEPT ![w] = "consume"]
  /\ asked' = [asked EXCEPT ![w] = [key |-> k, tokens |-> n]]
  /\ reply' = [reply EXCEPT ![w] = "none"]
  /\ \/ /\ Swept[k] # NoBucket
        /\ table' = Swept
        /\ held' = [held EXCEPT ![w] = Swept[k]]
        /\ heap' = [b \in Referenced' |-> heap[b]]
     \/ /\ Swept[k] = NoBucket
        /\ \E new \in Buckets \ Referenced :
             /\ table' = [Swept EXCEPT ![k] = new]
             /\ held' = [held EXCEPT ![w] = new]
             /\ heap' = [b \in Referenced' |->
                           IF b = new THEN FullBucket(limit) ELSE heap[b]]

\* The rest of check_and_consume, under the bucket's lock.
Consume(w) ==
  /\ pc[w] = "consume"
  /\ UNCHANGED table
  /\ LET b == Refill(heap[held[w]])
         n == asked[w].tokens
     IN /\ reply' = [reply EXCEPT ![w] = Verdict(b, n)]
        /\ held' = [held EXCEPT ![w] = NoBucket]
        /\ heap' = [x \in Referenced' |->
                      IF x = held[w] THEN Consumed(b, n) ELSE heap[x]]
  /\ pc' = [pc EXCEPT ![w] = "idle"]
  /\ asked' = [asked EXCEPT ![w] = NoCall]

\* get_status reads the table without the limiter's lock...
FindStatus(w, k) ==
  /\ pc[w] = "idle" /\ table[k] # NoBucket
  /\ pc' = [pc EXCEPT ![w] = "status"]
  /\ held' = [held EXCEPT ![w] = table[k]]
  /\ UNCHANGED <<table, heap, asked, reply>>

\* ... and refills the bucket it found under the bucket's lock.
ReadStatus(w) ==
  /\ pc[w] = "status"
  /\ pc' = [pc EXCEPT ![w] = "idle"]
  /\ UNCHANGED <<table, asked, reply>>
  /\ held' = [held EXCEPT ![w] = NoBucket]
  /\ heap' = [x \in Referenced' |->
                IF x = held[w] THEN Refill(heap[x]) ELSE heap[x]]

Drop(keys) ==
  /\ UNCHANGED <<pc, held, asked, reply>>
  /\ table' = [k \in Keys |-> IF k \in keys THEN NoBucket ELSE table[k]]
  /\ heap' = [b \in Referenced' |-> heap[b]]

ResetKey(k) == Drop({k})
ResetAll    == Drop(Keys)

Tick ==
  /\ heap' = [b \in Referenced |->
                [heap[b] EXCEPT !.age = AtMost(bucket_ttl + 1, @ + 1)]]
  /\ UNCHANGED <<table, pc, held, asked, reply>>

Next ==
  \/ Tick \/ ResetAll
  \/ \E k \in Keys : ResetKey(k)
  \/ \E w \in Threads :
       \/ Consume(w) \/ ReadStatus(w)
       \/ \E k \in Keys :
            \/ FindStatus(w, k)
            \/ \E n \in Sizes, limit \in Limits : GetBucket(w, k, n, limit)

Spec == Init /\ [][Next]_vars

----------------------------------------------------------------------------
(* What retry_after promises a caller: when that time has passed and       *)
(* nobody else has used the bucket, the limit it was refused by no longer  *)
(* refuses it, and any tick earlier it still would.  For a request no      *)
(* larger than the bucket; a larger one is never admitted.                 *)
Enough(ticks, r) == ticks * r.rate >= r.units

Later(b, ticks) == Refill([b EXCEPT !.age = ticks])

HonestRetryAfter ==
  \A x \in Referenced, n \in Sizes :
    LET b == Refill(heap[x])
        r == RetryAfter(b, n)
    IN  Verdict(b, n) # "allowed" /\ n <= b.limit.tpm =>
          \A t \in 0..Minute :
            Enough(t, r) <=> Verdict(Later(b, t), n) # Verdict(b, n)

(* Two locks, lazy refilling and eviction keep the promise of RateQuota:   *)
(* credit accrues with time although nothing runs, an evicted bucket is    *)
(* never missed, each answer is right for the moment it is given, refusals *)
(* cost nothing, and only a call overtaken by an eviction or a reset       *)
(* between its two locks goes uncharged.                                   *)
Account(k) ==
  IF table[k] = NoBucket THEN NoBucket
  ELSE LET b == Refill(heap[table[k]])
       IN  [limit |-> b.limit, credit |-> [rpm |-> b.rpm, tpm |-> b.tpm]]

Overtaken == {w \in Threads : pc[w] = "consume" /\ table[asked[w].key] # held[w]}

Quota == INSTANCE RateQuota WITH
  Callers   <- Threads,
  Closed    <- NoBucket,
  account   <- [k \in Keys |-> Account(k)],
  call      <- asked,
  overtaken <- Overtaken

ImplementsQuota == Quota!QuotaSpec
=============================================================================
