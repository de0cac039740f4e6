------------------------- MODULE TokenBucketProofs --------------------------
(***************************************************************************)
(* For any number of threads, keys and bucket objects, any limits, any TTL *)
(* and any length of a minute: the limiter's types hold, and two locks,    *)
(* lazy refilling and eviction implement RateQuota.                        *)
(***************************************************************************)
EXTENDS TokenBucket, TLAPS

\* A thread between its two locks holds its own key's bucket or one that is
\* in the table no more, and no two keys share a bucket.
HeldBelongs ==
  \A w \in Threads, k \in Keys :
    pc[w] = "consume" /\ table[k] = held[w] => asked[w].key = k

OwnBucket ==
  \A j, k \in Keys : table[j] = table[k] /\ table[j] # NoBucket => j = k

Inv == TypeOK /\ HeldBelongs /\ OwnBucket

----------------------------------------------------------------------------
\* Every limit a bucket can have admits at least one request a minute.
LEMMA LimitsArePositive ==
  /\ Limits \subseteq [rpm : Nat \ {0}, tpm : Nat \ {0}]
  /\ Sizes \subseteq Nat
  /\ bucket_ttl \in Nat /\ bucket_ttl >= Minute
<1>1. \A r \in RpmOverrides : EffectiveLimit(r, DefaultRpm) \in Nat \ {0}
  BY LimiterAssumption DEF EffectiveLimit, AtLeast
<1>2. \A t \in TpmOverrides : EffectiveLimit(t, DefaultTpm) \in Nat \ {0}
  BY LimiterAssumption DEF EffectiveLimit, AtLeast
<1>3. Sizes \subseteq Nat
  BY LimiterAssumption DEF Sizes, AtLeast
<1>4. bucket_ttl \in Nat /\ bucket_ttl >= Minute
  BY LimiterAssumption DEF bucket_ttl, AtLeast
<1> QED
  BY <1>1, <1>2, <1>3, <1>4 DEF Limits

\* One limit's level, refilled after a idle ticks.
Filled(x, a, l) == AtMost(l * Minute, x + a * l)

\* Refilling keeps a level between empty and full.
LEMMA FilledBounds ==
  ASSUME NEW l \in Nat \ {0}, NEW x \in 0..(l * Minute), NEW a \in Nat
  PROVE  /\ Filled(x, a, l) \in 0..(l * Minute)
         /\ Filled(x, 0, l) = x
<1>1. a * l \in Nat /\ l * Minute \in Nat
  BY LimiterAssumption
<1> QED
  BY <1>1, LimiterAssumption DEF Filled, AtMost

\* Idle for more than a minute, a level is full: what makes eviction harmless.
LEMMA IdleIsFull ==
  ASSUME NEW l \in Nat \ {0}, NEW x \in 0..(l * Minute), NEW a \in Nat,
         a >= Minute
  PROVE  Filled(x, a, l) = l * Minute
<1>1. a * l >= l * Minute /\ a * l \in Nat /\ l * Minute \in Nat
  BY LimiterAssumption
<1> QED
  BY <1>1, LimiterAssumption DEF Filled, AtMost

\* Growing an account tick by tick and refilling a bucket at once agree.
LEMMA FilledLater ==
  ASSUME NEW l \in Nat \ {0}, NEW x \in 0..(l * Minute), NEW a \in Nat
  PROVE  Filled(x, a + 1, l) = AtMost(l * Minute, Filled(x, a, l) + l)
<1>1. (a + 1) * l = a * l + l /\ a * l \in Nat /\ l * Minute \in Nat
  BY LimiterAssumption
<1> QED
  BY <1>1, LimiterAssumption DEF Filled, AtMost

\* The age of a bucket stops counting past the TTL, when the bucket is full.
LEMMA SaturatedLater ==
  ASSUME NEW l \in Nat \ {0}, NEW x \in 0..(l * Minute),
         NEW a \in 0..(bucket_ttl + 1)
  PROVE  Filled(x, AtMost(bucket_ttl + 1, a + 1), l)
           = AtMost(l * Minute, Filled(x, a, l) + l)
<1>1. CASE a + 1 <= bucket_ttl + 1
  BY <1>1, FilledLater, LimitsArePositive DEF AtMost
<1>2. CASE a = bucket_ttl + 1
  <2>1. AtMost(bucket_ttl + 1, a + 1) = a /\ a >= Minute /\ a \in Nat
    BY <1>2, LimitsArePositive, LimiterAssumption DEF AtMost
  <2>2. Filled(x, a, l) = l * Minute /\ l * Minute \in Nat
    BY <2>1, IdleIsFull, LimiterAssumption
  <2> QED
    BY <2>1, <2>2 DEF AtMost
<1> QED
  BY <1>1, <1>2, LimitsArePositive

\* Refilling a bucket keeps its limits and its type.
LEMMA RefillOK ==
  ASSUME NEW b, BucketOK(b)
  PROVE  /\ Refill(b) = [limit |-> b.limit,
                         rpm |-> Filled(b.rpm, b.age, b.limit.rpm),
                         tpm |-> Filled(b.tpm, b.age, b.limit.tpm),
                         age |-> 0]
         /\ BucketOK(Refill(b))
<1>1. /\ b.limit.rpm \in Nat \ {0} /\ b.limit.tpm \in Nat \ {0}
      /\ b.rpm \in 0..(b.limit.rpm * Minute)
      /\ b.tpm \in 0..(b.limit.tpm * Minute)
      /\ b.age \in Nat
  BY LimitsArePositive, LimiterAssumption DEF BucketOK
<1>2. /\ Filled(b.rpm, b.age, b.limit.rpm) \in 0..(b.limit.rpm * Minute)
      /\ Filled(b.tpm, b.age, b.limit.tpm) \in 0..(b.limit.tpm * Minute)
  BY <1>1, FilledBounds
<1>3. Refill(b) = [limit |-> b.limit,
                   rpm |-> Filled(b.rpm, b.age, b.limit.rpm),
                   tpm |-> Filled(b.tpm, b.age, b.limit.tpm),
                   age |-> 0]
  BY DEF Refill, Filled
<1> QED
  BY <1>1, <1>2, <1>3, LimitsArePositive, LimiterAssumption DEF BucketOK

\* So does one more tick.
LEMMA AgeOK ==
  ASSUME NEW b, BucketOK(b)
  PROVE  BucketOK([b EXCEPT !.age = AtMost(bucket_ttl + 1, @ + 1)])
  BY LimitsArePositive DEF BucketOK, AtMost

\* And paying for a request from a refilled bucket.
LEMMA ConsumedOK ==
  ASSUME NEW b, BucketOK(b), NEW n \in Sizes
  PROVE  BucketOK(Consumed(b, n)) /\ Consumed(b, n).limit = b.limit
<1>1. CASE Verdict(b, n) # "allowed"
  BY <1>1 DEF Consumed
<1>2. CASE Verdict(b, n) = "allowed"
  <2>1. n * Minute \in Nat /\ b.rpm >= Minute /\ b.tpm >= n * Minute
    BY <1>2, LimitsArePositive, LimiterAssumption DEF Verdict, BucketOK
  <2>2. Consumed(b, n) = [limit |-> b.limit, rpm |-> b.rpm - Minute,
                          tpm |-> b.tpm - n * Minute, age |-> b.age]
    BY <1>2 DEF Consumed
  <2> QED
    BY <2>1, <2>2, LimitsArePositive, LimiterAssumption DEF BucketOK
<1> QED
  BY <1>1, <1>2

\* A new bucket is full.
LEMMA FullOK ==
  ASSUME NEW l \in Limits
  PROVE  BucketOK(FullBucket(l))
  BY LimitsArePositive, LimiterAssumption DEF BucketOK, FullBucket

----------------------------------------------------------------------------
\* The part of the type invariant about the heap.
HeapOK == DOMAIN heap = Referenced /\ \A b \in Referenced : BucketOK(heap[b])

\* The rest of it.
FieldsOK ==
  /\ table \in [Keys -> Buckets \cup {NoBucket}]
  /\ held \in [Threads -> Buckets \cup {NoBucket}]
  /\ pc \in [Threads -> {"idle", "consume", "status"}]
  /\ \A w \in Threads : pc[w] = "idle" <=> held[w] = NoBucket
  /\ asked \in [Threads -> [key : Keys, tokens : Sizes] \cup {NoCall}]
  /\ \A w \in Threads : pc[w] = "consume" <=> asked[w] # NoCall
  /\ reply \in [Threads -> Replies]

LEMMA TypeParts == TypeOK <=> FieldsOK /\ HeapOK
  BY DEF TypeOK, FieldsOK, HeapOK

\* What a thread holds, and what the table holds, is a live bucket.
LEMMA LiveBuckets ==
  ASSUME TypeOK
  PROVE  /\ \A w \in Threads : pc[w] # "idle" => held[w] \in Referenced
         /\ \A k \in Keys : table[k] # NoBucket => table[k] \in Referenced
         /\ Referenced \subseteq Buckets
  BY DEF TypeOK, Referenced

LEMMA InvInit == Init => Inv
<1> SUFFICES ASSUME Init PROVE Inv
  OBVIOUS
<1>1. Referenced = {}
  BY DEF Init, Referenced
<1>2. TypeOK
  BY <1>1 DEF Init, TypeOK, Replies
<1> QED
  BY <1>2 DEF Init, Inv, HeldBelongs, OwnBucket

LEMMA GetBucketInv ==
  ASSUME Inv, NEW w \in Threads, NEW k \in Keys, NEW n \in Sizes,
         NEW limit \in Limits, GetBucket(w, k, n, limit)
  PROVE  Inv'
<1> USE DEF Inv
<1>1. /\ Swept \in [Keys -> Buckets \cup {NoBucket}]
      /\ \A j \in Keys : Swept[j] \in {table[j], NoBucket}
  BY DEF Swept, TypeOK
<1>2. [key |-> k, tokens |-> n] # NoCall
  BY MarkerAssumption
<1>3. CASE /\ Swept[k] # NoBucket
           /\ table' = Swept
           /\ held' = [held EXCEPT ![w] = Swept[k]]
           /\ heap' = [b \in Referenced' |-> heap[b]]
  <2>1. FieldsOK'
    BY <1>1, <1>2, <1>3 DEF GetBucket, TypeOK, FieldsOK, Replies
  <2>2. Referenced' \subseteq Referenced
    BY <1>1, <1>3, <2>1 DEF Referenced, FieldsOK, TypeOK
  <2>3. HeapOK'
    BY <1>3, <2>2 DEF HeapOK, TypeOK
  <2>4. HeldBelongs' /\ OwnBucket'
    BY <1>1, <1>3 DEF GetBucket, HeldBelongs, OwnBucket, TypeOK
  <2> QED
    BY <2>1, <2>3, <2>4, TypeParts, PTL
<1>4. ASSUME Swept[k] = NoBucket, NEW new \in Buckets \ Referenced,
             table' = [Swept EXCEPT ![k] = new],
             held' = [held EXCEPT ![w] = new],
             heap' = [b \in Referenced' |->
                        IF b = new THEN FullBucket(limit) ELSE heap[b]]
      PROVE  Inv'
  <2>0. new # NoBucket
    BY LimiterAssumption
  <2>1. FieldsOK'
    BY <1>1, <1>2, <1>4, <2>0 DEF GetBucket, TypeOK, FieldsOK, Replies
  <2>2. Referenced' \subseteq Referenced \cup {new}
    BY <1>1, <1>4, <2>1 DEF Referenced, FieldsOK, TypeOK
  <2>3. HeapOK'
    BY <1>4, <2>2, FullOK DEF HeapOK, TypeOK
  <2>4. \A j \in Keys : table[j] # new
    BY <2>0 DEF Referenced
  <2>5. \A v \in Threads : held[v] # new
    BY <2>0 DEF Referenced
  <2>6. HeldBelongs' /\ OwnBucket'
    BY <1>1, <1>4, <2>4, <2>5 DEF GetBucket, HeldBelongs, OwnBucket, TypeOK
  <2> QED
    BY <2>1, <2>3, <2>6, TypeParts, PTL
<1> QED
  BY <1>3, <1>4 DEF GetBucket

LEMMA ConsumeInv ==
  ASSUME Inv, NEW w \in Threads, Consume(w)
  PROVE  Inv'
<1> USE DEF Inv
<1> DEFINE b == Refill(heap[held[w]])
           n == asked[w].tokens
<1>1. held[w] \in Referenced /\ BucketOK(b)
  BY LiveBuckets, RefillOK DEF Consume, TypeOK
<1>2. n \in Sizes
  BY DEF Consume, TypeOK
<1>3. FieldsOK'
  BY DEF Consume, TypeOK, FieldsOK, Verdict, Replies
<1>4. Referenced' \subseteq Referenced
  BY DEF Consume, Referenced, TypeOK
<1>5. HeapOK'
  BY <1>1, <1>2, <1>4, ConsumedOK DEF HeapOK, Consume, TypeOK
<1>6. HeldBelongs' /\ OwnBucket'
  BY DEF Consume, HeldBelongs, OwnBucket, TypeOK
<1> QED
  BY <1>3, <1>5, <1>6, TypeParts, PTL

LEMMA StatusInv ==
  ASSUME Inv, NEW w \in Threads,
         ReadStatus(w) \/ \E k \in Keys : FindStatus(w, k)
  PROVE  Inv'
<1> USE DEF Inv
<1>1. CASE ReadStatus(w)
  <2>1. FieldsOK'
    BY <1>1 DEF ReadStatus, TypeOK, FieldsOK
  <2>2. Referenced' \subseteq Referenced
    BY <1>1 DEF ReadStatus, Referenced, TypeOK
  <2>3. HeapOK'
    BY <1>1, <2>2, RefillOK DEF HeapOK, ReadStatus, TypeOK
  <2>4. HeldBelongs' /\ OwnBucket'
    BY <1>1 DEF ReadStatus, HeldBelongs, OwnBucket, TypeOK
  <2> QED
    BY <2>1, <2>3, <2>4, TypeParts, PTL
<1>2. ASSUME NEW k \in Keys, FindStatus(w, k) PROVE Inv'
  <2>1. FieldsOK'
    BY <1>2 DEF FindStatus, TypeOK, FieldsOK
  <2>2. Referenced' = Referenced
    BY <1>2, <2>1 DEF FindStatus, Referenced, TypeOK, FieldsOK
  <2>3. HeapOK'
    BY <1>2, <2>2 DEF HeapOK, FindStatus, TypeOK
  <2>4. HeldBelongs' /\ OwnBucket'
    BY <1>2 DEF FindStatus, HeldBelongs, OwnBucket, TypeOK
  <2> QED
    BY <2>1, <2>3, <2>4, TypeParts, PTL
<1> QED
  BY <1>1, <1>2

LEMMA DropInv ==
  ASSUME Inv, NEW keys \in SUBSET Keys, Drop(keys)
  PROVE  Inv'
<1> USE DEF Inv
<1>1. FieldsOK'
  BY DEF Drop, TypeOK, FieldsOK
<1>2. Referenced' \subseteq Referenced
  BY DEF Drop, Referenced, TypeOK
<1>3. HeapOK'
  BY <1>2 DEF HeapOK, Drop, TypeOK
<1>4. HeldBelongs' /\ OwnBucket'
  BY DEF Drop, HeldBelongs, OwnBucket, TypeOK
<1> QED
  BY <1>1, <1>3, <1>4, TypeParts, PTL

LEMMA TickInv ==
  ASSUME Inv, Tick
  PROVE  Inv'
<1> USE DEF Inv
<1>1. Referenced' = Referenced
  BY DEF Tick, Referenced
<1>2. HeapOK'
  BY <1>1, AgeOK DEF HeapOK, Tick, TypeOK
<1>3. FieldsOK' /\ HeldBelongs' /\ OwnBucket'
  BY DEF Tick, FieldsOK, TypeOK, HeldBelongs, OwnBucket
<1> QED
  BY <1>2, <1>3, TypeParts, PTL

LEMMA InvNext == Inv /\ [Next]_vars => Inv'
<1> SUFFICES ASSUME Inv, [Next]_vars PROVE Inv'
  OBVIOUS
<1>1. CASE UNCHANGED vars
  <2>1. Referenced' = Referenced
    BY <1>1 DEF vars, Referenced
  <2> QED
    BY <1>1, <2>1 DEF vars, Inv, TypeOK, HeldBelongs, OwnBucket
<1>2. ASSUME NEW k \in Keys, ResetKey(k) PROVE Inv'
  <2>1. {k} \in SUBSET Keys
    OBVIOUS
  <2> QED
    BY <1>2, <2>1, DropInv DEF ResetKey
<1>3. CASE ResetAll
  <2>1. Keys \in SUBSET Keys
    OBVIOUS
  <2> QED
    BY <1>3, <2>1, DropInv DEF ResetAll
<1> QED
  BY <1>1, <1>2, <1>3, TickInv, ConsumeInv, StatusInv, GetBucketInv DEF Next

\* The limiter's fields hold values of their types; in particular no level is
\* ever negative or above its limit.
THEOREM TypeCorrect == Spec => []TypeOK
<1>1. Inv => TypeOK
  BY DEF Inv
<1> QED
  BY <1>1, InvInit, InvNext, PTL DEF Spec

----------------------------------------------------------------------------
(* retry_after.                                                            *)

\* A level that lacks some of a need that fits is enough as soon as the ticks
\* refill what is missing, and not before.
LEMMA MissingRefilled ==
  ASSUME NEW l \in Nat \ {0}, NEW x \in 0..(l * Minute), NEW t \in Nat,
         NEW need \in Nat, x < need, need <= l * Minute
  PROVE  Filled(x, t, l) < need <=> ~(t * l >= need - x)
<1>1. t * l \in Nat /\ l * Minute \in Nat  BY LimiterAssumption
<1>2. CASE x + t * l > l * Minute
  BY <1>1, <1>2 DEF Filled, AtMost
<1>3. CASE ~(x + t * l > l * Minute)
  BY <1>1, <1>3 DEF Filled, AtMost
<1>. QED  BY <1>2, <1>3

\* A level that is enough stays enough.
LEMMA EnoughStays ==
  ASSUME NEW l \in Nat \ {0}, NEW x \in 0..(l * Minute), NEW t \in Nat,
         NEW need \in Nat, x >= need
  PROVE  Filled(x, t, l) >= need
<1>1. t * l \in Nat /\ l * Minute \in Nat  BY LimiterAssumption
<1>. QED  BY <1>1 DEF Filled, AtMost

\* Some ticks later, a refilled bucket holds this.
LEMMA LaterIs ==
  ASSUME NEW b, BucketOK(b), NEW t \in 0..Minute
  PROVE  Later(b, t) = [limit |-> b.limit,
                        rpm |-> Filled(b.rpm, t, b.limit.rpm),
                        tpm |-> Filled(b.tpm, t, b.limit.tpm),
                        age |-> 0]
<1>. DEFINE c == [b EXCEPT !.age = t]
<1>1. t \in 0..(bucket_ttl + 1)  BY LimitsArePositive, LimiterAssumption
<1>2. /\ BucketOK(c) /\ c.limit = b.limit /\ c.rpm = b.rpm /\ c.tpm = b.tpm /\ c.age = t
  BY <1>1 DEF BucketOK
<1>. HIDE DEF c
<1>3. Refill(c) = [limit |-> c.limit,
                   rpm |-> Filled(c.rpm, c.age, c.limit.rpm),
                   tpm |-> Filled(c.tpm, c.age, c.limit.tpm),
                   age |-> 0]
  BY <1>2, RefillOK
<1>. QED  BY <1>2, <1>3 DEF Later, c

\* Of a bucket of the right type, retry_after is honest.
LEMMA RetryIsHonest ==
  ASSUME NEW b, BucketOK(b), NEW n \in Sizes, NEW t \in 0..Minute,
         Verdict(b, n) # "allowed", n <= b.limit.tpm
  PROVE  Enough(t, RetryAfter(b, n)) <=> Verdict(Later(b, t), n) # Verdict(b, n)
<1>1. /\ b.limit.rpm \in Nat \ {0} /\ b.limit.tpm \in Nat \ {0}
      /\ b.rpm \in 0..(b.limit.rpm * Minute)
      /\ b.tpm \in 0..(b.limit.tpm * Minute)
      /\ n \in Nat /\ t \in Nat /\ Minute \in Nat \ {0}
  BY LimitsArePositive, LimiterAssumption DEF BucketOK
<1>2. PICK r, m : /\ r = Filled(b.rpm, t, b.limit.rpm)
                  /\ m = Filled(b.tpm, t, b.limit.tpm)
  OBVIOUS
<1>3. Later(b, t).rpm = r /\ Later(b, t).tpm = m  BY <1>2, LaterIs
<1>4. r \in Nat /\ m \in Nat  BY <1>1, <1>2, FilledBounds
<1>5. CASE Verdict(b, n) = "rpm_limit"
  <2>1. b.rpm < Minute
    <3>1. CASE ~(b.rpm < Minute)
      BY <1>5, <3>1 DEF Verdict
    <3>. QED  BY <3>1
  <2>2. Minute <= b.limit.rpm * Minute  BY <1>1
  <2>3. r < Minute <=> ~(t * b.limit.rpm >= Minute - b.rpm)
    BY <1>1, <1>2, <2>1, <2>2, MissingRefilled
  <2>4. Verdict(Later(b, t), n) = "rpm_limit" <=> r < Minute
    BY <1>3 DEF Verdict
  <2>5. RetryAfter(b, n) = [units |-> Minute - b.rpm, rate |-> b.limit.rpm]
    BY <1>5 DEF RetryAfter
  <2>6. Enough(t, RetryAfter(b, n)) <=> t * b.limit.rpm >= Minute - b.rpm
    BY <2>5 DEF Enough
  <2>. QED  BY <1>5, <2>3, <2>4, <2>6
<1>6. CASE Verdict(b, n) = "tpm_limit"
  <2>1. ~(b.rpm < Minute) /\ n > 0 /\ b.tpm < n * Minute
    BY <1>6 DEF Verdict
  <2>2. n * Minute \in Nat /\ n * Minute <= b.limit.tpm * Minute
    <3>1. b.limit.tpm * Minute = n * Minute + (b.limit.tpm - n) * Minute
          /\ (b.limit.tpm - n) * Minute \in Nat /\ n * Minute \in Nat
      BY <1>1
    <3>. QED  BY <3>1
  <2>3. m < n * Minute <=> ~(t * b.limit.tpm >= n * Minute - b.tpm)
    BY <1>1, <1>2, <2>1, <2>2, MissingRefilled
  <2>4. b.rpm >= Minute  BY <1>1, <2>1
  <2>5. r >= Minute  BY <1>1, <1>2, <2>4, EnoughStays
  <2>6. ~(r < Minute)  BY <1>1, <1>4, <2>5
  <2>7. Verdict(Later(b, t), n) = "tpm_limit" <=> m < n * Minute
    BY <1>3, <2>1, <2>6 DEF Verdict
  <2>8. RetryAfter(b, n) = [units |-> n * Minute - b.tpm, rate |-> b.limit.tpm]
    BY <1>6 DEF RetryAfter
  <2>9. Enough(t, RetryAfter(b, n)) <=> t * b.limit.tpm >= n * Minute - b.tpm
    BY <2>8 DEF Enough
  <2>. QED  BY <1>6, <2>3, <2>7, <2>9
<1>. QED  BY <1>5, <1>6 DEF Verdict

\* A refused caller who waits retry_after, while nobody else uses the bucket, is
\* not refused for the same limit again, and would be any tick earlier.
THEOREM RetryHonest == Spec => []HonestRetryAfter
<1>1. TypeOK => HonestRetryAfter
  <2>. SUFFICES ASSUME TypeOK, NEW x \in Referenced, NEW n \in Sizes, NEW t \in 0..Minute,
                       Verdict(Refill(heap[x]), n) # "allowed",
                       n <= Refill(heap[x]).limit.tpm
                PROVE  Enough(t, RetryAfter(Refill(heap[x]), n))
                         <=> Verdict(Later(Refill(heap[x]), t), n) # Verdict(Refill(heap[x]), n)
    BY DEF HonestRetryAfter
  <2>1. BucketOK(Refill(heap[x]))  BY RefillOK DEF TypeOK
  <2>. QED  BY <2>1, RetryIsHonest
<1>. QED  BY <1>1, TypeCorrect, PTL

----------------------------------------------------------------------------
\* The account of a key whose bucket is in the table, written out.
LEMMA AccountOpen ==
  ASSUME Inv, NEW k \in Keys, table[k] # NoBucket
  PROVE  LET b == heap[table[k]]
         IN  /\ BucketOK(b)
             /\ Account(k) = [limit |-> b.limit,
                              credit |-> [rpm |-> Filled(b.rpm, b.age, b.limit.rpm),
                                          tpm |-> Filled(b.tpm, b.age, b.limit.tpm)]]
             /\ Account(k) # NoBucket
<1> DEFINE b == heap[table[k]]
<1>1. BucketOK(b)
  BY LiveBuckets DEF Inv, TypeOK
<1>2. Account(k) = [limit |-> b.limit,
                    credit |-> [rpm |-> Filled(b.rpm, b.age, b.limit.rpm),
                                tpm |-> Filled(b.tpm, b.age, b.limit.tpm)]]
  BY <1>1, RefillOK DEF Account
<1>3. Account(k) \in [limit : Limits, credit : [rpm : Nat, tpm : Nat]]
  BY <1>1, <1>2, RefillOK DEF BucketOK
<1> QED
  BY <1>1, <1>2, <1>3, MarkerAssumption

\* What a bucket holds in a later state determines its key's account there.
LEMMA AccountOpenNext ==
  ASSUME Inv', NEW k \in Keys, table'[k] # NoBucket
  PROVE  LET b == heap'[table'[k]]
         IN  /\ BucketOK(b)
             /\ Account(k)' = [limit |-> b.limit,
                               credit |-> [rpm |-> Filled(b.rpm, b.age, b.limit.rpm),
                                           tpm |-> Filled(b.tpm, b.age, b.limit.tpm)]]
<1> DEFINE b == heap'[table'[k]]
<1>1. BucketOK(b)
  BY DEF Inv, TypeOK, Referenced
<1>2. Account(k)' = [limit |-> Refill(b).limit,
                     credit |-> [rpm |-> Refill(b).rpm, tpm |-> Refill(b).tpm]]
  BY DEF Account
<1> QED
  BY <1>1, <1>2, RefillOK

\* An account does not change while its bucket does not.
LEMMA AccountKept ==
  ASSUME NEW k \in Keys, table'[k] = table[k],
         table[k] # NoBucket => heap'[table[k]] = heap[table[k]]
  PROVE  Account(k)' = Account(k)
  BY DEF Account

\* A new limiter is a new set of accounts.
LEMMA QuotaStart == Init => Quota!QuotaInit
<1> SUFFICES ASSUME Init PROVE Quota!QuotaInit
  OBVIOUS
<1>1. \A k \in Keys : Account(k) = NoBucket
  BY DEF Init, Account
<1>2. Overtaken = {}
  BY DEF Init, Overtaken
<1> QED
  BY <1>1, <1>2 DEF Init, Quota!QuotaInit

\* Waiting: every open account grows by one tick's worth.
LEMMA TickAccrues ==
  ASSUME Inv, Inv', Tick
  PROVE  Quota!Accrue
<1>1. ASSUME NEW k \in Keys
      PROVE  Account(k)' = IF Account(k) = NoBucket THEN NoBucket
                           ELSE Quota!Grow(Account(k))
  <2>1. CASE table[k] = NoBucket
    BY <2>1 DEF Tick, Account
  <2>2. CASE table[k] # NoBucket
    <3> DEFINE b == heap[table[k]]
               l == b.limit
               older == AtMost(bucket_ttl + 1, b.age + 1)
    <3>1. BucketOK(b) /\ table[k] \in Referenced
      BY <2>2, AccountOpen, LiveBuckets DEF Inv
    <3>2. heap'[table'[k]] = [b EXCEPT !.age = older]
      BY <3>1 DEF Tick
    <3>3. /\ l.rpm \in Nat \ {0} /\ l.tpm \in Nat \ {0}
          /\ b.rpm \in 0..(l.rpm * Minute) /\ b.tpm \in 0..(l.tpm * Minute)
          /\ b.age \in 0..(bucket_ttl + 1)
      BY <3>1, LimitsArePositive, LimiterAssumption DEF BucketOK
    <3>4. /\ Filled(b.rpm, older, l.rpm)
               = AtMost(l.rpm * Minute, Filled(b.rpm, b.age, l.rpm) + l.rpm)
          /\ Filled(b.tpm, older, l.tpm)
               = AtMost(l.tpm * Minute, Filled(b.tpm, b.age, l.tpm) + l.tpm)
      BY <3>3, SaturatedLater
    <3>5. Account(k)' = [limit |-> l, credit |-> [rpm |-> Filled(b.rpm, older, l.rpm),
                                                  tpm |-> Filled(b.tpm, older, l.tpm)]]
      <4>1. /\ heap'[table'[k]].limit = l /\ heap'[table'[k]].rpm = b.rpm
            /\ heap'[table'[k]].tpm = b.tpm /\ heap'[table'[k]].age = older
        BY <3>1, <3>2 DEF BucketOK
      <4> QED
        BY <2>2, <4>1, AccountOpenNext DEF Tick
    <3>6. /\ Account(k) # NoBucket
          /\ Account(k) = [limit |-> l, credit |-> [rpm |-> Filled(b.rpm, b.age, l.rpm),
                                                    tpm |-> Filled(b.tpm, b.age, l.tpm)]]
      BY <2>2, AccountOpen
    <3>7. /\ Filled(b.rpm, b.age, l.rpm) \in Nat /\ Filled(b.tpm, b.age, l.tpm) \in Nat
          /\ l.rpm * Minute \in Nat /\ l.tpm * Minute \in Nat
          /\ b.age \in Nat
      <4>1. b.age \in Nat
        BY <3>3, LimitsArePositive
      <4>2. l.rpm * Minute \in Nat /\ l.tpm * Minute \in Nat
        BY <3>3, LimiterAssumption
      <4>3. /\ Filled(b.rpm, b.age, l.rpm) \in 0..(l.rpm * Minute)
            /\ Filled(b.tpm, b.age, l.tpm) \in 0..(l.tpm * Minute)
        BY <3>3, <4>1, FilledBounds
      <4> QED
        BY <4>1, <4>2, <4>3
    <3>8. \A x, y \in Nat : AtMost(x, y) = Quota!Least(x, y)
      BY DEF AtMost, Quota!Least
    <3>9. Quota!Grow(Account(k)) =
            [limit |-> l,
             credit |-> [rpm |-> Filled(b.rpm, older, l.rpm),
                         tpm |-> Filled(b.tpm, older, l.tpm)]]
      BY <3>3, <3>4, <3>6, <3>7, <3>8 DEF Quota!Grow
    <3> QED
      BY <3>5, <3>6, <3>9
  <2> QED
    BY <2>1, <2>2
<1>2. Overtaken' = Overtaken
  BY DEF Tick, Overtaken
<1> QED
  BY <1>1, <1>2 DEF Quota!Accrue, Tick

\* A reset closes the accounts; the calls under way on them are overtaken.
LEMMA DropCloses ==
  ASSUME Inv, NEW keys \in SUBSET Keys, Drop(keys)
  PROVE  Quota!Close(keys)
<1>1. ASSUME NEW k \in Keys
      PROVE  Account(k)' = IF k \in keys THEN NoBucket ELSE Account(k)
  <2>1. CASE k \in keys
    BY <2>1 DEF Drop, Account
  <2>2. CASE k \notin keys
    <3>1. table'[k] = table[k]
      BY <2>2 DEF Drop
    <3>2. table[k] # NoBucket => table[k] \in Referenced'
      BY <3>1 DEF Referenced
    <3> QED
      BY <2>2, <3>1, <3>2, AccountKept DEF Drop
  <2> QED
    BY <2>1, <2>2
<1>2. Overtaken' = Overtaken \cup Quota!CallersOn(keys)
  BY DEF Drop, Overtaken, Quota!CallersOn, Inv, TypeOK
<1> QED
  BY <1>1, <1>2 DEF Quota!Close, Drop

\* Status polls refill a bucket, which its account does not show.
LEMMA StatusHidden ==
  ASSUME Inv, Inv', NEW w \in Threads,
         ReadStatus(w) \/ \E k \in Keys : FindStatus(w, k)
  PROVE  UNCHANGED Quota!quotaVars
<1>1. /\ table' = table /\ asked' = asked /\ reply' = reply
      /\ \A v \in Threads : v # w => pc'[v] = pc[v] /\ held'[v] = held[v]
      /\ pc[w] # "consume" /\ pc'[w] # "consume"
  BY DEF ReadStatus, FindStatus, Inv, TypeOK
<1>2. Overtaken' = Overtaken
  BY <1>1 DEF Overtaken
<1>3. ASSUME NEW k \in Keys PROVE Account(k)' = Account(k)
  <2>1. CASE table[k] = NoBucket
    BY <1>1, <2>1 DEF Account
  <2>2. CASE table[k] # NoBucket
    <3> DEFINE b == heap[table[k]]
    <3>1. BucketOK(b)
      BY <2>2, AccountOpen
    <3>2. heap'[table'[k]] = b \/ heap'[table'[k]] = Refill(b)
      BY <1>1, <2>2 DEF ReadStatus, FindStatus, Referenced
    <3>3. CASE heap'[table'[k]] = b
      BY <1>1, <3>3, AccountKept
    <3>4. CASE heap'[table'[k]] = Refill(b)
      <4>1. /\ b.limit.rpm \in Nat \ {0} /\ b.limit.tpm \in Nat \ {0}
            /\ Refill(b).rpm \in 0..(b.limit.rpm * Minute)
            /\ Refill(b).tpm \in 0..(b.limit.tpm * Minute)
        BY <3>1, RefillOK, LimitsArePositive, LimiterAssumption DEF BucketOK
      <4>2. Refill(Refill(b)) = Refill(b)
        <5>1. /\ Filled(Refill(b).rpm, 0, b.limit.rpm) = Refill(b).rpm
              /\ Filled(Refill(b).tpm, 0, b.limit.tpm) = Refill(b).tpm
          BY <4>1, FilledBounds
        <5>2. Refill(b).limit = b.limit /\ Refill(b).age = 0
          BY <3>1, RefillOK
        <5> QED
          BY <3>1, <5>1, <5>2, RefillOK
      <4> QED
        BY <1>1, <3>4, <4>2 DEF Account
    <3> QED
      BY <3>2, <3>3, <3>4
  <2> QED
    BY <2>1, <2>2
<1> QED
  BY <1>1, <1>2, <1>3 DEF Quota!quotaVars

\* A bucket past its TTL is full, so forgetting it loses nothing.
LEMMA StaleIsFull ==
  ASSUME Inv, NEW k \in Keys, Stale(k)
  PROVE  /\ Account(k) # NoBucket
         /\ Account(k) = Quota!Open(Account(k).limit)
<1> DEFINE b == heap[table[k]]
<1>1. table[k] # NoBucket /\ b.age > bucket_ttl
  BY DEF Stale
<1>2. /\ BucketOK(b) /\ Account(k) # NoBucket
      /\ Account(k) = [limit |-> b.limit,
                       credit |-> [rpm |-> Filled(b.rpm, b.age, b.limit.rpm),
                                   tpm |-> Filled(b.tpm, b.age, b.limit.tpm)]]
  BY <1>1, AccountOpen
<1>3. /\ b.limit.rpm \in Nat \ {0} /\ b.limit.tpm \in Nat \ {0}
      /\ b.rpm \in 0..(b.limit.rpm * Minute) /\ b.tpm \in 0..(b.limit.tpm * Minute)
      /\ b.age \in Nat /\ b.age >= Minute
  BY <1>1, <1>2, LimitsArePositive, LimiterAssumption DEF BucketOK
<1>4. /\ Filled(b.rpm, b.age, b.limit.rpm) = b.limit.rpm * Minute
      /\ Filled(b.tpm, b.age, b.limit.tpm) = b.limit.tpm * Minute
  BY <1>3, IdleIsFull
<1> QED
  BY <1>2, <1>4 DEF Quota!Open, Quota!Amount

\* The first half of a call.
LEMMA GetBucketBegins ==
  ASSUME Inv, Inv', NEW w \in Threads, NEW k \in Keys, NEW n \in Sizes,
         NEW limit \in Limits, GetBucket(w, k, n, limit)
  PROVE  Quota!Begin(w, k, n, limit, {x \in Keys : Stale(x)})
<1> DEFINE closing == {x \in Keys : Stale(x)}
<1>1. \A x \in closing :
        Account(x) # NoBucket /\ Account(x) = Quota!Open(Account(x).limit)
  BY StaleIsFull
<1>2. /\ \A x \in Keys : x # k => table'[x] = Swept[x]
      /\ Swept[k] # NoBucket => table'[k] = Swept[k]
      /\ Swept[k] = NoBucket => table'[k] \in Buckets \ Referenced
      /\ held' = [held EXCEPT ![w] = table'[k]]
  BY DEF GetBucket, Swept
<1>3. \A x \in Keys : table'[x] # NoBucket => table'[x] \in Referenced'
  BY DEF Referenced
<1>4. ASSUME NEW x \in Keys
      PROVE  Account(x)' = IF x = k /\ (Account(x) = NoBucket \/ x \in closing)
                           THEN Quota!Open(limit)
                           ELSE IF x \in closing THEN NoBucket ELSE Account(x)
  <2>1. CASE x = k /\ Swept[k] = NoBucket
    <3>1. table'[k] # NoBucket /\ table'[k] \notin Referenced
      BY <1>2, <2>1, LimiterAssumption
    <3>2. heap'[table'[k]] = FullBucket(limit)
      <4>1. PICK new \in Buckets \ Referenced :
              /\ table' = [Swept EXCEPT ![k] = new]
              /\ heap' = [b \in Referenced' |->
                            IF b = new THEN FullBucket(limit) ELSE heap[b]]
        BY <2>1 DEF GetBucket
      <4>2. table'[k] = new
        BY <4>1 DEF Swept
      <4> QED
        BY <1>3, <3>1, <4>1, <4>2
    <3>3. Account(k)' = Quota!Open(limit)
      <4>1. /\ limit.rpm \in Nat \ {0} /\ limit.tpm \in Nat \ {0}
            /\ limit.rpm * Minute \in 0..(limit.rpm * Minute)
            /\ limit.tpm * Minute \in 0..(limit.tpm * Minute)
        BY LimitsArePositive, LimiterAssumption
      <4>2. /\ Filled(limit.rpm * Minute, 0, limit.rpm) = limit.rpm * Minute
            /\ Filled(limit.tpm * Minute, 0, limit.tpm) = limit.tpm * Minute
        BY <4>1, FilledBounds
      <4>3. Account(k)' =
              [limit |-> limit,
               credit |-> [rpm |-> Filled(limit.rpm * Minute, 0, limit.rpm),
                           tpm |-> Filled(limit.tpm * Minute, 0, limit.tpm)]]
        BY <3>1, <3>2, AccountOpenNext DEF FullBucket
      <4> QED
        BY <4>2, <4>3 DEF Quota!Open, Quota!Amount
    <3>4. Account(k) = NoBucket \/ k \in closing
      BY <2>1 DEF Swept, Account
    <3> QED
      BY <2>1, <3>3, <3>4
  <2>2. CASE table'[x] = Swept[x] /\ Stale(x)
    <3>1. table'[x] = NoBucket /\ x # k
      BY <1>2, <2>2, LimiterAssumption DEF Swept, Stale
    <3> QED
      BY <2>2, <3>1 DEF Account
  <2>3. CASE table'[x] = Swept[x] /\ ~Stale(x) /\ ~(x = k /\ Swept[k] = NoBucket)
    <3>1. table'[x] = table[x]
      BY <2>3 DEF Swept
    <3>2. table[x] # NoBucket => heap'[table[x]] = heap[table[x]]
      BY <1>3, <3>1 DEF GetBucket, Referenced
    <3>3. x = k => Account(x) # NoBucket
      BY <2>3, <3>1, AccountOpen DEF Swept
    <3> QED
      BY <2>3, <3>1, <3>2, <3>3, AccountKept
  <2> QED
    BY <1>2, <2>1, <2>2, <2>3
<1>5. Overtaken' = Overtaken \cup Quota!CallersOn(closing)
  <2>1. w \notin Overtaken /\ w \notin Overtaken' /\ w \notin Quota!CallersOn(closing)
    BY <1>2 DEF GetBucket, Overtaken, Quota!CallersOn, Inv, TypeOK
  <2>2. ASSUME NEW v \in Threads, v # w
        PROVE  v \in Overtaken' <=> v \in Overtaken \/ v \in Quota!CallersOn(closing)
    <3>1. /\ pc'[v] = pc[v] /\ held'[v] = held[v] /\ asked'[v] = asked[v]
      BY <2>2 DEF GetBucket, Inv, TypeOK
    <3>2. CASE pc[v] # "consume"
      BY <3>1, <3>2 DEF Overtaken, Quota!CallersOn, Inv, TypeOK
    <3>3. CASE pc[v] = "consume"
      <4>1. /\ asked[v] # NoCall /\ asked[v].key \in Keys
            /\ held[v] # NoBucket /\ held[v] \in Referenced
        BY <3>3, LiveBuckets DEF Inv, TypeOK
      <4>2. table'[asked[v].key] = held[v]
              <=> table[asked[v].key] = held[v] /\ ~Stale(asked[v].key)
        BY <1>2, <4>1 DEF Swept
      <4> QED
        BY <3>1, <3>3, <4>1, <4>2 DEF Overtaken, Quota!CallersOn
    <3> QED
      BY <3>2, <3>3
  <2> QED
    BY <2>1, <2>2 DEF Overtaken, Quota!CallersOn
<1>6. asked[w] = NoCall
  BY DEF GetBucket, Inv, TypeOK
<1> QED
  BY <1>1, <1>4, <1>5, <1>6 DEF Quota!Begin, GetBucket

\* The second half: the answer is right for the key's account, which pays;
\* unless the call was overtaken.
LEMMA ConsumeReplies ==
  ASSUME Inv, Inv', NEW w \in Threads, Consume(w)
  PROVE  Quota!Reply(w) \/ Quota!ReplyOvertaken(w)
<1> DEFINE b == Refill(heap[held[w]])
<1>0. PICK k \in Keys, n \in Sizes : asked[w].key = k /\ asked[w].tokens = n
  BY DEF Consume, Inv, TypeOK
<1>1. asked[w] # NoCall /\ pc[w] = "consume" /\ held[w] # NoBucket
  BY DEF Consume, Inv, TypeOK
<1>2. \A j \in Keys : j # k => table[j] # held[w]
  BY <1>0, <1>1 DEF Inv, HeldBelongs
<1>3. \A j \in Keys : table[j] # NoBucket => table[j] \in Referenced'
  BY DEF Consume, Referenced
<1>4. ASSUME NEW j \in Keys, table[j] # held[w] PROVE Account(j)' = Account(j)
  BY <1>3, <1>4, AccountKept DEF Consume
<1>5. Overtaken' = Overtaken \ {w}
  BY DEF Consume, Overtaken, Inv, TypeOK
<1>6. CASE w \in Overtaken
  <2>1. \A j \in Keys : Account(j)' = Account(j)
    BY <1>0, <1>2, <1>4, <1>6 DEF Overtaken
  <2>2. Verdict(b, n) \in {"allowed", "rpm_limit", "tpm_limit"}
    BY DEF Verdict
  <2>3. Quota!ReplyOvertaken(w)
    <3>1. /\ reply' = [reply EXCEPT ![w] = Verdict(b, n)]
          /\ asked' = [asked EXCEPT ![w] = NoCall]
      BY <1>0 DEF Consume
    <3>2. [j \in Keys |-> Account(j)]' = [j \in Keys |-> Account(j)]
      BY <2>1
    <3> QED
      BY <1>5, <1>6, <2>2, <3>1, <3>2 DEF Quota!ReplyOvertaken
  <2> QED
    BY <2>3
<1>7. CASE w \notin Overtaken
  <2>1. table[k] = held[w] /\ table[k] # NoBucket
    BY <1>0, <1>1, <1>7 DEF Overtaken
  <2>2. /\ BucketOK(heap[held[w]]) /\ BucketOK(b)
        /\ Account(k) # NoBucket
        /\ Account(k) = [limit |-> b.limit, credit |-> [rpm |-> b.rpm, tpm |-> b.tpm]]
    BY <1>1, <2>1, AccountOpen, RefillOK DEF Account
  <2>3. /\ n \in Nat /\ b.tpm \in Nat /\ b.rpm \in Nat /\ n * Minute \in Nat
        /\ n = 0 => n * Minute = 0
    <3>1. n \in Nat /\ b.tpm \in Nat /\ b.rpm \in Nat /\ Minute \in Nat
      BY <1>1, <2>2, LimitsArePositive, LimiterAssumption DEF BucketOK
    <3>2. \A x, y \in Nat : x * y \in Nat /\ (x = 0 => x * y = 0)
      OBVIOUS
    <3> QED
      BY <3>1, <3>2
  <2>4. Quota!Answer(Account(k), n) = Verdict(b, n)
    BY <2>2, <2>3 DEF Quota!Answer, Verdict
  <2>5. heap'[table'[k]] = Consumed(b, n) /\ table'[k] # NoBucket
    BY <1>0, <1>1, <1>3, <2>1 DEF Consume
  <2>6. Refill(Consumed(b, n)) = Consumed(b, n)
    <3>1. BucketOK(Consumed(b, n)) /\ Consumed(b, n).limit = b.limit
      BY <1>1, <2>2, ConsumedOK
    <3>2. Consumed(b, n).age = 0
      BY DEF Consumed, Refill
    <3>3. LET c == Consumed(b, n)
          IN  /\ c.limit.rpm \in Nat \ {0} /\ c.limit.tpm \in Nat \ {0}
              /\ c.rpm \in 0..(c.limit.rpm * Minute)
              /\ c.tpm \in 0..(c.limit.tpm * Minute)
              /\ c = [limit |-> c.limit, rpm |-> c.rpm, tpm |-> c.tpm, age |-> c.age]
      BY <3>1, LimitsArePositive, LimiterAssumption DEF BucketOK
    <3>4. LET c == Consumed(b, n)
          IN  Filled(c.rpm, 0, c.limit.rpm) = c.rpm
              /\ Filled(c.tpm, 0, c.limit.tpm) = c.tpm
      BY <3>3, FilledBounds
    <3> QED
      BY <3>1, <3>2, <3>3, <3>4, RefillOK
  <2>7. Account(k)' = [limit |-> b.limit,
                       credit |-> [rpm |-> Consumed(b, n).rpm,
                                   tpm |-> Consumed(b, n).tpm]]
    <3>1. Consumed(b, n).limit = b.limit
      BY <1>1, <2>2, ConsumedOK
    <3> QED
      BY <2>5, <2>6, <3>1 DEF Account
  <2>8. Account(k)' = IF Verdict(b, n) = "allowed"
                      THEN Quota!Charge(Account(k), n) ELSE Account(k)
    <3>1. CASE Verdict(b, n) # "allowed"
      BY <2>2, <2>7, <3>1 DEF Consumed
    <3>2. CASE Verdict(b, n) = "allowed"
      <4>1. /\ Consumed(b, n).rpm = b.rpm - Minute
            /\ Consumed(b, n).tpm = b.tpm - n * Minute
        BY <3>2 DEF Consumed
      <4>2. Quota!Charge(Account(k), n) =
              [limit |-> b.limit, credit |-> [rpm |-> b.rpm - Minute,
                                              tpm |-> b.tpm - n * Minute]]
        BY <2>2 DEF Quota!Charge
      <4> QED
        BY <2>7, <3>2, <4>1, <4>2
    <3> QED
      BY <3>1, <3>2
  <2>9. Quota!Reply(w)
    <3>1. [j \in Keys |-> Account(j)]' =
            IF Verdict(b, n) = "allowed"
            THEN [[j \in Keys |-> Account(j)]
                    EXCEPT ![k] = Quota!Charge(Account(k), n)]
            ELSE [j \in Keys |-> Account(j)]
      BY <1>1, <1>2, <1>4, <2>8
    <3>2. Overtaken' = Overtaken
      BY <1>5, <1>7
    <3>3. /\ reply' = [reply EXCEPT ![w] = Verdict(b, n)]
          /\ asked' = [asked EXCEPT ![w] = NoCall]
      BY <1>0 DEF Consume
    <3> QED
      BY <1>0, <1>1, <1>7, <2>2, <2>4, <3>1, <3>2, <3>3 DEF Quota!Reply
  <2> QED
    BY <2>9
<1> QED
  BY <1>6, <1>7

\* TokenBucket implements RateQuota.
THEOREM Refinement == Spec => ImplementsQuota
<1>1. Inv /\ Inv' /\ [Next]_vars => [Quota!QuotaNext]_(Quota!quotaVars)
  <2> SUFFICES ASSUME Inv, Inv', [Next]_vars
               PROVE  [Quota!QuotaNext]_(Quota!quotaVars)
    OBVIOUS
  <2>1. CASE UNCHANGED vars
    <3>1. \A k \in Keys : Account(k)' = Account(k)
      BY <2>1 DEF vars, Account
    <3> QED
      BY <2>1, <3>1 DEF vars, Quota!quotaVars, Overtaken
  <2>2. CASE Tick
    BY <2>2, TickAccrues DEF Quota!QuotaNext
  <2>3. ASSUME NEW keys \in SUBSET Keys, Drop(keys)
        PROVE  Quota!QuotaNext
    BY <2>3, DropCloses DEF Quota!QuotaNext
  <2>4. ASSUME NEW k \in Keys, ResetKey(k) PROVE Quota!QuotaNext
    <3>1. {k} \in SUBSET Keys
      OBVIOUS
    <3> QED
      BY <2>3, <2>4, <3>1 DEF ResetKey
  <2>5. CASE ResetAll
    <3>1. Keys \in SUBSET Keys
      OBVIOUS
    <3> QED
      BY <2>3, <2>5, <3>1 DEF ResetAll
  <2>6. ASSUME NEW w \in Threads, Consume(w) PROVE Quota!QuotaNext
    BY <2>6, ConsumeReplies DEF Quota!QuotaNext
  <2>7. ASSUME NEW w \in Threads, NEW k \in Keys, NEW n \in Sizes,
               NEW limit \in Limits, GetBucket(w, k, n, limit)
        PROVE  Quota!QuotaNext
    <3>1. {x \in Keys : Stale(x)} \in SUBSET Keys
      OBVIOUS
    <3> QED
      BY <2>7, <3>1, GetBucketBegins DEF Quota!QuotaNext
  <2>8. ASSUME NEW w \in Threads,
               ReadStatus(w) \/ \E k \in Keys : FindStatus(w, k)
        PROVE  UNCHANGED Quota!quotaVars
    BY <2>8, StatusHidden
  <2> QED
    BY <2>1, <2>2, <2>4, <2>5, <2>6, <2>7, <2>8 DEF Next
<1> QED
  BY <1>1, InvInit, InvNext, QuotaStart, PTL
  DEF Spec, ImplementsQuota, Quota!QuotaSpec
=============================================================================
