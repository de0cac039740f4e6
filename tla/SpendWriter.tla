---------------------------- MODULE SpendWriter -----------------------------
(***************************************************************************)
(* The path of a request's cost to the database, in proxy/db:              *)
(* DBSpendUpdateWriter with its in-memory queues, the Redis buffer between *)
(* pods, the pod lock, and the transactions that add the cost to the       *)
(* tables.                                                                 *)
(*                                                                         *)
(* A cost is the set of its increments, <<table, request, row>>: one for   *)
(* each row that the request's ids name, as of the user and of the budget  *)
(* of the proxy, or of each tag.  The amounts are only ever added up, so   *)
(* an aggregated item is the set of increments in it, and a table is how   *)
(* often each increment was added.  Tables 1 to NumEntity (user, end user, *)
(* key, team, team member, organization, tag) share channel 0, the         *)
(* spend_update_queue, and are written one after the other; each daily     *)
(* table has a channel of its own.                                         *)
(*                                                                         *)
(* A step is what happens between two awaits that reach Redis or the       *)
(* database: an asyncio.Queue that is not empty does not suspend.          *)
(***************************************************************************)
EXTENDS Naturals, Sequences, FiniteSets, Functions

CONSTANTS
  Pods,
  Requests,
  NumEntity, NumDaily,   \* tables; the code has 7 and 6
  Charges,               \* the increments that a request's ids ask for
  MaxQueue,              \* MAX_SIZE_IN_MEMORY_QUEUE
  FlushCount,            \* MAX_IN_MEMORY_QUEUE_FLUSH_COUNT
  PopCount,              \* MAX_REDIS_BUFFER_DEQUEUE_COUNT
  BatchSize,             \* BATCH_SIZE of _update_daily_spend
  Retries,               \* n_retry_times
  MaxFaults,             \* bound: failed calls and crashes in a behaviour
  MaxExpiries,           \* bound: locks that expire while their pod works
  None, Stale            \* no lock; the lock of a pod that is gone

Tables   == 1..(NumEntity + NumDaily)
Channels == 0..NumDaily
Updates  == UNION {Charges[r] : r \in Requests}

ASSUME WriterAssumption ==
  /\ IsFiniteSet(Updates) /\ NumEntity \in Nat \ {0} /\ NumDaily \in Nat
  /\ Charges \in [Requests -> SUBSET (Tables \X Requests \X Nat)]
  /\ \A r \in Requests : \A u \in Charges[r] : u[2] = r
  /\ MaxQueue \in Nat \ {0} /\ FlushCount \in Nat \ {0}
  /\ PopCount \in Nat \ {0} /\ BatchSize \in Nat \ {0}
  /\ Retries \in Nat /\ MaxFaults \in Nat /\ MaxExpiries \in Nat
  /\ None \notin Pods /\ Stale \notin Pods /\ None # Stale

VARIABLES
  useRedis,   \* general_settings.use_redis_transaction_buffer
  arrived,    \* the requests that were tracked
  tasks,      \* the increments whose asyncio task has yet to run, of each pod
  queue,      \* the in-memory queues of each pod
  redis,      \* the Redis lists
  db,         \* how often each increment was added to its table
  lock,       \* the pod lock's value
  pc,         \* where each pod's update_spend job is
  chan,       \* the channel it is at
  hand,       \* the increments it took and has not settled
  tries,      \* attempts that failed at the present transaction
  popped,     \* LPOPs of the present list
  doubtful,   \* history: increments committed by a transaction that failed
  faults, expiries

memory  == <<tasks, queue>>
job     == <<pc, chan, hand, tries, popped>>
stores  == <<redis, db, lock, doubtful>>
bounds  == <<faults, expiries>>
vars    == <<useRedis, arrived, memory, stores, job, bounds>>

Labels == {"idle", "push", "acquire", "owner", "fetch", "commit", "release", "delete"}

ChannelOf(u) == IF u[1] <= NumEntity THEN 0 ELSE u[1] - NumEntity

\* What a list of channel c holds: sets of increments.
Lists(c) == Seq(SUBSET {u \in Updates : ChannelOf(u) = c})

TypeOK ==
  /\ useRedis \in BOOLEAN
  /\ arrived \subseteq Requests
  /\ tasks \in [Pods -> SUBSET Updates]
  /\ queue \in [Pods -> [Channels -> Seq(SUBSET Updates)]]
  /\ redis \in [Channels -> Seq(SUBSET Updates)]
  /\ \A c \in Channels : redis[c] \in Lists(c) /\ \A p \in Pods : queue[p][c] \in Lists(c)
  /\ db \in [Updates -> Nat]
  /\ lock \in Pods \cup {None, Stale}
  /\ pc \in [Pods -> Labels]
  /\ chan \in [Pods -> Channels]
  /\ hand \in [Pods -> SUBSET Updates]
  /\ tries \in [Pods -> 0..Retries]
  /\ popped \in [Pods -> 0..(PopCount - 1)]
  /\ doubtful \subseteq Updates
  /\ faults \in 0..MaxFaults /\ expiries \in 0..MaxExpiries

Init ==
  /\ useRedis \in BOOLEAN
  /\ arrived = {}
  /\ tasks = [p \in Pods |-> {}]
  /\ queue = [p \in Pods |-> [c \in Channels |-> <<>>]]
  /\ redis = [c \in Channels |-> <<>>]
  /\ db = [u \in Updates |-> 0]
  /\ lock = None
  /\ pc = [p \in Pods |-> "idle"]
  /\ chan = [p \in Pods |-> 0]
  /\ hand = [p \in Pods |-> {}]
  /\ tries = [p \in Pods |-> 0]
  /\ popped = [p \in Pods |-> 0]
  /\ doubtful = {}
  /\ faults = 0 /\ expiries = 0

Goto(p, label) == pc' = [pc EXCEPT ![p] = label]

----------------------------------------------------------------------------
(* Lists.                                                                  *)

Least(m, n) == IF m <= n THEN m ELSE n

\* Slip: a flush empties the queue, and returns the first n items.
LeftNothing(s, n) == <<>>

\* The union of the first n items of a list, and what is left of it.
Taken(s, n) == UNION {s[i] : i \in 1..Least(n, Len(s))}
Left(s, n)  == SubSeq(s, Least(n, Len(s)) + 1, Len(s))

\* The items that aggregate S: one per entity in the spend queue, in the order
\* in which the entities come up; a single dictionary in a daily queue.
Groups(S) == {{u \in S : u[1] = v[1] /\ u[3] = v[3]} : v \in S}
Aggregates(c, S) ==
  IF c = 0 THEN Bijection(1..Cardinality(Groups(S)), Groups(S)) ELSE {<<S>>}

----------------------------------------------------------------------------
(* update_database.                                                        *)

\* A request ends: the tasks are created for the tables that it has an id for.
UpdateDatabase(p, r) ==
  /\ r \notin arrived
  /\ arrived' = arrived \cup {r}
  /\ tasks' = [tasks EXCEPT ![p] = @ \cup Charges[r]]
  /\ UNCHANGED <<useRedis, queue, stores, job, bounds>>

\* A task runs: its increment is queued.  A full queue is aggregated, or as
\* much of it as one flush takes.
AddUpdate(p, u) ==
  /\ u \in tasks[p]
  /\ tasks' = [tasks EXCEPT ![p] = @ \ {u}]
  /\ LET c    == ChannelOf(u)
         full == Append(queue[p][c], {u})
     IN IF Len(full) < MaxQueue
        THEN queue' = [queue EXCEPT ![p][c] = full]
        ELSE \E s \in Aggregates(c, Taken(full, FlushCount)) :
               queue' = [queue EXCEPT ![p][c] = Left(full, FlushCount) \o s]
  /\ UNCHANGED <<useRedis, arrived, stores, job, bounds>>

----------------------------------------------------------------------------
(* The update_spend job, at most one at a time on each pod.                *)

\* The scheduler starts the job.  With the Redis buffer, it takes all queues
\* at once; without, it takes each when the one before is in the database.
StartJob(p) ==
  /\ pc[p] = "idle"
  /\ IF useRedis
     THEN LET S == UNION {Taken(queue[p][c], FlushCount) : c \in Channels}
          IN /\ hand' = [hand EXCEPT ![p] = S]
             /\ queue' = [queue EXCEPT ![p] = [c \in Channels |->
                                                Left(queue[p][c], FlushCount)]]
             /\ Goto(p, IF S = {} THEN "acquire" ELSE "push")
     ELSE /\ Goto(p, "fetch")
          /\ UNCHANGED <<hand, queue>>
  /\ UNCHANGED <<useRedis, arrived, tasks, stores, chan, tries, popped,
                 bounds>>

\* The part of what a pod holds that goes to channel c.
Part(p, c) == {u \in hand[p] : ChannelOf(u) = c}

\* The next list: RPUSH of what was flushed for it, if anything was.  (Of the
\* spend queue a dictionary of empty tables is pushed, too: it charges nothing.)
NextPush(p, c) == Part(p, c) # {} /\ \A d \in Channels : d < c => Part(p, d) = {}

Push(p) ==
  /\ pc[p] = "push"
  /\ \E c \in Channels :
       /\ NextPush(p, c)
       /\ redis' = [redis EXCEPT ![c] = Append(@, Part(p, c))]
       /\ hand' = [hand EXCEPT ![p] = @ \ Part(p, c)]
       /\ Goto(p, IF hand[p] = Part(p, c) THEN "acquire" ELSE "push")
  /\ UNCHANGED <<useRedis, arrived, memory, db, lock, doubtful, chan, tries, popped,
                 bounds>>

\* Slip: SET without NX.
AcquireAnyway(p) ==
  /\ pc[p] = "acquire"
  /\ lock' = p /\ Goto(p, "fetch")
  /\ UNCHANGED <<useRedis, arrived, memory, redis, db, doubtful, chan, hand, tries,
                 popped, bounds>>

\* SET NX with an expiry.
Acquire(p) ==
  /\ pc[p] = "acquire"
  /\ IF lock = None
     THEN lock' = p /\ Goto(p, "fetch")
     ELSE UNCHANGED lock /\ Goto(p, "owner")
  /\ UNCHANGED <<useRedis, arrived, memory, redis, db, doubtful, chan, hand, tries,
                 popped, bounds>>

\* It was set already: "check if the current pod already holds the lock".
CheckOwner(p) ==
  /\ pc[p] = "owner"
  /\ Goto(p, IF lock = p THEN "fetch" ELSE "idle")
  /\ UNCHANGED <<useRedis, arrived, memory, stores, chan, hand, tries, popped,
                 bounds>>

\* The job is through, or an exception ended it: the lock is released, if the
\* job has one.
Finish(p) == Goto(p, IF useRedis THEN "release" ELSE "idle")

\* Slip: one table too many.
NextChannelPastLast(p) ==
  IF chan[p] <= NumDaily
  THEN Goto(p, "fetch") /\ chan' = [chan EXCEPT ![p] = @ + 1]
  ELSE Finish(p) /\ chan' = [chan EXCEPT ![p] = 0]

\* After a channel comes the next one.
NextChannel(p) ==
  IF chan[p] < NumDaily
  THEN Goto(p, "fetch") /\ chan' = [chan EXCEPT ![p] = @ + 1]
  ELSE Finish(p) /\ chan' = [chan EXCEPT ![p] = 0]

\* What was fetched is committed, if it is anything.
Proceed(p, S) ==
  IF S = {} THEN NextChannel(p) ELSE Goto(p, "commit") /\ UNCHANGED chan

\* Without Redis: a flush of the queue itself.
Fetch(p) ==
  /\ pc[p] = "fetch" /\ ~useRedis
  /\ LET c == chan[p]
         S == Taken(queue[p][c], FlushCount)
     IN /\ queue' = [queue EXCEPT ![p][c] = Left(@, FlushCount)]
        /\ hand' = [hand EXCEPT ![p] = S]
        /\ Proceed(p, S)
  /\ UNCHANGED <<useRedis, arrived, tasks, stores, tries, popped, bounds>>

\* Slip: the transactions are read (LINDEX) and stay in the list.
PopCopies(p) ==
  /\ pc[p] = "fetch" /\ useRedis
  /\ LET S == hand[p] \cup Taken(redis[chan[p]], 1)
     IN /\ hand' = [hand EXCEPT ![p] = S]
        /\ IF popped[p] < PopCount - 1
           THEN popped' = [popped EXCEPT ![p] = @ + 1] /\ UNCHANGED <<pc, chan>>
           ELSE popped' = [popped EXCEPT ![p] = 0] /\ Proceed(p, S)
  /\ UNCHANGED <<useRedis, arrived, memory, stores, tries, bounds>>

\* One of PopCount LPOPs, each a round trip, whether or not it finds anything.
\* (From version 7 on, Redis does them in one, with no other step in between.)
Pop(p) ==
  /\ pc[p] = "fetch" /\ useRedis
  /\ LET c == chan[p]
         S == hand[p] \cup Taken(redis[c], 1)
     IN /\ redis' = [redis EXCEPT ![c] = Left(@, 1)]
        /\ hand' = [hand EXCEPT ![p] = S]
        /\ IF popped[p] < PopCount - 1
           THEN popped' = [popped EXCEPT ![p] = @ + 1] /\ UNCHANGED <<pc, chan>>
           ELSE popped' = [popped EXCEPT ![p] = 0] /\ Proceed(p, S)
  /\ UNCHANGED <<useRedis, arrived, memory, db, lock, doubtful, tries, bounds>>

----------------------------------------------------------------------------
(* _commit_spend_updates_to_db and _update_daily_spend.                    *)

\* The first table of those still in hand.
NextTable(p, t) ==
  /\ \E u \in hand[p] : u[1] = t
  /\ \A u \in hand[p] : t <= u[1]

\* Of a daily table, the first BatchSize rows in sorted order.
FirstRows(S) ==
  LET rows == {u[3] : u \in S}
  IN {u \in S : Cardinality({n \in rows : n < u[3]}) < BatchSize}

\* The increments of the next transaction.
Batch(p, t) ==
  LET S == {u \in hand[p] : u[1] = t}
  IN IF t <= NumEntity THEN S ELSE FirstRows(S)

AddToTable(S) == db' = [u \in Updates |-> IF u \in S THEN db[u] + 1 ELSE db[u]]

\* Slip: no break after the transaction, so that every attempt is made.
CommitEveryAttempt(p) ==
  /\ pc[p] = "commit"
  /\ \E t \in Tables :
       /\ NextTable(p, t)
       /\ AddToTable(Batch(p, t))
       /\ LET rest == IF tries[p] < Retries THEN hand[p]
                      ELSE IF t <= NumEntity THEN hand[p] \ Batch(p, t) ELSE {}
          IN /\ hand' = [hand EXCEPT ![p] = rest]
             /\ IF rest = {} THEN NextChannel(p) ELSE UNCHANGED <<pc, chan>>
  /\ tries' = [tries EXCEPT ![p] = IF @ < Retries THEN @ + 1 ELSE 0]
  /\ UNCHANGED <<useRedis, arrived, memory, redis, lock, doubtful, popped, bounds>>

\* The transaction is committed.  The entity tables that are left come next;
\* of a daily table the loop makes one batch, and drops the rest.
Commit(p) ==
  /\ pc[p] = "commit"
  /\ \E t \in Tables :
       /\ NextTable(p, t)
       /\ AddToTable(Batch(p, t))
       /\ LET rest == IF t <= NumEntity THEN hand[p] \ Batch(p, t) ELSE {}
          IN /\ hand' = [hand EXCEPT ![p] = rest]
             /\ IF rest = {} THEN NextChannel(p) ELSE UNCHANGED <<pc, chan>>
  /\ tries' = [tries EXCEPT ![p] = 0]
  /\ UNCHANGED <<useRedis, arrived, memory, redis, lock, doubtful, popped, bounds>>

\* GET, then DEL of the key, whosever it has become.
Release(p) ==
  /\ pc[p] = "release"
  /\ Goto(p, IF lock = p THEN "delete" ELSE "idle")
  /\ UNCHANGED <<useRedis, arrived, memory, stores, chan, hand, tries, popped,
                 bounds>>

Delete(p) ==
  /\ pc[p] = "delete"
  /\ lock' = None
  /\ Goto(p, "idle")
  /\ UNCHANGED <<useRedis, arrived, memory, redis, db, doubtful, chan, hand, tries,
                 popped, bounds>>

----------------------------------------------------------------------------
(* Faults.                                                                 *)

Fault == faults < MaxFaults /\ faults' = faults + 1 /\ UNCHANGED expiries

\* RPUSH raises, before or after Redis did it, and the job with it.
PushFails(p) ==
  /\ Fault
  /\ pc[p] = "push"
  /\ \E c \in Channels :
       /\ NextPush(p, c)
       /\ redis' \in {redis, [redis EXCEPT ![c] = Append(@, Part(p, c))]}
  /\ hand' = [hand EXCEPT ![p] = {}]
  /\ Goto(p, "idle")
  /\ UNCHANGED <<useRedis, arrived, memory, db, lock, doubtful, chan, tries,
                 popped>>

\* A call about the lock raises.  SET and GET swallow that and return None: SET
\* may have been done, and the owner is looked up; after GET the lock is "not
\* acquired", or stays.  DEL may have been done.
LockFails(p) ==
  /\ Fault
  /\ \/ /\ pc[p] = "acquire"
        /\ lock' \in {lock, IF lock = None THEN p ELSE lock}
        /\ Goto(p, "owner")
     \/ pc[p] \in {"owner", "release"} /\ UNCHANGED lock /\ Goto(p, "idle")
     \/ pc[p] = "delete" /\ lock' \in {lock, None} /\ Goto(p, "idle")
  /\ UNCHANGED <<useRedis, arrived, memory, redis, db, doubtful, chan, hand, tries,
                 popped>>

\* An LPOP raises, before or after Redis did it: what the ones before it
\* popped is lost with the coroutine.
PopFails(p) ==
  /\ Fault
  /\ pc[p] = "fetch" /\ useRedis
  /\ redis' \in {redis, [redis EXCEPT ![chan[p]] = Left(@, 1)]}
  /\ hand' = [hand EXCEPT ![p] = {}]
  /\ popped' = [popped EXCEPT ![p] = 0]
  /\ Goto(p, "release")
  /\ chan' = [chan EXCEPT ![p] = 0]
  /\ UNCHANGED <<useRedis, arrived, memory, db, lock, doubtful, tries>>

\* An exception leaves the commit: what the pod holds is dropped.
Raise(p) ==
  /\ Finish(p)
  /\ chan' = [chan EXCEPT ![p] = 0]
  /\ hand' = [hand EXCEPT ![p] = {}]
  /\ tries' = [tries EXCEPT ![p] = 0]

\* The connection breaks before or after the database committed, and the
\* transaction is tried again, up to Retries times.
ConnectionFails(p) ==
  /\ Fault
  /\ pc[p] = "commit"
  /\ \E t \in Tables :
       /\ NextTable(p, t)
       /\ \/ UNCHANGED <<db, doubtful>>
          \/ /\ AddToTable(Batch(p, t))
             /\ doubtful' = doubtful \cup Batch(p, t)
  /\ IF tries[p] < Retries
     THEN /\ tries' = [tries EXCEPT ![p] = @ + 1]
          /\ UNCHANGED <<pc, chan, hand>>
     ELSE Raise(p)
  /\ UNCHANGED <<useRedis, arrived, memory, redis, lock, popped>>

\* Any other error of the database is not retried.
DatabaseFails(p) ==
  /\ Fault
  /\ pc[p] = "commit"
  /\ Raise(p)
  /\ UNCHANGED <<useRedis, arrived, memory, stores, popped>>

\* A pod dies with its tasks and queues, and comes back under a new pod_id.
Crash(p) ==
  /\ Fault
  /\ tasks' = [tasks EXCEPT ![p] = {}]
  /\ queue' = [queue EXCEPT ![p] = [c \in Channels |-> <<>>]]
  /\ lock' = IF lock = p THEN Stale ELSE lock
  /\ Goto(p, "idle")
  /\ chan' = [chan EXCEPT ![p] = 0]
  /\ hand' = [hand EXCEPT ![p] = {}]
  /\ tries' = [tries EXCEPT ![p] = 0]
  /\ popped' = [popped EXCEPT ![p] = 0]
  /\ UNCHANGED <<useRedis, arrived, redis, db, doubtful>>

----------------------------------------------------------------------------
(* The lock's time to live.                                                *)

\* The pods that act on having acquired the lock.
Working == {p \in Pods : useRedis /\ pc[p] \in {"fetch", "commit", "release", "delete"}}

\* Slip: the lock is set without an expiry.
ExpireNever == FALSE /\ UNCHANGED vars

\* It runs out for a pod that is gone, or whose DEL was lost ...
ExpireAbandoned ==
  /\ lock # None /\ lock \notin Working
  /\ lock' = None
  /\ UNCHANGED <<useRedis, arrived, memory, redis, db, doubtful, job, bounds>>

\* ... or for one that is still at work: the commits outlast the minute.
ExpireEarly ==
  /\ lock \in Working
  /\ expiries < MaxExpiries /\ expiries' = expiries + 1
  /\ lock' = None
  /\ UNCHANGED <<useRedis, arrived, memory, redis, db, doubtful, job, faults>>

----------------------------------------------------------------------------
JobStep(p) ==
  \/ StartJob(p) \/ Push(p) \/ Acquire(p) \/ CheckOwner(p) \/ Fetch(p) \/ Pop(p)
  \/ Commit(p) \/ Release(p) \/ Delete(p)

JobFails(p) ==
  \/ PushFails(p) \/ LockFails(p) \/ PopFails(p) \/ ConnectionFails(p)
  \/ DatabaseFails(p) \/ Crash(p)

Next ==
  \/ \E p \in Pods :
       \/ \E r \in Requests : UpdateDatabase(p, r)
       \/ \E u \in Updates : AddUpdate(p, u)
       \/ JobStep(p)
       \/ JobFails(p)
  \/ ExpireAbandoned
  \/ ExpireEarly

\* The event loop runs tasks and the job's coroutine, the scheduler starts the
\* job at its interval, and Redis expires keys.
Fairness ==
  /\ \A p \in Pods : WF_vars(JobStep(p)) /\ WF_vars(\E u \in Updates : AddUpdate(p, u))
  /\ WF_vars(ExpireAbandoned)

Spec == Init /\ [][Next]_vars /\ Fairness

----------------------------------------------------------------------------
(* Properties.                                                             *)

\* The items of a list, together.
Held(s) == UNION Range(s)

\* Increments that some pod or Redis still has.
InFlight ==
  (UNION {tasks[p] \cup hand[p] : p \in Pods})
    \cup (UNION {Held(queue[p][c]) : p \in Pods, c \in Channels})
    \cup (UNION {Held(redis[c]) : c \in Channels})

\* An increment is added to its table once, whichever pods work at the same
\* time and however the lock is lost; only a transaction that was committed
\* and then failed is repeated, and at most Retries times.
ChargedOnce ==
  \A u \in Updates : db[u] <= IF u \in doubtful THEN Retries + 1 ELSE 1

\* Until a lock expires under the pod that works, one pod at a time takes from
\* the buffer: through crashes, and calls about the lock that fail.
OneCommitter ==
  expiries = 0 => \A p, q \in Working : p = q

\* A batch had no room for u: smaller rows of the daily table filled it.
LeftOut(u) ==
  /\ u[1] > NumEntity
  /\ \E S \in SUBSET {v \in Updates : v[1] = u[1]} :
       u \in S \ FirstRows(S) /\ \A v \in FirstRows(S) : db[v] > 0

\* Without a fault, no increment is lost between the queues, the buffer and its
\* table; of a daily table, only what a full batch had no room for.
NothingVanishes ==
  faults = 0 => \A r \in arrived : \A u \in Charges[r] :
                  u \in InFlight \/ db[u] > 0 \/ LeftOut(u)

\* The ledger, as the pods and the database keep it.
Ledger == INSTANCE SpendLedger WITH
            known    <- UNION {Charges[r] : r \in arrived},
            owed     <- InFlight,
            charged  <- db,
            Attempts <- Retries + 1

\* The writer keeps the ledger's promise: what is charged was owed until then,
\* what is settled is never owed again, and nothing is owed twice.
KeepsLedger == Ledger!Spec

\* Whatever crashes, fails or expires, what was tracked does not stay in a
\* queue or in the buffer for ever: a lock left behind is not waited for, and
\* what one flush or one round of LPOPs leaves is taken by another.
Drains == <>[](InFlight = {})
=============================================================================
