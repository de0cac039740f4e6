# A verification development for toolkit-llm-gateway

This directory holds TLA+ models of the gateway's own code, the TLC
configurations that check them on small instances, and theorems about them
that the TLA+ proof system checks for every instance. `PROJECT.json` lists the
components, the runs, the source lines behind every definition, the hazards
of the code and the disagreements found between the code and what it says of
itself.

## 1. The system

The repository is a fork of LiteLLM (`src/`, nearly 400 000 lines, most of them
provider adapters, routes and formatting) with a layer of its own on top:
`src/toolkit_extensions/`. That layer is what this project is about in the
first place. It keeps accounts of what requests cost, sets budgets, alerts
people, limits rates, authenticates keys and isolates failing providers. Of the
inherited proxy, the part that carries the cost of every request to the
database, `src/proxy/db/`, is modelled as well. The parts:

| Part | State it keeps | Operations | Talks to |
|---|---|---|---|
| Circuit breaker (`circuit_breaker.py`) | state, failure count, time of the last failure, a lock | `allow_request`, `record_success`, `record_failure`, `reset`, status | request threads |
| Breaker registry (same file) | one breaker per provider, a lock, a global instance | `get`, `get_all_status`, `reset_all` | breakers |
| Token bucket limiter (`rate_limiter.py`) | a bucket per key, a lock per bucket and one for the table | `check_and_consume`, `get_status`, `reset_key`, `reset_all` | authentication |
| Budgets (`budget_manager.py`) | `Budget` rows | `create_budget`, `update_budget`, `check_budget` | database |
| Budget alerts (`budget_manager.py`) | `BudgetAlert` rows | `generate_alerts`, `get_unsent_alerts`, `mark_alert_sent` | database, monitor |
| Webhooks (`alert_webhooks.py`) | webhook and delivery rows | register, update, delete, `deliver_pending_alerts` | database, HTTP endpoints |
| Budget monitor (`budget_monitor.py`) | a thread, a stop event, statistics | `start`, `stop`, `check_now`, the loop | alerts, webhooks |
| Cost tracking (`cost_tracker.py`) | `LLMRequest`, `User`, `Team`, `Project` rows | `track_request` and wrappers | database |
| Cost aggregation (`cost_aggregator.py`) | `CostAggregate` rows | `materialize` | database |
| Spend writer (`proxy/db/`) | in-memory queues per pod, Redis lists, a lock in Redis | `update_database`, the `update_spend` job | Redis, database, scheduler |
| Authentication (`auth_middleware.py`) | a global authenticator with its limiter, `APIKey` rows | `get_authenticator`, `authenticate`, `require_scope` | database, limiter |
| Security (`security.py`) | a sliding window per client | `check_rate_limit`, validators | callers |
| Metrics, health (`metrics.py`, `health_check.py`) | counters | record, `check_health` | database, Redis |
| Analytics, dashboard, CLI, control plane, configuration | none that changes | reports, formatting, validation | database |

How they interact: a request is authenticated (which consumes rate tokens),
its budget is checked, a breaker admits it, the provider is called, the
outcome is reported to the breaker and the cost tracked. On the side, the
monitor's thread compares what was tracked with the budgets, inserts alerts,
and delivers them to webhooks. The parts meet in the database, through short
sessions, and in process-wide singletons. The proxy keeps sums of its own:
every request leaves increments for up to 13 tables in in-memory queues, and
once a minute each pod writes what it has, directly or by way of Redis lists
that one pod at a time empties.

What is hard about it: request threads that overlap on one breaker or bucket;
decisions taken on state read before a lock was released; two checkers in one
cycle; commits that fail after the world has been told; a process that dies
between two commits; a thread that outlives the timeout of its join; rows
looked up and inserted by several at once; a lock that expires under its owner;
a commit whose answer is lost; and boundaries of numbers and periods.
`PROJECT.json` lists these under "hazards", each at its line.

## 2. The modules

| Module | What it is |
|---|---|
| `CircuitStateMachine` | abstract: closed, open, half open, the failures counted while closed, the calls under way and how they end |
| `CircuitBreaker` | one breaker and the callers that share it |
| `RateQuota` | abstract: an account per key whose credit grows with time |
| `TokenBucket` | the limiter, its table, its bucket objects and its callers |
| `AlertOutbox` | abstract: alerts that are raised, told to webhooks, and settled |
| `AlertPipeline` | the check cycle: generating alerts, delivering them, failures |
| `BudgetMonitor` | the monitor's thread, its starts and stops |
| `CostLedger` | budgets, the requests recorded for them, and the rows both belong to |
| `CostAggregates` | `CostLedger` with the processes that aggregate its requests |
| `SpendLedger` | abstract: what is owed to the tables, and how often it was charged |
| `SpendWriter` | the queues, the Redis buffer, the pod lock and the transactions |
| `Authentication` | threads that authenticate, over `RateQuota`, beside administrators |
| `RateWindow` | `Authentication` with a count of what the limiter lets through for a time |
| `MC...` | instances for TLC: the filters of the webhooks, symmetries |
| `...Proofs` | theorems about the module they extend |

Operators called a *slip* in a comment are deliberate mistakes: variants of
the definition below them, used to see that a property notices. No
specification refers to them.

### CircuitBreaker

Variables are the fields `_state`, `_failure_count` and `_last_failure_time`
(as the time since then: the code only compares the difference with
`recovery_timeout`), plus where each caller is. Every method takes the lock,
so it is one action, except `allow_request`: it reads the `state` property
under the lock (`AllowRequest`) and decides after releasing it (`Decide`).
Between `Decide` and the report of the outcome anything may happen; a caller
whose failure is not a `ProviderError` reports nothing (`Abandon`), as in the
usage the registry documents. Failures beyond the threshold are not told apart:
the code compares the count with the threshold and nothing else.

The registry gives every provider its own breaker, and breakers do not
interact, so one is enough.

`CircuitStateMachine` says what callers may rely on. It knows the calls that
are under way (`calls`) and the last thing the machine was told (`last`), so
that every change of phase has its cause: only a failure counts, only the
threshold-th since a success or a reset trips the machine, only the timer or a
reset leaves `open`, and of outcomes only a success while half open closes
it. The outcome of a call that was admitted before the machine opened decides
nothing (`Late`), and a success that did not forgive would be no step of the
machine. The refinement counts a caller as under way from the moment it reads a
state that will admit it, so that an admission may be stale when it is acted on,
until it reports (`Admitted`).

### TokenBucket

`heap` holds the bucket objects, `table` is `_buckets`. A call takes two locks
one after the other: `GetBucket` (evict the stale, find or create) and
`Consume` (refill, check, take). In between, the bucket may be evicted or
reset; the caller then consumes from an object nobody else will see. Levels
are counted in units of 1/`Minute` of a token, so that refilling is exact
where the code uses floats, and one `age` stands for `last_refill` and
`last_access`, which the code always sets together. The lower bound of 0.1
seconds on `retry_after` is below a tick and left out.

`RateQuota` says what that should amount to: one account per key, credit that
accrues although no code runs, answers that are right for the moment they are
given, refusals that cost nothing. The refinement maps an account to the
*refilled* level of the bucket in the table (lazy refilling is invisible), and
marks the callers that were overtaken between their locks. That is where the
two-lock scheme is weaker than a single lock, and the only place: only their
calls go uncharged.

### AlertPipeline

`Checkers` are threads in `_perform_check`: the loop and callers of
`check_now`, which takes no lock; checkers in other processes on the same
database look the same. Each commit is a step. `Examine` reads one budget's
spend and recent alerts; `Insert` commits the alert; `ReadPending` reads the
unsent alerts and the enabled webhooks once; `TakeAlert`, `Post`, `Log` and
`Mark` deliver. `Log` stands for the row of the attempt and the webhook's
statistics, after which the attempt number decides on another try.

Failures, bounded by `MaxFaults`: `LogFails`: the row of an attempt that had
a response cannot be written, the `except` branch takes it for a failed
attempt, and it is repeated even if the endpoint accepted it. `DatabaseFails`:
an error anywhere else leaves the cycle, because the `except` branch reuses the
delivery's primary key and fails as well. `Crash`: the process dies. A timed-out
POST may or may not have arrived.

A budget is seen through its usage in the present period: ok, approaching,
exceeded, or "overflowing" (1000% and up, which the column of
`percentage_used` cannot hold on PostgreSQL, the database that
`docs/DATABASE_SCHEMA.md` recommends). A budget that is disabled is as good as
ok; that `generate_alerts` reads the list of enabled budgets once, at the
start, makes no difference to the properties, because an alert may always be
inserted for a budget that has changed since it was examined. A webhook is one
that `get_webhooks` returns or not. `Alerts` are identities of rows; a row that
was sent, is no longer of this period and is before no checker may be replaced
by a new one.

`AlertOutbox` says what all this should amount to: an alert is raised, makes
progress at webhooks, and is settled when somebody was told of it and every
webhook that must be told is done with. Checkers, attempts, cycles, crashes and
periods are not in it: two checkers that deliver one alert, or a cycle that dies
and is begun again, may add progress and never take any back, nor does an alert
leave before it is settled. The refinement maps a row to its entry, and a webhook
that received the alert or was tried `Attempts` times to "done".

`Attempts` is a number of its own, the 3 of `alert_webhooks.py:353`, and not
the `max_retries` a webhook is registered with: `get_webhooks` (222-238) leaves
that field out of what it returns, so the default is all that line 353 ever
finds. A webhook that was registered for five attempts is given up after three,
whatever `register_webhook` says of the parameter (137); `SentMeansTried` says
what the code does, three attempts, and no more.

### BudgetMonitor

`start` holds the lock to the end, but is two steps: it assigns `self._thread`
(`Start`, line 89), and starts that thread (`Launch`, line 94). In between
nobody gets the lock (`LockFree`), but `stop` reads `self._thread` without it.
`stop` asks under the lock (`Stop`), then joins what it reads after releasing
it (`Join`, line 109), and returns when the thread is dead or five seconds are
over (`StopReturns`). When another caller has stopped waiting and started the
monitor again meanwhile, the thread read may be one that is assigned and not
started: then `join` raises a `RuntimeError` out of `stop` (`JoinRaises`).
`TypeOK` says that a stop that does wait waits for a started thread, and no
more than that. The loop thread checks the event (`LoopTop`), runs a cycle
(between `LoopTop` and `CheckEnds`; `AlertPipeline` is what happens there) and
waits (`Wake`). `wanted` is a history variable: whether the latest call was a
start. Not modelled: the statistics counters, a system that is out of threads,
and the locked global instance, whose functions only call these.

### CostLedger

A client is a thread or process that calls `check_budget`, makes its request
and records it with `track_request`, or creates a budget. A session is a
sequence of the statements that can meet another transaction's work at READ
COMMITTED, PostgreSQL's default; SQLite's single writer allows fewer
interleavings. `LookUp` and `Insert` are the three get-or-create helpers, the
same in both classes: a SELECT, and an INSERT in the session's transaction. A
row is visible to others when its session commits (`CommitRows`). On the unique
email an INSERT waits for another's, then fails: the session is rolled back and
the call lost (`refused`). Nothing keeps two teams or projects from having one
name, so there both rows stay, and later calls find either. A row is named after
its name and the client that inserted it, and that one client inserts a name
once only is something to be shown: the history variable `inserted` counts the
rows as they are committed, and `FirstUseSettles` is about those counts. A
lookup that missed the row a client made before would raise one of them beyond
the number of clients.

`check_budget` reads its budgets (`FindBudgets`), then the spend of each
(`ReadSpend`), and answers (`Decide`). `create_budget` looks for an active
budget (`FindBudget`) and inserts one (`InsertBudget`) in two steps.
`track_request` stamps its request (`NewRequest`) and commits it (`Record`), or
leaves no record: disabled or without usage (`NotTracked`), with a cost that is
no number (`NoCost`), or after an error that it logs (`Fails`). Where budgets
block, callers are taken to check first, as `src/tests/test_integration.py`
does; where they do not, `CallUnchecked` is allowed. A period is a day, every
request costs 1, and a budget has no end date. `start` is a history variable:
what had been spent when the budget was last set.

`OverspendBounded` is about a budget whose row is the only one of its name
(`Alone`): always for a user, and for a team or project until two first uses
have made two rows of it. Without that premise it is false: one client may
insert a second row of the name, find no budget on it and spend, while the
budget counts the other row.

### CostAggregates

`materialize` is one transaction per dimension: the count (`Read`), the
deletions (`Delete`), insertions and commit (`InsertAggregates`). A dimension is
a name, its aggregates are of that name's rows; between two runs the deleted
rows are what decides who fails on the unique index. An aggregate is its count
of requests; the sums and averages go with it. The dimensions of columns that
are not keys of rows, `model` and `provider`, go through the same code.

### SpendWriter

Where the code adds amounts, the model keeps the set of increments added, so
that an amount added twice, or never, is seen. An increment is for one row of a
table: a request may have several in one table, as for the user and for the
proxy's own budget (`db_spend_update_writer.py:268-289`), or for each of its
tags. `UpdateDatabase` creates a task
per table, `AddUpdate` runs one and aggregates a full queue, `StartJob` is the
scheduled job up to its first await: with Redis it empties all queues, to push
them list by list (`Push`), and asks for the lock (`Acquire`, `CheckOwner`);
without, it takes channel after channel. Without Redis, `Fetch` flushes the queue;
with it, `Pop` is one of the `PopCount` LPOPs that `async_lpop` awaits one after
the other (`redis_cache.py:1232-1263`, for a Redis before version 7; a later one
does them at once, which is the behaviour in which nobody steps in between).
`Commit` is one table's transaction, `Release` and `Delete` give the
lock back. The tables of the first channel are written one after the other; of
a daily table the loop commits its first `BATCH_SIZE` rows, 100 in the code, in
sorted order, and breaks: what is beyond them is dropped, which
`NothingVanishes` has to allow for (`LeftOut`).

Failures, bounded by `MaxFaults`: a call to Redis that raises, before or after
it had its effect (`PushFails`, `PopFails`, `LockFails`), where an LPOP that
fails takes with it what the ones before it popped, and a failing SET or GET of
the lock is swallowed by the cache: after SET the pod still asks who owns the
lock, and may find that it does; a connection that
breaks before or after the commit and is retried (`ConnectionFails`; increments
that were committed all the same are `doubtful`); any other error of the
database (`DatabaseFails`); a pod that dies (`Crash`) and comes back under a new
id, its lock `Stale`. A lock expires for such a pod (`ExpireAbandoned`) or, up
to `MaxExpiries` times, under one that is at work (`ExpireEarly`). An
`asyncio.Queue` that is not empty does not suspend its reader, so that flushing
is part of the step around it.

`OneCommitter` has the premise that no lock has expired under its owner. The
manager's docstring, "Ensures that only one pod can hold a lock at a time"
(`pod_lock_manager.py:21`), has none: with a commit that outlasts the minute two
pods work at once, which `ExpireEarly` lets happen, and `ChargedOnce` shows to
cost nothing.

`SpendLedger` says what this should amount to: increments are owed, then
charged, or dropped when something failed; never charged unless owed, never
owed again.

### Authentication

A thread tests the global authenticator (`Request`), creates it if there was
none (`Create`) and returns what the global then is (`Return`). `Lookup` reads
the row and checks status and expiry. The limiter's `check_and_consume` works
on the accounts that `RateQuota` defines and `TokenBucket` is proved to
implement, and takes the two locks one after the other: `GetAccount` evicts
accounts that have been idle and finds or opens the key's; `Consume` charges
it. A thread whose account another one evicts in between is `overtaken`: it is
answered from an account that nobody else will see (`ConsumeOvertaken`), either
way. `Commit` writes `last_used_at`, and no other column; `Refresh` reads the
scopes, for which the session has to read the row again, since the commit has
expired what it held. The database may fail at any of its calls
(`DatabaseFails`). Between the steps, administrators change scopes, revoke and
delete keys, and keys expire; each key counts as valid at first. Nothing in the
repository gives a revoked key back or extends its expiry, and the model does
not either. An authenticator is named after the thread that created it, and
each has accounts of its own. Two history variables: `genuine`, whether the key
was valid when the request began, and `offered`, the scopes the key has had
since the commit.

The global is created without a lock, so threads that start together may each
create an authenticator, and work with it: a key then has as many full accounts
as there are authenticators. `Settled` says that this is over: nobody is about to
create one, and nobody uses an old one. `StaysSettled` is that it does not come
back. From then on there is one limiter, and `RateWindow` counts what it lets
through: a window opens at any moment (`Open`), lasts for some ticks (`Tick` is
`Accrue`), and `Check` is `Consume` with the count. The variables it adds are
read by no action of `Authentication`. `RateBound` is what rate limiting is for:
at most the limit and what accrues meanwhile, for requests and for tokens,
however often the account is evicted and opened again. It counts what was
charged to the account of the key. That is weaker than a bound on all calls, and
has to be: a call that gets the bucket just before its TTL is over, is overtaken
by another that evicts the bucket and spends the new one, and then consumes from
the orphan passes beside the limit (`rate_limiter.py:82-91`). One call does so
for each time a thread is overtaken.

## 3. The runs

| Run | Instance | Question | Result |
|---|---|---|---|
| `breaker` | 3 callers, threshold 2, timeout 2 ticks | does the breaker, with overlapping calls and late reports, implement the abstract machine; does an open one recover | holds, 13 788 states |
| `breaker_probe` | 2 callers | is there one probe at a time | **violated** |
| `bucket` | 2 callers, 1 key, limits 1 or 2 per minute of 2 ticks, TTL parameter 0, which the code raises to a minute | does the limiter implement the quota; is `retry_after` exact | holds, 226 598 states |
| `alerts` | 2 checkers, 1 alert, 2 webhooks, 2 attempts, 1 fault, 1 new period | is an alert marked sent only after it was delivered or tried to the end; do the checkers together implement the outbox; does each step bring a cycle nearer to its end | holds, 819 784 states |
| `alerts_live` | the loop, 2 alerts, 2 webhooks, 1 fault, no overflowing budget | is an exceeded budget alerted, and is the alert delivered | holds, 100 428 states |
| `alert_duplicate` | loop and `check_now` | one alert per budget, type and period | **violated** |
| `alert_overflow` | 2 budgets, one of them overflowing | are alerts delivered | **violated** |
| `monitor` | 3 callers, 4 threads | never two loops, no lost or delayed stop, honest statistics | holds, 5873 states |
| `monitor_restart` | 1 caller | does a start take effect | **violated** |
| `ledger` | 2 clients, 2 aggregating processes, a user and a team, 3 requests, 2 days, limit 1, 1 fault each | how far can a budget be overspent; what do first uses of a name cost; are aggregates right | holds, 850 443 states |
| `spend` | 2 pods, with Redis and without, 3 tables, 2 of 4 requests, queues of 2, 2 LPOPs a round, 1 retry, 1 fault, 1 early expiry | is every cost charged once, by one pod at a time, does none vanish, and do queues and buffer drain | holds, 464 192 states |
| `authentication` | 2 threads, 1 key, 2 sets of scopes, 0 or 2 tokens, limits 2 per minute of 2 ticks, a window of up to 2 ticks | is a key that was invalid ever charged or accepted, are scopes fresh, do revocations stay; once the threads have settled, do they stay so, and is a key's account charged with no more than its limit | holds, 1 436 633 states |

Why the bounds are enough. Breaker: two callers can be in different phases
while a third moves the state; a threshold of 2 tells the first failure from
the last; timeout 2 has a tick before expiry. Bucket: two callers are what it
takes to overtake a call between its locks; limits differ between the two
callers of one key, and a tokens argument of 2 is above the remaining level as
often as below. A second key adds nothing, since keys share the table lock
only. Alerts: with two checkers on one alert every overlap of two deliveries
occurs, and one fault can hit each step of it; two attempts have a first and a
last. In `alerts_live` two alerts are one of each type, for the passage from
warning to exceeded. Monitor: three callers allow one to start while one joins
an old thread and one is about to. Ledger: two clients meet in every statement;
of the two names one is unique and one is not, and each request is recorded for
both; a third request is checked against what two have spent. `MaxBudgets` is
1, but two clients that find none still insert two. The constraint `Followed`
lets a behaviour have budgets and checks, where budgets block, or aggregation
with a request less, where they do not: budgets and aggregation read the
requests and nothing of each other, so that no property depends on a state with
both. Spend: the queues hold 2 and a flush takes 2 of up to 3 increments, so
that aggregating merges some and a rest stays behind; a round of 2 LPOPs finds
one item, two, or none, and other pods step between them; one request has two
rows of the daily table, as for two tags, of which a batch takes 1; one entity
table comes before another. The constraint `Followed` lets a behaviour have two
of four requests, which meet in the one table or in the other: arrivals are
nothing that fairness asks for, so that `Drains` is checked of every behaviour
with those requests. The pods are not symmetric in this run, because of
`Drains`. Authentication: two threads race for the global and may share a key;
one key is enough, since keys meet in nothing but the global. In a window of
two ticks a limit of two a minute lets four requests through, which is what the
bound allows: it is tight. The constraint `Followed` of this run watches
windows over keys that nobody has edited, since the limiter reads nothing of a
row: with edits there are more states and fewer requests.

### What the violations show

- **More than one probe** (`breaker_probe`). `allow_request` admits every
  caller that finds the breaker half open; the module's docstring promises a
  single probe.
- **Duplicate alerts** (`alert_duplicate`). Looking for a recent alert and
  inserting one are two steps with nothing between them and a second checker.
- **One large budget silences the rest** (`alert_overflow`). The insertion of
  an alert at 1000% or more fails on PostgreSQL, in every cycle, before the
  delivery of anything.
- **A start that is ignored** (`monitor_restart`). After a stop that timed
  out, `start` finds the old thread alive, returns, and that thread ends.

### Other disagreements

These the models contain, without a run of their own:

- A webhook's `max_retries` is stored and never read (`AlertPipeline`,
  `Attempts`).
- `stop` may end in `RuntimeError`, joining a thread that another caller has
  assigned and not yet started (`BudgetMonitor`, `JoinRaises`).
- A call that is overtaken by the eviction of its bucket may pass beside the
  limit (`Authentication`, `ConsumeOvertaken`; `TokenBucket` marks such calls
  in its refinement).
- The pod lock may be held by one pod while another still works under it
  (`SpendWriter`, `ExpireEarly`).
- A round of LPOPs that fails half way loses what it has popped, with a Redis
  before version 7 (`SpendWriter`, `PopFails`).

### Fairness

Safety runs assume none. `OpenRecovers` assumes that time passes, that the
threads run, that requests keep arriving and that provider calls end, which
their timeouts see to. `alerts_live` assumes that a cycle that has begun goes
on (every query and POST ends; the client has a timeout of 30 seconds) and
that the loop, which waits at most `interval_seconds`, begins another. It
assumes nothing of `check_now`, of spending or of administrators, and faults
are finitely many. `StopTakesEffect` assumes that the loop thread is scheduled
and its cycles end. `Drains` assumes that the event loop runs the tasks and the
job's coroutine, that the scheduler starts the job at its interval
(`src/proxy/proxy_server.py:4254`), and that Redis expires keys. All fairness
is weak: nothing here waits for a condition that others keep taking away.

## 4. The proofs

Proved for every value of the constants that satisfies the modules'
assumptions, none of which bounds the number of callers, keys, alerts,
webhooks, clients, pods, requests, tables, faults or retries:

- `CircuitBreakerProofs`: `TypeCorrect`, `BelowThreshold`, `OpenIsTimed` and
  `Refinement` (`Spec => ImplementsMachine`). The invariant is the conjunction
  of the three: the step that counts a failure is a `Strike` or a `Trip` of the
  abstract machine only because a closed breaker is below its threshold, and
  `Expire` and `Probe` need the timer.
- `TokenBucketProofs`: `TypeCorrect`, `RetryHonest` and `Refinement`
  (`Spec => ImplementsQuota`). Beyond types the invariant says that two keys
  never share a bucket (`OwnBucket`), and that a bucket a caller holds is that
  of the key it asked for, or is in the table no more (`HeldBelongs`). The
  arithmetic lemma is that refilling once after several ticks is refilling at
  each, and that a bucket older than the TTL, at least a minute, is full;
  this is why the TTL is clamped.
- `AlertPipelineProofs`: `TypeCorrect`, `SentIsTried`, `SentIsPosted`,
  `Refinement` (`Spec => ImplementsOutbox`), `CyclesEnd`, `PerPeriod` and
  `LoopAlone`. The
  properties alone are not inductive: `JobOK` says that a checker at work has
  settled every untouched webhook it is done with, and has posted its present
  one at least as often as its attempt number says. Other checkers only add
  posts and receipts (`JobKept`), and a new row never takes an identity that a
  checker still has before it (`PendingOK`). With that, a mark is a `Settle` of
  the outbox, a POST an `Attempt`, an insertion a `Raise`, and all else is
  invisible to it. `PerPeriod` bounds what `alert_duplicate` finds: the alerts of
  a budget, type and period and the checkers about to insert one are together no
  more than there are checkers (`Shared`), because a checker starts to insert only
  when there is no such alert. It follows that the loop alone makes no duplicate
  (`LoopAlone`), over any number of failed cycles and restarts. Checkers are
  assumed to be finitely many, which threads are. `CyclesEnd` is the safety half
  of `AlertsAreDelivered`, and what `StopTakesEffect` takes for granted of a
  cycle: `StepsLeft`, a natural number (`LeftType`), falls with each of a cycle's
  steps and rises with no other, neither when a log fails and its attempt counts
  as an exception, nor when another checker inserts an alert or works on the
  same one. It counts budgets, alerts and webhooks, so this theorem alone needs
  the tables to be finite (`FiniteTables`); the fairness that is left is that a
  checker moves.
- `BudgetMonitorProofs`: `TypeCorrect`, `OneLoop`, `StatsTruthful` and
  `StopIsKept`. The invariant adds that a caller about to join finds a thread,
  though not always one it can join, and that a thread is new only while the
  one caller inside `start` holds the lock (`OneStarter`).
  `StopIsKept` is the safety half of `StopTakesEffect`: while a loop that was
  told to stop runs, the event stays set and the loop only comes nearer to its
  end, because every start in between finds that thread alive. What is left to
  fairness is that the loop moves at all.
- `CostLedgerProofs`: `Types`, `FirstUse` and `Overspend`. For the first, a
  row is known by the client that inserted it (`OwnRows`), no client commits a
  row that it has committed before, so that the rows are as many as were counted
  (`OncePerClient`), and the clients that
  are about to insert a name, hold a row of it or committed one are never fewer
  than those that were refused can make up for (`RaceBound`). For the second,
  the property is not inductive: a client lets its request through by several
  steps, while budgets and spend change. `Bounded` counts every client that has
  *passed* a budget, underway or still at other budgets. A client passes when
  it finds something left, and then there is room for one request of each
  client; or when it has not read the budget, and then, since a session that
  examines budgets has a row for each name (`AllResolved`), the owner is not
  alone. `OneRow` (a unique name has one row, committed or not), `Owned` and
  `Dated` (nothing is recorded for a later day) do the rest.
- The same module, of `CostAggregates`: `LeavesLedger`, `AggregateTypes`,
  `Overcounts` and `CatchUp`. Aggregating only reads the ledger, so its
  invariants carry over. What a run read lies between what was recorded when it
  started and what is recorded now (`AllAccurate`), because requests are only
  ever added.
- `SpendWriterProofs`: `Types`, `Charged`, `Committer`, `Vanishing` and
  `Refinement` (`Spec => KeepsLedger`). An increment is in one place at a time:
  a task, one item of one queue, what one pod holds, or one item of one Redis
  list (`Places`), also between two LPOPs of a round; while it is there its
  table has it at most as often as attempts have failed after their commit
  (`Counted`). That neither names the lock: what protects a charge is that
  popping and flushing take an increment away for good. The lock is a matter of
  `Committer` alone (`LockHeld`), and of `Vanishing` the places and the batches
  (`Kept`).
- `AuthenticationProofs`: `TypeCorrect`, `Genuinely`, `Freshly`, `Sticks`,
  `Settling`, `OnlyWatches` and `Bounded` (`WindowSpec => []RateBound`).
  `Genuinely` rests on validity being only ever lost (`Genuine`: what the
  lookup would accept was valid at first), `Freshly` on the row's scopes being
  among those offered from the commit on (`Fresh`). The types include that
  accounts are neither overdrawn nor above their limits, by lemmas about the
  operators of `RateQuota`. `Bounded` keeps accounts for every key (`Covered`):
  what has passed since the window opened and the credit that is left are
  covered by the limit and what has accrued. A check that charges a request
  moves credit to what has passed, and it moves it in the one account that
  counts because the threads have settled; a tick adds the limit to the bound
  and at most as much to the credit; an account that was not opened yet, or was
  evicted, counts as full, and only full ones are evicted (`GetAccountCredit`).
  Calls that were overtaken are not among those that have passed (`Uncharged`):
  the theorem says nothing of them. Nothing bounds the threads, the keys, the
  limits or the length of the window.

Only model-checked: the liveness properties (`OpenRecovers`,
`ExceededIsAlerted`, `AlertsAreDelivered`, `StopTakesEffect`, `Drains`), since
the prover does not reason about fairness.

## 5. Not modelled, and the plan

Of the modelled parts, left out are:

- budgets: periods other than a day, whose boundaries would be a module of pure
  functions (`_get_period_end` is 23:59:59.999999 and exclusive, so that the
  last microsecond of a period is in none), and end dates;
- aggregation: hourly periods, and the dimensions `model` and `provider`;
- the spend writer: spend logs, which have a queue and a job of their own;
  whether the row of an entity exists, since an update of none changes nothing;
  the empty dictionary that is pushed when a pod has nothing; and the setting
  `use_redis_transaction_buffer` without a Redis, under which the queues only
  grow;
- authentication: unknown and empty keys, which are refused at once; an
  authenticator without rate limits; `require_scope`, which reads a result;
- the monitor's and the webhooks' counters, on which nothing decides.

Next, in the order of what can go wrong:

1. `BudgetPeriods`: the boundaries of day, week, month and year against a
   reference definition over bounded dates.
2. The other unlocked globals (`get_circuit_breaker_registry`,
   `get_budget_manager`), which are created as `get_authenticator` does it.
3. The inherited gateway: the cooldown cache and priority scheduler of the
   router, the counters of the parallel-request limiter in Redis, and the spend
   logs' queue.

Left out for good: provider adapters and formatting, HTTP routes, SQL reports,
the dashboard, configuration and logging. They keep no state that anything
else decides on, and they are most of the repository: the modelled code is the
stateful core, and its share of all lines stays small.
