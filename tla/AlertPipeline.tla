---------------------------- MODULE AlertPipeline ---------------------------
(***************************************************************************)
(* The alerting pipeline of toolkit_extensions: BudgetMonitor's check      *)
(* cycle, with the two halves it calls, BudgetManager.generate_alerts and  *)
(* AlertWebhookManager.deliver_pending_alerts.                             *)
(*                                                                         *)
(* Checkers are the threads that run the cycle: the monitor's loop, and    *)
(* whoever calls check_now, which takes no lock.  They share the database  *)
(* only, and each query and each commit is a step: a checker reads a       *)
(* budget's spend, looks for a recent alert later, and inserts one later   *)
(* still; it posts an alert, and logs that later; and it marks the alert   *)
(* sent after the last webhook.                                            *)
(*                                                                         *)
(* Spending, period boundaries and the administrators who edit webhooks    *)
(* are the environment.  Rows are seen through the queries made of them:   *)
(* a budget is its usage (a disabled one is as good as one whose usage is  *)
(* ok), a webhook is enabled or not (a deleted one is not), and one whose  *)
(* alert_types are edited is from then on another webhook.                 *)
(***************************************************************************)
EXTENDS Naturals, FiniteSets

CONSTANTS
  Checkers, Loop,    \* the threads; the monitor's own is one of them
  Budgets,
  Usages,            \* the usages a budget can have in this instance
  Alerts,            \* identities of BudgetAlert rows
  Webhooks,
  Accepts,           \* alert_types of each webhook
  Untouched,         \* webhooks that are enabled and that nobody edits
  Attempts,          \* webhook.get("max_retries", 3): get_webhooks returns no
                     \* max_retries, so it is the default of 3 for every webhook
  MaxFaults,         \* bound: database errors and crashes in a behaviour
  MaxPeriods,        \* bound: budget periods that begin in a behaviour
  None

AllUsages  == {"ok", "approaching", "exceeded", "overflowing"}
AlertTypes == {"threshold_warning", "budget_exceeded"}

ASSUME PipelineAssumption ==
  /\ IsFiniteSet(Checkers) /\ Loop \in Checkers
  /\ Usages \subseteq AllUsages /\ "ok" \in Usages
  /\ Accepts \in [Webhooks -> SUBSET AlertTypes]
  /\ Untouched \subseteq Webhooks
  /\ Attempts \in Nat \ {0}
  /\ MaxFaults \in Nat /\ MaxPeriods \in Nat
  /\ None \notin [budget : Budgets, type : AlertTypes, current : BOOLEAN,
                  sent : BOOLEAN]
  /\ None \notin [budget : Budgets, type : AlertTypes, fits : BOOLEAN]
  /\ None \notin [budget : Budgets, type : AlertTypes, sent : BOOLEAN]

\* The rows a cycle can find are finite in number.
ASSUME FiniteTables ==
  IsFiniteSet(Budgets) /\ IsFiniteSet(Alerts) /\ IsFiniteSet(Webhooks)

VARIABLES
  usage,     \* spend of each budget against its limit, this period
  alerts,    \* the BudgetAlert rows
  enabled,   \* the webhooks that get_webhooks returns
  posts,     \* how often each alert was posted to each webhook, up to Attempts
  received,  \* the <<alert, webhook>> pairs the endpoint did receive
  pc,        \* where each checker is in its cycle
  todo,      \* the budgets it has yet to examine
  found,     \* the alert it is about to insert
  pending,   \* the unsent alerts it has yet to deliver
  snapshot,  \* the webhooks it read
  job,       \* the delivery under way
  faults, periods

db     == <<usage, alerts, enabled, faults, periods>>
world  == <<posts, received>>
cursor == <<todo, found, pending, snapshot, job>>
vars   == <<db, world, pc, cursor>>

Row == [budget : Budgets, type : AlertTypes, current : BOOLEAN, sent : BOOLEAN]
Job == [alert : Alerts, hooks : SUBSET Webhooks, hook : Webhooks,
        attempt : 1..Attempts, reply : {"none", "ok", "refused", "exception"}]

\* The values the rows and the checkers' locals can hold.
TypeOK ==
  /\ usage \in [Budgets -> Usages]
  /\ alerts \in [Alerts -> Row \cup {None}]
  /\ enabled \subseteq Webhooks
  /\ posts \in [Alerts \X Webhooks -> 0..Attempts]
  /\ received \subseteq Alerts \X Webhooks
  /\ pc \in [Checkers -> {"idle", "scan", "recent", "insert", "deliver", "post",
                          "log", "mark"}]
  /\ todo \in [Checkers -> SUBSET Budgets]
  /\ found \in [Checkers -> [budget : Budgets, type : AlertTypes, fits : BOOLEAN]
                              \cup {None}]
  /\ pending \in [Checkers -> SUBSET Alerts]
  /\ snapshot \in [Checkers -> SUBSET Webhooks]
  /\ job \in [Checkers -> Job \cup {None}]
  /\ faults \in 0..MaxFaults /\ periods \in 0..MaxPeriods

Init ==
  /\ usage = [b \in Budgets |-> "ok"]
  /\ alerts = [a \in Alerts |-> None]
  /\ enabled = Webhooks
  /\ posts = [x \in Alerts \X Webhooks |-> 0]
  /\ received = {}
  /\ pc = [c \in Checkers |-> "idle"]
  /\ todo = [c \in Checkers |-> {}]
  /\ found = [c \in Checkers |-> None]
  /\ pending = [c \in Checkers |-> {}]
  /\ snapshot = [c \in Checkers |-> {}]
  /\ job = [c \in Checkers |-> None]
  /\ faults = 0 /\ periods = 0

Rows == {a \in Alerts : alerts[a] # None}

Goto(c, label) == pc' = [pc EXCEPT ![c] = label]

----------------------------------------------------------------------------
(* The environment.                                                        *)

\* Requests are recorded, or a limit is edited.
UsageChanges(b) ==
  /\ \E u \in Usages : usage' = [usage EXCEPT ![b] = u]
  /\ UNCHANGED <<alerts, enabled, faults, periods, world, pc, cursor>>

\* A period ends: spending starts again from nothing, and alerts stamped
\* before this moment are no longer recent.
NewPeriod ==
  /\ periods < MaxPeriods
  /\ periods' = periods + 1
  /\ usage' = [b \in Budgets |-> "ok"]
  /\ alerts' = [a \in Alerts |-> IF a \in Rows
                                 THEN [alerts[a] EXCEPT !.current = FALSE] ELSE None]
  /\ UNCHANGED <<enabled, faults, world, pc, cursor>>

\* register_webhook, delete_webhook, or update_webhook: of enabled, or of
\* alert_types, which has one webhook go and another come.
EditWebhook ==
  /\ \E gone, come \in SUBSET (Webhooks \ Untouched) :
       /\ Cardinality(gone) <= 1 /\ Cardinality(come) <= 1
       /\ enabled' = (enabled \ gone) \cup come
  /\ UNCHANGED <<usage, alerts, faults, periods, world, pc, cursor>>

----------------------------------------------------------------------------
(* generate_alerts                                                         *)

\* check_now is called, or the loop's interval is over.
StartCheck(c) ==
  /\ pc[c] = "idle"
  /\ Goto(c, "scan")
  /\ todo' = [todo EXCEPT ![c] = Budgets]
  /\ UNCHANGED <<db, world, found, pending, snapshot, job>>

AlertType(u) ==
  IF u \in {"exceeded", "overflowing"} THEN "budget_exceeded" ELSE "threshold_warning"

\* A slip: an alert of the other type counts as a recent one.
RecentAlertAnyType(b, type) ==
  \E a \in Rows : alerts[a].budget = b /\ alerts[a].current

\* "Check if we already alerted for this period."
RecentAlert(b, type) ==
  \E a \in Rows : alerts[a].budget = b /\ alerts[a].type = type /\ alerts[a].current

\* One budget's spend is read and compared with its limit and its threshold,
\* in any order of budgets.
Examine(c, b) ==
  /\ pc[c] = "scan" /\ b \in todo[c]
  /\ todo' = [todo EXCEPT ![c] = @ \ {b}]
  /\ IF usage[b] = "ok"
     THEN UNCHANGED <<pc, found>>
     ELSE /\ Goto(c, "recent")
          /\ found' = [found EXCEPT ![c] = [budget |-> b,
                                            type |-> AlertType(usage[b]),
                                            fits |-> usage[b] # "overflowing"]]
  /\ UNCHANGED <<db, world, pending, snapshot, job>>

\* The recent alerts are read: of the period that runs by then.
LookForRecent(c) ==
  /\ pc[c] = "recent"
  /\ IF RecentAlert(found[c].budget, found[c].type)
     THEN Goto(c, "scan") /\ found' = [found EXCEPT ![c] = None]
     ELSE Goto(c, "insert") /\ UNCHANGED found
  /\ UNCHANGED <<db, world, todo, pending, snapshot, job>>

\* Rows nobody will look at again leave their identity to a new one.
Reusable == {a \in Alerts :
               /\ a \in Rows => alerts[a].sent /\ ~alerts[a].current
               /\ \A c \in Checkers : a \notin pending[c]}

\* The alert is inserted and committed, stamped with the present.
Insert(c) ==
  /\ pc[c] = "insert" /\ found[c].fits
  /\ \E a \in Reusable :
       /\ alerts' = [alerts EXCEPT ![a] =
                       [budget |-> found[c].budget, type |-> found[c].type,
                        current |-> TRUE, sent |-> FALSE]]
       /\ posts' = [x \in Alerts \X Webhooks |-> IF x[1] = a THEN 0 ELSE posts[x]]
       /\ received' = {x \in received : x[1] # a}
  /\ Goto(c, "scan")
  /\ found' = [found EXCEPT ![c] = None]
  /\ UNCHANGED <<usage, enabled, faults, periods, todo, pending, snapshot, job>>

\* An exception leaves the cycle: _run_loop and check_now log it.
GiveUp(c) ==
  /\ Goto(c, "idle")
  /\ todo' = [todo EXCEPT ![c] = {}]
  /\ found' = [found EXCEPT ![c] = None]
  /\ pending' = [pending EXCEPT ![c] = {}]
  /\ snapshot' = [snapshot EXCEPT ![c] = {}]
  /\ job' = [job EXCEPT ![c] = None]

\* percentage_used is Numeric(5, 2): PostgreSQL refuses a row of 1000% and up.
InsertOverflows(c) ==
  /\ pc[c] = "insert" /\ ~found[c].fits
  /\ GiveUp(c)
  /\ UNCHANGED <<db, world>>

----------------------------------------------------------------------------
(* deliver_pending_alerts                                                  *)

\* get_unsent_alerts and get_webhooks(enabled_only=True).
ReadPending(c) ==
  /\ pc[c] = "scan" /\ todo[c] = {}
  /\ Goto(c, "deliver")
  /\ pending' = [pending EXCEPT ![c] = {a \in Rows : ~alerts[a].sent}]
  /\ snapshot' = [snapshot EXCEPT ![c] = enabled]
  /\ UNCHANGED <<db, world, todo, found, job>>

\* _filter_webhooks_for_alert; an empty list of types matches every alert.
Matching(hooks, a) ==
  {h \in hooks : Accepts[h] = {} \/ alerts[a].type \in Accepts[h]}

\* Slips: every attempt counts as the first, or a retry returns past the
\* webhooks that are left.
DeliveryAnew(a, hooks, h, n) ==
  [alert |-> a, hooks |-> hooks, hook |-> h, attempt |-> 1, reply |-> "none"]

DeliveryForgets(a, hooks, h, n) ==
  [alert |-> a, hooks |-> IF n = 1 THEN hooks ELSE {}, hook |-> h, attempt |-> n,
   reply |-> "none"]

Delivery(a, hooks, h, n) ==
  [alert |-> a, hooks |-> hooks, hook |-> h, attempt |-> n, reply |-> "none"]

\* A slip: an alert nobody wants is marked sent.
TakeAlertMarksAll(c, a) ==
  /\ pc[c] = "deliver" /\ a \in pending[c]
  /\ Matching(snapshot[c], a) = {}
  /\ pending' = [pending EXCEPT ![c] = @ \ {a}]
  /\ alerts' = [alerts EXCEPT ![a].sent = TRUE]
  /\ UNCHANGED <<usage, enabled, faults, periods, world, pc, todo, found, snapshot,
                 job>>

\* The next alert: the first of its webhooks, in any order of rows.
TakeAlert(c, a) ==
  /\ pc[c] = "deliver" /\ a \in pending[c]
  /\ \/ /\ Matching(snapshot[c], a) = {}    \* nobody to tell: it stays unsent
        /\ pending' = [pending EXCEPT ![c] = @ \ {a}]
        /\ UNCHANGED <<pc, job>>
     \/ \E h \in Matching(snapshot[c], a) :
          /\ job' = [job EXCEPT ![c] =
                       Delivery(a, Matching(snapshot[c], a) \ {h}, h, 1)]
          /\ Goto(c, "post")
          /\ UNCHANGED pending
  /\ UNCHANGED <<db, world, todo, found, snapshot>>

\* One POST.  On a timeout nobody knows whether the endpoint received it.
Post(c) ==
  /\ pc[c] = "post"
  /\ LET x == <<job[c].alert, job[c].hook>>
     IN /\ posts' = [posts EXCEPT ![x] = IF @ < Attempts THEN @ + 1 ELSE @]
        /\ \E reply \in {"ok", "refused", "exception"} :
             /\ job' = [job EXCEPT ![c].reply = reply]
             /\ \/ reply # "refused" /\ received' = received \cup {x}
                \/ reply # "ok" /\ UNCHANGED received
  /\ Goto(c, "log")
  /\ UNCHANGED <<db, todo, found, pending, snapshot>>

\* Slips: the last retry is not made, or one too many is.
ExhaustedEarly(j) == j.attempt + 1 >= Attempts

ExhaustedLate(j) == j.attempt > Attempts

\* attempt_number < max_retries no longer holds.
Exhausted(j) == j.attempt >= Attempts

\* The attempt and the webhook's statistics are written, and the outcome
\* decides what comes next: another attempt, the next webhook, or the mark.
Log(c) ==
  /\ pc[c] = "log"
  /\ LET j == job[c]
     IN IF j.reply # "ok" /\ ~Exhausted(j)
        THEN /\ job' = [job EXCEPT ![c] =
                          Delivery(j.alert, j.hooks, j.hook, j.attempt + 1)]
             /\ Goto(c, "post")
        ELSE \/ /\ j.hooks = {}
                /\ Goto(c, "mark")
                /\ UNCHANGED job
             \/ \E h \in j.hooks :
                  /\ job' = [job EXCEPT ![c] =
                               Delivery(j.alert, j.hooks \ {h}, h, 1)]
                  /\ Goto(c, "post")
  /\ UNCHANGED <<db, world, todo, found, pending, snapshot>>

\* A slip: only an alert that was accepted is marked.
MarkAccepted(c) ==
  /\ pc[c] = "mark"
  /\ LET a == job[c].alert
     IN /\ alerts' = [alerts EXCEPT ![a].sent = @ \/ job[c].reply = "ok"]
        /\ pending' = [pending EXCEPT ![c] = @ \ {a}]
  /\ job' = [job EXCEPT ![c] = None]
  /\ Goto(c, "deliver")
  /\ UNCHANGED <<usage, enabled, faults, periods, world, todo, found, snapshot>>

\* mark_alert_sent, even if some deliveries failed.
Mark(c) ==
  /\ pc[c] = "mark"
  /\ LET a == job[c].alert
     IN /\ alerts' = [alerts EXCEPT ![a].sent = TRUE]
        /\ pending' = [pending EXCEPT ![c] = @ \ {a}]
  /\ job' = [job EXCEPT ![c] = None]
  /\ Goto(c, "deliver")
  /\ UNCHANGED <<usage, enabled, faults, periods, world, todo, found, snapshot>>

EndCheck(c) ==
  /\ pc[c] = "deliver" /\ pending[c] = {}
  /\ Goto(c, "idle")
  /\ snapshot' = [snapshot EXCEPT ![c] = {}]
  /\ UNCHANGED <<db, world, todo, found, pending, job>>

----------------------------------------------------------------------------
(* Failures.                                                               *)

Fault == faults < MaxFaults /\ faults' = faults + 1

\* The row of an attempt that had a response cannot be written: the except
\* branch takes it for a failed attempt and writes it again.
LogFails(c) ==
  /\ Fault
  /\ pc[c] = "log" /\ job[c].reply # "exception"
  /\ job' = [job EXCEPT ![c].reply = "exception"]
  /\ UNCHANGED <<usage, alerts, enabled, periods, world, pc, todo, found, pending,
                 snapshot>>

\* Any other database error ends the cycle: in a query, in the insert, in the
\* except branch of a delivery, in its statistics (the except branch then
\* reuses the delivery's primary key, and fails), in the mark.
DatabaseFails(c) ==
  /\ Fault
  /\ pc[c] \in {"scan", "recent", "insert", "deliver", "log", "mark"}
  /\ GiveUp(c)
  /\ UNCHANGED <<usage, alerts, enabled, periods, world>>

\* The process dies, with every checker in it, and is started again.
Crash ==
  /\ Fault
  /\ pc' = [c \in Checkers |-> "idle"]
  /\ todo' = [c \in Checkers |-> {}]
  /\ found' = [c \in Checkers |-> None]
  /\ pending' = [c \in Checkers |-> {}]
  /\ snapshot' = [c \in Checkers |-> {}]
  /\ job' = [c \in Checkers |-> None]
  /\ UNCHANGED <<usage, alerts, enabled, periods, world>>

----------------------------------------------------------------------------
\* What a checker does once its cycle has begun.
Proceed(c) ==
  \/ LookForRecent(c) \/ Insert(c) \/ InsertOverflows(c) \/ ReadPending(c)
  \/ Post(c) \/ Log(c) \/ Mark(c) \/ EndCheck(c)
  \/ \E b \in Budgets : Examine(c, b)
  \/ \E a \in Alerts : TakeAlert(c, a)

Next ==
  \/ NewPeriod \/ EditWebhook \/ Crash
  \/ \E b \in Budgets : UsageChanges(b)
  \/ \E c \in Checkers :
       StartCheck(c) \/ Proceed(c) \/ LogFails(c) \/ DatabaseFails(c)

Spec == Init /\ [][Next]_vars

\* A cycle that has begun goes on, because every query and every POST ends
\* (the client has a timeout), and the loop begins another when it is over.
\* Nobody has to call check_now, to spend, or to edit a webhook.
Fairness == WF_vars(StartCheck(Loop)) /\ \A c \in Checkers : WF_vars(Proceed(c))

FairSpec == Spec /\ Fairness

----------------------------------------------------------------------------
(* An alert that is marked sent will never be delivered again, so by then  *)
(* every webhook that was there all along and wants it must have received  *)
(* it, or have been tried three times, the default of Attempts: whoever    *)
(* marked it, whatever failed in between, and whatever others did to the   *)
(* same alert.  It is not the "maximum retry attempts" of register_webhook *)
(* that is honoured: those are stored and never read.                      *)
SentMeansTried ==
  \A a \in Rows : \A h \in Matching(Untouched, a) :
    alerts[a].sent => <<a, h>> \in received \/ posts[<<a, h>>] = Attempts

(* An alert is not lost for want of webhooks: it is marked sent only after *)
(* somebody was told of it (`if matching_webhooks` in                      *)
(* deliver_pending_alerts).                                                *)
SentMeansPosted ==
  \A a \in Rows : alerts[a].sent => \E h \in Webhooks : posts[<<a, h>>] > 0

\* How many steps a checker's cycle can take from here: to read the budgets
\* and the alerts, to work on an alert, and within that at a webhook.
PerHook  == 2 * Attempts
PerAlert == PerHook * Cardinality(Webhooks) + 2

ToRead(c) == 3 * Cardinality(todo[c]) + PerAlert * Cardinality(Alerts) + 2
ToSend(S) == PerAlert * Cardinality(S) + 1
ToTell(j) == PerHook * Cardinality(j.hooks) + 2 * (Attempts - j.attempt) + 1

StepsLeft(c) ==
  CASE pc[c] = "idle"    -> 0
    [] pc[c] = "scan"    -> ToRead(c)
    [] pc[c] = "recent"  -> ToRead(c) + 2
    [] pc[c] = "insert"  -> ToRead(c) + 1
    [] pc[c] = "deliver" -> ToSend(pending[c])
    [] pc[c] = "post"    -> ToSend(pending[c] \ {job[c].alert}) + ToTell(job[c]) + 2
    [] pc[c] = "log"     -> ToSend(pending[c] \ {job[c].alert}) + ToTell(job[c]) + 1
    [] pc[c] = "mark"    -> ToSend(pending[c] \ {job[c].alert}) + 1

(* The loop waits for its cycle, so a cycle must end: each of its steps is  *)
(* one of a bounded number, and neither a fault, nor what other checkers    *)
(* insert and deliver meanwhile, makes it any longer.                       *)
CycleAdvances ==
  [][\A c \in Checkers : pc[c] # "idle" =>
       IF Proceed(c) THEN StepsLeft(c)' < StepsLeft(c)
                     ELSE StepsLeft(c)' <= StepsLeft(c)]_vars

\* An alert's row, and how far its delivery to each webhook has come.
Entry ==
  [a \in Alerts |-> IF alerts[a] = None THEN None
                    ELSE [budget |-> alerts[a].budget, type |-> alerts[a].type,
                          sent |-> alerts[a].sent]]

Progress ==
  [x \in Alerts \X Webhooks |->
     IF x \in received \/ posts[x] = Attempts THEN "done"
     ELSE IF posts[x] > 0 THEN "tried" ELSE "none"]

MustTell ==
  [t \in AlertTypes |-> {h \in Untouched : Accepts[h] = {} \/ t \in Accepts[h]}]

Outbox == INSTANCE AlertOutbox WITH entry <- Entry, progress <- Progress

(* Several checkers that overlap on an alert, retries, errors and crashes  *)
(* come to no more than progress on the alert: it stays open until it is   *)
(* settled, and no cycle undoes what another has reached.                  *)
ImplementsOutbox == Outbox!OutboxSpec

(* A budget that stays over its limit gets its budget_exceeded alert, even *)
(* if a threshold_warning was there before it, although errors and crashes *)
(* may end some cycles early.                                              *)
ExceededIsAlerted ==
  \A b \in Budgets :
    usage[b] = "exceeded"
      ~> \/ usage[b] # "exceeded"
         \/ \E a \in Rows : /\ alerts[a].budget = b /\ alerts[a].current
                            /\ alerts[a].type = "budget_exceeded"

(* "An autonomous, always-on alerting pipeline" (budget_monitor.py): an    *)
(* alert that an untouched webhook wants does not stay unsent.             *)
AlertsAreDelivered ==
  \A a \in Alerts :
    (a \in Rows /\ ~alerts[a].sent /\ Matching(Untouched, a) # {})
      ~> (a \in Rows => alerts[a].sent)

(* Looking for a recent alert and inserting one are two steps, but every   *)
(* checker is wrong once at most: a budget has no more alerts of a type in *)
(* a period than there are checkers, over restarts and failed cycles.      *)
Raised(b, type) ==
  {a \in Rows : alerts[a].budget = b /\ alerts[a].type = type /\ alerts[a].current}

AlertsPerPeriod ==
  \A b \in Budgets, type \in AlertTypes :
    Cardinality(Raised(b, type)) <= Cardinality(Checkers)

(* "Duplicate alerts aren't created for same period" (the test of          *)
(* generate_alerts; "check if we already alerted for this period").  It    *)
(* holds as long as the loop is the only checker.                          *)
OneAlertPerPeriod ==
  \A a1, a2 \in Rows :
    /\ alerts[a1].current /\ alerts[a2].current
    /\ alerts[a1].budget = alerts[a2].budget
    /\ alerts[a1].type = alerts[a2].type
    => a1 = a2
=============================================================================
