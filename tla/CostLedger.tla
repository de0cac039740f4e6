----------------------------- MODULE CostLedger -----------------------------
(***************************************************************************)
(* Budgets, the requests recorded for them, and the aggregates made of     *)
(* those: BudgetManager, CostTracker and CostAggregator, on the tables     *)
(* they share.                                                             *)
(*                                                                         *)
(* A client is a thread or process that calls them: it asks check_budget,  *)
(* makes its request if it may, and records it with track_request.  A name *)
(* is the email of a user, the name of a team or of a project, numbered in *)
(* the order in which a call resolves them.  A row is known by its name    *)
(* and the client that inserted it, which is enough as long as no client   *)
(* inserts a second one: the commits are counted besides, to see whether   *)
(* one does.  Every request costs 1.                                       *)
(*                                                                         *)
(* A step is a statement that can meet another transaction's work (READ    *)
(* COMMITTED), with the statements around it that cannot.                  *)
(***************************************************************************)
EXTENDS Naturals, Sequences, FiniteSets

CONSTANTS
  Clients,
  Names,
  Unique,             \* those of a unique column: emails; of teams and projects,
                      \* nothing keeps two rows from having one name
  Attributions,       \* the names one request is recorded for
  Limits,
  LastDay,            \* bound: periods, of a day each
  MaxCalls,           \* bound: requests
  MaxBudgets,         \* bound: no more are asked for when there are so many
  MaxFaults           \* bound: errors of the database

ASSUME LedgerAssumption ==
  /\ IsFiniteSet(Clients) /\ Clients # {}
  /\ Names \subseteq Nat /\ Unique \subseteq Names
  /\ Attributions \subseteq (SUBSET Names) \ {{}}
  /\ Limits \subseteq Nat
  /\ LastDay \in Nat /\ MaxCalls \in Nat /\ MaxBudgets \in Nat /\ MaxFaults \in Nat

Days == 0..LastDay
Rows == Names \X Clients

VARIABLES
  block,      \* block_on_exceeded
  day,
  rows,       \* the committed rows of users, teams and projects
  spent,      \* the recorded requests: how many of each row and day
  budgets,    \* the budget rows
  pc,         \* where each client is
  op,         \* what it is about to do when its names are resolved
  names,      \* the names it was called with
  found,      \* the rows they were resolved to, so far
  new,        \* the rows it inserted and has not committed
  seen,       \* the budgets it has read and not examined
  stamp,      \* the timestamp of the request it records
  calls, faults,
  inserted,   \* history: rows of a name that were committed
  refused,    \* history: inserts of a name that were refused
  start       \* history: what a budget's row had spent when it was last set

tables == <<rows, inserted, spent, budgets>>
client == <<pc, op, names, found, new, seen, stamp>>
bounds == <<calls, faults>>
vars   == <<block, day, tables, client, bounds, refused, start>>

Labels == {"idle", "resolve", "insert", "check", "refuse", "create", "call", "record"}

Budgets == [owner : Rows, limit : Limits, enabled : BOOLEAN]

TypeOK ==
  /\ block \in BOOLEAN
  /\ day \in Days
  /\ rows \subseteq Rows
  /\ spent \in [Rows -> [Days -> Nat]]
  /\ budgets \in Seq(Budgets)
  /\ pc \in [Clients -> Labels]
  /\ op \in [Clients -> {"check", "create", "track"}]
  /\ names \in [Clients -> SUBSET Names]
  /\ found \in [Clients -> SUBSET Rows]
  /\ new \in [Clients -> SUBSET Rows]
  /\ seen \in [Clients -> SUBSET Budgets]
  /\ stamp \in [Clients -> Days]
  /\ \A c \in Clients :
       /\ found[c] \subseteq rows \cup new[c]
       /\ pc[c] \in {"idle", "call"} => found[c] = {} /\ new[c] = {}
       /\ pc[c] \notin {"check", "refuse"} => seen[c] = {}
  /\ calls \in 0..MaxCalls /\ faults \in 0..MaxFaults
  /\ inserted \in [Names -> Nat] /\ refused \in [Names -> Nat]
  /\ start \in [1..Len(budgets) -> Nat]

Init ==
  /\ block \in BOOLEAN
  /\ day = 0
  /\ rows = {}
  /\ spent = [r \in Rows |-> [d \in Days |-> 0]]
  /\ budgets = <<>>
  /\ pc = [c \in Clients |-> "idle"]
  /\ op = [c \in Clients |-> "check"]
  /\ names = [c \in Clients |-> {}]
  /\ found = [c \in Clients |-> {}]
  /\ new = [c \in Clients |-> {}]
  /\ seen = [c \in Clients |-> {}]
  /\ stamp = [c \in Clients |-> 0]
  /\ calls = 0 /\ faults = 0
  /\ inserted = [n \in Names |-> 0] /\ refused = [n \in Names |-> 0]
  /\ start = <<>>

----------------------------------------------------------------------------
(* Names are resolved: a row is looked up, and inserted if there is none.  *)

\* The call goes on in a new session.
Enter(c, o, S) ==
  /\ pc' = [pc EXCEPT ![c] = "resolve"]
  /\ op' = [op EXCEPT ![c] = o]
  /\ names' = [names EXCEPT ![c] = S]
  /\ UNCHANGED <<found, new, seen, stamp>>

\* Slip: no rollback; the rows a call inserted stay in its open transaction.
LeaveOpen(c) ==
  /\ pc' = [pc EXCEPT ![c] = "idle"]
  /\ op' = [op EXCEPT ![c] = "check"]
  /\ names' = [names EXCEPT ![c] = {}]
  /\ found' = [found EXCEPT ![c] = {}]
  /\ seen' = [seen EXCEPT ![c] = {}]
  /\ stamp' = [stamp EXCEPT ![c] = 0]
  /\ UNCHANGED new

\* The call is over: its session is closed, and what it did not commit is
\* rolled back.
Leave(c) ==
  /\ pc' = [pc EXCEPT ![c] = "idle"]
  /\ op' = [op EXCEPT ![c] = "check"]
  /\ names' = [names EXCEPT ![c] = {}]
  /\ found' = [found EXCEPT ![c] = {}]
  /\ new' = [new EXCEPT ![c] = {}]
  /\ seen' = [seen EXCEPT ![c] = {}]
  /\ stamp' = [stamp EXCEPT ![c] = 0]

\* The request itself is made, for the names in S.
Call(c, S) ==
  /\ pc' = [pc EXCEPT ![c] = "call"]
  /\ op' = [op EXCEPT ![c] = "track"]
  /\ names' = [names EXCEPT ![c] = S]
  /\ found' = [found EXCEPT ![c] = {}]
  /\ new' = [new EXCEPT ![c] = {}]
  /\ seen' = [seen EXCEPT ![c] = {}]
  /\ UNCHANGED stamp

Unresolved(c) == {n \in names[c] : \A r \in found[c] : r[1] # n}

\* The user, then the team, then the project.
NextName(c, n) == n \in Unresolved(c) /\ \A m \in Unresolved(c) : n <= m

\* Slip: every call inserts its names.
LookUpNothing(c) ==
  /\ pc[c] = "resolve"
  /\ Unresolved(c) # {}
  /\ pc' = [pc EXCEPT ![c] = "insert"]
  /\ UNCHANGED <<block, day, tables, op, names, found, new, seen, stamp, bounds, refused,
                 start>>

\* SELECT ... LIMIT 1: of two teams of one name, either.
LookUp(c) ==
  /\ pc[c] = "resolve"
  /\ \E n \in Names :
       /\ NextName(c, n)
       /\ \/ /\ \A r \in rows : r[1] # n
             /\ pc' = [pc EXCEPT ![c] = "insert"]
             /\ UNCHANGED found
          \/ /\ \E r \in rows : r[1] = n /\ found' = [found EXCEPT ![c] = @ \cup {r}]
             /\ UNCHANGED pc
  /\ UNCHANGED <<block, day, tables, op, names, new, seen, stamp, bounds, refused, start>>

\* INSERT of a name that was not found.  A unique name waits for another
\* transaction that has inserted it, and is refused if it is there by now: the
\* transaction is rolled back, and the call raises or, track_request, returns.
Insert(c) ==
  /\ pc[c] = "insert"
  /\ \E n \in Names :
       /\ NextName(c, n)
       /\ n \in Unique => \A d \in Clients : \A r \in new[d] : r[1] # n
       /\ IF n \in Unique /\ \E r \in rows : r[1] = n
          THEN /\ refused' = [refused EXCEPT ![n] = @ + 1]
               /\ Leave(c)
          ELSE /\ new' = [new EXCEPT ![c] = @ \cup {<<n, c>>}]
               /\ found' = [found EXCEPT ![c] = @ \cup {<<n, c>>}]
               /\ pc' = [pc EXCEPT ![c] = "resolve"]
               /\ UNCHANGED <<op, names, seen, stamp, refused>>
  /\ UNCHANGED <<block, day, tables, bounds, start>>

Resolved(c, o) == pc[c] = "resolve" /\ op[c] = o /\ Unresolved(c) = {}

\* COMMIT of the rows a call inserted.
CommitRows(c) ==
  /\ rows' = rows \cup new[c]
  /\ inserted' = [n \in Names |->
       IF <<n, c>> \in new[c] THEN inserted[n] + 1 ELSE inserted[n]]

----------------------------------------------------------------------------
(* BudgetManager.                                                          *)

CheckBudget(c, S) ==
  /\ pc[c] = "idle"
  /\ calls < MaxCalls /\ calls' = calls + 1
  /\ Enter(c, "check", S)
  /\ UNCHANGED <<block, day, tables, faults, refused, start>>

\* The enabled budgets of its rows are read, with their limits, ...
FindBudgets(c) ==
  /\ Resolved(c, "check")
  /\ LET own == {i \in DOMAIN budgets : budgets[i].enabled /\ budgets[i].owner \in found[c]}
     IN seen' = [seen EXCEPT ![c] = {budgets[i] : i \in own}]
  /\ pc' = [pc EXCEPT ![c] = "check"]
  /\ UNCHANGED <<block, day, tables, op, names, found, new, stamp, bounds, refused, start>>

\* Slip: exceeded only when more than the limit is spent.
ExceededLate(b) == spent[b.owner][day] > b.limit

Exceeded(b) == spent[b.owner][day] >= b.limit

\* ... then what is spent of each, as long as none of them blocks, ...
ReadSpend(c) ==
  /\ pc[c] = "check"
  /\ \E b \in seen[c] :
       IF block /\ Exceeded(b)
       THEN pc' = [pc EXCEPT ![c] = "refuse"] /\ UNCHANGED seen
       ELSE seen' = [seen EXCEPT ![c] = @ \ {b}] /\ UNCHANGED pc
  /\ UNCHANGED <<block, day, tables, op, names, found, new, stamp, bounds, refused, start>>

\* ... and can_proceed is returned: the caller makes its request, or does not.
Decide(c) ==
  /\ \/ pc[c] = "check" /\ seen[c] = {} /\ Call(c, names[c])
     \/ pc[c] = "refuse" /\ Leave(c)
  /\ CommitRows(c)
  /\ UNCHANGED <<block, day, spent, budgets, bounds, refused, start>>

CreateBudget(c, n) ==
  /\ pc[c] = "idle"
  /\ Len(budgets) < MaxBudgets
  /\ Enter(c, "create", {n})
  /\ UNCHANGED <<block, day, tables, bounds, refused, start>>

\* "Active budget already exists for this entity", or none was found.
FindBudget(c) ==
  /\ Resolved(c, "create")
  /\ IF \E i \in DOMAIN budgets : budgets[i].owner \in found[c] /\ budgets[i].enabled
     THEN Leave(c)
     ELSE pc' = [pc EXCEPT ![c] = "create"] /\ UNCHANGED <<op, names, found, new, seen, stamp>>
  /\ UNCHANGED <<block, day, tables, bounds, refused, start>>

InsertBudget(c) ==
  /\ pc[c] = "create"
  /\ \E r \in found[c], l \in Limits :
       /\ budgets' = Append(budgets, [owner |-> r, limit |-> l, enabled |-> TRUE])
       /\ start' = Append(start, spent[r][day])
  /\ CommitRows(c)
  /\ Leave(c)
  /\ UNCHANGED <<block, day, spent, bounds, refused>>

\* update_budget: another limit, enabled or disabled.
UpdateBudget(i) ==
  /\ \E l \in Limits, e \in BOOLEAN :
       budgets' = [budgets EXCEPT ![i].limit = l, ![i].enabled = e]
  /\ start' = [start EXCEPT ![i] = spent[budgets[i].owner][day]]
  /\ UNCHANGED <<block, day, rows, inserted, spent, client, bounds, refused>>

\* The next period starts.
NewDay ==
  /\ day < LastDay /\ day' = day + 1
  /\ start' = [i \in DOMAIN start |-> 0]
  /\ UNCHANGED <<block, tables, client, bounds, refused>>

----------------------------------------------------------------------------
(* CostTracker.                                                            *)

\* A request that nobody checked, as where nothing is blocked.
CallUnchecked(c, S) ==
  /\ ~block
  /\ pc[c] = "idle"
  /\ calls < MaxCalls /\ calls' = calls + 1
  /\ Call(c, S)
  /\ UNCHANGED <<block, day, tables, faults, refused, start>>

TrackRequest(c) ==
  /\ pc[c] = "call"
  /\ Enter(c, "track", names[c])
  /\ UNCHANGED <<block, day, tables, bounds, refused, start>>

\* Tracking is disabled, or the response does not say what was used.
NotTracked(c) ==
  /\ pc[c] = "call"
  /\ Leave(c)
  /\ UNCHANGED <<block, day, tables, bounds, refused, start>>

\* A cost that is not a number raises, which is logged.
NoCost(c) ==
  /\ Resolved(c, "track")
  /\ Leave(c)
  /\ UNCHANGED <<block, day, tables, bounds, refused, start>>

\* The request gets its timestamp ...
NewRequest(c) ==
  /\ Resolved(c, "track")
  /\ stamp' = [stamp EXCEPT ![c] = day]
  /\ pc' = [pc EXCEPT ![c] = "record"]
  /\ UNCHANGED <<block, day, tables, op, names, found, new, seen, bounds, refused, start>>

\* ... and is committed, with all names it is recorded for.
Record(c) ==
  /\ pc[c] = "record"
  /\ spent' = [r \in Rows |-> IF r \in found[c]
                              THEN [spent[r] EXCEPT ![stamp[c]] = @ + 1]
                              ELSE spent[r]]
  /\ CommitRows(c)
  /\ Leave(c)
  /\ UNCHANGED <<block, day, budgets, bounds, refused, start>>

\* The database raises and the session is rolled back; track_request logs it.
Fails(c) ==
  /\ faults < MaxFaults /\ faults' = faults + 1
  /\ pc[c] \in {"resolve", "insert", "check", "refuse", "create", "record"}
  /\ Leave(c)
  /\ UNCHANGED <<block, day, tables, calls, refused, start>>

----------------------------------------------------------------------------
Session(c) ==
  \/ LookUp(c) \/ Insert(c)
  \/ FindBudgets(c) \/ ReadSpend(c) \/ Decide(c)
  \/ FindBudget(c) \/ InsertBudget(c)
  \/ NewRequest(c) \/ Record(c)

Next ==
  \/ \E c \in Clients :
       \/ \E S \in Attributions : CheckBudget(c, S) \/ CallUnchecked(c, S)
       \/ \E n \in Names : CreateBudget(c, n)
       \/ TrackRequest(c) \/ NotTracked(c) \/ NoCost(c)
       \/ Session(c)
       \/ Fails(c)
  \/ \E i \in DOMAIN budgets : UpdateBudget(i)
  \/ NewDay

Spec == Init /\ [][Next]_vars

----------------------------------------------------------------------------
(* Properties.                                                             *)

\* The requests that were let through, and are yet to be recorded for n.
Underway(n) == {c \in Clients : pc[c] # "idle" /\ op[c] = "track" /\ n \in names[c]}

Most(m, n) == IF m >= n THEN m ELSE n

\* No other row has its name: of a user always, of a team or a project as long as
\* two first uses have not made two of it.
Alone(r) == r[1] \in Unique \/ \A s \in rows : s[1] = r[1] => s = r

\* With blocking, a budget, duplicates included, is overspent by at most one
\* request per client, counted from its limit or from what was already spent
\* when it was last set: check and record are not atomic, but no request is let
\* through that saw the limit reached.
OverspendBounded ==
  block => \A i \in DOMAIN budgets :
    LET b == budgets[i] IN
      b.enabled /\ Alone(b.owner) =>
        spent[b.owner][day] + Cardinality(Underway(b.owner[1]))
          < Most(b.limit, start[i] + 1) + Cardinality(Clients)

\* Clients that use a name for the first time together lose calls, whose insert
\* is refused, or leave several rows of it: a call or a row for each client, at
\* most and once and for all.  No client inserts a name that it has inserted.
FirstUseSettles ==
  \A n \in Names : refused[n] + inserted[n] <= Cardinality(Clients)
=============================================================================
