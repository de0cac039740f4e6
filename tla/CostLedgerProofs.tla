-------------------------- MODULE CostLedgerProofs --------------------------
(***************************************************************************)
(* The cost ledger, for any clients, names, limits and bounds: its types,  *)
(* OverspendBounded and FirstUseSettles.  Then the aggregates, for any     *)
(* processes: they leave the ledger alone, their types, NeverOvercounts    *)
(* and RunCatchesUp.                                                       *)
(***************************************************************************)
EXTENDS CostAggregates, FiniteSetTheorems, SequenceTheorems, TLAPS


----------------------------------------------------------------------------
(* Types.                                                                  *)

\* What TypeOK says of the clients.
ClientTypes ==
  /\ pc \in [Clients -> Labels]
  /\ op \in [Clients -> {"check", "create", "track"}]
  /\ names \in [Clients -> SUBSET Names]
  /\ found \in [Clients -> SUBSET Rows]
  /\ new \in [Clients -> SUBSET Rows]
  /\ seen \in [Clients -> SUBSET Budgets]
  /\ stamp \in [Clients -> Days]
  /\ \A c \in Clients :
       /\ found[c] \subseteq rows \cup new[c]
       /\ pc[c] \in {"idle", "call"} => found[c] = {} /\ new[c] = {}
       /\ pc[c] \notin {"check", "refuse"} => seen[c] = {}

\* What it says of the rest.
TableTypes ==
  /\ block \in BOOLEAN
  /\ day \in Days
  /\ rows \subseteq Rows
  /\ spent \in [Rows -> [Days -> Nat]]
  /\ budgets \in Seq(Budgets)
  /\ calls \in 0..MaxCalls /\ faults \in 0..MaxFaults
  /\ inserted \in [Names -> Nat] /\ refused \in [Names -> Nat]
  /\ start \in [1..Len(budgets) -> Nat]

LEMMA Parts == TypeOK <=> ClientTypes /\ TableTypes
BY DEF TypeOK, ClientTypes, TableTypes

\* A commit counts its rows.
LEMMA CommitTypes ==
  ASSUME TableTypes, NEW c \in Clients, CommitRows(c)
  PROVE  inserted' \in [Names -> Nat]
BY DEF TableTypes, CommitRows

\* A client that leaves keeps the clients' types, whatever rows are added.
LEMMA LeaveTypes ==
  ASSUME ClientTypes, NEW c \in Clients, Leave(c), rows \subseteq rows'
  PROVE  ClientTypes'
<1>1. 0 \in Days  BY LedgerAssumption DEF Days
<1>. QED  BY <1>1 DEF ClientTypes, Leave, Labels

\* A client that enters a session keeps them.
LEMMA EnterTypes ==
  ASSUME ClientTypes, NEW c \in Clients, pc[c] \in {"idle", "call"},
         NEW o \in {"check", "create", "track"}, NEW S \in SUBSET Names, Enter(c, o, S),
         rows' = rows
  PROVE  ClientTypes'
BY DEF ClientTypes, Enter, Labels

\* A client that makes its request keeps them.
LEMMA CallTypes ==
  ASSUME ClientTypes, NEW c \in Clients, NEW S \in SUBSET Names, Call(c, S),
         rows \subseteq rows'
  PROVE  ClientTypes'
BY DEF ClientTypes, Call, Labels

LEMMA InitTypes == Init => TypeOK
<1>. SUFFICES ASSUME Init PROVE TypeOK  OBVIOUS
<1>1. 0 \in Days  BY LedgerAssumption DEF Days
<1>2. ClientTypes  BY <1>1 DEF Init, ClientTypes, Labels
<1>3. start \in [1..Len(budgets) -> Nat]  BY DEF Init
<1>4. TableTypes  BY <1>1, <1>3, LedgerAssumption DEF Init, TableTypes
<1>. QED  BY <1>2, <1>4, Parts

\* start has an entry for each budget.
LEMMA CountsAre ==
  ASSUME TableTypes PROVE start \in Seq(Nat) /\ Len(start) = Len(budgets)
<1>1. Len(budgets) \in Nat /\ start \in [1..Len(budgets) -> Nat]
  BY LenProperties DEF TableTypes
<1>. QED  BY <1>1, SeqDef

\* Every step keeps the types.
LEMMA NextTypes == TypeOK /\ [Next]_vars => TypeOK'
<1>. SUFFICES ASSUME TypeOK, [Next]_vars PROVE ClientTypes' /\ TableTypes'
  BY Parts DEF TypeOK, ClientTypes, TableTypes
<1>0. ClientTypes /\ TableTypes  BY Parts
<1>1. CASE UNCHANGED vars
  BY <1>0, <1>1 DEF vars, tables, client, bounds, ClientTypes, TableTypes
<1>2. ASSUME NEW c \in Clients, NEW S \in Attributions, CheckBudget(c, S)
      PROVE  ClientTypes' /\ TableTypes'
  <2>1. S \in SUBSET Names  BY LedgerAssumption
  <2>2. ClientTypes'  BY <1>0, <1>2, <2>1, EnterTypes DEF CheckBudget, tables
  <2>3. TableTypes'
    BY <1>0, <1>2, LedgerAssumption DEF TableTypes, CheckBudget, tables
  <2>. QED  BY <2>2, <2>3
<1>3. ASSUME NEW c \in Clients, NEW S \in Attributions, CallUnchecked(c, S)
      PROVE  ClientTypes' /\ TableTypes'
  <2>1. S \in SUBSET Names  BY LedgerAssumption
  <2>2. ClientTypes'  BY <1>0, <1>3, <2>1, CallTypes DEF CallUnchecked, tables
  <2>3. TableTypes'
    BY <1>0, <1>3, LedgerAssumption DEF TableTypes, CallUnchecked, tables
  <2>. QED  BY <2>2, <2>3
<1>4. ASSUME NEW c \in Clients, NEW n \in Names, CreateBudget(c, n)
      PROVE  ClientTypes' /\ TableTypes'
  <2>1. ClientTypes'  BY <1>0, <1>4, EnterTypes DEF CreateBudget, tables
  <2>2. TableTypes'  BY <1>0, <1>4 DEF TableTypes, CreateBudget, tables, bounds
  <2>. QED  BY <2>1, <2>2
<1>5. ASSUME NEW c \in Clients, TrackRequest(c)
      PROVE  ClientTypes' /\ TableTypes'
  <2>1. names[c] \in SUBSET Names  BY <1>0 DEF ClientTypes
  <2>2. ClientTypes'  BY <1>0, <1>5, <2>1, EnterTypes DEF TrackRequest, tables
  <2>3. TableTypes'  BY <1>0, <1>5 DEF TableTypes, TrackRequest, tables, bounds
  <2>. QED  BY <2>2, <2>3
<1>6. ASSUME NEW c \in Clients, NotTracked(c) \/ NoCost(c)
      PROVE  ClientTypes' /\ TableTypes'
  <2>1. Leave(c) /\ UNCHANGED <<block, day, tables, bounds, refused, start>>
    BY <1>6 DEF NotTracked, NoCost
  <2>2. ClientTypes'  BY <1>0, <2>1, LeaveTypes DEF tables
  <2>3. TableTypes'  BY <1>0, <2>1 DEF TableTypes, tables, bounds
  <2>. QED  BY <2>2, <2>3
<1>7. ASSUME NEW c \in Clients, LookUp(c)
      PROVE  ClientTypes' /\ TableTypes'
  <2>0. rows' = rows  BY <1>7 DEF LookUp, tables
  <2>1. ClientTypes'
    <3>1. CASE pc' = [pc EXCEPT ![c] = "insert"] /\ UNCHANGED found
      BY <1>0, <1>7, <2>0, <3>1 DEF ClientTypes, LookUp, Labels
    <3>2. CASE /\ \E r \in rows : found' = [found EXCEPT ![c] = @ \cup {r}]
               /\ UNCHANGED pc
      BY <1>0, <1>7, <2>0, <3>2 DEF ClientTypes, TableTypes, LookUp, Labels
    <3>. QED  BY <1>7, <3>1, <3>2 DEF LookUp
  <2>2. TableTypes'  BY <1>0, <1>7 DEF TableTypes, LookUp, tables, bounds
  <2>. QED  BY <2>1, <2>2
<1>8. ASSUME NEW c \in Clients, Insert(c)
      PROVE  ClientTypes' /\ TableTypes'
  <2>1. PICK n \in Names : Insert(c)!2!(n)  BY <1>8 DEF Insert
  <2>2. CASE n \in Unique /\ \E r \in rows : r[1] = n
    <3>0. Leave(c) /\ rows' = rows  BY <1>8, <2>1, <2>2 DEF Insert, tables
    <3>1. ClientTypes'  BY <1>0, <3>0, LeaveTypes
    <3>2. TableTypes'
      BY <1>0, <1>8, <2>1, <2>2 DEF TableTypes, Insert, tables, bounds
    <3>. QED  BY <3>1, <3>2
  <2>3. CASE ~(n \in Unique /\ \E r \in rows : r[1] = n)
    <3>1. /\ new' = [new EXCEPT ![c] = @ \cup {<<n, c>>}]
          /\ found' = [found EXCEPT ![c] = @ \cup {<<n, c>>}]
          /\ pc' = [pc EXCEPT ![c] = "resolve"]
          /\ UNCHANGED <<op, names, seen, stamp, refused>>
          /\ UNCHANGED <<block, day, tables, bounds, start>>
      BY <1>8, <2>1, <2>3 DEF Insert
    <3>2. <<n, c>> \in Rows  BY DEF Rows
    <3>5. seen[c] = {}  BY <1>0, <1>8 DEF ClientTypes, Insert
    <3>3. ClientTypes'  BY <1>0, <3>1, <3>2, <3>5 DEF ClientTypes, Labels, tables
    <3>4. TableTypes'  BY <1>0, <3>1 DEF TableTypes, tables, bounds
    <3>. QED  BY <3>3, <3>4
  <2>. QED  BY <2>2, <2>3
<1>9. ASSUME NEW c \in Clients, Decide(c)
      PROVE  ClientTypes' /\ TableTypes'
  <2>1. rows' = rows \cup new[c] /\ new[c] \subseteq Rows /\ names[c] \in SUBSET Names
    BY <1>0, <1>9 DEF Decide, CommitRows, ClientTypes
  <2>2. Leave(c) \/ Call(c, names[c])  BY <1>9 DEF Decide
  <2>3. ClientTypes'  BY <1>0, <2>1, <2>2, LeaveTypes, CallTypes
  <2>4. TableTypes'  BY <1>0, <1>9, <2>1, CommitTypes DEF TableTypes, Decide, bounds
  <2>. QED  BY <2>3, <2>4
<1>17. ASSUME NEW c \in Clients, FindBudgets(c)
       PROVE  ClientTypes' /\ TableTypes'
  <2>1. PICK B \in SUBSET {budgets[i] : i \in DOMAIN budgets} : seen' = [seen EXCEPT ![c] = B]
    BY <1>17 DEF FindBudgets
  <2>2. B \in SUBSET Budgets  BY <1>0, <2>1 DEF TableTypes
  <2>3. ClientTypes'
    BY <1>0, <1>17, <2>1, <2>2 DEF ClientTypes, FindBudgets, Resolved, Labels, tables
  <2>4. TableTypes'  BY <1>0, <1>17 DEF TableTypes, FindBudgets, tables, bounds
  <2>. QED  BY <2>3, <2>4
<1>18. ASSUME NEW c \in Clients, ReadSpend(c)
       PROVE  ClientTypes' /\ TableTypes'
  <2>1. ClientTypes'
    <3>1. CASE pc' = [pc EXCEPT ![c] = "refuse"] /\ UNCHANGED seen
      BY <1>0, <1>18, <3>1 DEF ClientTypes, ReadSpend, Labels, tables
    <3>2. CASE \E b \in seen[c] : seen' = [seen EXCEPT ![c] = @ \ {b}] /\ UNCHANGED pc
      BY <1>0, <1>18, <3>2 DEF ClientTypes, ReadSpend, Labels, tables
    <3>. QED  BY <1>18, <3>1, <3>2 DEF ReadSpend
  <2>2. TableTypes'  BY <1>0, <1>18 DEF TableTypes, ReadSpend, tables, bounds
  <2>. QED  BY <2>1, <2>2
<1>10. ASSUME NEW c \in Clients, FindBudget(c)
       PROVE  ClientTypes' /\ TableTypes'
  <2>1. ClientTypes'
    <3>1. CASE Leave(c)  BY <1>0, <1>10, <3>1, LeaveTypes DEF FindBudget, tables
    <3>2. CASE /\ pc' = [pc EXCEPT ![c] = "create"]
               /\ UNCHANGED <<op, names, found, new, seen, stamp>>
      <4>1. seen[c] = {} /\ rows' = rows
        BY <1>0, <1>10 DEF ClientTypes, FindBudget, Resolved, tables
      <4>. QED  BY <1>0, <3>2, <4>1 DEF ClientTypes, Labels
    <3>. QED  BY <1>10, <3>1, <3>2 DEF FindBudget
  <2>2. TableTypes'  BY <1>0, <1>10 DEF TableTypes, FindBudget, tables, bounds
  <2>. QED  BY <2>1, <2>2
<1>11. ASSUME NEW c \in Clients, InsertBudget(c)
       PROVE  ClientTypes' /\ TableTypes'
  <2>1. PICK r \in found[c], l \in Limits :
          /\ budgets' = Append(budgets, [owner |-> r, limit |-> l, enabled |-> TRUE])
          /\ start' = Append(start, spent[r][day])
    BY <1>11 DEF InsertBudget
  <2>2. rows' = rows \cup new[c] /\ new[c] \subseteq Rows /\ r \in Rows
    BY <1>0, <1>11 DEF InsertBudget, CommitRows, ClientTypes
  <2>3. ClientTypes'  BY <1>0, <1>11, <2>2, LeaveTypes DEF InsertBudget
  <2>4. [owner |-> r, limit |-> l, enabled |-> TRUE] \in Budgets  BY <2>2 DEF Budgets
  <2>5. budgets' \in Seq(Budgets) /\ Len(budgets') = Len(budgets) + 1
    BY <1>0, <2>1, <2>4 DEF TableTypes
  <2>6. spent[r][day] \in Nat  BY <1>0, <2>2 DEF TableTypes
  <2>7. start \in Seq(Nat) /\ Len(start) = Len(budgets)  BY <1>0, CountsAre
  <2>8. start' \in [1..Len(budgets') -> Nat]
    <3>1. PICK x : x = spent[r][day]  OBVIOUS
    <3>2. Append(start, x) \in Seq(Nat) /\ Len(Append(start, x)) = Len(start) + 1
      BY <2>6, <2>7, <3>1, AppendProperties
    <3>. QED  BY <2>1, <2>5, <2>7, <3>1, <3>2, LenProperties
  <2>9. TableTypes'  BY <1>0, <1>11, <2>2, <2>5, <2>8, CommitTypes
       DEF TableTypes, InsertBudget, bounds
  <2>. QED  BY <2>3, <2>9
<1>12. ASSUME NEW c \in Clients, NewRequest(c)
       PROVE  ClientTypes' /\ TableTypes'
  <2>1. ClientTypes'
    <3>1. seen[c] = {} /\ rows' = rows
      BY <1>0, <1>12 DEF ClientTypes, NewRequest, Resolved, tables
    <3>. QED  BY <1>0, <1>12, <3>1 DEF ClientTypes, TableTypes, NewRequest, Labels
  <2>2. TableTypes'  BY <1>0, <1>12 DEF TableTypes, NewRequest, tables, bounds
  <2>. QED  BY <2>1, <2>2
<1>13. ASSUME NEW c \in Clients, Record(c)
       PROVE  ClientTypes' /\ TableTypes'
  <2>1. rows' = rows \cup new[c] /\ new[c] \subseteq Rows /\ stamp[c] \in Days
    BY <1>0, <1>13 DEF Record, CommitRows, ClientTypes
  <2>2. ClientTypes'  BY <1>0, <1>13, <2>1, LeaveTypes DEF Record
  <2>3. spent' \in [Rows -> [Days -> Nat]]
    BY <1>0, <1>13, <2>1 DEF TableTypes, Record
  <2>4. TableTypes'  BY <1>0, <1>13, <2>1, <2>3, CommitTypes DEF TableTypes, Record, bounds
  <2>. QED  BY <2>2, <2>4
<1>14. ASSUME NEW c \in Clients, Fails(c)
       PROVE  ClientTypes' /\ TableTypes'
  <2>1. ClientTypes'  BY <1>0, <1>14, LeaveTypes DEF Fails, tables
  <2>2. TableTypes'  BY <1>0, <1>14, LedgerAssumption DEF TableTypes, Fails, tables
  <2>. QED  BY <2>1, <2>2
<1>15. ASSUME NEW i \in DOMAIN budgets, UpdateBudget(i)
       PROVE  ClientTypes' /\ TableTypes'
  <2>1. PICK l \in Limits, e \in BOOLEAN :
          budgets' = [budgets EXCEPT ![i].limit = l, ![i].enabled = e]
    BY <1>15 DEF UpdateBudget
  <2>2. i \in 1..Len(budgets) /\ budgets[i] \in Budgets  BY <1>0 DEF TableTypes
  <2>3. [[budgets[i] EXCEPT !.limit = l] EXCEPT !.enabled = e] \in Budgets
    BY <2>2 DEF Budgets
  <2>4. budgets' = [budgets EXCEPT ![i] = [[budgets[i] EXCEPT !.limit = l] EXCEPT !.enabled = e]]
    BY <1>0, <2>1, <2>2 DEF TableTypes
  <2>5. budgets' \in Seq(Budgets) /\ Len(budgets') = Len(budgets)
    BY <1>0, <2>2, <2>3, <2>4 DEF TableTypes
  <2>6. spent[budgets[i].owner][day] \in Nat
    BY <1>0, <2>2 DEF TableTypes, Budgets
  <2>7. start' \in [1..Len(budgets') -> Nat]
    BY <1>0, <1>15, <2>2, <2>5, <2>6 DEF TableTypes, UpdateBudget
  <2>8. TableTypes'  BY <1>0, <1>15, <2>5, <2>7 DEF TableTypes, UpdateBudget, bounds
  <2>9. ClientTypes'  BY <1>0, <1>15 DEF ClientTypes, UpdateBudget, client
  <2>. QED  BY <2>8, <2>9
<1>16. CASE NewDay
  <2>1. ClientTypes'  BY <1>0, <1>16 DEF ClientTypes, NewDay, client, tables
  <2>2. day' \in Days  BY <1>0, <1>16, LedgerAssumption DEF TableTypes, NewDay, Days
  <2>3. TableTypes'  BY <1>0, <1>16, <2>2 DEF TableTypes, NewDay, tables, bounds
  <2>. QED  BY <2>1, <2>3
<1>. QED
  BY <1>1, <1>2, <1>3, <1>4, <1>5, <1>6, <1>7, <1>8, <1>9, <1>10, <1>11, <1>12,
     <1>13, <1>14, <1>15, <1>16, <1>17, <1>18 DEF Next, Session

\* Every variable keeps its type: a client's rows are committed or its own, and
\* it holds none when it is not in a session.
THEOREM Types == Spec => []TypeOK
BY InitTypes, NextTypes, PTL DEF Spec

----------------------------------------------------------------------------
(* What a client has found and inserted.                                   *)

\* A client found rows of its names only, and is where its call takes it.
Facts ==
  \A c \in Clients :
    /\ \A r \in found[c] : r[1] \in names[c]
    /\ pc[c] \in {"call", "record"} => op[c] = "track"
    /\ pc[c] = "create" => op[c] = "create"

\* A client that leaves keeps them.
LEMMA LeaveFacts ==
  ASSUME TypeOK, Facts, NEW c \in Clients, Leave(c)
  PROVE  Facts'
<1>. SUFFICES ASSUME NEW d \in Clients
              PROVE  /\ \A r \in found'[d] : r[1] \in names'[d]
                     /\ pc'[d] \in {"call", "record"} => op'[d] = "track"
                     /\ pc'[d] = "create" => op'[d] = "create"
  BY DEF Facts
<1>1. CASE d = c  BY <1>1 DEF TypeOK, Leave
<1>2. CASE d # c
  BY <1>2 DEF TypeOK, Facts, Leave
<1>. QED  BY <1>1, <1>2

\* So does one that enters a session,
LEMMA EnterFacts ==
  ASSUME TypeOK, Facts, NEW c \in Clients, pc[c] \in {"idle", "call"},
         NEW o, NEW S, Enter(c, o, S)
  PROVE  Facts'
<1>. SUFFICES ASSUME NEW d \in Clients
              PROVE  /\ \A r \in found'[d] : r[1] \in names'[d]
                     /\ pc'[d] \in {"call", "record"} => op'[d] = "track"
                     /\ pc'[d] = "create" => op'[d] = "create"
  BY DEF Facts
<1>1. CASE d = c  BY <1>1 DEF TypeOK, Enter
<1>2. CASE d # c
  BY <1>2 DEF TypeOK, Facts, Enter
<1>. QED  BY <1>1, <1>2

\* and one that makes its request.
LEMMA CallFacts ==
  ASSUME TypeOK, Facts, NEW c \in Clients, NEW S, Call(c, S)
  PROVE  Facts'
<1>. SUFFICES ASSUME NEW d \in Clients
              PROVE  /\ \A r \in found'[d] : r[1] \in names'[d]
                     /\ pc'[d] \in {"call", "record"} => op'[d] = "track"
                     /\ pc'[d] = "create" => op'[d] = "create"
  BY DEF Facts
<1>1. CASE d = c  BY <1>1 DEF TypeOK, Call
<1>2. CASE d # c
  BY <1>2 DEF TypeOK, Facts, Call
<1>. QED  BY <1>1, <1>2

\* A client that goes to l with what it has, when its call may take it there.
LEMMA MoveFacts ==
  ASSUME TypeOK, Facts, NEW c \in Clients, NEW l, pc' = [pc EXCEPT ![c] = l],
         l \in {"call", "record"} => op[c] = "track", l = "create" => op[c] = "create",
         UNCHANGED <<op, names, found, new>>
  PROVE  Facts'
<1>. SUFFICES ASSUME NEW d \in Clients
              PROVE  /\ \A r \in found'[d] : r[1] \in names'[d]
                     /\ pc'[d] \in {"call", "record"} => op'[d] = "track"
                     /\ pc'[d] = "create" => op'[d] = "create"
  BY DEF Facts
<1>. QED  BY DEF TypeOK, Facts

LEMMA InitFacts == Init => Facts
BY DEF Init, Facts

\* Every step keeps them.
LEMMA NextFacts == TypeOK /\ Facts /\ [Next]_vars => Facts'
<1>. SUFFICES ASSUME TypeOK, Facts, [Next]_vars PROVE Facts'  OBVIOUS
<1>1. CASE UNCHANGED client
  BY <1>1 DEF client, Facts
<1>2. ASSUME NEW c \in Clients, LookUp(c) PROVE Facts'
  <2>1. PICK n \in Names : LookUp(c)!2!(n)  BY <1>2 DEF LookUp
  <2>2. UNCHANGED <<op, names, new>>  BY <1>2 DEF LookUp
  <2>3. CASE pc' = [pc EXCEPT ![c] = "insert"] /\ UNCHANGED found
    BY <2>2, <2>3, MoveFacts
  <2>4. CASE /\ \E r \in rows : r[1] = n /\ found' = [found EXCEPT ![c] = @ \cup {r}]
             /\ UNCHANGED pc
    <3>1. PICK r \in rows : r[1] = n /\ found' = [found EXCEPT ![c] = @ \cup {r}]
      BY <2>4
    <3>2. n \in names[c]  BY <2>1 DEF NextName, Unresolved
    <3>. SUFFICES ASSUME NEW d \in Clients
                  PROVE  /\ \A s \in found'[d] : s[1] \in names'[d]
                         /\ pc'[d] \in {"call", "record"} => op'[d] = "track"
                         /\ pc'[d] = "create" => op'[d] = "create"
      BY DEF Facts
    <3>3. \A s \in found'[d] : s[1] \in names'[d]
      BY <2>2, <3>1, <3>2 DEF TypeOK, Facts
    <3>. QED  BY <2>2, <2>4, <3>3 DEF Facts
  <2>. QED  BY <2>1, <2>3, <2>4
<1>3. ASSUME NEW c \in Clients, Insert(c) PROVE Facts'
  <2>1. PICK n \in Names : Insert(c)!2!(n)  BY <1>3 DEF Insert
  <2>2. CASE n \in Unique /\ \E r \in rows : r[1] = n
    <3>1. Leave(c)  BY <2>1, <2>2
    <3>. QED  BY <3>1, LeaveFacts
  <2>3. CASE ~(n \in Unique /\ \E r \in rows : r[1] = n)
    <3>1. /\ new' = [new EXCEPT ![c] = @ \cup {<<n, c>>}]
          /\ found' = [found EXCEPT ![c] = @ \cup {<<n, c>>}]
          /\ pc' = [pc EXCEPT ![c] = "resolve"]
          /\ UNCHANGED <<op, names>>
      BY <2>1, <2>3
    <3>2. n \in names[c]  BY <2>1 DEF NextName, Unresolved
    <3>. SUFFICES ASSUME NEW d \in Clients
                  PROVE  /\ \A s \in found'[d] : s[1] \in names'[d]
                         /\ pc'[d] \in {"call", "record"} => op'[d] = "track"
                         /\ pc'[d] = "create" => op'[d] = "create"
      BY DEF Facts
    <3>. QED  BY <3>1, <3>2 DEF TypeOK, Facts
  <2>. QED  BY <2>2, <2>3
<1>4. ASSUME NEW c \in Clients, FindBudget(c) PROVE Facts'
  BY <1>4, LeaveFacts, MoveFacts DEF FindBudget, Resolved
<1>5. ASSUME NEW c \in Clients, NewRequest(c) PROVE Facts'
  BY <1>5, MoveFacts DEF NewRequest, Resolved
<1>14. ASSUME NEW c \in Clients, FindBudgets(c) PROVE Facts'
  BY <1>14, MoveFacts DEF FindBudgets
<1>15. ASSUME NEW c \in Clients, ReadSpend(c) PROVE Facts'
  <2>1. CASE pc' = [pc EXCEPT ![c] = "refuse"]
    BY <1>15, <2>1, MoveFacts DEF ReadSpend
  <2>2. CASE UNCHANGED pc  BY <1>15, <2>2 DEF ReadSpend, Facts
  <2>. QED  BY <1>15, <2>1, <2>2 DEF ReadSpend
<1>6. ASSUME NEW c \in Clients, Decide(c) PROVE Facts'
  BY <1>6, LeaveFacts, CallFacts DEF Decide
<1>7. ASSUME NEW c \in Clients,
             NotTracked(c) \/ NoCost(c) \/ InsertBudget(c) \/ Record(c) \/ Fails(c)
      PROVE  Facts'
  <2>1. Leave(c)  BY <1>7 DEF NotTracked, NoCost, InsertBudget, Record, Fails
  <2>. QED  BY <2>1, LeaveFacts
<1>8. ASSUME NEW c \in Clients, NEW S \in Attributions,
             CheckBudget(c, S) \/ CallUnchecked(c, S)
      PROVE  Facts'
  BY <1>8, EnterFacts, CallFacts DEF CheckBudget, CallUnchecked
<1>9. ASSUME NEW c \in Clients, NEW n \in Names, CreateBudget(c, n) PROVE Facts'
  BY <1>9, EnterFacts DEF CreateBudget
<1>10. ASSUME NEW c \in Clients, TrackRequest(c) PROVE Facts'
  BY <1>10, EnterFacts DEF TrackRequest
<1>11. ASSUME NEW i \in DOMAIN budgets, UpdateBudget(i) PROVE Facts'
  BY <1>1, <1>11 DEF UpdateBudget
<1>12. CASE NewDay  BY <1>1, <1>12 DEF NewDay
<1>13. CASE UNCHANGED vars  BY <1>1, <1>13 DEF vars
<1>. QED
  BY <1>2, <1>3, <1>4, <1>5, <1>6, <1>7, <1>8, <1>9, <1>10, <1>11, <1>12, <1>13, <1>14, <1>15
     DEF Next, Session

----------------------------------------------------------------------------
(* First use of a name.                                                    *)

\* Sizes of clients are finite, and a smaller one has fewer.
LEMMA Sizes ==
  /\ Cardinality(Clients) \in Nat \ {0}
  /\ \A S \in SUBSET Clients : Cardinality(S) \in 0..Cardinality(Clients)
  /\ \A T \in SUBSET Clients : \A S \in SUBSET T : Cardinality(S) <= Cardinality(T)
  /\ \A T \in SUBSET Clients : \A S \in SUBSET T : \A c \in T \ S :
       Cardinality(S) + 1 <= Cardinality(T)
<1>1. \A S \in SUBSET Clients : IsFiniteSet(S) /\ Cardinality(S) <= Cardinality(Clients)
  BY LedgerAssumption, FS_Subset
<1>2. \A S \in SUBSET Clients : Cardinality(S) \in Nat
  BY <1>1, FS_CardinalityType
<1>3. Cardinality(Clients) \in Nat \ {0}
  BY <1>2, LedgerAssumption, FS_EmptySet
<1>4. \A T \in SUBSET Clients : \A S \in SUBSET T : Cardinality(S) <= Cardinality(T)
  BY <1>1, FS_Subset
<1>5. ASSUME NEW T \in SUBSET Clients, NEW S \in SUBSET T, NEW c \in T \ S
      PROVE  Cardinality(S) + 1 <= Cardinality(T)
  <2>1. Cardinality(T \ {c}) = Cardinality(T) - 1  BY <1>1, FS_RemoveElement
  <2>2. Cardinality(S) <= Cardinality(T \ {c})
    <3>1. S \in SUBSET (T \ {c}) /\ T \ {c} \in SUBSET Clients  OBVIOUS
    <3>. QED  BY <1>4, <3>1
  <2>. QED  BY <1>2, <2>1, <2>2
<1>. QED  BY <1>1, <1>2, <1>3, <1>4, <1>5

\* A row is known by the client that inserted it, and a client that is about to
\* insert a name, or to commit one, has no row of it.
OwnRows ==
  \A c \in Clients :
    /\ \A r \in new[c] : r[2] = c /\ r \notin rows
    /\ pc[c] = "insert" => \A n \in Names : NextName(c, n) => <<n, c>> \notin rows

HasRow(n) == \E r \in rows : r[1] = n

\* The clients that found no row of n, and those that inserted one.
Racing(n) ==
  {c \in Clients : \/ pc[c] = "insert" /\ NextName(c, n)
                   \/ <<n, c>> \in new[c] \/ <<n, c>> \in rows}

\* When a row is committed, those that will be refused, or will insert another,
\* are there already.
Bound(n) ==
  IF HasRow(n) THEN refused[n] + Cardinality(Racing(n)) <= Cardinality(Clients)
               ELSE refused[n] = 0

RaceBound == \A n \in Names : Bound(n)

LEMMA InitRace == Init => OwnRows /\ RaceBound
BY DEF Init, OwnRows, RaceBound, Bound, HasRow

\* A client's step that does not take it to an insert, and commits nothing but
\* its rows.
Quiet(c) ==
  /\ pc'[c] # "insert"
  /\ \A d \in Clients \ {c} :
       pc'[d] = pc[d] /\ names'[d] = names[d] /\ found'[d] = found[d] /\ new'[d] = new[d]
  /\ rows \subseteq rows' /\ rows' \subseteq rows \cup new[c]

\* It keeps everybody's rows apart,
LEMMA QuietOwn ==
  ASSUME TypeOK, OwnRows, NEW c \in Clients, Quiet(c),
         \A r \in new'[c] : r[2] = c /\ r \notin rows'
  PROVE  OwnRows'
<1>. SUFFICES ASSUME NEW d \in Clients
              PROVE  /\ \A r \in new'[d] : r[2] = d /\ r \notin rows'
                     /\ pc'[d] = "insert" =>
                          \A n \in Names : NextName(d, n)' => <<n, d>> \notin rows'
  BY DEF OwnRows
<1>1. CASE d = c  BY <1>1 DEF Quiet
<1>2. CASE d # c
  <2>1. \A n \in Names : NextName(d, n)' => NextName(d, n)
    BY <1>2 DEF Quiet, NextName, Unresolved
  <2>2. \A n \in Names : <<n, d>> \notin new[c]
    <3>1. \A n \in Names : <<n, d>>[2] = d  OBVIOUS
    <3>. QED  BY <1>2, <3>1 DEF OwnRows
  <2>3. \A r \in new'[d] : r[2] = d /\ r \notin rows'
    BY <1>2 DEF Quiet, OwnRows
  <2>. QED  BY <1>2, <2>1, <2>2, <2>3 DEF Quiet, OwnRows
<1>. QED  BY <1>1, <1>2

\* and lets nobody join the race, unless by a row it inserts as it intended to.
LEMMA QuietRace ==
  ASSUME TypeOK, OwnRows, NEW c \in Clients, Quiet(c), NEW n \in Names,
         <<n, c>> \in new'[c] => c \in Racing(n)
  PROVE  Racing(n)' \subseteq Racing(n)
<1>. SUFFICES ASSUME NEW d \in Racing(n)' PROVE d \in Racing(n)  OBVIOUS
<1>1. d \in Clients  BY DEF Racing
<1>2. CASE d = c  BY <1>1, <1>2 DEF Quiet, Racing
<1>3. CASE d # c
  <2>1. NextName(d, n)' => NextName(d, n)
    BY <1>1, <1>3 DEF Quiet, NextName, Unresolved
  <2>2. <<n, d>> \in rows' => <<n, d>> \in rows
    <3>1. <<n, d>>[2] = d  OBVIOUS
    <3>. QED  BY <1>3, <3>1 DEF Quiet, OwnRows
  <2>. QED  BY <1>1, <1>3, <2>1, <2>2 DEF Quiet, Racing
<1>. QED  BY <1>2, <1>3

\* The bound on a name stays when nobody joins the race for a name that has a row, and when it
\* has none, whatever the step does.
LEMMA BoundStays ==
  ASSUME TypeOK, NEW n \in Names, Bound(n), refused'[n] = refused[n], rows \subseteq rows',
         HasRow(n) => Racing(n)' \subseteq Racing(n)
  PROVE  Bound(n)'
<1>1. Racing(n) \in SUBSET Clients /\ Racing(n)' \in SUBSET Clients  BY DEF Racing
<1>2. /\ Cardinality(Racing(n)) \in 0..Cardinality(Clients)
      /\ Cardinality(Racing(n)') \in 0..Cardinality(Clients)
      /\ Cardinality(Clients) \in Nat
  BY <1>1, Sizes
<1>3. refused[n] \in Nat  BY DEF TypeOK
<1>4. HasRow(n) => HasRow(n)'  BY DEF HasRow
<1>5. CASE HasRow(n)
  <2>1. Cardinality(Racing(n)') <= Cardinality(Racing(n))
    BY <1>1, <1>5, Sizes
  <2>. QED  BY <1>2, <1>3, <1>4, <1>5, <2>1 DEF Bound
<1>6. CASE ~HasRow(n)
  BY <1>2, <1>6 DEF Bound
<1>. QED  BY <1>5, <1>6

\* A quiet step keeps all of it.
LEMMA QuietStep ==
  ASSUME TypeOK, OwnRows, RaceBound, NEW c \in Clients, Quiet(c), refused' = refused,
         \A r \in new'[c] : r[2] = c /\ r \notin rows',
         \A n \in Names : <<n, c>> \in new'[c] => c \in Racing(n)
  PROVE  OwnRows' /\ RaceBound'
<1>1. OwnRows'  BY QuietOwn
<1>2. ASSUME NEW n \in Names PROVE Bound(n)'
  <2>1. Racing(n)' \subseteq Racing(n)  BY QuietRace
  <2>2. Bound(n) /\ rows \subseteq rows'  BY DEF RaceBound, Quiet
  <2>. QED  BY <2>1, <2>2, BoundStays
<1>. QED  BY <1>1, <1>2 DEF RaceBound

\* Above all, a step that ends a call, or goes on with no more rows.
LEMMA NoMoreRows ==
  ASSUME TypeOK, OwnRows, RaceBound, NEW c \in Clients, Quiet(c), refused' = refused,
         (new'[c] = {}) \/ (new'[c] = new[c] /\ rows' = rows)
  PROVE  OwnRows' /\ RaceBound'
<1>1. \A r \in new'[c] : r[2] = c /\ r \notin rows'  BY DEF OwnRows
<1>2. \A n \in Names : <<n, c>> \in new'[c] => c \in Racing(n)  BY DEF Racing
<1>. QED  BY <1>1, <1>2, QuietStep

\* Every step keeps the bound.
LEMMA NextRace == TypeOK /\ OwnRows /\ RaceBound /\ [Next]_vars => OwnRows' /\ RaceBound'
<1>. SUFFICES ASSUME TypeOK, OwnRows, RaceBound, [Next]_vars PROVE OwnRows' /\ RaceBound'
  OBVIOUS
<1>1. CASE UNCHANGED <<client, rows, refused>>
  BY <1>1 DEF client, OwnRows, RaceBound, Bound, HasRow, Racing, NextName, Unresolved
<1>2. ASSUME NEW c \in Clients, LookUp(c) PROVE OwnRows' /\ RaceBound'
  <2>1. PICK n \in Names : LookUp(c)!2!(n)  BY <1>2 DEF LookUp
  <2>2. UNCHANGED <<rows, names, new, refused>>  BY <1>2 DEF LookUp, tables
  <2>3. CASE ~HasRow(n) /\ pc' = [pc EXCEPT ![c] = "insert"] /\ UNCHANGED found
    <3>1. \A m \in Names, d \in Clients : NextName(d, m)' <=> NextName(d, m)
      BY <2>2, <2>3 DEF NextName, Unresolved
    <3>2. \A m \in Names : NextName(c, m) => m = n
      BY <2>1, LedgerAssumption DEF NextName
    <3>3. <<n, c>> \notin rows
      <4>1. <<n, c>>[1] = n  OBVIOUS
      <4>. QED  BY <2>3, <4>1 DEF HasRow
    <3>4. OwnRows'
      <4>. SUFFICES ASSUME NEW d \in Clients
                    PROVE  /\ \A r \in new'[d] : r[2] = d /\ r \notin rows'
                           /\ pc'[d] = "insert" =>
                                \A m \in Names : NextName(d, m)' => <<m, d>> \notin rows'
        BY DEF OwnRows
      <4>1. pc'[d] = "insert" => d = c \/ pc[d] = "insert"  BY <2>3 DEF TypeOK
      <4>. QED  BY <2>2, <3>1, <3>2, <3>3, <4>1 DEF OwnRows
    <3>5. ASSUME NEW m \in Names PROVE Bound(m)'
      <4>1. Racing(m)' \subseteq Racing(m) \cup (IF m = n THEN {c} ELSE {})
        BY <2>2, <2>3, <3>1, <3>2 DEF Racing, TypeOK
      <4>2. HasRow(m) => Racing(m)' \subseteq Racing(m)  BY <2>3, <4>1
      <4>. QED  BY <2>2, <4>2, BoundStays DEF RaceBound
    <3>. QED  BY <3>4, <3>5 DEF RaceBound
  <2>4. CASE UNCHANGED pc
    <3>1. Quiet(c)  BY <1>2, <2>2, <2>4 DEF LookUp, TypeOK, Quiet
    <3>. QED  BY <2>2, <3>1, NoMoreRows
  <2>. QED  BY <2>1, <2>3, <2>4 DEF HasRow
<1>3. ASSUME NEW c \in Clients, Leave(c), rows \subseteq rows', rows' \subseteq rows \cup new[c]
      PROVE  Quiet(c) /\ new'[c] = {}
  BY <1>3 DEF Leave, Quiet, TypeOK
<1>4. ASSUME NEW c \in Clients, Insert(c) PROVE OwnRows' /\ RaceBound'
  <2>1. PICK n \in Names : Insert(c)!2!(n)  BY <1>4 DEF Insert
  <2>2. rows' = rows /\ pc[c] = "insert" /\ NextName(c, n)
    BY <1>4, <2>1 DEF Insert, tables
  <2>3. CASE n \in Unique /\ HasRow(n)
    <3>1. refused' = [refused EXCEPT ![n] = @ + 1] /\ Leave(c)
      BY <2>1, <2>3 DEF HasRow
    <3>2. Quiet(c) /\ new'[c] = {}  BY <1>3, <2>2, <3>1
    <3>3. OwnRows'  BY <3>2, QuietOwn
    <3>4. ASSUME NEW m \in Names PROVE Bound(m)'
      <4>1. Racing(m)' \subseteq Racing(m)  BY <3>2, QuietRace
      <4>2. Bound(m)  BY DEF RaceBound
      <4>3. CASE m # n
        <5>1. refused'[m] = refused[m]  BY <3>1, <4>3 DEF TypeOK
        <5>. QED  BY <2>2, <4>1, <4>2, <5>1, BoundStays
      <4>4. CASE m = n
        <5>1. c \in Racing(n)  BY <2>2 DEF Racing
        <5>2. c \notin Racing(n)'
          BY <2>2, <3>2 DEF Racing, Quiet, OwnRows
        <5>3. Racing(n) \in SUBSET Clients /\ Racing(n)' \in SUBSET Racing(n)
              /\ Racing(n)' \in SUBSET Clients
          BY <4>1, <4>4 DEF Racing
        <5>4. Cardinality(Racing(n)') + 1 <= Cardinality(Racing(n))
          BY <5>1, <5>2, <5>3, Sizes
        <5>5. /\ Cardinality(Racing(n)) \in 0..Cardinality(Clients)
              /\ Cardinality(Racing(n)') \in 0..Cardinality(Clients)
              /\ Cardinality(Clients) \in Nat
          BY <5>3, Sizes
        <5>6. refused'[n] = refused[n] + 1 /\ refused[n] \in Nat
          BY <3>1 DEF TypeOK
        <5>7. HasRow(n)'  BY <2>2, <2>3 DEF HasRow
        <5>. QED  BY <2>3, <4>2, <4>4, <5>4, <5>5, <5>6, <5>7 DEF Bound
      <4>. QED  BY <4>3, <4>4
    <3>. QED  BY <3>3, <3>4 DEF RaceBound
  <2>4. CASE ~(n \in Unique /\ HasRow(n))
    <3>1. /\ new' = [new EXCEPT ![c] = @ \cup {<<n, c>>}]
          /\ found' = [found EXCEPT ![c] = @ \cup {<<n, c>>}]
          /\ pc' = [pc EXCEPT ![c] = "resolve"]
          /\ UNCHANGED <<names, refused>>
      BY <2>1, <2>4 DEF HasRow
    <3>2. Quiet(c) /\ new'[c] = new[c] \cup {<<n, c>>}
      BY <2>2, <3>1 DEF TypeOK, Quiet
    <3>3. \A r \in new'[c] : r[2] = c /\ r \notin rows'
      <4>1. <<n, c>> \notin rows /\ <<n, c>>[2] = c  BY <2>2 DEF OwnRows
      <4>. QED  BY <2>2, <3>2, <4>1 DEF OwnRows
    <3>4. \A m \in Names : <<m, c>> \in new'[c] => c \in Racing(m)
      BY <2>2, <3>2 DEF Racing
    <3>. QED  BY <3>1, <3>2, <3>3, <3>4, QuietStep
  <2>. QED  BY <2>3, <2>4
<1>5. ASSUME NEW c \in Clients, Leave(c), refused' = refused, rows \subseteq rows',
             rows' \subseteq rows \cup new[c]
      PROVE  OwnRows' /\ RaceBound'
  BY <1>3, <1>5, NoMoreRows
<1>6. ASSUME NEW c \in Clients, NEW l \in Labels \ {"insert"}, pc' = [pc EXCEPT ![c] = l],
             UNCHANGED <<names, found, new, refused, rows>>
      PROVE  OwnRows' /\ RaceBound'
  <2>1. Quiet(c)  BY <1>6 DEF TypeOK, Quiet
  <2>. QED  BY <1>6, <2>1, NoMoreRows
<1>7. ASSUME NEW c \in Clients, NEW o, NEW S,
             (Enter(c, o, S) /\ rows' = rows) \/ Call(c, S),
             refused' = refused, rows \subseteq rows', rows' \subseteq rows \cup new[c]
      PROVE  OwnRows' /\ RaceBound'
  <2>1. Quiet(c) /\ ((new'[c] = {}) \/ (new'[c] = new[c] /\ rows' = rows))
    BY <1>7 DEF Enter, Call, TypeOK, Quiet
  <2>. QED  BY <1>7, <2>1, NoMoreRows
<1>8. ASSUME NEW c \in Clients, FindBudget(c) PROVE OwnRows' /\ RaceBound'
  BY <1>5, <1>6, <1>8 DEF FindBudget, Labels, tables
<1>9. ASSUME NEW c \in Clients, NewRequest(c) PROVE OwnRows' /\ RaceBound'
  BY <1>6, <1>9 DEF NewRequest, Labels, tables
<1>18. ASSUME NEW c \in Clients, FindBudgets(c) \/ ReadSpend(c)
       PROVE  OwnRows' /\ RaceBound'
  <2>1. UNCHANGED <<names, found, new, refused, rows>> /\ pc[c] \in {"resolve", "check"}
    BY <1>18 DEF FindBudgets, ReadSpend, Resolved, tables
  <2>2. \E l \in {"check", "refuse"} : pc' = [pc EXCEPT ![c] = l]
    <3>1. ASSUME UNCHANGED pc, pc[c] = "check" PROVE pc' = [pc EXCEPT ![c] = "check"]
      BY <3>1 DEF TypeOK
    <3>. QED  BY <1>18, <3>1 DEF FindBudgets, ReadSpend
  <2>. QED  BY <1>6, <2>1, <2>2 DEF Labels
<1>10. ASSUME NEW c \in Clients, Decide(c) PROVE OwnRows' /\ RaceBound'
  BY <1>5, <1>7, <1>10 DEF Decide, CommitRows
<1>11. ASSUME NEW c \in Clients,
              NotTracked(c) \/ NoCost(c) \/ InsertBudget(c) \/ Record(c) \/ Fails(c)
       PROVE  OwnRows' /\ RaceBound'
  <2>1. Leave(c) /\ refused' = refused /\ rows \subseteq rows' /\ rows' \subseteq rows \cup new[c]
    BY <1>11 DEF NotTracked, NoCost, InsertBudget, Record, Fails, CommitRows, tables
  <2>. QED  BY <1>5, <2>1
<1>12. ASSUME NEW c \in Clients, NEW S \in Attributions,
              CheckBudget(c, S) \/ CallUnchecked(c, S)
       PROVE  OwnRows' /\ RaceBound'
  BY <1>7, <1>12 DEF CheckBudget, CallUnchecked, tables
<1>13. ASSUME NEW c \in Clients, NEW n \in Names, CreateBudget(c, n)
       PROVE  OwnRows' /\ RaceBound'
  BY <1>7, <1>13 DEF CreateBudget, tables
<1>14. ASSUME NEW c \in Clients, TrackRequest(c) PROVE OwnRows' /\ RaceBound'
  BY <1>7, <1>14 DEF TrackRequest, tables
<1>15. ASSUME NEW i \in DOMAIN budgets, UpdateBudget(i) PROVE OwnRows' /\ RaceBound'
  BY <1>1, <1>15 DEF UpdateBudget
<1>16. CASE NewDay  BY <1>1, <1>16 DEF NewDay, tables
<1>17. CASE UNCHANGED vars  BY <1>1, <1>17 DEF vars, tables
<1>. QED
  BY <1>2, <1>4, <1>8, <1>9, <1>10, <1>11, <1>12, <1>13, <1>14, <1>15, <1>16, <1>17, <1>18
     DEF Next, Session

\* The clients that inserted a row of n.
Copies(n) == {c \in Clients : <<n, c>> \in rows}

\* As many rows of a name were committed as there are clients that inserted one:
\* no client inserts a name twice.
OncePerClient == \A n \in Names : inserted[n] = Cardinality(Copies(n))

LEMMA InitOnce == Init => OncePerClient
<1>. SUFFICES ASSUME Init, NEW n \in Names PROVE inserted[n] = Cardinality(Copies(n))
  BY DEF OncePerClient
<1>1. Copies(n) = {}  BY DEF Init, Copies
<1>. QED  BY <1>1, FS_EmptySet DEF Init

\* Rows come by commits only.
LEMMA RowsChange ==
  [Next]_vars => UNCHANGED <<rows, inserted>> \/ \E c \in Clients : CommitRows(c)
BY DEF Next, vars, Session, CheckBudget, CallUnchecked, CreateBudget, TrackRequest,
       NotTracked, NoCost, LookUp, Insert, FindBudgets, ReadSpend, Decide, FindBudget,
       InsertBudget, NewRequest, Record, Fails, UpdateBudget, NewDay, tables

LEMMA NextOnce == TypeOK /\ OwnRows /\ OncePerClient /\ [Next]_vars => OncePerClient'
<1>. SUFFICES ASSUME TypeOK, OwnRows, OncePerClient, [Next]_vars, NEW n \in Names
              PROVE  inserted'[n] = Cardinality(Copies(n)')
  BY DEF OncePerClient
<1>1. CASE UNCHANGED <<rows, inserted>>  BY <1>1 DEF OncePerClient, Copies
<1>2. ASSUME NEW c \in Clients, CommitRows(c)
      PROVE  inserted'[n] = Cardinality(Copies(n)')
  <2>1. \A d \in Clients : <<n, d>> \in new[c] => d = c /\ <<n, c>> \notin rows
    <3>1. \A d \in Clients : <<n, d>>[2] = d  OBVIOUS
    <3>. QED  BY <3>1 DEF OwnRows
  <2>2. CASE <<n, c>> \in new[c]
    <3>1. Copies(n)' = Copies(n) \cup {c} /\ c \notin Copies(n)
      BY <1>2, <2>1, <2>2 DEF Copies, CommitRows
    <3>2. IsFiniteSet(Copies(n))  BY LedgerAssumption, FS_Subset DEF Copies
    <3>3. Cardinality(Copies(n)') = Cardinality(Copies(n)) + 1
      BY <3>1, <3>2, FS_AddElement
    <3>. QED  BY <1>2, <2>2, <3>3 DEF CommitRows, OncePerClient
  <2>3. CASE <<n, c>> \notin new[c]
    <3>1. Copies(n)' = Copies(n)  BY <1>2, <2>1, <2>3 DEF Copies, CommitRows
    <3>. QED  BY <1>2, <2>3, <3>1 DEF CommitRows, OncePerClient
  <2>. QED  BY <2>2, <2>3
<1>. QED  BY <1>1, <1>2, RowsChange

\* First uses of a name cost a call, or commit a row, for each client at most:
\* who was refused finds the row, and who has inserted one finds one again.
THEOREM FirstUse == Spec => []FirstUseSettles
<1>. DEFINE Inv == TypeOK /\ OwnRows /\ RaceBound /\ OncePerClient
<1>1. Init => Inv  BY InitTypes, InitRace, InitOnce
<1>2. Inv /\ [Next]_vars => Inv'  BY NextTypes, NextRace, NextOnce
<1>3. Inv => FirstUseSettles
  <2>. SUFFICES ASSUME TypeOK, RaceBound, OncePerClient, NEW n \in Names
                PROVE  refused[n] + inserted[n] <= Cardinality(Clients)
    BY DEF FirstUseSettles
  <2>1. /\ Racing(n) \in SUBSET Clients /\ Copies(n) \in SUBSET Racing(n)
        /\ Copies(n) \in SUBSET Clients
    BY DEF Racing, Copies
  <2>2. Cardinality(Copies(n)) <= Cardinality(Racing(n))  BY <2>1, Sizes
  <2>3. /\ Cardinality(Copies(n)) \in 0..Cardinality(Clients)
        /\ Cardinality(Racing(n)) \in 0..Cardinality(Clients)
        /\ Cardinality(Clients) \in Nat
    BY <2>1, Sizes
  <2>4. refused[n] \in Nat /\ inserted[n] = Cardinality(Copies(n))
    BY DEF TypeOK, OncePerClient
  <2>5. CASE HasRow(n)  BY <2>2, <2>3, <2>4, <2>5 DEF RaceBound, Bound
  <2>6. CASE ~HasRow(n)  BY <2>3, <2>4, <2>6 DEF RaceBound, Bound
  <2>. QED  BY <2>5, <2>6
<1>. QED  BY <1>1, <1>2, <1>3, PTL DEF Spec

----------------------------------------------------------------------------
(* Rows, owners and dates.                                                 *)

IsRow(r) == r \in rows \/ \E c \in Clients : r \in new[c]

\* A unique name has one row, committed or not.
OneRow ==
  \A r, s : IsRow(r) /\ IsRow(s) /\ r[1] = s[1] /\ r[1] \in Unique => r = s

\* A budget's owner is committed.
Owned == \A i \in DOMAIN budgets : budgets[i].owner \in rows

\* Nothing is recorded for a day that is yet to come.
Dated ==
  /\ \A c \in Clients : stamp[c] <= day
  /\ \A r \in Rows, d \in Days : d > day => spent[r][d] = 0

\* A step that only moves, commits or drops rows keeps one of each.
LEMMA SameRows ==
  ASSUME OneRow, \A r : IsRow(r)' => IsRow(r) PROVE OneRow'
BY DEF OneRow

LEMMA InitBooks == Init => OneRow /\ Owned /\ Dated
<1>. SUFFICES ASSUME Init PROVE OneRow /\ Owned /\ Dated  OBVIOUS
<1>1. \A r : ~IsRow(r)  BY DEF Init, IsRow
<1>2. DOMAIN budgets = {}
  <2>1. budgets = <<>>  BY DEF Init
  <2>2. \A i \in DOMAIN budgets : i \in 1..0
    BY <2>1, EmptySeq, LenProperties
  <2>. QED  BY <2>2
<1>3. Dated  BY DEF Init, Dated
<1>. QED  BY <1>1, <1>2, <1>3 DEF OneRow, Owned

LEMMA NextOneRow == TypeOK /\ OneRow /\ [Next]_vars => OneRow'
<1>. SUFFICES ASSUME TypeOK, OneRow, [Next]_vars PROVE OneRow'  OBVIOUS
<1>1. CASE UNCHANGED <<rows, new>>
  BY <1>1, SameRows DEF IsRow
<1>2. ASSUME NEW c \in Clients, rows' \subseteq rows \cup new[c],
             new' = [new EXCEPT ![c] = {}]
      PROVE  OneRow'
  <2>1. \A r : IsRow(r)' => IsRow(r)  BY <1>2 DEF IsRow, TypeOK
  <2>. QED  BY <2>1, SameRows
<1>3. ASSUME NEW c \in Clients, Insert(c) PROVE OneRow'
  <2>1. PICK n \in Names : Insert(c)!2!(n)  BY <1>3 DEF Insert
  <2>2. rows' = rows  BY <1>3 DEF Insert, tables
  <2>3. CASE Leave(c)
    BY <1>2, <2>2, <2>3 DEF Leave
  <2>4. CASE new' = [new EXCEPT ![c] = @ \cup {<<n, c>>}]
             /\ ~(n \in Unique /\ \E r \in rows : r[1] = n)
    <3>1. \A r : IsRow(r)' => IsRow(r) \/ r = <<n, c>>
      BY <2>2, <2>4 DEF IsRow, TypeOK
    <3>2. n \in Unique => \A r : IsRow(r) => r[1] # n
      BY <2>1, <2>4 DEF IsRow
    <3>3. <<n, c>>[1] = n  OBVIOUS
    <3>. SUFFICES ASSUME NEW r, NEW s, IsRow(r)', IsRow(s)', r[1] = s[1], r[1] \in Unique
                  PROVE  r = s
      BY DEF OneRow
    <3>4. CASE IsRow(r) /\ IsRow(s)  BY <3>4 DEF OneRow
    <3>5. CASE r = <<n, c>>  BY <3>1, <3>2, <3>3, <3>5
    <3>6. CASE s = <<n, c>>  BY <3>1, <3>2, <3>3, <3>6
    <3>. QED  BY <3>1, <3>4, <3>5, <3>6
  <2>. QED  BY <2>1, <2>3, <2>4
<1>4. ASSUME NEW c \in Clients, Decide(c) PROVE OneRow'
  BY <1>2, <1>4 DEF Decide, CommitRows, Leave, Call
<1>5. ASSUME NEW c \in Clients, FindBudget(c) PROVE OneRow'
  BY <1>1, <1>2, <1>5 DEF FindBudget, Leave, tables
<1>6. ASSUME NEW c \in Clients,
             NotTracked(c) \/ NoCost(c) \/ InsertBudget(c) \/ Record(c) \/ Fails(c)
      PROVE  OneRow'
  <2>1. Leave(c) /\ rows' \subseteq rows \cup new[c]
    BY <1>6 DEF NotTracked, NoCost, InsertBudget, Record, Fails, CommitRows, tables
  <2>. QED  BY <1>2, <2>1 DEF Leave
<1>7. ASSUME NEW c \in Clients, NEW S \in Attributions,
             CheckBudget(c, S) \/ CallUnchecked(c, S)
      PROVE  OneRow'
  BY <1>1, <1>2, <1>7 DEF CheckBudget, CallUnchecked, Enter, Call, tables
<1>8. ASSUME NEW c \in Clients, NEW n \in Names, CreateBudget(c, n) PROVE OneRow'
  BY <1>1, <1>8 DEF CreateBudget, Enter, tables
<1>9. ASSUME NEW c \in Clients,
             \/ TrackRequest(c) \/ LookUp(c) \/ NewRequest(c) \/ FindBudgets(c) \/ ReadSpend(c)
      PROVE  OneRow'
  BY <1>1, <1>9 DEF TrackRequest, Enter, LookUp, NewRequest, FindBudgets, ReadSpend, tables
<1>10. ASSUME NEW i \in DOMAIN budgets, UpdateBudget(i) PROVE OneRow'
  BY <1>1, <1>10 DEF UpdateBudget, client
<1>11. CASE NewDay  BY <1>1, <1>11 DEF NewDay, client, tables
<1>12. CASE UNCHANGED vars  BY <1>1, <1>12 DEF vars, client, tables
<1>. QED
  BY <1>3, <1>4, <1>5, <1>6, <1>7, <1>8, <1>9, <1>10, <1>11, <1>12
     DEF Next, Session

\* update_budget leaves owners alone, and the number of budgets.
LEMMA UpdatedBudgets ==
  ASSUME TypeOK, NEW i \in DOMAIN budgets, UpdateBudget(i)
  PROVE  /\ DOMAIN budgets' = DOMAIN budgets
         /\ \A j \in DOMAIN budgets : budgets'[j].owner = budgets[j].owner
         /\ \A j \in DOMAIN budgets \ {i} : budgets'[j] = budgets[j]
<1>1. PICK l \in Limits, e \in BOOLEAN :
        budgets' = [budgets EXCEPT ![i].limit = l, ![i].enabled = e]
  BY DEF UpdateBudget
<1>2. budgets[i] \in Budgets  BY DEF TypeOK
<1>3. DOMAIN budgets' = DOMAIN budgets
      /\ \A j \in DOMAIN budgets \ {i} : budgets'[j] = budgets[j]
  BY <1>1 DEF TypeOK
<1>4. budgets'[i].owner = budgets[i].owner  BY <1>1, <1>2 DEF TypeOK, Budgets
<1>. QED  BY <1>3, <1>4

\* create_budget adds one budget, the last, of a row the client found.
LEMMA AddedBudget ==
  ASSUME TypeOK, NEW c \in Clients, InsertBudget(c)
  PROVE  \E r \in found[c], n \in Nat :
           /\ DOMAIN budgets = 1..n /\ DOMAIN budgets' = 1..(n + 1)
           /\ \A j \in 1..n : budgets'[j] = budgets[j] /\ start'[j] = start[j]
           /\ budgets'[n + 1].owner = r /\ budgets'[n + 1].limit \in Nat
           /\ start'[n + 1] = spent[r][day]
<1>1. PICK r \in found[c], l \in Limits :
        /\ budgets' = Append(budgets, [owner |-> r, limit |-> l, enabled |-> TRUE])
        /\ start' = Append(start, spent[r][day])
  BY DEF InsertBudget
<1>. DEFINE b == [owner |-> r, limit |-> l, enabled |-> TRUE]
<1>2. r \in Rows /\ day \in Days /\ spent[r][day] \in Nat  BY DEF TypeOK
<1>3. b \in Budgets /\ b.owner = r /\ b.limit = l /\ l \in Nat
  BY <1>2, LedgerAssumption DEF Budgets
<1>. HIDE DEF b
<1>4. budgets \in Seq(Budgets) /\ Len(budgets) \in Nat /\ DOMAIN budgets = 1..Len(budgets)
  BY LenProperties DEF TypeOK
<1>5. start \in Seq(Nat) /\ Len(start) = Len(budgets)
  BY Parts, CountsAre
<1>6. PICK x : x = spent[r][day]  OBVIOUS
<1>7. /\ Append(budgets, b) \in Seq(Budgets)
      /\ Len(Append(budgets, b)) = Len(budgets) + 1
      /\ \A j \in 1..Len(budgets) : Append(budgets, b)[j] = budgets[j]
      /\ Append(budgets, b)[Len(budgets) + 1] = b
  BY <1>3, <1>4, AppendProperties
<1>8. /\ \A j \in 1..Len(start) : Append(start, x)[j] = start[j]
      /\ Append(start, x)[Len(start) + 1] = x
  BY <1>2, <1>5, <1>6, AppendProperties
<1>9. budgets' = Append(budgets, b) /\ start' = Append(start, x)  BY <1>1, <1>6 DEF b
<1>10. DOMAIN budgets' = 1..(Len(budgets) + 1)  BY <1>7, <1>9, LenProperties
<1>11. /\ \A j \in 1..Len(budgets) : budgets'[j] = budgets[j] /\ start'[j] = start[j]
       /\ budgets'[Len(budgets) + 1] = b /\ start'[Len(budgets) + 1] = x
  BY <1>4, <1>5, <1>7, <1>8, <1>9
<1>. QED  BY <1>3, <1>4, <1>6, <1>10, <1>11

\* Rows are never deleted.
LEMMA RowsGrow == [Next]_vars => rows \subseteq rows'
BY DEF Next, vars, Session, CheckBudget, CallUnchecked, CreateBudget, TrackRequest,
       NotTracked, NoCost, LookUp, Insert, FindBudgets, ReadSpend, Decide, FindBudget,
       InsertBudget, NewRequest, Record, Fails, UpdateBudget, NewDay, CommitRows, tables

\* Only two actions change budgets.
LEMMA BudgetsChange ==
  [Next]_vars => \/ UNCHANGED budgets
                 \/ \E c \in Clients : InsertBudget(c)
                 \/ \E i \in DOMAIN budgets : UpdateBudget(i)
BY DEF Next, vars, Session, CheckBudget, CallUnchecked, CreateBudget, TrackRequest,
       NotTracked, NoCost, LookUp, Insert, FindBudgets, ReadSpend, Decide, FindBudget,
       NewRequest, Record, Fails, NewDay, tables

LEMMA NextOwned == TypeOK /\ Owned /\ [Next]_vars => Owned'
<1>. SUFFICES ASSUME TypeOK, Owned, [Next]_vars PROVE Owned'  OBVIOUS
<1>1. rows \subseteq rows'  BY RowsGrow
<1>2. CASE UNCHANGED budgets  BY <1>1, <1>2 DEF Owned
<1>3. ASSUME NEW c \in Clients, InsertBudget(c) PROVE Owned'
  <2>1. rows' = rows \cup new[c]  BY <1>3 DEF InsertBudget, CommitRows
  <2>2. found[c] \subseteq rows'  BY <2>1 DEF TypeOK
  <2>3. PICK r \in found[c], n \in Nat :
           /\ DOMAIN budgets = 1..n /\ DOMAIN budgets' = 1..(n + 1)
           /\ \A j \in 1..n : budgets'[j] = budgets[j]
           /\ budgets'[n + 1].owner = r
    BY <1>3, AddedBudget
  <2>4. \A j \in 1..(n + 1) : j = n + 1 \/ j \in 1..n  OBVIOUS
  <2>. QED  BY <1>1, <2>2, <2>3, <2>4 DEF Owned
<1>4. ASSUME NEW i \in DOMAIN budgets, UpdateBudget(i) PROVE Owned'
  BY <1>1, <1>4, UpdatedBudgets DEF Owned
<1>. QED  BY <1>2, <1>3, <1>4, BudgetsChange

LEMMA NextDated == TypeOK /\ Dated /\ [Next]_vars => Dated'
<1>. SUFFICES ASSUME TypeOK, Dated, [Next]_vars PROVE Dated'  OBVIOUS
<1>0. day \in Nat /\ Days \subseteq Nat /\ \A c \in Clients : stamp[c] \in Nat
  BY LedgerAssumption DEF TypeOK, Days
<1>1. ASSUME NEW c \in Clients, UNCHANGED <<spent, day>>,
             \/ stamp' = [stamp EXCEPT ![c] = 0] \/ stamp' = [stamp EXCEPT ![c] = day]
             \/ stamp' = stamp
      PROVE  Dated'
  <2>1. ASSUME NEW d \in Clients PROVE stamp'[d] <= day'
    <3>1. stamp \in [Clients -> Days] /\ stamp[d] <= day /\ day' = day
      BY <1>1 DEF TypeOK, Dated
    <3>2. stamp'[d] \in {stamp[d], 0, day}  BY <1>1, <3>1
    <3>. QED  BY <1>0, <3>1, <3>2
  <2>2. \A r \in Rows, d \in Days : d > day' => spent'[r][d] = 0
    BY <1>0, <1>1 DEF Dated
  <2>. QED  BY <2>1, <2>2 DEF Dated
<1>2. CASE UNCHANGED <<spent, day, stamp>>
  <2>1. PICK c \in Clients : TRUE  BY LedgerAssumption
  <2>. QED  BY <1>1, <1>2, <2>1
<1>3. ASSUME NEW c \in Clients, Record(c) PROVE Dated'
  <2>1. \A d \in Clients : stamp'[d] <= day'
    BY <1>0, <1>3 DEF Record, Leave, Dated, TypeOK
  <2>2. \A r \in Rows, d \in Days : d > day => spent'[r][d] = 0
    <3>. SUFFICES ASSUME NEW r \in Rows, NEW d \in Days, d > day PROVE spent'[r][d] = 0
      OBVIOUS
    <3>1. d # stamp[c]  BY <1>0 DEF Dated
    <3>2. spent'[r][d] = spent[r][d]  BY <1>3, <3>1 DEF Record, TypeOK
    <3>. QED  BY <3>2 DEF Dated
  <2>. QED  BY <1>3, <2>1, <2>2 DEF Dated, Record
<1>4. CASE NewDay
  <2>1. day' = day + 1 /\ UNCHANGED <<spent, stamp>>
    BY <1>4 DEF NewDay, tables, client
  <2>2. \A c \in Clients : stamp'[c] <= day'  BY <1>0, <2>1 DEF Dated
  <2>3. \A r \in Rows, d \in Days : d > day' => spent'[r][d] = 0
    <3>. SUFFICES ASSUME NEW r \in Rows, NEW d \in Days, d > day' PROVE spent[r][d] = 0
      BY <2>1
    <3>1. d > day  BY <1>0, <2>1
    <3>. QED  BY <3>1 DEF Dated
  <2>. QED  BY <2>2, <2>3 DEF Dated
<1>5. ASSUME NEW c \in Clients,
             \/ NotTracked(c) \/ NoCost(c) \/ InsertBudget(c) \/ Fails(c)
             \/ Insert(c) \/ Decide(c) \/ FindBudget(c) \/ NewRequest(c)
             \/ LookUp(c) \/ TrackRequest(c) \/ FindBudgets(c) \/ ReadSpend(c)
             \/ \E S \in Attributions : CheckBudget(c, S) \/ CallUnchecked(c, S)
             \/ \E n \in Names : CreateBudget(c, n)
      PROVE  Dated'
  <2>1. UNCHANGED <<spent, day>>
    BY <1>5 DEF NotTracked, NoCost, InsertBudget, Fails, Insert, Decide, FindBudget,
                NewRequest, LookUp, TrackRequest, CheckBudget, CallUnchecked, FindBudgets,
                ReadSpend, CreateBudget, tables
  <2>2. \/ stamp' = [stamp EXCEPT ![c] = 0] \/ stamp' = [stamp EXCEPT ![c] = day]
        \/ stamp' = stamp
    BY <1>5 DEF NotTracked, NoCost, InsertBudget, Fails, Insert, Decide, FindBudget,
                NewRequest, LookUp, TrackRequest, CheckBudget, CallUnchecked, FindBudgets,
                ReadSpend, CreateBudget, Leave, Enter, Call
  <2>. QED  BY <1>1, <2>1, <2>2
<1>6. ASSUME NEW i \in DOMAIN budgets, UpdateBudget(i) PROVE Dated'
  BY <1>2, <1>6 DEF UpdateBudget, client
<1>7. CASE UNCHANGED vars  BY <1>2, <1>7 DEF vars, tables, client
<1>. QED  BY <1>3, <1>4, <1>5, <1>6, <1>7 DEF Next, Session

----------------------------------------------------------------------------
(* Overspending.                                                           *)

\* A client that examines budgets has found a row for each of its names.
AllResolved == \A c \in Clients : pc[c] = "check" => Unresolved(c) = {}

\* The clients whose request is let through as far as b is concerned: it is
\* underway, or they are still at other budgets.
Passed(b) ==
  Underway(b.owner[1])
    \cup {c \in Clients : pc[c] = "check" /\ b.owner \in found[c] /\ b \notin seen[c]}

\* What is true of one budget, of all those clients.
Within(i) ==
  LET b == budgets[i] IN
    b.enabled /\ Alone(b.owner) =>
      spent[b.owner][day] + Cardinality(Passed(b))
        < Most(b.limit, start[i] + 1) + Cardinality(Clients)

Bounded == block => \A i \in DOMAIN budgets : Within(i)

LEMMA InitResolved == Init => AllResolved
BY DEF Init, AllResolved

\* Clients get to examine budgets by FindBudgets only.
LEMMA NextResolved == TypeOK /\ AllResolved /\ [Next]_vars => AllResolved'
<1>. SUFFICES ASSUME TypeOK, AllResolved, [Next]_vars PROVE AllResolved'  OBVIOUS
<1>1. CASE UNCHANGED client  BY <1>1 DEF client, AllResolved, Unresolved
<1>2. ASSUME NEW c \in Clients, pc'[c] # "check",
             \A d \in Clients \ {c} :
               pc'[d] = pc[d] /\ names'[d] = names[d] /\ found'[d] = found[d]
      PROVE  AllResolved'
  BY <1>2 DEF AllResolved, Unresolved
<1>3. ASSUME NEW c \in Clients, Leave(c) PROVE AllResolved'
  BY <1>2, <1>3 DEF Leave, TypeOK
<1>4. ASSUME NEW c \in Clients, NEW S, Call(c, S) \/ \E o : Enter(c, o, S)
      PROVE  AllResolved'
  BY <1>2, <1>4 DEF Call, Enter, TypeOK
<1>5. ASSUME NEW c \in Clients, LookUp(c) \/ Insert(c) \/ FindBudget(c) \/ NewRequest(c)
      PROVE  AllResolved'
  <2>1. CASE Leave(c)  BY <1>3, <2>1
  <2>2. CASE ~Leave(c)
    <3>1. pc'[c] # "check"
      BY <1>5, <2>2 DEF LookUp, Insert, FindBudget, NewRequest, Resolved, TypeOK
    <3>2. \A d \in Clients \ {c} :
            pc'[d] = pc[d] /\ names'[d] = names[d] /\ found'[d] = found[d]
      BY <1>5, <2>2 DEF LookUp, Insert, FindBudget, NewRequest, TypeOK
    <3>. QED  BY <1>2, <3>1, <3>2
  <2>. QED  BY <2>1, <2>2
<1>6. ASSUME NEW c \in Clients, FindBudgets(c) \/ ReadSpend(c) PROVE AllResolved'
  <2>1. UNCHANGED <<names, found>> /\ Unresolved(c) = {}
    BY <1>6 DEF FindBudgets, ReadSpend, Resolved, AllResolved
  <2>2. \A d \in Clients \ {c} : pc'[d] = pc[d]
    BY <1>6 DEF FindBudgets, ReadSpend, TypeOK
  <2>. QED  BY <2>1, <2>2 DEF AllResolved, Unresolved
<1>7. ASSUME NEW c \in Clients,
             NotTracked(c) \/ NoCost(c) \/ InsertBudget(c) \/ Record(c) \/ Fails(c) \/ Decide(c)
      PROVE  AllResolved'
  BY <1>3, <1>4, <1>7 DEF NotTracked, NoCost, InsertBudget, Record, Fails, Decide
<1>8. ASSUME NEW c \in Clients,
             \/ TrackRequest(c) \/ \E n \in Names : CreateBudget(c, n)
             \/ \E S \in Attributions : CheckBudget(c, S) \/ CallUnchecked(c, S)
      PROVE  AllResolved'
  BY <1>4, <1>8 DEF TrackRequest, CreateBudget, CheckBudget, CallUnchecked
<1>9. ASSUME NEW i \in DOMAIN budgets, UpdateBudget(i) PROVE AllResolved'
  BY <1>1, <1>9 DEF UpdateBudget
<1>10. CASE NewDay  BY <1>1, <1>10 DEF NewDay
<1>11. CASE UNCHANGED vars  BY <1>1, <1>11 DEF vars
<1>. QED
  BY <1>5, <1>6, <1>7, <1>8, <1>9, <1>10, <1>11 DEF Next, Session

\* The numbers a budget is about.
LEMMA BudgetTypes ==
  ASSUME TypeOK, NEW i \in DOMAIN budgets
  PROVE  /\ budgets[i].owner \in Rows /\ budgets[i].owner[1] \in Names
         /\ budgets[i].limit \in Nat /\ start[i] \in Nat
         /\ Most(budgets[i].limit, start[i] + 1) \in Nat
         /\ \A d \in Days : spent[budgets[i].owner][d] \in Nat
<1>1. i \in 1..Len(budgets) /\ budgets[i] \in Budgets
  BY LenProperties DEF TypeOK
<1>2. /\ budgets[i].owner \in Rows /\ budgets[i].owner[1] \in Names
      /\ budgets[i].limit \in Nat /\ start[i] \in Nat
  BY <1>1, LedgerAssumption DEF TypeOK, Budgets, Rows
<1>. QED  BY <1>2 DEF TypeOK, Most

\* Rows only become more, so that a row that is alone was.
LEMMA AloneBefore ==
  ASSUME rows \subseteq rows', NEW r, Alone(r)' PROVE Alone(r)
BY DEF Alone

\* A budget with something left bears one request of every client.
Room ==
  \A i \in DOMAIN budgets :
    /\ budgets[i].limit \in Nat
    /\ spent[budgets[i].owner][day] < Most(budgets[i].limit, start[i] + 1) => Within(i)

LEMMA SomethingLeft == TypeOK => Room
<1>. SUFFICES ASSUME TypeOK, NEW i \in DOMAIN budgets,
                     spent[budgets[i].owner][day] < Most(budgets[i].limit, start[i] + 1)
              PROVE  Within(i)
  BY BudgetTypes DEF Room
<1>1. Passed(budgets[i]) \in SUBSET Clients  BY DEF Passed, Underway
<1>2. Cardinality(Passed(budgets[i])) \in 0..Cardinality(Clients)
      /\ Cardinality(Clients) \in Nat
  BY <1>1, Sizes
<1>3. day \in Days  BY DEF TypeOK
<1>. QED  BY <1>2, <1>3, BudgetTypes DEF Within

\* A step that spends nothing, and lets no request pass a budget, keeps its bound.
LEMMA StaysWithin ==
  ASSUME TypeOK, NEW i \in DOMAIN budgets, Within(i),
         UNCHANGED <<day, spent>>, rows \subseteq rows', start'[i] = start[i],
         NEW b, b = budgets[i], b = budgets'[i], b.enabled => Passed(b)' \subseteq Passed(b)
  PROVE  Within(i)'
<1>. SUFFICES ASSUME b.enabled, Alone(b.owner)'
              PROVE  spent'[b.owner][day'] + Cardinality(Passed(b)')
                       < Most(b.limit, start'[i] + 1) + Cardinality(Clients)
  BY DEF Within
<1>1. Passed(b)' \in SUBSET Passed(b) /\ Passed(b) \in SUBSET Clients
      /\ Passed(b)' \in SUBSET Clients
  BY DEF Passed, Underway
<1>2. Cardinality(Passed(b)') <= Cardinality(Passed(b))  BY <1>1, Sizes
<1>3. Cardinality(Passed(b)) \in 0..Cardinality(Clients)  BY <1>1, Sizes
<1>4. Cardinality(Passed(b)') \in 0..Cardinality(Clients)  BY <1>1, Sizes
<1>5. /\ Cardinality(Clients) \in Nat /\ spent[b.owner][day] \in Nat
      /\ Most(b.limit, start[i] + 1) \in Nat
  BY BudgetTypes, Sizes DEF TypeOK
<1>6. Alone(b.owner)  BY AloneBefore
<1>7. spent[b.owner][day] + Cardinality(Passed(b))
        < Most(b.limit, start[i] + 1) + Cardinality(Clients)
  BY <1>6 DEF Within
<1>. QED  BY <1>2, <1>3, <1>4, <1>5, <1>7

LEMMA NothingSpent ==
  ASSUME TypeOK, Bounded, UNCHANGED <<block, day, spent, budgets, start>>,
         rows \subseteq rows', \A b : Passed(b)' \subseteq Passed(b)
  PROVE  Bounded'
<1>. SUFFICES ASSUME block, NEW i \in DOMAIN budgets PROVE Within(i)'
  BY DEF Bounded
<1>1. PICK b : b = budgets[i]  OBVIOUS
<1>2. Within(i)  BY DEF Bounded
<1>. QED  BY <1>1, <1>2, StaysWithin

\* Who leaves has not passed, and who enters a session has if it had.
LEMMA Leaving ==
  ASSUME TypeOK, NEW c \in Clients, Leave(c), NEW b
  PROVE  Passed(b)' = Passed(b) \ {c}
BY DEF TypeOK, Leave, Passed, Underway

LEMMA Entering ==
  ASSUME TypeOK, NEW c \in Clients, NEW S, NEW o \in {"check", "create", "track"},
         Enter(c, o, S), o = "track" => pc[c] # "idle" /\ op[c] = "track" /\ S = names[c],
         NEW b
  PROVE  Passed(b)' \subseteq Passed(b)
BY DEF TypeOK, Enter, Passed, Underway

\* Every step keeps the bound.
LEMMA NextOverspend ==
  TypeOK /\ TypeOK' /\ Facts /\ AllResolved /\ OneRow /\ Owned /\ Dated /\ Bounded /\ [Next]_vars
    => Bounded'
<1>. SUFFICES ASSUME TypeOK, TypeOK', Facts, AllResolved, OneRow, Owned, Dated, Bounded,
                     [Next]_vars
              PROVE  Bounded'
  OBVIOUS
<1>00. /\ rows \subseteq rows'
      /\ \A r : Alone(r)' => Alone(r)
  BY RowsGrow, AloneBefore
<1>0. Room'
  <2>1. TypeOK' => Room'  BY SomethingLeft, PTL
  <2>. QED  BY <2>1
<1>1. CASE UNCHANGED <<block, day, spent, budgets, start, client>>
  BY <1>1, <1>00, NothingSpent DEF Passed, Underway, client
<1>2. ASSUME NEW c \in Clients, Leave(c), UNCHANGED <<block, day, spent, budgets, start>>
      PROVE  Bounded'
  BY <1>00, <1>2, Leaving, NothingSpent
<1>3. ASSUME NEW c \in Clients, NotTracked(c) \/ NoCost(c) \/ Fails(c)
      PROVE  Bounded'
  BY <1>2, <1>3 DEF NotTracked, NoCost, Fails, tables
<1>4. ASSUME NEW c \in Clients, LookUp(c) PROVE Bounded'
  <2>1. \A b : Passed(b)' \subseteq Passed(b)
    BY <1>4 DEF LookUp, TypeOK, Passed, Underway
  <2>2. UNCHANGED <<block, day, spent, budgets, start>>  BY <1>4 DEF LookUp, tables
  <2>. QED  BY <2>1, <2>2, <1>00, NothingSpent
<1>5. ASSUME NEW c \in Clients, Insert(c) PROVE Bounded'
  <2>1. PICK n \in Names : Insert(c)!2!(n)  BY <1>5 DEF Insert
  <2>2. UNCHANGED <<block, day, spent, budgets, start>>  BY <1>5 DEF Insert, tables
  <2>3. CASE Leave(c)  BY <1>2, <2>2, <2>3
  <2>4. CASE /\ pc' = [pc EXCEPT ![c] = "resolve"] /\ UNCHANGED <<op, names, seen>>
             /\ found' = [found EXCEPT ![c] = @ \cup {<<n, c>>}]
    <3>1. \A b : Passed(b)' \subseteq Passed(b)
      BY <1>5, <2>4 DEF Insert, TypeOK, Passed, Underway
    <3>. QED  BY <2>2, <3>1, <1>00, NothingSpent
  <2>. QED  BY <2>1, <2>3, <2>4
<1>6. ASSUME NEW c \in Clients, FindBudget(c) PROVE Bounded'
  <2>1. UNCHANGED <<block, day, spent, budgets, start>>  BY <1>6 DEF FindBudget, tables
  <2>2. CASE Leave(c)  BY <1>2, <2>1, <2>2
  <2>3. CASE /\ pc' = [pc EXCEPT ![c] = "create"]
             /\ UNCHANGED <<op, names, found, new, seen, stamp>>
    <3>1. \A b : Passed(b)' \subseteq Passed(b)
      BY <1>6, <2>3 DEF FindBudget, Resolved, TypeOK, Passed, Underway
    <3>. QED  BY <2>1, <3>1, <1>00, NothingSpent
  <2>. QED  BY <1>6, <2>2, <2>3 DEF FindBudget
<1>7. ASSUME NEW c \in Clients, NewRequest(c) PROVE Bounded'
  <2>1. UNCHANGED <<block, day, spent, budgets, start>>  BY <1>7 DEF NewRequest, tables
  <2>2. \A b : Passed(b)' \subseteq Passed(b)
    BY <1>7 DEF NewRequest, Resolved, TypeOK, Passed, Underway
  <2>. QED  BY <2>1, <2>2, <1>00, NothingSpent
<1>8. ASSUME NEW c \in Clients, NEW S \in Attributions, CheckBudget(c, S)
      PROVE  Bounded'
  BY <1>8, Entering, <1>00, NothingSpent DEF CheckBudget, tables
<1>9. ASSUME NEW c \in Clients, NEW S \in Attributions, CallUnchecked(c, S)
      PROVE  Bounded'
  BY <1>9 DEF CallUnchecked, Bounded
<1>10. ASSUME NEW c \in Clients, NEW n \in Names, CreateBudget(c, n)
       PROVE  Bounded'
  BY <1>10, Entering, <1>00, NothingSpent DEF CreateBudget, tables
<1>11. ASSUME NEW c \in Clients, TrackRequest(c) PROVE Bounded'
  BY <1>11, Entering, <1>00, NothingSpent DEF TrackRequest, tables, Facts
<1>12. CASE UNCHANGED vars  BY <1>1, <1>12 DEF vars, tables
<1>14. ASSUME NEW c \in Clients, FindBudgets(c) PROVE Bounded'
  <2>1. UNCHANGED <<block, day, spent, budgets, start>>  BY <1>14 DEF FindBudgets, tables
  <2>. SUFFICES ASSUME block, NEW i \in DOMAIN budgets PROVE Within(i)'
    BY <2>1 DEF Bounded
  <2>2. PICK b : b = budgets[i]  OBVIOUS
  <2>3. ASSUME b.enabled PROVE Passed(b)' \subseteq Passed(b)
    <3>1. b.owner \in found[c] => b \in seen'[c]
      BY <1>14, <2>2, <2>3 DEF FindBudgets, TypeOK
    <3>2. /\ UNCHANGED <<op, names, found>> /\ pc[c] # "idle"
          /\ \A d \in Clients \ {c} : pc'[d] = pc[d] /\ seen'[d] = seen[d]
      BY <1>14 DEF FindBudgets, Resolved, TypeOK
    <3>. QED  BY <3>1, <3>2 DEF Passed, Underway
  <2>4. Within(i)  BY DEF Bounded
  <2>. QED  BY <1>00, <2>1, <2>2, <2>3, <2>4, StaysWithin
<1>19. ASSUME NEW c \in Clients, ReadSpend(c) PROVE Bounded'
  <2>1. UNCHANGED <<block, day, spent, budgets, start, op, names, found>> /\ pc[c] = "check"
    BY <1>19 DEF ReadSpend, tables
  <2>2. CASE pc' = [pc EXCEPT ![c] = "refuse"] /\ UNCHANGED seen
    <3>1. ASSUME NEW b PROVE Passed(b)' \subseteq Passed(b)
      <4>1. \A d \in Clients :
              (pc'[d] # "idle" => pc[d] # "idle") /\ (pc'[d] = "check" => pc[d] = "check")
        BY <2>1, <2>2 DEF TypeOK
      <4>. QED  BY <2>1, <2>2, <4>1 DEF Passed, Underway
    <3>. QED  BY <2>1, <3>1, <1>00, NothingSpent
  <2>3. ASSUME NEW x \in seen[c], ~(block /\ Exceeded(x)), UNCHANGED pc,
               seen' = [seen EXCEPT ![c] = @ \ {x}]
        PROVE  Bounded'
    <3>. SUFFICES ASSUME block, NEW i \in DOMAIN budgets PROVE Within(i)'
      BY <2>1 DEF Bounded
    <3>1. PICK b : b = budgets[i]  OBVIOUS
    <3>2. CASE b = x
      <4>0. spent[b.owner][day] \in Nat /\ b.limit \in Nat /\ start[i] \in Nat
        BY <3>1, BudgetTypes DEF TypeOK
      <4>1. spent[b.owner][day] < b.limit  BY <2>3, <3>2, <4>0 DEF Exceeded
      <4>2. spent[b.owner][day] < Most(b.limit, start[i] + 1)  BY <4>0, <4>1 DEF Most
      <4>3. i \in DOMAIN budgets' /\ b = budgets'[i]  BY <2>1, <3>1
      <4>. QED  BY <1>0, <2>1, <4>2, <4>3 DEF Room
    <3>3. CASE b # x
      <4>1. Passed(b)' \subseteq Passed(b)
        BY <2>1, <2>3, <3>3 DEF Passed, Underway, TypeOK
      <4>2. Within(i)  BY DEF Bounded
      <4>. QED  BY <1>00, <2>1, <3>1, <4>1, <4>2, StaysWithin
    <3>. QED  BY <3>2, <3>3
  <2>. QED  BY <1>19, <2>2, <2>3 DEF ReadSpend
<1>13. ASSUME NEW c \in Clients, Decide(c) PROVE Bounded'
  <2>1. UNCHANGED <<block, day, spent, budgets, start>>  BY <1>13 DEF Decide
  <2>2. CASE Leave(c)  BY <1>2, <2>1, <2>2
  <2>3. CASE pc[c] = "check" /\ seen[c] = {} /\ Call(c, names[c])
    <3>. SUFFICES ASSUME block, NEW i \in DOMAIN budgets PROVE Within(i)'
      BY <2>1 DEF Bounded
    <3>1. PICK b : b = budgets[i]  OBVIOUS
    <3>2. CASE b.owner[1] \in names[c] => b.owner \in found[c]
      <4>1. Passed(b)' \subseteq Passed(b)
        BY <2>3, <3>2 DEF Call, TypeOK, Passed, Underway
      <4>2. Within(i)  BY DEF Bounded
      <4>. QED  BY <1>00, <2>1, <3>1, <4>1, <4>2, StaysWithin
    <3>3. CASE b.owner[1] \in names[c] /\ b.owner \notin found[c]
      <4>1. PICK r \in found[c] : r[1] = b.owner[1]
        BY <2>3, <3>3, BudgetTypes DEF AllResolved, Unresolved
      <4>2. IsRow(r) /\ IsRow(b.owner) /\ r \in rows' /\ r # b.owner
        BY <1>13, <3>1, <3>3, <4>1 DEF Decide, CommitRows, TypeOK, IsRow, Owned
      <4>3. ~Alone(b.owner)'  BY <4>1, <4>2 DEF Alone, OneRow
      <4>4. budgets'[i] = b  BY <2>1, <3>1
      <4>. QED  BY <4>3, <4>4 DEF Within
    <3>. QED  BY <3>2, <3>3
  <2>. QED  BY <1>13, <2>2, <2>3 DEF Decide
<1>15. ASSUME NEW c \in Clients, InsertBudget(c) PROVE Bounded'
  <2>. SUFFICES ASSUME block, NEW i \in DOMAIN budgets' PROVE Within(i)'
    BY <1>15 DEF Bounded, InsertBudget
  <2>1. UNCHANGED <<block, day, spent>> /\ Leave(c)  BY <1>15 DEF InsertBudget
  <2>2. PICK r \in found[c], n \in Nat :
           /\ DOMAIN budgets = 1..n /\ DOMAIN budgets' = 1..(n + 1)
           /\ \A j \in 1..n : budgets'[j] = budgets[j] /\ start'[j] = start[j]
           /\ budgets'[n + 1].owner = r /\ budgets'[n + 1].limit \in Nat
           /\ start'[n + 1] = spent[r][day]
    BY <1>15, AddedBudget
  <2>3. CASE i = n + 1
    <3>1. spent[r][day] \in Nat  BY DEF TypeOK
    <3>2. spent'[budgets'[i].owner][day'] < Most(budgets'[i].limit, start'[i] + 1)
      BY <2>1, <2>2, <2>3, <3>1 DEF Most
    <3>. QED  BY <1>0, <3>2 DEF Room
  <2>4. CASE i \in 1..n
    <3>1. PICK b : b = budgets[i]  OBVIOUS
    <3>2. i \in DOMAIN budgets /\ b = budgets'[i] /\ start'[i] = start[i]  BY <2>2, <2>4, <3>1
    <3>3. Passed(b)' \subseteq Passed(b)  BY <2>1, Leaving
    <3>4. Within(i)  BY <3>2 DEF Bounded
    <3>. QED  BY <1>00, <2>1, <3>1, <3>2, <3>3, <3>4, StaysWithin
  <2>. QED  BY <2>2, <2>3, <2>4
<1>16. ASSUME NEW c \in Clients, Record(c) PROVE Bounded'
  <2>1. UNCHANGED <<block, day, budgets, start>> /\ Leave(c)  BY <1>16 DEF Record
  <2>. SUFFICES ASSUME block, NEW i \in DOMAIN budgets PROVE Within(i)'
    BY <2>1 DEF Bounded
  <2>2. Within(i)  BY DEF Bounded
  <2>3. PICK b, o : b = budgets[i] /\ o = b.owner  OBVIOUS
  <2>4. o \in Rows /\ o[1] \in Names /\ spent[o][day] \in Nat
        /\ Most(b.limit, start[i] + 1) \in Nat
    BY <2>3, BudgetTypes DEF TypeOK
  <2>5. Passed(b)' = Passed(b) \ {c}  BY <2>1, Leaving
  <2>6. Passed(b) \in SUBSET Clients /\ Passed(b)' \in SUBSET Passed(b)
        /\ Passed(b)' \in SUBSET Clients
    BY <2>5 DEF Passed, Underway
  <2>8. Cardinality(Passed(b)) \in 0..Cardinality(Clients)  BY <2>6, Sizes
  <2>9. Cardinality(Passed(b)') \in 0..Cardinality(Clients)  BY <2>6, Sizes
  <2>10. Cardinality(Clients) \in Nat  BY Sizes
  <2>11. CASE o \in found[c]
    <3>1. c \in Passed(b) \ Passed(b)'
      BY <1>16, <2>3, <2>5, <2>11 DEF Record, Passed, Underway, Facts
    <3>2. Cardinality(Passed(b)') + 1 <= Cardinality(Passed(b))
      BY <2>6, <3>1, Sizes
    <3>3. spent'[o][day] \in Nat /\ spent'[o][day] <= spent[o][day] + 1
      BY <1>16, <2>4, <2>11 DEF Record, TypeOK
    <3>. QED  BY <1>00, <2>1, <2>2, <2>3, <2>4, <2>8, <2>9, <2>10, <3>2, <3>3 DEF Within
  <2>12. CASE o \notin found[c]
    <3>1. spent'[o][day] = spent[o][day]  BY <1>16, <2>4, <2>12 DEF Record, TypeOK
    <3>2. Cardinality(Passed(b)') <= Cardinality(Passed(b))  BY <2>6, Sizes
    <3>. QED  BY <1>00, <2>1, <2>2, <2>3, <2>4, <2>8, <2>9, <2>10, <3>1, <3>2 DEF Within
  <2>. QED  BY <2>11, <2>12
<1>17. ASSUME NEW k \in DOMAIN budgets, UpdateBudget(k) PROVE Bounded'
  <2>1. UNCHANGED <<block, day, spent, client>>
        /\ start' = [start EXCEPT ![k] = spent[budgets[k].owner][day]]
    BY <1>17 DEF UpdateBudget
  <2>2. /\ DOMAIN budgets' = DOMAIN budgets
        /\ \A j \in DOMAIN budgets : budgets'[j].owner = budgets[j].owner
        /\ \A j \in DOMAIN budgets \ {k} : budgets'[j] = budgets[j]
    BY <1>17, UpdatedBudgets
  <2>3. \A j \in DOMAIN budgets : j \in DOMAIN start
    BY LenProperties DEF TypeOK
  <2>. SUFFICES ASSUME block, NEW i \in DOMAIN budgets PROVE Within(i)'
    BY <2>1, <2>2 DEF Bounded
  <2>4. CASE i = k
    <3>1. start'[k] = spent[budgets[k].owner][day]  BY <2>1, <2>3
    <3>2. /\ spent'[budgets'[k].owner][day'] = start'[k] /\ start'[k] \in Nat
      BY <2>1, <2>2, <3>1, BudgetTypes DEF TypeOK
    <3>3. budgets'[k].limit \in Nat  BY <1>0, <2>2 DEF Room
    <3>4. spent'[budgets'[k].owner][day'] < Most(budgets'[k].limit, start'[k] + 1)
      BY <3>2, <3>3 DEF Most
    <3>. QED  BY <1>0, <2>2, <2>4, <3>4 DEF Room
  <2>5. CASE i # k
    <3>1. PICK b : b = budgets[i]  OBVIOUS
    <3>2. b = budgets'[i] /\ start'[i] = start[i]  BY <2>1, <2>2, <2>3, <2>5, <3>1
    <3>3. Passed(b)' = Passed(b)  BY <2>1 DEF Passed, Underway, client
    <3>4. Within(i)  BY DEF Bounded
    <3>. QED  BY <1>00, <2>1, <3>1, <3>2, <3>3, <3>4, StaysWithin
  <2>. QED  BY <2>4, <2>5
<1>18. CASE NewDay
  <2>1. /\ day' = day + 1 /\ day < LastDay /\ UNCHANGED <<block, spent, budgets>>
        /\ start' = [i \in DOMAIN start |-> 0]
    BY <1>18 DEF NewDay, tables
  <2>2. day' \in Days /\ day' > day  BY <2>1, LedgerAssumption DEF TypeOK, Days
  <2>. SUFFICES ASSUME block, NEW i \in DOMAIN budgets PROVE Within(i)'
    BY <2>1 DEF Bounded
  <2>3. spent'[budgets'[i].owner][day'] = 0
    BY <2>1, <2>2, BudgetTypes DEF Dated
  <2>4. start'[i] = 0 /\ budgets'[i].limit \in Nat
    <3>1. i \in DOMAIN start  BY LenProperties DEF TypeOK
    <3>. QED  BY <2>1, <3>1, BudgetTypes
  <2>5. spent'[budgets'[i].owner][day'] < Most(budgets'[i].limit, start'[i] + 1)
    BY <2>3, <2>4 DEF Most
  <2>. QED  BY <1>0, <2>1, <2>5 DEF Room
<1>. QED
  BY <1>3, <1>4, <1>5, <1>6, <1>7, <1>8, <1>9, <1>10, <1>11, <1>12, <1>13, <1>14,
     <1>15, <1>16, <1>17, <1>18, <1>19 DEF Next, Session

\* Clients underway have passed.
LEMMA BoundedOverspend == TypeOK /\ Bounded => OverspendBounded
<1>. SUFFICES ASSUME TypeOK, block, NEW i \in DOMAIN budgets, Within(i),
                     NEW b, b = budgets[i], b.enabled, Alone(b.owner)
              PROVE  spent[b.owner][day] + Cardinality(Underway(b.owner[1]))
                       < Most(b.limit, start[i] + 1) + Cardinality(Clients)
  BY DEF Bounded, OverspendBounded
<1>1. Underway(b.owner[1]) \in SUBSET Passed(b) /\ Passed(b) \in SUBSET Clients
      /\ Underway(b.owner[1]) \in SUBSET Clients
  BY DEF Passed, Underway
<1>2. Cardinality(Underway(b.owner[1])) <= Cardinality(Passed(b))  BY <1>1, Sizes
<1>3. Cardinality(Passed(b)) \in 0..Cardinality(Clients)  BY <1>1, Sizes
<1>4. Cardinality(Underway(b.owner[1])) \in 0..Cardinality(Clients)  BY <1>1, Sizes
<1>5. /\ Cardinality(Clients) \in Nat /\ spent[b.owner][day] \in Nat
      /\ Most(b.limit, start[i] + 1) \in Nat
  BY BudgetTypes, Sizes DEF TypeOK
<1>6. spent[b.owner][day] + Cardinality(Passed(b))
        < Most(b.limit, start[i] + 1) + Cardinality(Clients)
  BY DEF Within
<1>. QED  BY <1>2, <1>3, <1>4, <1>5, <1>6

\* With blocking, a budget is overspent by at most one request per client.
THEOREM Overspend == Spec => []OverspendBounded
<1>. DEFINE Inv == TypeOK /\ Facts /\ AllResolved /\ OneRow /\ Owned /\ Dated /\ Bounded
<1>1. Init => Inv
  <2>1. Init => Bounded
    <3>. SUFFICES ASSUME Init PROVE Bounded  OBVIOUS
    <3>1. \A i \in DOMAIN budgets : i \in 1..0
      <4>1. budgets = <<>>  BY DEF Init
      <4>. QED  BY <4>1, EmptySeq, LenProperties
    <3>. QED  BY <3>1 DEF Bounded
  <2>. QED  BY <2>1, InitTypes, InitFacts, InitResolved, InitBooks
<1>2. Inv /\ [Next]_vars => Inv'
  BY NextTypes, NextFacts, NextResolved, NextOneRow, NextOwned, NextDated, NextOverspend
<1>3. Inv => OverspendBounded  BY BoundedOverspend
<1>. QED  BY <1>1, <1>2, <1>3, PTL DEF Spec

----------------------------------------------------------------------------
(* The ledger.                                                             *)

\* A step of an aggregating process changes nothing of the ledger.
LEMMA LedgerStep == [AllNext]_allvars => [Next]_vars
BY DEF AllNext, Aggregation, Materialize, Read, Delete, InsertAggregates, RunFails, allvars

\* The clients behave as they do alone, so the theorems of the ledger hold
\* beside any number of aggregating processes.
THEOREM LeavesLedger == AllSpec => Spec
<1>1. AllInit => Init  BY DEF AllInit
<1>. QED  BY <1>1, LedgerStep, PTL DEF AllSpec, Spec

\* What is recorded stays recorded.
LEMMA SpentGrows ==
  ASSUME TypeOK, [Next]_vars, NEW r \in Rows, NEW d \in Days
  PROVE  spent[r][d] \in Nat /\ spent'[r][d] \in Nat /\ spent[r][d] <= spent'[r][d]
<1>1. spent[r][d] \in Nat  BY DEF TypeOK
<1>2. CASE UNCHANGED spent  BY <1>1, <1>2
<1>3. ASSUME NEW c \in Clients, Record(c) PROVE spent'[r][d] \in {spent[r][d], spent[r][d] + 1}
  BY <1>1, <1>3 DEF Record, TypeOK
<1>4. UNCHANGED spent \/ \E c \in Clients : Record(c)
  BY DEF Next, vars, Session, CheckBudget, CallUnchecked, CreateBudget, TrackRequest,
         NotTracked, NoCost, LookUp, Insert, FindBudgets, ReadSpend, Decide, FindBudget,
         InsertBudget, NewRequest,
         Fails, UpdateBudget, NewDay, tables
<1>. QED  BY <1>1, <1>2, <1>3, <1>4

----------------------------------------------------------------------------
(* Types.                                                                  *)

\* There is a first dimension.
LEMMA First == FirstDim \in Names /\ \A m \in Names : FirstDim <= m
<1>1. \E n \in Names : \A m \in Names : n <= m
  <2>1. Names \subseteq Nat /\ Names # {}  BY LedgerAssumption, AggregatesAssumption
  <2>2. PICK n \in Names : \A m \in Names : ~(<<m, n>> \in OpToRel(<, Nat))
    BY <2>1, NatLessThanWellFounded, WFMin
  <2>3. ASSUME NEW m \in Names, m < n PROVE FALSE
    <3>1. <<m, n>> \in OpToRel(<, Nat)  BY <2>1, <2>3 DEF OpToRel
    <3>. QED  BY <2>2, <3>1
  <2>. QED  BY <2>1, <2>3
<1>. QED  BY <1>1 DEF FirstDim

LEMMA InitAggregates == AllInit => TypeOK /\ AggregatesTypeOK
<1>. SUFFICES ASSUME AllInit PROVE TypeOK /\ AggregatesTypeOK  OBVIOUS
<1>1. 0 \in Days /\ Nothing \in [Rows -> Nat]
  BY LedgerAssumption DEF Days, Nothing
<1>2. AggregatesTypeOK
  BY <1>1, First, AggregatesAssumption DEF AllInit, AggregatesTypeOK
<1>. QED  BY <1>2, InitTypes DEF AllInit

\* What NextDim and EndRun do to the types of where a process is.
Whereabouts ==
  /\ at \in [Runners -> {"idle", "read", "delete", "insert", "done"}]
  /\ dim \in [Runners -> Names]
  /\ target \in [Runners -> Days]
  /\ due \in [Runners -> [Rows -> Nat]]

LEMMA EndRunTypes ==
  ASSUME Whereabouts, NEW q \in Runners, NEW l \in {"idle", "done"}, EndRun(q, l)
  PROVE  /\ Whereabouts' /\ at'[q] = l /\ due'[q] = Nothing
         /\ \A p \in Runners \ {q} : at'[p] = at[p] /\ due'[p] = due[p]
                                     /\ target'[p] = target[p] /\ dim'[p] = dim[p]
<1>1. 0 \in Days /\ Nothing \in [Rows -> Nat]
  BY LedgerAssumption DEF Days, Nothing
<1>. QED  BY <1>1, First DEF Whereabouts, EndRun

LEMMA NextDimTypes ==
  ASSUME Whereabouts, NEW q \in Runners, NextDim(q)
  PROVE  /\ Whereabouts' /\ at'[q] \in {"read", "done"}
         /\ \/ due'[q] = Nothing
            \/ (due'[q] = due[q] /\ target'[q] = target[q])
         /\ \A p \in Runners \ {q} : at'[p] = at[p] /\ due'[p] = due[p]
                                     /\ target'[p] = target[p] /\ dim'[p] = dim[p]
<1>1. CASE EndRun(q, "done")  BY <1>1, EndRunTypes
<1>2. ASSUME NEW n \in Names, dim' = [dim EXCEPT ![q] = n],
             at' = [at EXCEPT ![q] = "read"], UNCHANGED <<target, due>>
      PROVE  /\ Whereabouts' /\ at'[q] = "read"
             /\ due'[q] = due[q] /\ target'[q] = target[q]
             /\ \A p \in Runners \ {q} : at'[p] = at[p] /\ due'[p] = due[p]
                                         /\ target'[p] = target[p] /\ dim'[p] = dim[p]
  BY <1>2 DEF Whereabouts
<1>. QED  BY <1>1, <1>2 DEF NextDim

\* Every step keeps the types.
LEMMA NextAggregates ==
  TypeOK /\ AggregatesTypeOK /\ [AllNext]_allvars => (TypeOK /\ AggregatesTypeOK)'
<1>. SUFFICES ASSUME TypeOK, AggregatesTypeOK, [AllNext]_allvars PROVE AggregatesTypeOK'
  BY LedgerStep, NextTypes
<1>0. Whereabouts /\ Nothing \in [Rows -> Nat]
  BY DEF AggregatesTypeOK, Whereabouts, Nothing
<1>1. CASE UNCHANGED <<agg, run>>
  BY <1>1 DEF AggregatesTypeOK, run
<1>2. ASSUME NEW q \in Runners, NEW d \in Days, Materialize(q, d) PROVE AggregatesTypeOK'
  <2>1. [r \in Rows |-> spent[r][d]] \in [Rows -> Nat]  BY DEF TypeOK
  <2>. QED  BY <1>2, <2>1, First DEF Materialize, AggregatesTypeOK
<1>3. ASSUME NEW q \in Runners, Read(q) PROVE AggregatesTypeOK'
  <2>. DEFINE S == [r \in Rows |-> IF r[1] = dim[q] THEN Counted(r, target[q]) ELSE 0]
  <2>1. S \in [Rows -> Nat]  BY DEF TypeOK, AggregatesTypeOK, Counted
  <2>2. \/ NextDim(q) /\ UNCHANGED got
        \/ /\ got' = [got EXCEPT ![q] = S]
           /\ at' = [at EXCEPT ![q] = "delete"] /\ UNCHANGED <<dim, target, due>>
    BY <1>3 DEF Read
  <2>3. at[q] = "read" /\ UNCHANGED <<agg, gone, errors>>  BY <1>3 DEF Read
  <2>. HIDE DEF S
  <2>4. CASE NextDim(q) /\ UNCHANGED got
    BY <1>0, <2>3, <2>4, NextDimTypes DEF AggregatesTypeOK, Whereabouts
  <2>5. CASE /\ got' = [got EXCEPT ![q] = S]
             /\ at' = [at EXCEPT ![q] = "delete"] /\ UNCHANGED <<dim, target, due>>
    BY <2>1, <2>3, <2>5 DEF AggregatesTypeOK
  <2>. QED  BY <2>2, <2>4, <2>5
<1>4. ASSUME NEW q \in Runners, Delete(q) PROVE AggregatesTypeOK'
  <2>1. {r \in Groups(q) : agg[r][target[q]] > 0} \in SUBSET Rows  BY DEF Groups
  <2>. QED  BY <1>4, <2>1 DEF Delete, AggregatesTypeOK
<1>5. ASSUME NEW q \in Runners, InsertAggregates(q) PROVE AggregatesTypeOK'
  <2>1. got' = [got EXCEPT ![q] = Nothing] /\ UNCHANGED errors
    BY <1>5 DEF InsertAggregates
  <2>2. CASE EndRun(q, "idle") /\ gone' = [gone EXCEPT ![q] = {}] /\ UNCHANGED agg
    BY <1>0, <2>1, <2>2, EndRunTypes DEF AggregatesTypeOK, Whereabouts
  <2>3. CASE /\ agg' = [r \in Rows |-> IF r \in Groups(q)
                                       THEN [agg[r] EXCEPT ![target[q]] = got[q][r]]
                                       ELSE agg[r]]
             /\ gone' = [p \in Runners |->
                           IF p = q THEN {}
                           ELSE IF target[p] = target[q] THEN gone[p] \ Groups(q) ELSE gone[p]]
             /\ NextDim(q)
    <3>1. agg' \in [Rows -> [Days -> Nat]]  BY <2>3 DEF AggregatesTypeOK
    <3>2. /\ gone' \in [Runners -> SUBSET Rows] /\ gone'[q] = {}
          /\ \A p \in Runners : gone[p] = {} => gone'[p] = {}
      BY <2>3 DEF AggregatesTypeOK
    <3>3. got' \in [Runners -> [Rows -> Nat]] /\ got'[q] = Nothing
          /\ \A p \in Runners \ {q} : got'[p] = got[p]
      BY <1>0, <2>1 DEF AggregatesTypeOK
    <3>. QED  BY <1>0, <2>1, <2>3, <3>1, <3>2, <3>3, NextDimTypes
              DEF AggregatesTypeOK, Whereabouts
  <2>. QED  BY <1>5, <2>2, <2>3 DEF InsertAggregates
<1>6. ASSUME NEW q \in Runners, RunFails(q) PROVE AggregatesTypeOK'
  <2>1. errors' \in 0..MaxErrors
    BY <1>6, AggregatesAssumption DEF RunFails, AggregatesTypeOK
  <2>. QED  BY <1>0, <1>6, <2>1, EndRunTypes DEF RunFails, AggregatesTypeOK, Whereabouts
<1>7. CASE UNCHANGED allvars  BY <1>1, <1>7 DEF allvars
<1>. QED
  BY <1>1, <1>2, <1>3, <1>4, <1>5, <1>6, <1>7 DEF AllNext, Aggregation

\* The aggregating processes keep their types: one holds nothing that it has
\* read or deleted except between the read and the commit.
THEOREM AggregateTypes == AllSpec => []AggregatesTypeOK
BY InitAggregates, NextAggregates, PTL DEF AllSpec

----------------------------------------------------------------------------
(* What is counted.                                                        *)

\* What a process read, and what it has to count, were recorded; and what it
\* read of its dimension is all that it has to count.
Accurate(q) ==
  /\ \A r \in Rows : got[q][r] <= spent[r][target[q]] /\ due[q][r] <= spent[r][target[q]]
  /\ at[q] \in {"delete", "insert"} =>
       \A r \in Rows : r[1] = dim[q] => due[q][r] <= got[q][r]

AllAccurate == \A q \in Runners : Accurate(q)

\* A step that changes nothing of the run of p keeps what is said of p.
LEMMA OtherRun ==
  ASSUME TypeOK, AggregatesTypeOK, [Next]_vars, NEW p \in Runners, Accurate(p),
         at'[p] = at[p], dim'[p] = dim[p], target'[p] = target[p],
         got'[p] = got[p], due'[p] = due[p]
  PROVE  Accurate(p)'
<1>1. target[p] \in Days /\ \A r \in Rows : got[p][r] \in Nat /\ due[p][r] \in Nat
  BY DEF AggregatesTypeOK
<1>2. \A r \in Rows : /\ spent[r][target[p]] \in Nat /\ spent'[r][target[p]] \in Nat
                      /\ spent[r][target[p]] <= spent'[r][target[p]]
  BY <1>1, SpentGrows
<1>3. \A r \in Rows : got[p][r] <= spent[r][target[p]] /\ due[p][r] <= spent[r][target[p]]
  BY DEF Accurate
<1>4. \A r \in Rows : got[p][r] <= spent'[r][target[p]] /\ due[p][r] <= spent'[r][target[p]]
  BY <1>1, <1>2, <1>3
<1>. QED  BY <1>4 DEF Accurate

LEMMA InitCounts == AllInit => AllAccurate /\ NeverOvercounts
<1>. SUFFICES ASSUME AllInit PROVE AllAccurate /\ NeverOvercounts  OBVIOUS
<1>1. 0 \in Days  BY LedgerAssumption DEF Days
<1>2. AllAccurate  BY <1>1 DEF AllInit, Init, AllAccurate, Accurate, Nothing
<1>3. NeverOvercounts  BY DEF AllInit, Init, NeverOvercounts
<1>. QED  BY <1>2, <1>3

\* Every step keeps them.
LEMMA NextCounts ==
  TypeOK /\ AggregatesTypeOK /\ AllAccurate /\ [AllNext]_allvars
    => AllAccurate'
<1>. SUFFICES ASSUME TypeOK, AggregatesTypeOK, AllAccurate, [AllNext]_allvars,
                     NEW p \in Runners
              PROVE  Accurate(p)'
  BY DEF AllAccurate
<1>0. [Next]_vars /\ TypeOK' /\ AggregatesTypeOK' /\ Whereabouts
  BY LedgerStep, NextAggregates DEF AggregatesTypeOK, Whereabouts
<1>1. CASE /\ at'[p] = at[p] /\ dim'[p] = dim[p] /\ target'[p] = target[p]
           /\ got'[p] = got[p] /\ due'[p] = due[p]
  BY <1>0, <1>1, OtherRun DEF AllAccurate
\* A run that is over, or at its next dimension, has read nothing.
<1>2. ASSUME UNCHANGED spent, got'[p] = Nothing, at'[p] \notin {"delete", "insert"},
             due'[p] = Nothing \/ (due'[p] = due[p] /\ target'[p] = target[p])
      PROVE  Accurate(p)'
  <2>1. target'[p] \in Days /\ \A r \in Rows : spent'[r][target'[p]] \in Nat
    BY <1>0 DEF AggregatesTypeOK, TypeOK
  <2>2. \A r \in Rows : Nothing[r] = 0  BY DEF Nothing
  <2>. QED  BY <1>2, <2>1, <2>2 DEF Accurate, AllAccurate
<1>3. CASE UNCHANGED run  BY <1>1, <1>3 DEF run
<1>4. ASSUME NEW q \in Runners, NEW d \in Days, Materialize(q, d)
      PROVE  Accurate(p)'
  <2>1. CASE p # q  BY <1>1, <1>4, <2>1 DEF Materialize, AggregatesTypeOK
  <2>2. CASE p = q
    <3>1. /\ at'[p] = "read" /\ target'[p] = d /\ due'[p] = [r \in Rows |-> spent[r][d]]
          /\ got'[p] = Nothing /\ UNCHANGED spent
      BY <1>4, <2>2 DEF Materialize, AggregatesTypeOK, vars, tables
    <3>2. \A r \in Rows : spent[r][d] \in Nat /\ Nothing[r] = 0  BY DEF TypeOK, Nothing
    <3>. QED  BY <3>1, <3>2 DEF Accurate
  <2>. QED  BY <2>1, <2>2
<1>5. ASSUME NEW q \in Runners, Read(q)
      PROVE  Accurate(p)'
  <2>. DEFINE S == [r \in Rows |-> IF r[1] = dim[q] THEN Counted(r, target[q]) ELSE 0]
  <2>1. \/ NextDim(q) /\ UNCHANGED got
        \/ /\ got' = [got EXCEPT ![q] = S]
           /\ at' = [at EXCEPT ![q] = "delete"] /\ UNCHANGED <<dim, target, due>>
    BY <1>5 DEF Read
  <2>2. at[q] = "read" /\ UNCHANGED spent  BY <1>5 DEF Read, vars, tables
  <2>3. CASE NextDim(q) /\ UNCHANGED got
    <3>1. CASE p # q  BY <1>0, <1>1, <2>3, <3>1, NextDimTypes
    <3>2. CASE p = q
      <4>1. got'[p] = Nothing  BY <2>2, <2>3, <3>2 DEF AggregatesTypeOK
      <4>2. /\ at'[p] \notin {"delete", "insert"}
            /\ due'[p] = Nothing \/ (due'[p] = due[p] /\ target'[p] = target[p])
        BY <1>0, <2>3, <3>2, NextDimTypes
      <4>. QED  BY <1>2, <2>2, <4>1, <4>2
    <3>. QED  BY <3>1, <3>2
  <2>4. CASE /\ got' = [got EXCEPT ![q] = S]
             /\ at' = [at EXCEPT ![q] = "delete"] /\ UNCHANGED <<dim, target, due>>
    <3>1. CASE p # q
      <4>1. got'[p] = got[p] /\ at'[p] = at[p]  BY <2>4, <3>1 DEF AggregatesTypeOK
      <4>. QED  BY <1>1, <2>4, <4>1
    <3>2. CASE p = q
      <4>1. got'[p] = S /\ dim'[p] = dim[p] /\ target'[p] = target[p] /\ due'[p] = due[p]
        BY <2>4, <3>2 DEF AggregatesTypeOK
      <4>2. \A r \in Rows : /\ spent[r][target[p]] \in Nat
                            /\ due[p][r] <= spent[r][target[p]]
        BY DEF TypeOK, AggregatesTypeOK, Accurate, AllAccurate
      <4>3. \A r \in Rows : S[r] = IF r[1] = dim[p] THEN spent[r][target[p]] ELSE 0
        BY <3>2 DEF Counted
      <4>. HIDE DEF S
      <4>. QED  BY <2>2, <4>1, <4>2, <4>3 DEF Accurate
    <3>. QED  BY <3>1, <3>2
  <2>. QED  BY <2>1, <2>3, <2>4
<1>6. ASSUME NEW q \in Runners, Delete(q)
      PROVE  Accurate(p)'
  <2>1. /\ UNCHANGED <<spent, dim, target, got, due>>
        /\ at'[p] \in {"delete", "insert"} => at[p] \in {"delete", "insert"}
    BY <1>6 DEF Delete, vars, tables, AggregatesTypeOK
  <2>. QED  BY <2>1 DEF Accurate, AllAccurate
<1>7. ASSUME NEW q \in Runners, got' = [got EXCEPT ![q] = Nothing], UNCHANGED spent,
             EndRun(q, "idle") \/ NextDim(q)
      PROVE  Accurate(p)'
  <2>1. CASE p # q
    <3>1. got'[p] = got[p]  BY <1>7, <2>1 DEF AggregatesTypeOK
    <3>. QED  BY <1>0, <1>1, <1>7, <2>1, <3>1, NextDimTypes, EndRunTypes
  <2>2. CASE p = q
    <3>1. got'[p] = Nothing  BY <1>7, <2>2 DEF AggregatesTypeOK
    <3>2. /\ at'[p] \notin {"delete", "insert"}
          /\ due'[p] = Nothing \/ (due'[p] = due[p] /\ target'[p] = target[p])
      BY <1>0, <1>7, <2>2, NextDimTypes, EndRunTypes
    <3>. QED  BY <1>2, <1>7, <3>1, <3>2
  <2>. QED  BY <2>1, <2>2
<1>8. ASSUME NEW q \in Runners, InsertAggregates(q) \/ RunFails(q)
      PROVE  Accurate(p)'
  <2>1. /\ got' = [got EXCEPT ![q] = Nothing] /\ UNCHANGED spent
        /\ EndRun(q, "idle") \/ NextDim(q)
    BY <1>8 DEF InsertAggregates, RunFails, vars, tables
  <2>. QED  BY <1>7, <2>1
<1>. QED
  BY <1>3, <1>4, <1>5, <1>6, <1>8 DEF AllNext, Aggregation, allvars

\* Only a commit of counted rows changes the aggregates.
LEMMA AggregatesChange ==
  ASSUME [AllNext]_allvars
  PROVE  \/ UNCHANGED agg
         \/ \E q \in Runners :
              agg' = [r \in Rows |-> IF r \in Groups(q)
                                     THEN [agg[r] EXCEPT ![target[q]] = got[q][r]]
                                     ELSE agg[r]]
BY DEF AllNext, Aggregation, Materialize, Read, Delete, InsertAggregates, RunFails, allvars

LEMMA NextOvercounts ==
  TypeOK /\ AggregatesTypeOK /\ AllAccurate /\ NeverOvercounts /\ [AllNext]_allvars
    => NeverOvercounts'
<1>. SUFFICES ASSUME TypeOK, AggregatesTypeOK, AllAccurate, NeverOvercounts, [AllNext]_allvars,
                     NEW r \in Rows, NEW d \in Days
              PROVE  agg'[r][d] <= spent'[r][d]
  BY DEF NeverOvercounts
<1>1. /\ agg[r][d] \in Nat /\ agg[r][d] <= spent[r][d]
      /\ spent[r][d] \in Nat /\ spent'[r][d] \in Nat /\ spent[r][d] <= spent'[r][d]
  BY LedgerStep, SpentGrows DEF AggregatesTypeOK, NeverOvercounts
<1>2. CASE UNCHANGED agg  BY <1>1, <1>2
<1>3. ASSUME NEW q \in Runners,
             agg' = [s \in Rows |-> IF s \in Groups(q)
                                    THEN [agg[s] EXCEPT ![target[q]] = got[q][s]]
                                    ELSE agg[s]]
      PROVE  agg'[r][d] <= spent'[r][d]
  <2>1. got[q][r] \in Nat /\ got[q][r] <= spent[r][target[q]]
    BY DEF AggregatesTypeOK, Accurate, AllAccurate
  <2>2. \/ agg'[r][d] = agg[r][d]
        \/ d = target[q] /\ agg'[r][d] = got[q][r]
    BY <1>3 DEF AggregatesTypeOK
  <2>. QED  BY <1>1, <2>1, <2>2
<1>. QED  BY <1>2, <1>3, AggregatesChange

\* No request is counted twice, whichever runs overlap.
THEOREM Overcounts == AllSpec => []NeverOvercounts
<1>. DEFINE Inv == TypeOK /\ AggregatesTypeOK /\ AllAccurate /\ NeverOvercounts
<1>1. AllInit => Inv  BY InitAggregates, InitCounts
<1>2. Inv /\ [AllNext]_allvars => Inv'
  BY NextAggregates, NextCounts, NextOvercounts
<1>. QED  BY <1>1, <1>2, PTL DEF AllSpec

\* What RunCatchesUp says of a step.
CatchesUp ==
  \A q \in Runners :
    at[q] = "insert" /\ at'[q] \in {"read", "done"} =>
      \A r \in Rows : r[1] = dim[q] => agg'[r][target[q]] >= due[q][r]

LEMMA StepCatchesUp ==
  TypeOK /\ AggregatesTypeOK /\ AllAccurate /\ [AllNext]_allvars => CatchesUp
<1>. SUFFICES ASSUME TypeOK, AggregatesTypeOK, AllAccurate, [AllNext]_allvars,
                     NEW q \in Runners, at[q] = "insert", at'[q] \in {"read", "done"},
                     NEW r \in Rows, r[1] = dim[q]
              PROVE  agg'[r][target[q]] >= due[q][r]
  BY DEF CatchesUp
<1>0. Whereabouts  BY DEF AggregatesTypeOK, Whereabouts
<1>1. agg' = [s \in Rows |-> IF s \in Groups(q)
                             THEN [agg[s] EXCEPT ![target[q]] = got[q][s]]
                             ELSE agg[s]]
  <2>1. at'[q] # at[q]  OBVIOUS
  <2>2. ASSUME NEW p \in Runners,
               \/ \E d \in Days : Materialize(p, d)
               \/ Read(p) \/ Delete(p) \/ InsertAggregates(p) \/ RunFails(p)
        PROVE  p = q
    <3>. SUFFICES ASSUME p # q PROVE at'[q] = at[q]  BY <2>1
    <3>1. CASE \E d \in Days : Materialize(p, d)
      BY <3>1 DEF Materialize, AggregatesTypeOK
    <3>2. CASE Read(p)
      BY <1>0, <3>2, NextDimTypes DEF Read, Whereabouts
    <3>3. CASE Delete(p)  BY <3>3 DEF Delete, AggregatesTypeOK
    <3>4. CASE InsertAggregates(p)
      BY <1>0, <3>4, NextDimTypes, EndRunTypes DEF InsertAggregates
    <3>5. CASE RunFails(p)  BY <1>0, <3>5, EndRunTypes DEF RunFails
    <3>. QED  BY <2>2, <3>1, <3>2, <3>3, <3>4, <3>5
  <2>3. Aggregation  BY <2>1 DEF AllNext, allvars, run
  <2>4. \/ \E d \in Days : Materialize(q, d)
        \/ Read(q) \/ Delete(q) \/ InsertAggregates(q) \/ RunFails(q)
    BY <2>2, <2>3 DEF Aggregation
  <2>5. InsertAggregates(q) \/ RunFails(q)
    BY <2>4 DEF Materialize, Read, Delete
  <2>6. EndRun(q, "idle") => at'[q] = "idle"  BY <1>0, EndRunTypes
  <2>. QED  BY <2>5, <2>6 DEF InsertAggregates, RunFails
<1>2. /\ got[q][r] \in Nat /\ due[q][r] \in Nat /\ due[q][r] <= got[q][r]
      /\ target[q] \in Days /\ agg[r] \in [Days -> Nat]
  BY DEF AggregatesTypeOK, Accurate, AllAccurate
<1>3. CASE r \in Groups(q)  BY <1>1, <1>2, <1>3
<1>4. CASE r \notin Groups(q)
  <2>1. got[q][r] = 0 /\ due[q][r] = 0  BY <1>2, <1>4 DEF Groups
  <2>. QED  BY <1>1, <1>2, <1>4, <2>1
<1>. QED  BY <1>3, <1>4

\* A run that did not raise has counted all that was recorded before it.
THEOREM CatchUp == AllSpec => RunCatchesUp
<1>. DEFINE Inv == TypeOK /\ AggregatesTypeOK /\ AllAccurate
<1>1. AllInit => Inv  BY InitAggregates, InitCounts
<1>2. Inv /\ [AllNext]_allvars => Inv'  BY NextAggregates, NextCounts
<1>3. Inv /\ [AllNext]_allvars => [CatchesUp]_allvars  BY StepCatchesUp
<1>4. AllSpec => [][CatchesUp]_allvars  BY <1>1, <1>2, <1>3, PTL DEF AllSpec
<1>. QED  BY <1>4 DEF RunCatchesUp, CatchesUp

=============================================================================
