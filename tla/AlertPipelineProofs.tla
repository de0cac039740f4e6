------------------------ MODULE AlertPipelineProofs -------------------------
(***************************************************************************)
(* For any number of checkers, budgets, alerts and webhooks, any number of *)
(* attempts and of faults: an alert marked sent has reached every          *)
(* untouched webhook that wants it, or was posted there the default number *)
(* of times; alerts are as many as the checkers at most; cycles end.       *)
(***************************************************************************)
EXTENDS AlertPipeline, FiniteSetTheorems, TLAPS

\* An alert needs no further attempt at a webhook.
Settled(a, h) == <<a, h>> \in received \/ posts[<<a, h>>] = Attempts

Delivering == {"post", "log", "mark"}

\* A checker that delivers took the untouched webhooks into its snapshot.
SnapshotOK ==
  /\ Untouched \subseteq enabled
  /\ \A c \in Checkers :
       pc[c] \in {"deliver"} \cup Delivering => Untouched \subseteq snapshot[c]

\* The alerts a checker has before it are rows, and so stay what they are.
PendingOK == \A c \in Checkers : pending[c] \subseteq Rows

\* The alert that is looked for or about to be inserted is there.
FoundOK == \A c \in Checkers : pc[c] \in {"recent", "insert"} => found[c] # None

(* A checker at work on an alert has settled every webhook it is done      *)
(* with, and counts its own posts to the present one no higher than they   *)
(* really are: other checkers can only add to them.                        *)
JobOf(c) ==
  LET j == job[c]
  IN  /\ j \in Job /\ j.alert \in pending[c]
      /\ \A h \in Matching(Untouched, j.alert) :
           h \in j.hooks \/ Settled(j.alert, h) \/ (h = j.hook /\ pc[c] # "mark")
      /\ pc[c] = "post" => posts[<<j.alert, j.hook>>] >= j.attempt - 1
      /\ pc[c] # "post" => posts[<<j.alert, j.hook>>] >= j.attempt
      /\ pc[c] = "log" /\ j.reply = "ok" => <<j.alert, j.hook>> \in received
      /\ pc[c] = "mark" => j.hooks = {}

JobOK == \A c \in Checkers : pc[c] \in Delivering => JobOf(c)

Inv ==
  /\ TypeOK /\ SnapshotOK /\ PendingOK /\ FoundOK /\ JobOK
  /\ SentMeansTried /\ SentMeansPosted

----------------------------------------------------------------------------
LEMMA InvInit == Init => Inv
<1> SUFFICES ASSUME Init PROVE Inv
  OBVIOUS
<1> USE PipelineAssumption
<1>1. TypeOK
  BY DEF Init, TypeOK
<1>2. Rows = {}
  BY DEF Init, Rows
<1> QED
  BY <1>1, <1>2
  DEF Init, Inv, SnapshotOK, PendingOK, FoundOK, JobOK, SentMeansTried, SentMeansPosted,
      Delivering

----------------------------------------------------------------------------
(* Steps of the environment and of the first half of the cycle.            *)

LEMMA UntouchedWants ==
  ASSUME Rows' = Rows, \A a \in Rows : alerts'[a].type = alerts[a].type
  PROVE  \A a \in Rows : Matching(Untouched, a)' = Matching(Untouched, a)
BY DEF Matching

\* The rows' identities, types and marks, and all deliveries, are unchanged.
LEMMA SentUnchanged ==
  ASSUME Inv, Rows' = Rows, UNCHANGED world,
         \A a \in Rows : /\ alerts'[a].type = alerts[a].type
                         /\ alerts'[a].sent = alerts[a].sent
  PROVE  SentMeansTried' /\ SentMeansPosted'
<1>1. \A a \in Rows : Matching(Untouched, a)' = Matching(Untouched, a)
  BY UntouchedWants
<1>2. SentMeansTried'
  BY <1>1 DEF Inv, world, SentMeansTried
<1>3. SentMeansPosted'
  BY DEF Inv, world, SentMeansPosted
<1> QED
  BY <1>2, <1>3

LEMMA EnvironmentInv ==
  ASSUME Inv,
         \/ NewPeriod
         \/ \E b \in Budgets : UsageChanges(b)
         \/ EditWebhook
  PROVE  Inv'
<1> USE PipelineAssumption DEF Inv
<1>1. UNCHANGED <<world, pc, cursor>> /\ Untouched \subseteq enabled'
  BY DEF NewPeriod, UsageChanges, EditWebhook, SnapshotOK
<1>2. ASSUME UNCHANGED alerts
      PROVE  /\ Rows' = Rows
             /\ \A a \in Rows : /\ alerts'[a].type = alerts[a].type
                                /\ alerts'[a].sent = alerts[a].sent
             /\ alerts' \in [Alerts -> Row \cup {None}]
  BY <1>2 DEF Rows, TypeOK
<1>3. ASSUME NewPeriod
      PROVE  /\ Rows' = Rows
             /\ \A a \in Rows : /\ alerts'[a].type = alerts[a].type
                                /\ alerts'[a].sent = alerts[a].sent
             /\ alerts' \in [Alerts -> Row \cup {None}]
  <2>1. \A r \in Row : LET n == [r EXCEPT !.current = FALSE]
                       IN n \in Row /\ n.type = r.type /\ n.sent = r.sent
    BY DEF Row
  <2>2. alerts' = [a \in Alerts |-> IF a \in Rows
                                    THEN [alerts[a] EXCEPT !.current = FALSE] ELSE None]
    BY <1>3 DEF NewPeriod
  <2>3. \A a \in Rows : alerts[a] \in Row /\ a \in Alerts
    BY DEF Rows, TypeOK
  <2>4. \A a \in Rows : /\ alerts'[a].type = alerts[a].type
                        /\ alerts'[a].sent = alerts[a].sent
                        /\ alerts'[a] \in Row
    BY <2>1, <2>2, <2>3
  <2>5. None \notin Row
    BY DEF Row
  <2>6. Rows' = Rows
    BY <2>2, <2>4, <2>5 DEF Rows
  <2>7. alerts' \in [Alerts -> Row \cup {None}]
    BY <2>2, <2>4
  <2> QED
    BY <2>4, <2>6, <2>7
<1>4. /\ Rows' = Rows
      /\ \A a \in Rows : /\ alerts'[a].type = alerts[a].type
                         /\ alerts'[a].sent = alerts[a].sent
      /\ alerts' \in [Alerts -> Row \cup {None}]
  BY <1>2, <1>3 DEF UsageChanges, EditWebhook
<1>5. TypeOK'
  <2>1. usage' \in [Budgets -> Usages] /\ enabled' \subseteq Webhooks
        /\ faults' \in 0..MaxFaults /\ periods' \in 0..MaxPeriods
    BY DEF NewPeriod, UsageChanges, EditWebhook, TypeOK
  <2> QED
    BY <1>1, <1>4, <2>1 DEF world, cursor, TypeOK
<1>6. SnapshotOK' /\ PendingOK' /\ FoundOK'
  BY <1>1, <1>4 DEF cursor, SnapshotOK, PendingOK, FoundOK
<1>7. JobOK'
  <2>1. \A a \in Rows : Matching(Untouched, a)' = Matching(Untouched, a)
    BY <1>4, UntouchedWants
  <2> QED
    BY <1>1, <2>1 DEF world, cursor, JobOK, JobOf, PendingOK, Settled
<1>8. SentMeansTried' /\ SentMeansPosted'
  BY <1>1, <1>4, SentUnchanged
<1> QED
  BY <1>5, <1>6, <1>7, <1>8

LEMMA ScanInv ==
  ASSUME Inv, NEW c \in Checkers,
         \/ StartCheck(c) \/ LookForRecent(c) \/ ReadPending(c) \/ EndCheck(c)
         \/ \E b \in Budgets : Examine(c, b)
  PROVE  Inv'
<1> USE PipelineAssumption DEF Inv
<1>1. UNCHANGED <<usage, alerts, posts, received, enabled, faults, periods, job>>
  BY DEF StartCheck, LookForRecent, ReadPending, EndCheck, Examine, db, world
<1>2. Rows' = Rows /\ \A a \in Rows : Matching(Untouched, a)' = Matching(Untouched, a)
  BY <1>1 DEF Rows, Matching
<1>3. TypeOK'
  <2>1. CASE \E b \in Budgets : Examine(c, b)
    <3>1. PICK b \in Budgets : Examine(c, b)
      BY <2>1
    <3> DEFINE Found == [budget : Budgets, type : AlertTypes, fits : BOOLEAN]
               new   == [budget |-> b, type |-> AlertType(usage[b]),
                         fits |-> usage[b] # "overflowing"]
    <3>2. new \in Found
      BY DEF AlertType, AlertTypes
    <3>a. found' = found \/ found' = [found EXCEPT ![c] = new]
      BY <3>1 DEF Examine
    <3>b. found \in [Checkers -> Found \cup {None}]
      BY DEF TypeOK
    <3>3. found' \in [Checkers -> Found \cup {None}]
      <4> HIDE DEF new, Found
      <4> QED
        BY <3>2, <3>a, <3>b
    <3>4. /\ pc' \in [Checkers -> {"idle", "scan", "recent", "insert", "deliver", "post",
                                   "log", "mark"}]
          /\ todo' \in [Checkers -> SUBSET Budgets]
      BY <3>1 DEF Examine, Goto, TypeOK
    <3>5. UNCHANGED <<pending, snapshot>>
      BY <3>1 DEF Examine
    <3> QED
      BY <1>1, <3>3, <3>4, <3>5 DEF TypeOK
  <2>2. CASE StartCheck(c)
    BY <1>1, <2>2 DEF StartCheck, Goto, TypeOK
  <2>3. CASE ReadPending(c)
    <3>1. {a \in Rows : ~alerts[a].sent} \subseteq Alerts
      BY DEF Rows
    <3> QED
      BY <1>1, <2>3, <3>1 DEF ReadPending, Goto, TypeOK
  <2>4. CASE EndCheck(c)
    BY <1>1, <2>4 DEF EndCheck, Goto, TypeOK
  <2>5. CASE LookForRecent(c)
    BY <1>1, <2>5 DEF LookForRecent, Goto, TypeOK
  <2> QED
    BY <2>1, <2>2, <2>3, <2>4, <2>5
<1>4. SnapshotOK'
  BY DEF StartCheck, LookForRecent, ReadPending, EndCheck, Examine, Goto, db, SnapshotOK,
         TypeOK, Delivering
<1>5. PendingOK'
  BY <1>2
  DEF StartCheck, LookForRecent, ReadPending, EndCheck, Examine, PendingOK, TypeOK
<1>9. FoundOK'
  <2>1. CASE \E b \in Budgets : Examine(c, b)
    <3>1. PICK b \in Budgets : Examine(c, b)
      BY <2>1
    <3> DEFINE new == [budget |-> b, type |-> AlertType(usage[b]),
                       fits |-> usage[b] # "overflowing"]
    <3>2. new # None
      <4>1. new \in [budget : Budgets, type : AlertTypes, fits : BOOLEAN]
        BY DEF AlertType, AlertTypes
      <4> HIDE DEF new
      <4> QED
        BY <4>1
    <3> HIDE DEF new
    <3>3. \/ UNCHANGED <<pc, found>>
          \/ Goto(c, "recent") /\ found' = [found EXCEPT ![c] = new]
      BY <3>1 DEF Examine, new
    <3> QED
      BY <3>2, <3>3 DEF FoundOK, Goto, TypeOK
  <2>2. CASE StartCheck(c) \/ ReadPending(c) \/ EndCheck(c)
    BY <2>2 DEF StartCheck, ReadPending, EndCheck, Goto, FoundOK, TypeOK
  <2>3. CASE LookForRecent(c)
    BY <2>3 DEF LookForRecent, Goto, FoundOK, TypeOK
  <2> QED
    BY <2>1, <2>2, <2>3
<1>6. ASSUME NEW d \in Checkers, pc'[d] \in Delivering
      PROVE  d # c /\ pc'[d] = pc[d] /\ pending'[d] = pending[d]
  BY <1>6
  DEF StartCheck, LookForRecent, ReadPending, EndCheck, Examine, Goto, TypeOK, Delivering
<1>7. JobOK'
  BY <1>1, <1>2, <1>6 DEF JobOK, JobOf, PendingOK, Settled
<1>8. SentMeansTried' /\ SentMeansPosted'
  BY <1>1, <1>2 DEF SentMeansTried, SentMeansPosted
<1> QED
  BY <1>3, <1>4, <1>5, <1>7, <1>8, <1>9

----------------------------------------------------------------------------
(* Other checkers cannot spoil a job: the row of its alert stays, and so   *)
(* does its type, and posts and receipts only grow.                        *)

LEMMA JobKept ==
  ASSUME Inv, NEW d \in Checkers, pc[d] \in Delivering,
         pc'[d] = pc[d], job'[d] = job[d], pending'[d] = pending[d],
         alerts'[job[d].alert].type = alerts[job[d].alert].type,
         \A h \in Webhooks :
           LET x == <<job[d].alert, h>>
           IN  /\ posts'[x] \in 0..Attempts /\ posts'[x] >= posts[x]
               /\ x \in received => x \in received'
  PROVE  JobOf(d)'
<1> DEFINE j == job[d]
<1>1. JobOf(d)
  BY DEF Inv, JobOK
<1>2. j \in Job /\ j.alert \in Alerts /\ j.hook \in Webhooks
  BY <1>1 DEF JobOf, Job
<1>3. ASSUME NEW h \in Webhooks, Settled(j.alert, h)
      PROVE  Settled(j.alert, h)'
  <2>1. posts[<<j.alert, h>>] \in 0..Attempts
    BY <1>2 DEF Inv, TypeOK
  <2>2. /\ posts'[<<j.alert, h>>] \in 0..Attempts
        /\ posts'[<<j.alert, h>>] >= posts[<<j.alert, h>>]
        /\ <<j.alert, h>> \in received => <<j.alert, h>> \in received'
    OBVIOUS
  <2>3. posts[<<j.alert, h>>] = Attempts => posts'[<<j.alert, h>>] = Attempts
    BY <2>1, <2>2, PipelineAssumption
  <2> QED
    BY <1>3, <2>2, <2>3 DEF Settled
<1>4. Matching(Untouched, j.alert)' = Matching(Untouched, j.alert)
      /\ Matching(Untouched, j.alert) \subseteq Webhooks
  BY PipelineAssumption DEF Matching
<1>5. posts[<<j.alert, j.hook>>] \in Nat /\ posts'[<<j.alert, j.hook>>] \in Nat
      /\ j.attempt \in Nat
  BY <1>2, PipelineAssumption DEF Inv, TypeOK, Job
<1>6. \A h \in Matching(Untouched, j.alert)' :
        h \in j.hooks \/ Settled(j.alert, h)' \/ (h = j.hook /\ pc[d] # "mark")
  BY <1>1, <1>3, <1>4 DEF JobOf
<1>7. posts'[<<j.alert, j.hook>>] >= posts[<<j.alert, j.hook>>]
      /\ (<<j.alert, j.hook>> \in received => <<j.alert, j.hook>> \in received')
  BY <1>2
<1>8. /\ pc[d] = "post" => posts'[<<j.alert, j.hook>>] >= j.attempt - 1
      /\ pc[d] # "post" => posts'[<<j.alert, j.hook>>] >= j.attempt
      /\ pc[d] = "log" /\ j.reply = "ok" => <<j.alert, j.hook>> \in received'
  BY <1>1, <1>5, <1>7 DEF JobOf
<1> QED
  BY <1>1, <1>2, <1>6, <1>8 DEF JobOf

\* A new row takes no identity that a checker still has before it.
LEMMA InsertInv ==
  ASSUME Inv, NEW c \in Checkers, Insert(c)
  PROVE  Inv'
<1> USE PipelineAssumption DEF Inv
<1> DEFINE row == [budget |-> found[c].budget, type |-> found[c].type,
                   current |-> TRUE, sent |-> FALSE]
<1>1. PICK a \in Reusable :
        /\ alerts' = [alerts EXCEPT ![a] = row]
        /\ posts' = [x \in Alerts \X Webhooks |-> IF x[1] = a THEN 0 ELSE posts[x]]
        /\ received' = {x \in received : x[1] # a}
  BY DEF Insert
<1>2. a \in Alerts /\ \A d \in Checkers : a \notin pending[d]
  BY DEF Reusable
<1>3. row \in Row /\ row # None /\ ~row.sent
  <2>1. found[c] \in [budget : Budgets, type : AlertTypes, fits : BOOLEAN]
    BY DEF Insert, FoundOK, TypeOK
  <2>2. row \in Row
    BY <2>1 DEF Row
  <2> QED
    BY <2>2 DEF Row
<1> HIDE DEF row
<1>4. Rows' = Rows \cup {a} /\ alerts' \in [Alerts -> Row \cup {None}]
  BY <1>1, <1>2, <1>3 DEF Rows, TypeOK
<1>5. \A e \in Rows : e # a => alerts'[e] = alerts[e]
  BY <1>1 DEF Rows, TypeOK
<1>6. \A e \in Alerts, h \in Webhooks :
        e # a => /\ posts'[<<e, h>>] = posts[<<e, h>>]
                 /\ <<e, h>> \in received' <=> <<e, h>> \in received
  BY <1>1
<1>7. TypeOK'
  <2>1. posts' \in [Alerts \X Webhooks -> 0..Attempts]
        /\ received' \subseteq Alerts \X Webhooks
    BY <1>1 DEF TypeOK
  <2> QED
    BY <1>4, <2>1 DEF Insert, Goto, TypeOK
<1>8. SnapshotOK' /\ PendingOK' /\ FoundOK'
  BY <1>4 DEF Insert, Goto, SnapshotOK, PendingOK, FoundOK, TypeOK, Delivering
<1>9. JobOK'
  <2> SUFFICES ASSUME NEW d \in Checkers, pc'[d] \in Delivering PROVE JobOf(d)'
    BY DEF JobOK
  <2>1. pc'[d] = pc[d] /\ pending'[d] = pending[d] /\ job'[d] = job[d]
    BY DEF Insert, Goto, TypeOK, Delivering
  <2>2. job[d].alert \in pending[d] /\ job[d].alert # a /\ job[d].alert \in Rows
    BY <1>2, <2>1 DEF JobOK, JobOf, PendingOK
  <2>3. job[d].alert \in Alerts
    BY <2>2 DEF Rows
  <2>4. \A h \in Webhooks : posts[<<job[d].alert, h>>] \in 0..Attempts
    BY <2>3 DEF TypeOK
  <2> QED
    BY <1>5, <1>6, <2>1, <2>2, <2>3, <2>4, JobKept
<1>10. SentMeansTried' /\ SentMeansPosted'
  <2> SUFFICES ASSUME NEW e \in Rows', alerts'[e].sent
               PROVE  /\ \A h \in Matching(Untouched, e)' :
                           <<e, h>> \in received' \/ posts'[<<e, h>>] = Attempts
                      /\ \E h \in Webhooks : posts'[<<e, h>>] > 0
    BY DEF SentMeansTried, SentMeansPosted
  <2>1. e # a
    BY <1>1, <1>2, <1>3 DEF TypeOK
  <2>2. e \in Rows /\ e \in Alerts /\ alerts'[e] = alerts[e]
    BY <1>4, <1>5, <2>1 DEF Rows
  <2>3. Matching(Untouched, e)' = Matching(Untouched, e)
        /\ Matching(Untouched, e) \subseteq Webhooks
    BY <2>2 DEF Matching
  <2> QED
    BY <1>6, <2>1, <2>2, <2>3 DEF SentMeansTried, SentMeansPosted
<1> QED
  BY <1>7, <1>8, <1>9, <1>10

----------------------------------------------------------------------------
(* Deliveries.                                                             *)

\* The jobs of the checkers other than c.
LEMMA OthersKept ==
  ASSUME Inv, NEW c \in Checkers, JobOf(c)' \/ pc'[c] \notin Delivering,
         \A d \in Checkers \ {c} : /\ pc'[d] = pc[d] /\ job'[d] = job[d]
                                   /\ pending'[d] = pending[d],
         \A a \in Rows : alerts'[a].type = alerts[a].type,
         \A a \in Alerts, h \in Webhooks :
           /\ posts'[<<a, h>>] \in 0..Attempts
           /\ posts'[<<a, h>>] >= posts[<<a, h>>]
           /\ <<a, h>> \in received => <<a, h>> \in received'
  PROVE  JobOK'
<1> SUFFICES ASSUME NEW d \in Checkers, pc'[d] \in Delivering PROVE JobOf(d)'
  BY DEF JobOK
<1>1. CASE d = c
  BY <1>1
<1>2. CASE d # c
  <2>1. pc[d] \in Delivering /\ pc'[d] = pc[d] /\ job'[d] = job[d]
        /\ pending'[d] = pending[d]
    BY <1>2
  <2>2. job[d].alert \in Rows /\ job[d].alert \in Alerts
    BY <2>1 DEF Inv, JobOK, JobOf, PendingOK, Rows
  <2> QED
    BY <2>1, <2>2, JobKept
<1> QED
  BY <1>1, <1>2

\* Posts are counted up to the limit, which a step of another kind keeps.
LEMMA PostsTyped ==
  ASSUME Inv
  PROVE  \A a \in Alerts, h \in Webhooks :
           posts[<<a, h>>] \in 0..Attempts /\ posts[<<a, h>>] >= posts[<<a, h>>]
BY PipelineAssumption DEF Inv, TypeOK

LEMMA TakeAlertInv ==
  ASSUME Inv, NEW c \in Checkers, NEW a \in Alerts, TakeAlert(c, a)
  PROVE  Inv'
<1> USE PipelineAssumption DEF Inv
<1>1. UNCHANGED <<db, world, todo, found, snapshot>> /\ Rows' = Rows
  BY DEF TakeAlert, db, Rows
<1>2. pc[c] = "deliver" /\ a \in pending[c] /\ a \in Rows
  BY DEF TakeAlert, PendingOK
<1>3. CASE /\ Matching(snapshot[c], a) = {}
           /\ pending' = [pending EXCEPT ![c] = @ \ {a}]
           /\ UNCHANGED <<pc, job>>
  <2>1. TypeOK'
    BY <1>1, <1>3 DEF db, world, TypeOK
  <2>2. SnapshotOK' /\ PendingOK' /\ FoundOK'
    BY <1>1, <1>3 DEF db, SnapshotOK, PendingOK, FoundOK, TypeOK
  <2>3. JobOK'
    BY <1>1, <1>2, <1>3, OthersKept, PostsTyped DEF db, world, TypeOK, Delivering
  <2> QED
    BY <1>1, <2>1, <2>2, <2>3, SentUnchanged DEF db
<1>4. ASSUME NEW h \in Matching(snapshot[c], a),
             job' = [job EXCEPT ![c] = Delivery(a, Matching(snapshot[c], a) \ {h}, h, 1)],
             Goto(c, "post"), UNCHANGED pending
      PROVE  Inv'
  <2>0. PICK new : new = Delivery(a, Matching(snapshot[c], a) \ {h}, h, 1)
    OBVIOUS
  <2>1. Matching(snapshot[c], a) \subseteq Webhooks /\ h \in Webhooks
    BY DEF Matching, TypeOK
  <2>2. new \in Job
    BY <2>0, <2>1 DEF Delivery, Job
  <2>3. new.alert = a /\ new.hook = h /\ new.hooks = Matching(snapshot[c], a) \ {h}
        /\ new.attempt = 1
    BY <2>0 DEF Delivery
  <2>4. TypeOK'
    BY <1>1, <1>4, <2>0, <2>2 DEF Goto, db, world, TypeOK
  <2>5. SnapshotOK' /\ PendingOK' /\ FoundOK'
    BY <1>1, <1>2, <1>4 DEF Goto, db, SnapshotOK, PendingOK, FoundOK, TypeOK, Delivering
  <2>6. job'[c] = new /\ pc'[c] = "post" /\ UNCHANGED <<pending, posts, alerts, received>>
    BY <1>1, <1>4, <2>0 DEF Goto, TypeOK, db, world
  <2>7. Matching(Untouched, a) \subseteq Matching(snapshot[c], a)
        /\ Matching(Untouched, a)' = Matching(Untouched, a)
    BY <1>2, <2>6 DEF SnapshotOK, Matching
  <2>8. posts[<<a, h>>] >= 0
    BY <2>1, PostsTyped
  <2>9. JobOf(c)'
    BY <1>2, <2>2, <2>3, <2>6, <2>7, <2>8 DEF JobOf
  <2>10. \A d \in Checkers \ {c} : pc'[d] = pc[d] /\ job'[d] = job[d]
    BY <1>4 DEF Goto, TypeOK
  <2>11. JobOK'
    BY <2>6, <2>9, <2>10, OthersKept, PostsTyped
  <2> QED
    BY <1>1, <2>4, <2>5, <2>11, SentUnchanged DEF db
<1> QED
  BY <1>3, <1>4 DEF TakeAlert

\* What a step that only moves c along leaves alone.
LEMMA Moved ==
  ASSUME Inv, NEW c \in Checkers,
         UNCHANGED <<alerts, world, enabled>>, TypeOK', JobOf(c)' \/ pc'[c] \notin Delivering,
         pending'[c] \subseteq pending[c], FoundOK',
         pc'[c] \in {"deliver"} \cup Delivering => /\ pc[c] \in {"deliver"} \cup Delivering
                                                 /\ snapshot'[c] = snapshot[c],
         \A d \in Checkers \ {c} : /\ pc'[d] = pc[d] /\ job'[d] = job[d]
                                   /\ pending'[d] = pending[d]
                                   /\ snapshot'[d] = snapshot[d]
  PROVE  Inv'
<1>1. Rows' = Rows
  BY DEF Rows
<1>2. SnapshotOK' /\ PendingOK'
  BY <1>1 DEF Inv, SnapshotOK, PendingOK
<1>3. JobOK'
  BY OthersKept, PostsTyped DEF world
<1> QED
  BY <1>1, <1>2, <1>3, SentUnchanged DEF Inv

LEMMA LogInv ==
  ASSUME Inv, NEW c \in Checkers, Log(c)
  PROVE  Inv'
<1> USE PipelineAssumption DEF Inv
<1>0. PICK j : j = job[c]
  OBVIOUS
<1>1. UNCHANGED <<db, world, todo, found, pending, snapshot>> /\ pc[c] = "log"
  BY DEF Log
<1>2. JobOf(c) /\ j \in Job
  BY <1>0, <1>1 DEF JobOK, JobOf, Delivering
<1>3. /\ j.alert \in pending[c] /\ j.alert \in Alerts /\ j.hooks \subseteq Webhooks
      /\ j.hook \in Webhooks /\ j.attempt \in 1..Attempts
      /\ posts[<<j.alert, j.hook>>] \in 0..Attempts
      /\ posts[<<j.alert, j.hook>>] >= j.attempt
  BY <1>0, <1>1, <1>2, PostsTyped DEF JobOf, Job
<1>4. \A h \in Matching(Untouched, j.alert) :
        h \in j.hooks \/ Settled(j.alert, h) \/ h = j.hook
  BY <1>0, <1>1, <1>2 DEF JobOf
<1>5. Matching(Untouched, j.alert)' = Matching(Untouched, j.alert)
      /\ \A h \in Webhooks : Settled(j.alert, h)' <=> Settled(j.alert, h)
  BY <1>1 DEF db, world, Matching, Settled
<1>6. CASE /\ j.reply # "ok" /\ ~Exhausted(j)
           /\ job' = [job EXCEPT ![c] = Delivery(j.alert, j.hooks, j.hook, j.attempt + 1)]
           /\ Goto(c, "post")
  <2>0. PICK new : new = Delivery(j.alert, j.hooks, j.hook, j.attempt + 1)
    OBVIOUS
  <2>1. j.attempt + 1 \in 1..Attempts
    BY <1>3, <1>6 DEF Exhausted
  <2>2. new \in Job
    BY <1>3, <2>0, <2>1 DEF Delivery, Job
  <2>3. new.alert = j.alert /\ new.hook = j.hook /\ new.hooks = j.hooks
        /\ new.attempt = j.attempt + 1
    BY <2>0 DEF Delivery
  <2>4. job' = [job EXCEPT ![c] = new]
    BY <1>6, <2>0
  <2>5. TypeOK'
    BY <1>1, <1>6, <2>2, <2>4 DEF Goto, db, world, TypeOK
  <2>6. pc'[c] = "post" /\ job'[c] = new
    BY <1>6, <2>4 DEF Goto, TypeOK
  <2>7. posts'[<<j.alert, j.hook>>] >= new.attempt - 1 /\ new.alert \in pending'[c]
    BY <1>1, <1>3, <2>3 DEF world
  <2>8. \A h \in Matching(Untouched, new.alert)' :
          h \in new.hooks \/ Settled(new.alert, h)' \/ h = new.hook
    BY <1>4, <1>5, <2>3 DEF Matching
  <2>9. JobOf(c)'
    BY <2>2, <2>3, <2>6, <2>7, <2>8 DEF JobOf
  <2>10. FoundOK'
    BY <1>1, <1>6 DEF Goto, FoundOK, TypeOK
  <2>11. \A d \in Checkers \ {c} : pc'[d] = pc[d] /\ job'[d] = job[d]
    BY <1>6, <2>4 DEF Goto, TypeOK
  <2> QED
    BY <1>1, <2>5, <2>6, <2>9, <2>10, <2>11, Moved DEF db, Delivering
<1>7. ASSUME j.reply = "ok" \/ Exhausted(j)
      PROVE  Settled(j.alert, j.hook)
  <2>1. CASE j.reply = "ok"
    BY <1>0, <1>1, <1>2, <2>1 DEF JobOf, Settled
  <2>2. CASE Exhausted(j)
    BY <1>3, <2>2 DEF Exhausted, Settled
  <2> QED
    BY <1>7, <2>1, <2>2
<1>8. CASE /\ j.reply = "ok" \/ Exhausted(j)
           /\ j.hooks = {} /\ Goto(c, "mark") /\ UNCHANGED job
  <2>1. TypeOK' /\ pc'[c] = "mark" /\ \A d \in Checkers \ {c} : pc'[d] = pc[d]
    BY <1>1, <1>8 DEF Goto, db, world, TypeOK
  <2>2. JobOf(c)'
    BY <1>0, <1>1, <1>2, <1>3, <1>4, <1>5, <1>7, <1>8, <2>1 DEF JobOf, world, Matching
  <2>3. FoundOK'
    BY <1>1, <1>8 DEF Goto, FoundOK, TypeOK
  <2> QED
    BY <1>1, <1>8, <2>1, <2>2, <2>3, Moved DEF db, Delivering
<1>9. ASSUME j.reply = "ok" \/ Exhausted(j),
             NEW h \in j.hooks,
             job' = [job EXCEPT ![c] = Delivery(j.alert, j.hooks \ {h}, h, 1)],
             Goto(c, "post")
      PROVE  Inv'
  <2>0. PICK new : new = Delivery(j.alert, j.hooks \ {h}, h, 1)
    OBVIOUS
  <2>1. new \in Job
    BY <1>3, <2>0 DEF Delivery, Job
  <2>2. new.alert = j.alert /\ new.hook = h /\ new.hooks = j.hooks \ {h}
        /\ new.attempt = 1
    BY <2>0 DEF Delivery
  <2>3. job' = [job EXCEPT ![c] = new]
    BY <1>9, <2>0
  <2>4. TypeOK'
    BY <1>1, <1>9, <2>1, <2>3 DEF Goto, db, world, TypeOK
  <2>5. pc'[c] = "post" /\ job'[c] = new
    BY <1>9, <2>3 DEF Goto, TypeOK
  <2>6. posts'[<<j.alert, h>>] >= 0 /\ new.alert \in pending'[c]
    BY <1>1, <1>3, <2>2, PostsTyped DEF world
  <2>7. \A g \in Matching(Untouched, new.alert)' :
          g \in new.hooks \/ Settled(new.alert, g)' \/ g = new.hook
    BY <1>3, <1>4, <1>5, <1>7, <1>9, <2>2 DEF Matching
  <2>8. JobOf(c)'
    BY <2>1, <2>2, <2>5, <2>6, <2>7 DEF JobOf
  <2>9. FoundOK'
    BY <1>1, <1>9 DEF Goto, FoundOK, TypeOK
  <2>10. \A d \in Checkers \ {c} : pc'[d] = pc[d] /\ job'[d] = job[d]
    BY <1>9, <2>3 DEF Goto, TypeOK
  <2> QED
    BY <1>1, <2>4, <2>5, <2>8, <2>9, <2>10, Moved DEF db, Delivering
<1> QED
  BY <1>0, <1>6, <1>8, <1>9 DEF Log

LEMMA PostInv ==
  ASSUME Inv, NEW c \in Checkers, Post(c)
  PROVE  Inv'
<1> USE PipelineAssumption DEF Inv
<1>0. PICK j : j = job[c]
  OBVIOUS
<1>1. PICK x : x = <<j.alert, j.hook>>
  OBVIOUS
<1>2. UNCHANGED <<db, todo, found, pending, snapshot>> /\ pc[c] = "post" /\ Goto(c, "log")
  BY DEF Post
<1>3. JobOf(c) /\ j \in Job
  BY <1>0, <1>2 DEF JobOK, JobOf, Delivering
<1>4. /\ j.alert \in pending[c] /\ j.alert \in Alerts /\ j.hook \in Webhooks
      /\ j.attempt \in 1..Attempts /\ posts[x] \in 0..Attempts
      /\ posts[x] >= j.attempt - 1
  BY <1>0, <1>1, <1>2, <1>3, PostsTyped DEF JobOf, Job
<1>5. posts' = [posts EXCEPT ![x] = IF @ < Attempts THEN @ + 1 ELSE @]
  BY <1>0, <1>1 DEF Post
<1>6. PICK reply \in {"ok", "refused", "exception"} :
        /\ job' = [job EXCEPT ![c].reply = reply]
        /\ \/ reply # "refused" /\ received' = received \cup {x}
           \/ reply # "ok" /\ UNCHANGED received
  BY <1>0, <1>1 DEF Post
<1>7. PICK new : new = [j EXCEPT !.reply = reply]
  OBVIOUS
<1>8. job' = [job EXCEPT ![c] = new]
  BY <1>0, <1>6, <1>7
<1>9. /\ new \in Job /\ new.alert = j.alert /\ new.hook = j.hook /\ new.hooks = j.hooks
      /\ new.attempt = j.attempt /\ new.reply = reply
  BY <1>3, <1>6, <1>7 DEF Job
<1>10. \A a \in Alerts, h \in Webhooks :
         /\ posts'[<<a, h>>] \in 0..Attempts
         /\ posts'[<<a, h>>] >= posts[<<a, h>>]
         /\ <<a, h>> \in received => <<a, h>> \in received'
  <2> SUFFICES ASSUME NEW a \in Alerts, NEW h \in Webhooks
               PROVE  /\ posts'[<<a, h>>] \in 0..Attempts
                      /\ posts'[<<a, h>>] >= posts[<<a, h>>]
                      /\ <<a, h>> \in received => <<a, h>> \in received'
    OBVIOUS
  <2>1. posts[<<a, h>>] \in 0..Attempts /\ posts \in [Alerts \X Webhooks -> 0..Attempts]
    BY DEF TypeOK
  <2>2. CASE <<a, h>> = x
    BY <1>5, <1>6, <2>1, <2>2
  <2>3. CASE <<a, h>> # x
    BY <1>5, <1>6, <2>1, <2>3
  <2> QED
    BY <2>2, <2>3
<1>11. posts'[x] >= j.attempt /\ x \in Alerts \X Webhooks
  <2>1. posts \in [Alerts \X Webhooks -> 0..Attempts] /\ x \in Alerts \X Webhooks
    BY <1>1, <1>4 DEF TypeOK
  <2>2. CASE posts[x] < Attempts
    BY <1>4, <1>5, <2>1, <2>2
  <2>3. CASE posts[x] >= Attempts
    BY <1>4, <1>5, <2>1, <2>3
  <2> QED
    BY <1>4, <2>1, <2>2, <2>3
<1>12. UNCHANGED alerts /\ Rows' = Rows
  BY <1>2 DEF db, Rows
<1>13. TypeOK'
  <2>1. posts' \in [Alerts \X Webhooks -> 0..Attempts]
    <3>1. posts \in [Alerts \X Webhooks -> 0..Attempts]
      BY DEF TypeOK
    <3>2. (IF posts[x] < Attempts THEN posts[x] + 1 ELSE posts[x]) \in 0..Attempts
      BY <1>4
    <3> QED
      BY <1>5, <3>1, <3>2
  <2>2. received' \subseteq Alerts \X Webhooks
    <3>1. received \subseteq Alerts \X Webhooks /\ x \in Alerts \X Webhooks
      BY <1>11 DEF TypeOK
    <3>2. received' = received \cup {x} \/ received' = received
      BY <1>6
    <3> QED
      BY <3>1, <3>2
  <2>3. job' \in [Checkers -> Job \cup {None}]
    BY <1>8, <1>9 DEF TypeOK
  <2> QED
    BY <1>2, <2>1, <2>2, <2>3 DEF Goto, db, TypeOK
<1>14. SnapshotOK' /\ PendingOK' /\ FoundOK'
  BY <1>2, <1>12
  DEF Goto, db, SnapshotOK, PendingOK, FoundOK, TypeOK, Delivering
<1>15. /\ pc'[c] = "log" /\ job'[c] = new
       /\ \A d \in Checkers \ {c} : pc'[d] = pc[d] /\ job'[d] = job[d]
  BY <1>2, <1>8 DEF Goto, TypeOK
<1>16. JobOf(c)'
  <2>1. Matching(Untouched, j.alert)' = Matching(Untouched, j.alert)
    BY <1>12 DEF Matching
  <2>2. ASSUME NEW h \in Matching(Untouched, j.alert)
        PROVE  h \in j.hooks \/ Settled(j.alert, h)' \/ h = j.hook
    <3>1. h \in j.hooks \/ Settled(j.alert, h) \/ h = j.hook
      BY <1>0, <1>3 DEF JobOf
    <3>2. h \in Webhooks /\ posts[<<j.alert, h>>] \in 0..Attempts
      BY <1>4, PostsTyped DEF Matching
    <3>3. /\ posts'[<<j.alert, h>>] \in 0..Attempts
          /\ posts'[<<j.alert, h>>] >= posts[<<j.alert, h>>]
          /\ <<j.alert, h>> \in received => <<j.alert, h>> \in received'
      BY <1>4, <1>10, <3>2
    <3>4. posts[<<j.alert, h>>] = Attempts => posts'[<<j.alert, h>>] = Attempts
      BY <3>2, <3>3
    <3> QED
      BY <3>1, <3>3, <3>4 DEF Settled
  <2>3. reply = "ok" => x \in received'
    BY <1>6
  <2> QED
    BY <1>1, <1>2, <1>4, <1>9, <1>11, <1>15, <2>1, <2>2, <2>3 DEF JobOf
<1>17. JobOK'
  BY <1>2, <1>10, <1>12, <1>15, <1>16, OthersKept
<1>18. SentMeansTried' /\ SentMeansPosted'
  <2>0. \A e \in Rows : Matching(Untouched, e)' = Matching(Untouched, e)
    BY <1>12 DEF Matching
  <2> SUFFICES ASSUME NEW e \in Rows, alerts[e].sent
               PROVE  /\ \A h \in Matching(Untouched, e) :
                           <<e, h>> \in received' \/ posts'[<<e, h>>] = Attempts
                      /\ \E h \in Webhooks : posts'[<<e, h>>] > 0
    BY <1>12, <2>0 DEF SentMeansTried, SentMeansPosted
  <2>1. e \in Alerts
    BY DEF Rows
  <2>2. PICK h \in Webhooks : posts[<<e, h>>] > 0
    BY DEF SentMeansPosted
  <2>3. posts'[<<e, h>>] > 0
    <3>1. /\ posts'[<<e, h>>] >= posts[<<e, h>>]
          /\ posts'[<<e, h>>] \in Nat /\ posts[<<e, h>>] \in Nat
      BY <1>10, <2>1, PostsTyped
    <3> QED
      BY <2>2, <3>1
  <2>4. ASSUME NEW g \in Matching(Untouched, e)
        PROVE  <<e, g>> \in received' \/ posts'[<<e, g>>] = Attempts
    <3>1. g \in Webhooks /\ posts[<<e, g>>] \in 0..Attempts
      BY <2>1, PostsTyped DEF Matching
    <3>2. <<e, g>> \in received \/ posts[<<e, g>>] = Attempts
      BY DEF SentMeansTried
    <3>3. /\ posts'[<<e, g>>] \in 0..Attempts
          /\ posts'[<<e, g>>] >= posts[<<e, g>>]
          /\ <<e, g>> \in received => <<e, g>> \in received'
      BY <1>10, <2>1, <3>1
    <3> QED
      BY <3>1, <3>2, <3>3
  <2> QED
    BY <2>3, <2>4
<1> QED
  BY <1>13, <1>14, <1>17, <1>18

\* The invariant's point: when the mark is set, every webhook is settled.
LEMMA MarkInv ==
  ASSUME Inv, NEW c \in Checkers, Mark(c)
  PROVE  Inv'
<1> USE PipelineAssumption DEF Inv
<1>0. PICK j, a : j = job[c] /\ a = j.alert
  OBVIOUS
<1>1. /\ pc[c] = "mark" /\ Goto(c, "deliver")
      /\ alerts' = [alerts EXCEPT ![a].sent = TRUE]
      /\ pending' = [pending EXCEPT ![c] = @ \ {a}]
      /\ job' = [job EXCEPT ![c] = None]
      /\ UNCHANGED <<usage, enabled, faults, periods, world, todo, found, snapshot>>
  BY <1>0 DEF Mark
<1>2. /\ j \in Job /\ a \in pending[c] /\ j.hook \in Webhooks
      /\ \A h \in Matching(Untouched, a) : Settled(a, h)
      /\ posts[<<a, j.hook>>] >= j.attempt /\ j.attempt \in 1..Attempts
  BY <1>0, <1>1 DEF JobOK, JobOf, Delivering, Job
<1>3. a \in Rows /\ a \in Alerts /\ alerts[a] \in Row
  BY <1>2 DEF PendingOK, Rows, TypeOK
<1>4. PICK row : row = [alerts[a] EXCEPT !.sent = TRUE]
  OBVIOUS
<1>5. row \in Row /\ row # None /\ row.type = alerts[a].type /\ row.sent
  BY <1>3, <1>4 DEF Row
<1>6. alerts' = [alerts EXCEPT ![a] = row]
  BY <1>1, <1>4
<1>7. Rows' = Rows /\ alerts' \in [Alerts -> Row \cup {None}]
      /\ \A e \in Rows : alerts'[e].type = alerts[e].type
                         /\ (e # a => alerts'[e] = alerts[e])
  BY <1>3, <1>5, <1>6 DEF Rows, TypeOK
<1>8. \A e \in Rows : Matching(Untouched, e)' = Matching(Untouched, e)
  BY <1>7, UntouchedWants
<1>9. TypeOK'
  BY <1>1, <1>7 DEF Goto, world, TypeOK
<1>10. SnapshotOK' /\ PendingOK' /\ FoundOK'
  BY <1>1, <1>7 DEF Goto, SnapshotOK, PendingOK, FoundOK, TypeOK, Delivering
<1>11. JobOK'
  <2>1. pc'[c] = "deliver" /\ \A d \in Checkers \ {c} : /\ pc'[d] = pc[d]
                                                        /\ job'[d] = job[d]
                                                        /\ pending'[d] = pending[d]
    BY <1>1 DEF Goto, TypeOK
  <2> QED
    BY <1>1, <1>7, <2>1, OthersKept, PostsTyped DEF world, Delivering
<1>12. SentMeansTried'
  BY <1>1, <1>2, <1>7, <1>8 DEF world, SentMeansTried, Settled
<1>13. SentMeansPosted'
  <2>1. posts[<<a, j.hook>>] > 0
    BY <1>2, <1>3, PostsTyped
  <2> QED
    BY <1>1, <1>2, <1>7, <2>1 DEF world, SentMeansPosted
<1> QED
  BY <1>9, <1>10, <1>11, <1>12, <1>13

----------------------------------------------------------------------------
(* Failures.                                                               *)

LEMMA GivenUp ==
  ASSUME Inv, NEW c \in Checkers, GiveUp(c), UNCHANGED <<alerts, world, enabled>>,
         usage' \in [Budgets -> Usages], faults' \in 0..MaxFaults,
         periods' \in 0..MaxPeriods
  PROVE  Inv'
<1>1. TypeOK' /\ FoundOK'
  BY PipelineAssumption DEF Inv, GiveUp, Goto, world, TypeOK, FoundOK
<1>2. pc'[c] = "idle" /\ pending'[c] = {}
      /\ \A d \in Checkers \ {c} : /\ pc'[d] = pc[d] /\ job'[d] = job[d]
                                   /\ pending'[d] = pending[d]
                                   /\ snapshot'[d] = snapshot[d]
  BY DEF Inv, GiveUp, Goto, TypeOK
<1> QED
  BY <1>1, <1>2, Moved DEF Delivering

LEMMA FaultInv ==
  ASSUME Inv,
         \/ Crash
         \/ \E c \in Checkers : LogFails(c) \/ DatabaseFails(c) \/ InsertOverflows(c)
  PROVE  Inv'
<1> USE PipelineAssumption DEF Inv
<1>1. ASSUME NEW c \in Checkers, InsertOverflows(c)
      PROVE  Inv'
  BY <1>1, GivenUp DEF InsertOverflows, db, TypeOK
<1>2. ASSUME NEW c \in Checkers, DatabaseFails(c)
      PROVE  Inv'
  <2>1. faults' \in 0..MaxFaults
    BY <1>2 DEF DatabaseFails, Fault, TypeOK
  <2> QED
    BY <1>2, <2>1, GivenUp DEF DatabaseFails, TypeOK
<1>3. ASSUME NEW c \in Checkers, LogFails(c)
      PROVE  Inv'
  <2>0. PICK j : j = job[c]
    OBVIOUS
  <2>1. faults' \in 0..MaxFaults
    BY <1>3 DEF LogFails, Fault, TypeOK
  <2>2. /\ pc[c] = "log" /\ job' = [job EXCEPT ![c].reply = "exception"]
        /\ UNCHANGED <<usage, alerts, enabled, periods, world, pc, todo, found, pending,
                       snapshot>>
    BY <1>3 DEF LogFails
  <2>3. PICK new : new = [j EXCEPT !.reply = "exception"]
    OBVIOUS
  <2>4. job' = [job EXCEPT ![c] = new]
    BY <2>0, <2>2, <2>3
  <2>5. JobOf(c) /\ j \in Job
    BY <2>0, <2>2 DEF JobOK, JobOf, Delivering
  <2>6. /\ new \in Job /\ new.alert = j.alert /\ new.hook = j.hook
        /\ new.hooks = j.hooks /\ new.attempt = j.attempt /\ new.reply = "exception"
    BY <2>3, <2>5 DEF Job
  <2>7. TypeOK' /\ FoundOK'
    <3>1. job' \in [Checkers -> Job \cup {None}]
      BY <2>4, <2>6 DEF TypeOK
    <3> QED
      BY <2>1, <2>2, <3>1 DEF world, TypeOK, FoundOK
  <2>8. job'[c] = new /\ \A d \in Checkers \ {c} : job'[d] = job[d]
    BY <2>4 DEF TypeOK
  <2>9. JobOf(c)'
    <3>1. Matching(Untouched, j.alert)' = Matching(Untouched, j.alert)
          /\ \A h \in Webhooks : Settled(j.alert, h)' <=> Settled(j.alert, h)
      BY <2>2 DEF Matching, Settled, world
    <3>2. Matching(Untouched, j.alert) \subseteq Webhooks
      BY DEF Matching
    <3> QED
      BY <2>0, <2>2, <2>5, <2>6, <2>8, <3>1, <3>2 DEF JobOf, world
  <2> QED
    BY <2>2, <2>7, <2>8, <2>9, Moved DEF Delivering
<1>4. CASE Crash
  <2>1. faults' \in 0..MaxFaults
    BY <1>4 DEF Crash, Fault, TypeOK
  <2>2. Rows' = Rows /\ UNCHANGED <<alerts, world>>
    BY <1>4 DEF Crash, Rows
  <2>3. TypeOK'
    BY <1>4, <2>1 DEF Crash, world, TypeOK
  <2>4. SnapshotOK' /\ PendingOK' /\ FoundOK' /\ JobOK'
    BY <1>4, <2>2 DEF Crash, SnapshotOK, PendingOK, FoundOK, JobOK, Delivering
  <2> QED
    BY <2>2, <2>3, <2>4, SentUnchanged
<1> QED
  BY <1>1, <1>2, <1>3, <1>4

----------------------------------------------------------------------------
LEMMA InvNext == Inv /\ [Next]_vars => Inv'
<1> SUFFICES ASSUME Inv, [Next]_vars PROVE Inv'
  OBVIOUS
<1>1. CASE UNCHANGED vars
  <2>1. Rows' = Rows /\ UNCHANGED <<alerts, world>>
    BY <1>1 DEF vars, db, Rows
  <2>2. TypeOK' /\ SnapshotOK' /\ PendingOK' /\ FoundOK'
    BY <1>1, <2>1
    DEF vars, db, world, cursor, Inv, TypeOK, SnapshotOK, PendingOK, FoundOK
  <2>3. JobOK'
    <3>1. /\ UNCHANGED <<alerts, posts, received, pc, pending, job>>
          /\ \A a \in Alerts, h \in Webhooks : posts'[<<a, h>>] = posts[<<a, h>>]
      BY <1>1 DEF vars, db, world, cursor
    <3> SUFFICES ASSUME NEW d \in Checkers, pc'[d] \in Delivering PROVE JobOf(d)'
      BY DEF JobOK
    <3>2. job[d].alert \in Alerts
      BY <3>1 DEF Inv, JobOK, JobOf, PendingOK, Rows
    <3> QED
      BY <3>1, <3>2, PostsTyped, JobKept
  <2> QED
    BY <2>1, <2>2, <2>3, SentUnchanged DEF Inv
<1>2. CASE \/ NewPeriod
           \/ \E b \in Budgets : UsageChanges(b)
           \/ EditWebhook
  BY <1>2, EnvironmentInv
<1>3. CASE Crash
  BY <1>3, FaultInv
<1>4. ASSUME NEW c \in Checkers,
             StartCheck(c) \/ Proceed(c) \/ LogFails(c) \/ DatabaseFails(c)
      PROVE  Inv'
  <2>1. CASE \/ StartCheck(c) \/ LookForRecent(c) \/ ReadPending(c) \/ EndCheck(c)
             \/ \E b \in Budgets : Examine(c, b)
    BY <2>1, ScanInv
  <2>2. CASE Insert(c)
    BY <2>2, InsertInv
  <2>3. CASE \E a \in Alerts : TakeAlert(c, a)
    BY <2>3, TakeAlertInv
  <2>4. CASE Post(c)
    BY <2>4, PostInv
  <2>5. CASE Log(c)
    BY <2>5, LogInv
  <2>6. CASE Mark(c)
    BY <2>6, MarkInv
  <2>7. CASE LogFails(c) \/ DatabaseFails(c) \/ InsertOverflows(c)
    BY <2>7, FaultInv
  <2> QED
    BY <1>4, <2>1, <2>2, <2>3, <2>4, <2>5, <2>6, <2>7 DEF Proceed
<1> QED
  BY <1>1, <1>2, <1>3, <1>4 DEF Next

LEMMA Invariance == Spec => []Inv
BY InvInit, InvNext, PTL DEF Spec

\* The rows and the checkers' locals always have the values of TypeOK.
THEOREM TypeCorrect == Spec => []TypeOK
BY Invariance, PTL DEF Inv

\* An alert marked sent has reached, or has been posted Attempts times to,
\* every webhook that was always there and wants it.  Attempts is the default
\* of _async_deliver_to_webhook, 3: a webhook's own max_retries is never read.
THEOREM SentIsTried == Spec => []SentMeansTried
BY Invariance, PTL DEF Inv

\* An alert is marked sent only after it was posted somewhere.
THEOREM SentIsPosted == Spec => []SentMeansPosted
BY Invariance, PTL DEF Inv
----------------------------------------------------------------------------
(* How many alerts a period can have.                                      *)

\* The checkers that have found no recent alert, and will insert one.
Inserting(b, type) ==
  {c \in Checkers : pc[c] = "insert" /\ found[c].budget = b /\ found[c].type = type}

\* They and the alerts that are there are no more than the checkers together.
Shared(b, type) ==
  /\ IsFiniteSet(Raised(b, type))
  /\ Cardinality(Raised(b, type)) + Cardinality(Inserting(b, type)) <= Cardinality(Checkers)

RaceInv == \A b \in Budgets, type \in AlertTypes : Shared(b, type)

LEMMA InsertingFinite ==
  ASSUME NEW b, NEW type
  PROVE  /\ IsFiniteSet(Inserting(b, type))
         /\ Cardinality(Inserting(b, type)) \in Nat
         /\ Cardinality(Inserting(b, type)) <= Cardinality(Checkers)
         /\ Cardinality(Checkers) \in Nat
BY PipelineAssumption, FS_Subset, FS_CardinalityType DEF Inserting

\* A step after which there are no more of either keeps the bound.
LEMMA NoneAdded ==
  ASSUME NEW b, NEW type, Shared(b, type),
         Raised(b, type)' \subseteq Raised(b, type),
         Inserting(b, type)' \subseteq Inserting(b, type)
  PROVE  Shared(b, type)'
<1>1. /\ IsFiniteSet(Raised(b, type)')
      /\ Cardinality(Raised(b, type)') <= Cardinality(Raised(b, type))
      /\ Cardinality(Raised(b, type)') \in Nat /\ Cardinality(Raised(b, type)) \in Nat
  BY FS_Subset, FS_CardinalityType DEF Shared
<1>2. /\ IsFiniteSet(Inserting(b, type)) /\ Cardinality(Inserting(b, type)) \in Nat
      /\ Cardinality(Checkers) \in Nat
  BY InsertingFinite
<1>3. /\ Cardinality(Inserting(b, type)') <= Cardinality(Inserting(b, type))
      /\ Cardinality(Inserting(b, type)') \in Nat
  BY <1>2, FS_Subset, FS_CardinalityType
<1>. QED  BY <1>1, <1>2, <1>3 DEF Shared

\* Where nothing is inserted, no alert becomes current and only LookForRecent
\* makes a checker insert.
LEMMA QuietRace ==
  ASSUME Inv, RaceInv,
         \A a \in Alerts : alerts'[a] # None =>
           /\ alerts[a] # None
           /\ alerts'[a].budget = alerts[a].budget /\ alerts'[a].type = alerts[a].type
           /\ alerts'[a].current => alerts[a].current,
         \A c \in Checkers : pc'[c] = "insert" => pc[c] = "insert" /\ found'[c] = found[c]
  PROVE  RaceInv'
<1>. SUFFICES ASSUME NEW b \in Budgets, NEW type \in AlertTypes PROVE Shared(b, type)'
  BY DEF RaceInv
<1>1. Raised(b, type)' \subseteq Raised(b, type)  BY DEF Raised, Rows
<1>2. Inserting(b, type)' \subseteq Inserting(b, type)  BY DEF Inserting
<1>. QED  BY <1>1, <1>2, NoneAdded DEF RaceInv

LEMMA LookRace ==
  ASSUME Inv, RaceInv, NEW c \in Checkers, LookForRecent(c)
  PROVE  RaceInv'
<1>. DEFINE f == found[c]
<1>1. UNCHANGED alerts /\ TypeOK  BY DEF LookForRecent, db, Inv
<1>2. CASE RecentAlert(f.budget, f.type)
  BY <1>1, <1>2, QuietRace DEF LookForRecent, Goto, TypeOK
<1>3. CASE ~RecentAlert(f.budget, f.type)
  <2>1. pc' = [pc EXCEPT ![c] = "insert"] /\ found' = found
    BY <1>3 DEF LookForRecent, Goto
  <2>2. SUFFICES ASSUME NEW x \in Budgets, NEW type \in AlertTypes PROVE Shared(x, type)'
    BY DEF RaceInv
  <2>3. Raised(x, type)' = Raised(x, type)  BY <1>1 DEF Raised, Rows
  <2>4. CASE x = f.budget /\ type = f.type
    <3>1. Raised(x, type) = {}  BY <1>3, <2>4 DEF RecentAlert, Raised
    <3>2. Cardinality(Raised(x, type)') = 0 /\ IsFiniteSet(Raised(x, type)')
      BY <2>3, <3>1, FS_EmptySet
    <3>3. Inserting(x, type)' \subseteq Checkers  BY DEF Inserting
    <3>4. /\ Cardinality(Inserting(x, type)') <= Cardinality(Checkers)
          /\ Cardinality(Inserting(x, type)') \in Nat /\ Cardinality(Checkers) \in Nat
      BY <3>3, PipelineAssumption, FS_Subset, FS_CardinalityType
    <3>. QED  BY <3>2, <3>4 DEF Shared
  <2>5. CASE ~(x = f.budget /\ type = f.type)
    <3>1. ~(f.budget = x /\ f.type = type)  BY <2>5
    <3>2. Inserting(x, type)' \subseteq Inserting(x, type)
      BY <1>1, <2>1, <3>1 DEF Inserting, TypeOK
    <3>. QED  BY <2>3, <3>2, NoneAdded DEF RaceInv
  <2>. QED  BY <2>4, <2>5
<1>. QED  BY <1>2, <1>3

LEMMA InsertRace ==
  ASSUME Inv, RaceInv, NEW c \in Checkers, Insert(c)
  PROVE  RaceInv'
<1>. DEFINE f == found[c]
<1>1. PICK a \in Reusable :
        alerts' = [alerts EXCEPT ![a] =
                     [budget |-> f.budget, type |-> f.type, current |-> TRUE, sent |-> FALSE]]
  BY DEF Insert
<1>2. /\ pc[c] = "insert" /\ pc' = [pc EXCEPT ![c] = "scan"]
      /\ found' = [found EXCEPT ![c] = None] /\ TypeOK
  BY DEF Insert, Goto, Inv
<1>3. a \in Alerts /\ (alerts[a] # None => ~alerts[a].current)
  BY DEF Reusable, Rows
<1>4. None # [budget |-> f.budget, type |-> f.type, current |-> TRUE, sent |-> FALSE]
  <2>1. f \in [budget : Budgets, type : AlertTypes, fits : BOOLEAN]
    BY <1>2 DEF Inv, TypeOK, FoundOK
  <2>2. f.budget \in Budgets /\ f.type \in AlertTypes  BY <2>1
  <2>. HIDE DEF f
  <2>3. [budget |-> f.budget, type |-> f.type, current |-> TRUE, sent |-> FALSE] \in Row
    BY <2>2 DEF Row
  <2>. QED  BY <2>3, PipelineAssumption DEF Row
<1>5. SUFFICES ASSUME NEW b \in Budgets, NEW type \in AlertTypes PROVE Shared(b, type)'
  BY DEF RaceInv
<1>6. Shared(b, type)  BY DEF RaceInv
<1>7. /\ \A x \in Alerts \ {a} : alerts'[x] = alerts[x]
      /\ alerts'[a] = [budget |-> f.budget, type |-> f.type, current |-> TRUE, sent |-> FALSE]
  BY <1>1, <1>2, <1>3 DEF TypeOK
<1>8. pc'[c] = "scan" /\ \A d \in Checkers \ {c} : pc'[d] = pc[d] /\ found'[d] = found[d]
  BY <1>2 DEF TypeOK
<1>. HIDE DEF f
<1>9. CASE f.budget = b /\ f.type = type
  <2>1. Raised(b, type)' = Raised(b, type) \cup {a} /\ a \notin Raised(b, type)
    BY <1>3, <1>4, <1>7, <1>9 DEF Raised, Rows
  <2>2. Inserting(b, type)' = Inserting(b, type) \ {c} /\ c \in Inserting(b, type)
    BY <1>2, <1>8, <1>9 DEF Inserting, f
  <2>3. /\ IsFiniteSet(Raised(b, type)') /\ Cardinality(Raised(b, type)) \in Nat
        /\ Cardinality(Raised(b, type)') = Cardinality(Raised(b, type)) + 1
    BY <1>6, <2>1, FS_AddElement, FS_CardinalityType DEF Shared
  <2>4. IsFiniteSet(Inserting(b, type)) /\ Cardinality(Inserting(b, type)) \in Nat
        /\ Cardinality(Checkers) \in Nat
    BY InsertingFinite
  <2>5. Cardinality(Inserting(b, type)') = Cardinality(Inserting(b, type)) - 1
    BY <2>2, <2>4, FS_RemoveElement
  <2>. QED  BY <1>6, <2>3, <2>4, <2>5 DEF Shared
<1>10. CASE ~(f.budget = b /\ f.type = type)
  <2>1. Raised(b, type)' \subseteq Raised(b, type)
    BY <1>3, <1>7, <1>10 DEF Raised, Rows
  <2>2. Inserting(b, type)' \subseteq Inserting(b, type)
    BY <1>8 DEF Inserting
  <2>. QED  BY <1>6, <2>1, <2>2, NoneAdded
<1>. QED  BY <1>9, <1>10

LEMMA RaceNext ==
  ASSUME Inv, RaceInv, [Next]_vars
  PROVE  RaceInv'
<1>0. TypeOK  BY DEF Inv
<1>1. ASSUME UNCHANGED alerts, pc' = pc, found' = found PROVE RaceInv'
  BY <1>1, QuietRace
<1>2. CASE UNCHANGED vars  BY <1>1, <1>2 DEF vars, db, cursor
<1>3. CASE NewPeriod
  <2>1. /\ alerts' = [a \in Alerts |-> IF a \in Rows
                                       THEN [alerts[a] EXCEPT !.current = FALSE] ELSE None]
        /\ UNCHANGED <<pc, found>>
    BY <1>3 DEF NewPeriod, cursor
  <2>2. \A r \in Row : LET n == [r EXCEPT !.current = FALSE]
                       IN n.budget = r.budget /\ n.type = r.type /\ ~n.current
    BY DEF Row
  <2>. QED  BY <1>0, <2>1, <2>2, QuietRace DEF TypeOK, Rows
<1>4. CASE Crash
  BY <1>4, QuietRace DEF Crash
<1>5. CASE \/ \E b \in Budgets : UsageChanges(b)
           \/ EditWebhook
  BY <1>1, <1>5 DEF UsageChanges, EditWebhook, cursor
<1>6. ASSUME NEW c \in Checkers, 
             NEW label \in {"idle", "scan", "recent", "deliver", "post", "log", "mark"},
             Goto(c, label), UNCHANGED found, UNCHANGED alerts
      PROVE  RaceInv'
  BY <1>0, <1>6, QuietRace DEF Goto, TypeOK
<1>7. ASSUME NEW c \in Checkers,
             StartCheck(c) \/ Proceed(c) \/ LogFails(c) \/ DatabaseFails(c)
      PROVE  RaceInv'
  <2>1. CASE StartCheck(c) \/ ReadPending(c) \/ Post(c) \/ EndCheck(c)
    BY <1>6, <2>1 DEF StartCheck, ReadPending, Post, EndCheck, db
  <2>2. CASE LogFails(c)  BY <1>1, <2>2 DEF LogFails
  <2>3. CASE InsertOverflows(c) \/ DatabaseFails(c)
    BY <1>0, <2>3, QuietRace DEF InsertOverflows, DatabaseFails, GiveUp, Goto, db, TypeOK
  <2>4. CASE LookForRecent(c)  BY <2>4, LookRace
  <2>9. CASE \E b \in Budgets : Examine(c, b)
    BY <1>0, <2>9, QuietRace DEF Examine, Goto, db, TypeOK
  <2>5. CASE Insert(c)  BY <2>5, InsertRace
  <2>6. CASE \E a \in Alerts : TakeAlert(c, a)
    BY <1>1, <1>6, <2>6 DEF TakeAlert, db
  <2>7. CASE Log(c)
    BY <1>6, <2>7 DEF Log, db
  <2>8. CASE Mark(c)
    <3>1. PICK a \in Alerts : a = job[c].alert
      BY <2>8 DEF Mark, Inv, JobOK, JobOf, Delivering, Job
    <3>2. /\ alerts' = [alerts EXCEPT ![a].sent = TRUE] /\ UNCHANGED found /\ Goto(c, "deliver")
      BY <2>8, <3>1 DEF Mark
    <3>3. alerts[a] # None
      BY <2>8, <3>1 DEF Mark, Inv, JobOK, JobOf, Delivering, PendingOK, Rows
    <3>4. \A r \in Row : LET n == [r EXCEPT !.sent = TRUE]
                         IN n.budget = r.budget /\ n.type = r.type /\ n.current = r.current
      BY DEF Row
    <3>. QED  BY <1>0, <3>2, <3>3, <3>4, QuietRace DEF Goto, TypeOK
  <2>. QED  BY <1>7, <2>1, <2>2, <2>3, <2>4, <2>5, <2>6, <2>7, <2>8, <2>9 DEF Proceed
<1>. QED  BY <1>2, <1>3, <1>4, <1>5, <1>7 DEF Next

LEMMA RaceHolds == Spec => []RaceInv
<1>1. Init => RaceInv
  <2>. SUFFICES ASSUME Init, NEW b \in Budgets, NEW type \in AlertTypes PROVE Shared(b, type)
    BY DEF RaceInv
  <2>1. Raised(b, type) = {} /\ Inserting(b, type) = {}
    BY DEF Init, Raised, Rows, Inserting
  <2>. QED  BY <2>1, PipelineAssumption, FS_EmptySet, FS_CardinalityType DEF Shared
<1>2. Inv /\ RaceInv /\ [Next]_vars => RaceInv'  BY RaceNext
<1>. QED  BY <1>1, <1>2, Invariance, PTL DEF Spec

\* A budget has no more alerts of a type in a period than there are checkers.
THEOREM PerPeriod == Spec => []AlertsPerPeriod
<1>1. RaceInv => AlertsPerPeriod
  <2>. SUFFICES ASSUME RaceInv, NEW b \in Budgets, NEW type \in AlertTypes
                PROVE  Cardinality(Raised(b, type)) <= Cardinality(Checkers)
    BY DEF AlertsPerPeriod
  <2>1. Shared(b, type) /\ Cardinality(Raised(b, type)) \in Nat
    BY FS_CardinalityType DEF RaceInv, Shared
  <2>. QED  BY <2>1, InsertingFinite DEF Shared
<1>. QED  BY <1>1, RaceHolds, PTL

\* So the promise of one alert per budget, type and period holds as long as the
\* loop is the only checker.
THEOREM LoopAlone ==
  ASSUME Checkers = {Loop}
  PROVE  Spec => []OneAlertPerPeriod
<1>1. RaceInv /\ TypeOK => OneAlertPerPeriod
  <2>1. SUFFICES ASSUME RaceInv, TypeOK, NEW a1 \in Rows, NEW a2 \in Rows,
                        alerts[a1].current, alerts[a2].current,
                        alerts[a1].budget = alerts[a2].budget,
                        alerts[a1].type = alerts[a2].type,
                        a1 # a2
                 PROVE  FALSE
    BY DEF OneAlertPerPeriod
  <2>2. PICK b \in Budgets, type \in AlertTypes : b = alerts[a1].budget /\ type = alerts[a1].type
    BY <2>1 DEF Rows, TypeOK, Row
  <2>3. {a1, a2} \subseteq Raised(b, type)  BY <2>1, <2>2 DEF Raised
  <2>4. Shared(b, type)  BY <2>1 DEF RaceInv
  <2>5. Cardinality({a1, a2}) = 2
    <3>1. IsFiniteSet({a1}) /\ Cardinality({a1}) = 1  BY FS_Singleton
    <3>. DEFINE S == {a1}
    <3>2. Cardinality(S \cup {a2}) = IF a2 \in S THEN Cardinality(S) ELSE Cardinality(S) + 1
      <4>. HIDE DEF S
      <4>. QED  BY <3>1, FS_AddElement DEF S
    <3>3. {a1, a2} = S \cup {a2} /\ a2 \notin S  BY <2>1
    <3>. QED  BY <3>1, <3>2, <3>3
  <2>6. 2 <= Cardinality(Raised(b, type)) /\ Cardinality(Raised(b, type)) \in Nat
    BY <2>3, <2>4, <2>5, FS_Subset, FS_CardinalityType DEF Shared
  <2>7. Cardinality(Checkers) = 1  BY FS_Singleton
  <2>. QED  BY <2>4, <2>6, <2>7, InsertingFinite DEF Shared
<1>. QED  BY <1>1, RaceHolds, TypeCorrect, PTL
----------------------------------------------------------------------------
(* The outbox.                                                             *)

\* The shape of entries and progress.
LEMMA OutboxTypes ==
  ASSUME TypeOK
  PROVE  /\ \A a \in Rows : /\ a \in Alerts /\ Entry[a] # None
                            /\ Entry[a] = [budget |-> alerts[a].budget,
                                           type |-> alerts[a].type, sent |-> alerts[a].sent]
         /\ \A a \in Alerts \ Rows : Entry[a] = None
         /\ \A x \in Alerts \X Webhooks :
              /\ Progress[x] = "done" <=> x \in received \/ posts[x] = Attempts
              /\ Progress[x] = "none" => x \notin received /\ posts[x] = 0
              /\ Progress[x] \in {"none", "tried", "done"}
<1>1. \A a \in Rows :
        /\ a \in Alerts /\ alerts[a] \in Row
        /\ Entry[a] = [budget |-> alerts[a].budget,
                       type |-> alerts[a].type, sent |-> alerts[a].sent]
  BY DEF TypeOK, Rows, Entry
<1>2. \A a \in Rows : Entry[a] # None
  <2>1. \A r \in Row : [budget |-> r.budget, type |-> r.type, sent |-> r.sent] # None
    BY PipelineAssumption DEF Row
  <2>. QED  BY <1>1, <2>1
<1>3. \A a \in Alerts \ Rows : Entry[a] = None  BY DEF Rows, Entry
<1>4. \A x \in Alerts \X Webhooks : posts[x] \in 0..Attempts  BY DEF TypeOK
<1>5. \A x \in Alerts \X Webhooks :
        /\ Progress[x] = "done" <=> x \in received \/ posts[x] = Attempts
        /\ Progress[x] = "none" => x \notin received /\ posts[x] = 0
        /\ Progress[x] \in {"none", "tried", "done"}
  BY <1>4, PipelineAssumption DEF Progress
<1>. QED  BY <1>1, <1>2, <1>3, <1>5

LEMMA OutboxStart == Init => Outbox!OutboxInit
<1>. SUFFICES ASSUME Init PROVE Outbox!OutboxInit
  OBVIOUS
<1>1. Entry = [a \in Alerts |-> None]  BY DEF Init, Entry
<1>2. Progress = [x \in Alerts \X Webhooks |-> "none"]
  BY PipelineAssumption DEF Init, Progress
<1>. QED  BY <1>1, <1>2 DEF Outbox!OutboxInit

\* The insertion of a row raises an alert.
LEMMA InsertRaises ==
  ASSUME Inv, NEW c \in Checkers, Insert(c)
  PROVE  Outbox!OutboxNext
<1>1. PICK a \in Reusable :
        /\ alerts' = [alerts EXCEPT ![a] =
                        [budget |-> found[c].budget, type |-> found[c].type,
                         current |-> TRUE, sent |-> FALSE]]
        /\ posts' = [x \in Alerts \X Webhooks |-> IF x[1] = a THEN 0 ELSE posts[x]]
        /\ received' = {x \in received : x[1] # a}
  BY DEF Insert
<1>. DEFINE b == found[c].budget
            t == found[c].type
            row == [budget |-> b, type |-> t, current |-> TRUE, sent |-> FALSE]
<1>2. b \in Budgets /\ t \in AlertTypes  BY DEF Insert, Inv, TypeOK, FoundOK
<1>3. a \in Alerts /\ (a \in Rows => alerts[a].sent)  BY DEF Reusable
<1>4. TypeOK  BY DEF Inv
<1>5. Entry[a] # None => Entry[a].sent
  <2>1. CASE a \in Rows
    <3>1. Entry[a] = [budget |-> alerts[a].budget,
                      type |-> alerts[a].type, sent |-> alerts[a].sent]
      BY <1>4, <2>1, OutboxTypes
    <3>. QED  BY <1>3, <2>1, <3>1
  <2>2. CASE a \notin Rows  BY <1>3, <1>4, <2>2, OutboxTypes
  <2>. QED  BY <2>1, <2>2
<1>6. Entry' = [Entry EXCEPT ![a] = [budget |-> b, type |-> t, sent |-> FALSE]]
  <2>1. alerts'[a] = row /\ \A e \in Alerts \ {a} : alerts'[e] = alerts[e]
    BY <1>1, <1>3, <1>4 DEF TypeOK
  <2>2. row \in Row /\ row.budget = b /\ row.type = t /\ row.sent = FALSE
    BY <1>2 DEF Row
  <2>3. None \notin Row  BY PipelineAssumption DEF Row
  <2>. HIDE DEF row, b, t
  <2>4. Entry'[a] = [budget |-> b, type |-> t, sent |-> FALSE]
    BY <1>3, <2>1, <2>2, <2>3 DEF Entry
  <2>5. \A e \in Alerts \ {a} : Entry'[e] = Entry[e]  BY <2>1 DEF Entry
  <2>. QED  BY <1>3, <2>4, <2>5 DEF Entry
<1>7. Progress' = [x \in Alerts \X Webhooks |-> IF x[1] = a THEN "none" ELSE Progress[x]]
  <2>1. ASSUME NEW x \in Alerts \X Webhooks
        PROVE  Progress'[x] = IF x[1] = a THEN "none" ELSE Progress[x]
    <3>1. x \in received' <=> x \in received /\ x[1] # a  BY <1>1
    <3>2. posts'[x] = IF x[1] = a THEN 0 ELSE posts[x]  BY <1>1
    <3>. QED  BY <3>1, <3>2, PipelineAssumption DEF Progress
  <2>. QED  BY <2>1 DEF Progress
<1>8. Outbox!Raise(a, b, t)  BY <1>5, <1>6, <1>7 DEF Outbox!Raise
<1>. QED  BY <1>2, <1>3, <1>8 DEF Outbox!OutboxNext

\* A POST is an attempt, and never less than what was reached before.
LEMMA PostAttempts ==
  ASSUME Inv, NEW c \in Checkers, Post(c)
  PROVE  Outbox!OutboxNext
<1>. DEFINE a == job[c].alert
            h == job[c].hook
            x == <<a, h>>
<1>1. TypeOK /\ pc[c] = "post" /\ UNCHANGED alerts  BY DEF Inv, Post, db
<1>2. a \in Rows /\ a \in Alerts /\ h \in Webhooks
  BY <1>1 DEF Inv, JobOK, JobOf, Job, PendingOK, Delivering, Rows
<1>3. /\ posts' = [posts EXCEPT ![x] = IF @ < Attempts THEN @ + 1 ELSE @]
      /\ received' = received \cup {x} \/ received' = received
  BY DEF Post
<1>4. posts[x] \in 0..Attempts /\ x \in Alerts \X Webhooks  BY <1>1, <1>2 DEF TypeOK
<1>5. posts'[x] = IF posts[x] < Attempts THEN posts[x] + 1 ELSE posts[x]
  BY <1>1, <1>3, <1>4 DEF TypeOK
<1>6. Progress'[x] \in {"tried", "done"} /\ (Progress[x] = "done" => Progress'[x] = "done")
  BY <1>3, <1>4, <1>5, PipelineAssumption DEF Progress
<1>7. Progress' = [Progress EXCEPT ![x] = Progress'[x]]
  <2>1. \A y \in (Alerts \X Webhooks) \ {x} :
          posts'[y] = posts[y] /\ (y \in received' <=> y \in received)
    BY <1>1, <1>3 DEF TypeOK
  <2>. QED  BY <2>1 DEF Progress
<1>8. Entry' = Entry  BY <1>1 DEF Entry
<1>9. Entry[a] # None  BY <1>1, <1>2, OutboxTypes
<1>10. Outbox!Attempt(a, h)
  BY <1>6, <1>7, <1>8, <1>9 DEF Outbox!Attempt
<1>. QED  BY <1>2, <1>10 DEF Outbox!OutboxNext

LEMMA MarkedEntry ==
  ASSUME NEW r \in [budget : Budgets, type : AlertTypes, sent : BOOLEAN], NEW sent \in BOOLEAN
  PROVE  [r EXCEPT !.sent = sent] = [budget |-> r.budget, type |-> r.type, sent |-> sent]
OBVIOUS

\* A mark settles the alert, because the checker has done what that takes.
LEMMA MarkSettles ==
  ASSUME Inv, NEW c \in Checkers, Mark(c)
  PROVE  Outbox!OutboxNext
<1>. DEFINE a == job[c].alert
            h == job[c].hook
<1>1. TypeOK /\ pc[c] = "mark" /\ UNCHANGED <<posts, received>>  BY DEF Inv, Mark, world
<1>2. /\ job[c] \in Job /\ a \in pending[c]
      /\ \A w \in Matching(Untouched, a) : Settled(a, w)
      /\ posts[<<a, h>>] >= job[c].attempt
  BY <1>1 DEF Inv, JobOK, JobOf, Delivering
<1>3. a \in Rows /\ a \in Alerts /\ h \in Webhooks /\ alerts[a] \in Row
      /\ job[c].attempt \in 1..Attempts /\ posts[<<a, h>>] \in 0..Attempts
  BY <1>1, <1>2 DEF Inv, PendingOK, Rows, TypeOK, Job
<1>4. /\ Entry[a] # None /\ Entry[a].type = alerts[a].type
      /\ \A w \in Webhooks : Progress[<<a, w>>] = "done" <=> Settled(a, w)
      /\ Progress[<<a, h>>] = "none" => posts[<<a, h>>] = 0
  <2>1. Entry[a] = [budget |-> alerts[a].budget,
                    type |-> alerts[a].type, sent |-> alerts[a].sent] /\ Entry[a] # None
    BY <1>1, <1>3, OutboxTypes
  <2>2. \A w \in Webhooks : <<a, w>> \in Alerts \X Webhooks  BY <1>3
  <2>3. \A w \in Webhooks : Progress[<<a, w>>] = "done" <=> Settled(a, w)
    BY <1>1, <2>2, OutboxTypes DEF Settled
  <2>4. Progress[<<a, h>>] = "none" => posts[<<a, h>>] = 0
    BY <1>1, <1>3, <2>2, OutboxTypes
  <2>. QED  BY <2>1, <2>3, <2>4
<1>5. Progress[<<a, h>>] # "none"  BY <1>2, <1>3, <1>4
<1>6. ASSUME NEW w \in MustTell[Entry[a].type] PROVE Progress[<<a, w>>] = "done"
  <2>1. Entry[a].type \in AlertTypes  BY <1>3, <1>4 DEF Row
  <2>2. w \in Webhooks /\ w \in Matching(Untouched, a)
    BY <1>4, <2>1, PipelineAssumption DEF MustTell, Matching
  <2>. QED  BY <1>2, <1>4, <2>2
<1>7. Entry' = [Entry EXCEPT ![a].sent = TRUE]
  <2>1. alerts' = [alerts EXCEPT ![a].sent = TRUE]  BY DEF Mark
  <2>2. \A e \in Alerts \ {a} : alerts'[e] = alerts[e]  BY <1>1, <2>1 DEF TypeOK
  <2>3. /\ alerts'[a] \in Row /\ alerts'[a] # None /\ alerts[a] # None
        /\ alerts'[a].budget = alerts[a].budget /\ alerts'[a].type = alerts[a].type
        /\ alerts'[a].sent
    <3>1. alerts'[a] = [alerts[a] EXCEPT !.sent = TRUE]  BY <1>1, <1>3, <2>1 DEF TypeOK
    <3>2. alerts'[a] \in Row /\ alerts'[a].sent = TRUE
          /\ alerts'[a].budget = alerts[a].budget /\ alerts'[a].type = alerts[a].type
      BY <1>3, <3>1 DEF Row
    <3>. QED  BY <1>3, <3>2, PipelineAssumption DEF Row, Rows
  <2>4. alerts'[a].sent = TRUE  BY <1>1, <1>3, <2>1 DEF TypeOK, Row
  <2>5. Entry'[a] = [Entry[a] EXCEPT !.sent = TRUE]
    <3>1. Entry[a] = [budget |-> alerts[a].budget,
                      type |-> alerts[a].type, sent |-> alerts[a].sent]
      BY <1>3, <2>3 DEF Entry
    <3>2. Entry'[a] = [budget |-> alerts[a].budget, type |-> alerts[a].type, sent |-> TRUE]
      BY <1>3, <2>3, <2>4 DEF Entry
    <3>3. Entry[a] \in [budget : Budgets, type : AlertTypes, sent : BOOLEAN]
      BY <1>3, <3>1 DEF Row
    <3>4. [Entry[a] EXCEPT !.sent = TRUE]
            = [budget |-> Entry[a].budget, type |-> Entry[a].type, sent |-> TRUE]
      BY <3>3, MarkedEntry
    <3>5. Entry[a].budget = alerts[a].budget /\ Entry[a].type = alerts[a].type
      BY <3>1
    <3>. QED  BY <3>2, <3>4, <3>5
  <2>6. \A e \in Alerts \ {a} : Entry'[e] = Entry[e]  BY <2>2 DEF Entry
  <2>. QED  BY <1>3, <2>5, <2>6 DEF Entry
<1>8. Progress' = Progress  BY <1>1 DEF Progress
<1>9. Outbox!Settle(a)  BY <1>3, <1>4, <1>5, <1>6, <1>7, <1>8 DEF Outbox!Settle
<1>. QED  BY <1>3, <1>9 DEF Outbox!OutboxNext

\* Everything else the outbox does not see.
LEMMA OutboxStep == Inv /\ [Next]_vars => [Outbox!OutboxNext]_(Outbox!outboxVars)
<1>. SUFFICES ASSUME Inv, [Next]_vars PROVE [Outbox!OutboxNext]_(Outbox!outboxVars)
  OBVIOUS
<1>1. ASSUME UNCHANGED <<alerts, posts, received>> PROVE UNCHANGED Outbox!outboxVars
  BY <1>1 DEF Entry, Progress, Outbox!outboxVars
<1>2. ASSUME NewPeriod PROVE UNCHANGED Outbox!outboxVars
  <2>1. /\ alerts' = [a \in Alerts |-> IF a \in Rows
                                       THEN [alerts[a] EXCEPT !.current = FALSE] ELSE None]
        /\ UNCHANGED <<posts, received>>
    BY <1>2 DEF NewPeriod, world
  <2>2. Progress' = Progress  BY <2>1 DEF Progress
  <2>3. \A r \in Row : LET n == [r EXCEPT !.current = FALSE]
                       IN  /\ n \in Row /\ n.budget = r.budget /\ n.type = r.type
                           /\ n.sent = r.sent
    BY DEF Row
  <2>4. \A a \in Rows : alerts[a] \in Row  BY DEF Inv, TypeOK, Rows
  <2>5. None \notin Row  BY PipelineAssumption DEF Row
  <2>6. Entry' = Entry  BY <2>1, <2>3, <2>4, <2>5 DEF Entry, Rows
  <2>. QED  BY <2>2, <2>6 DEF Outbox!outboxVars
<1>3. ASSUME NEW c \in Checkers,
             \/ StartCheck(c) \/ Proceed(c) \/ LogFails(c) \/ DatabaseFails(c)
      PROVE  [Outbox!OutboxNext]_(Outbox!outboxVars)
  <2>1. CASE Insert(c) \/ Post(c) \/ Mark(c)
    BY <2>1, InsertRaises, PostAttempts, MarkSettles
  <2>2. CASE ~(Insert(c) \/ Post(c) \/ Mark(c))
    <3>1. UNCHANGED <<alerts, posts, received>>
      BY <1>3, <2>2
      DEF StartCheck, Proceed, LookForRecent, InsertOverflows, ReadPending, Log, EndCheck,
          Examine, TakeAlert, LogFails, DatabaseFails, db, world
    <3>. QED  BY <1>1, <3>1
  <2>. QED  BY <2>1, <2>2
<1>4. ASSUME \/ Crash \/ UNCHANGED vars
             \/ \E b \in Budgets : UsageChanges(b)
             \/ EditWebhook
      PROVE  UNCHANGED <<alerts, posts, received>>
  BY <1>4 DEF Crash, UsageChanges, EditWebhook, vars, db, world
<1>. QED  BY <1>1, <1>2, <1>3, <1>4 DEF Next

\* Overlapping checkers, retries, errors and crashes come to no more than
\* progress on an alert that stays open until it is settled.
THEOREM Refinement == Spec => ImplementsOutbox
BY OutboxStart, OutboxStep, Invariance, PTL DEF ImplementsOutbox, Outbox!OutboxSpec, Spec
----------------------------------------------------------------------------
(* A cycle ends.                                                           *)

LEMMA Product ==
  ASSUME NEW m \in Nat, NEW i \in Nat, NEW j \in Nat, i <= j
  PROVE  m * i \in Nat /\ m * (i + 1) = m * i + m /\ m * i <= m * j
<1>1. m * i \in Nat /\ m * (i + 1) = m * i + m  OBVIOUS
<1>2. PICK d \in Nat : j = i + d  OBVIOUS
<1>3. m * j = m * i + m * d /\ m * d \in Nat  BY <1>2
<1>. QED  BY <1>1, <1>3

LEMMA PerType == PerHook \in Nat /\ PerAlert \in Nat /\ PerHook = 2 * Attempts
<1>1. PerHook \in Nat  BY PipelineAssumption DEF PerHook
<1>2. Cardinality(Webhooks) \in Nat  BY FiniteTables, FS_CardinalityType
<1>3. PerHook * Cardinality(Webhooks) \in Nat  BY <1>1, <1>2
<1>. QED  BY <1>1, <1>3 DEF PerAlert, PerHook

\* What remains to be sent grows with the alerts, by PerAlert for each.
LEMMA SendCounts ==
  ASSUME NEW S \in SUBSET Alerts
  PROVE  /\ ToSend(S) \in Nat /\ ToSend(S) > 0
         /\ ToSend(S) <= PerAlert * Cardinality(Alerts) + 1
         /\ \A a \in S : ToSend(S) = ToSend(S \ {a}) + PerAlert
<1>1. IsFiniteSet(S) /\ Cardinality(S) \in Nat /\ Cardinality(S) <= Cardinality(Alerts)
      /\ Cardinality(Alerts) \in Nat
  BY FiniteTables, FS_Subset, FS_CardinalityType
<1>2. /\ PerAlert * Cardinality(S) \in Nat
      /\ PerAlert * Cardinality(S) <= PerAlert * Cardinality(Alerts)
      /\ PerAlert * Cardinality(Alerts) \in Nat
  BY <1>1, PerType, Product
<1>3. ASSUME NEW a \in S PROVE ToSend(S) = ToSend(S \ {a}) + PerAlert
  <2>1. /\ IsFiniteSet(S \ {a}) /\ Cardinality(S \ {a}) = Cardinality(S) - 1
        /\ Cardinality(S \ {a}) \in Nat
    BY <1>1, FS_RemoveElement, FS_CardinalityType
  <2>2. PerAlert * (Cardinality(S \ {a}) + 1) = PerAlert * Cardinality(S \ {a}) + PerAlert
        /\ PerAlert * Cardinality(S \ {a}) \in Nat
    BY <2>1, PerType, Product
  <2>3. Cardinality(S \ {a}) + 1 = Cardinality(S)  BY <1>1, <2>1
  <2>. QED  BY <2>2, <2>3, PerType DEF ToSend
<1>. QED  BY <1>2, <1>3 DEF ToSend

\* What remains to be told at the first attempt at a webhook of some.
LEMMA FirstTell ==
  ASSUME NEW a, NEW S \in SUBSET Webhooks, NEW h \in S
  PROVE  /\ PerHook * Cardinality(S) \in Nat
         /\ ToTell(Delivery(a, S \ {h}, h, 1)) + 1 = PerHook * Cardinality(S)
         /\ PerHook * Cardinality(S) + 2 <= PerAlert
<1>1. /\ IsFiniteSet(S) /\ Cardinality(S) \in Nat /\ Cardinality(S) <= Cardinality(Webhooks)
      /\ Cardinality(Webhooks) \in Nat
  BY FiniteTables, FS_Subset, FS_CardinalityType
<1>2. /\ IsFiniteSet(S \ {h}) /\ Cardinality(S \ {h}) = Cardinality(S) - 1
      /\ Cardinality(S \ {h}) \in Nat
  BY <1>1, FS_RemoveElement, FS_CardinalityType
<1>3. /\ PerHook * (Cardinality(S \ {h}) + 1) = PerHook * Cardinality(S \ {h}) + PerHook
      /\ PerHook * Cardinality(S \ {h}) \in Nat
  BY <1>2, PerType, Product
<1>4. /\ PerHook * Cardinality(S) \in Nat /\ PerHook * Cardinality(Webhooks) \in Nat
      /\ PerHook * Cardinality(S) <= PerHook * Cardinality(Webhooks)
  BY <1>1, PerType, Product
<1>5. Cardinality(S \ {h}) + 1 = Cardinality(S)  BY <1>1, <1>2
<1>6. ToTell(Delivery(a, S \ {h}, h, 1))
        = PerHook * Cardinality(S \ {h}) + 2 * (Attempts - 1) + 1
  BY DEF ToTell, Delivery
<1>7. 2 * (Attempts - 1) + 2 = PerHook  BY PerType, PipelineAssumption
<1>8. ToTell(Delivery(a, S \ {h}, h, 1)) + 1 = PerHook * Cardinality(S)
  BY <1>3, <1>5, <1>6, <1>7, PerType, PipelineAssumption
<1>. QED  BY <1>4, <1>8 DEF PerAlert

\* What remains to be told by a job, and by what comes after it.
LEMMA TellCounts ==
  ASSUME NEW j \in Job
  PROVE  /\ ToTell(j) \in Nat /\ ToTell(j) > 0
         /\ j.attempt < Attempts =>
              ToTell(Delivery(j.alert, j.hooks, j.hook, j.attempt + 1)) + 2 <= ToTell(j)
         /\ \A h \in j.hooks :
              ToTell(Delivery(j.alert, j.hooks \ {h}, h, 1)) + 2 <= ToTell(j)
<1>. DEFINE p == PerHook * Cardinality(j.hooks)
<1>1. j.hooks \in SUBSET Webhooks /\ j.attempt \in 1..Attempts /\ Attempts \in Nat
  BY PipelineAssumption DEF Job
<1>2. p \in Nat
  <2>1. Cardinality(j.hooks) \in Nat
    BY <1>1, FiniteTables, FS_Subset, FS_CardinalityType
  <2>. QED  BY <2>1, PerType, Product
<1>3. ToTell(j) = p + 2 * (Attempts - j.attempt) + 1  BY DEF ToTell
<1>4. ToTell(Delivery(j.alert, j.hooks, j.hook, j.attempt + 1))
        = p + 2 * (Attempts - (j.attempt + 1)) + 1
  BY DEF ToTell, Delivery
<1>5. ASSUME NEW h \in j.hooks
      PROVE  ToTell(Delivery(j.alert, j.hooks \ {h}, h, 1)) + 1 = p
  BY <1>1, FirstTell
<1>. HIDE DEF p
<1>6. p + 1 <= ToTell(j) /\ ToTell(j) \in Nat  BY <1>1, <1>2, <1>3
<1>7. \A h \in j.hooks : ToTell(Delivery(j.alert, j.hooks \ {h}, h, 1)) \in Int
  <2>1. ASSUME NEW h \in j.hooks
        PROVE  ToTell(Delivery(j.alert, j.hooks \ {h}, h, 1)) \in Int
    <3>1. IsFiniteSet(j.hooks \ {h}) /\ Cardinality(j.hooks \ {h}) \in Nat
      BY <1>1, FiniteTables, FS_Subset, FS_CardinalityType
    <3>2. PerHook * Cardinality(j.hooks \ {h}) \in Nat  BY <3>1, PerType, Product
    <3>. QED  BY <1>1, <3>2 DEF ToTell, Delivery
  <2>. QED  BY <2>1
<1>8. \A h \in j.hooks : ToTell(Delivery(j.alert, j.hooks \ {h}, h, 1)) + 2 <= ToTell(j)
  BY <1>2, <1>5, <1>6, <1>7
<1>. QED  BY <1>1, <1>2, <1>3, <1>4, <1>6, <1>8

LEMMA ReadCounts ==
  ASSUME NEW c \in Checkers, todo[c] \in SUBSET Budgets
  PROVE  /\ ToRead(c) \in Nat /\ Cardinality(todo[c]) \in Nat
         /\ ToRead(c) >= PerAlert * Cardinality(Alerts) + 2
         /\ PerAlert * Cardinality(Alerts) \in Nat
<1>1. Cardinality(todo[c]) \in Nat /\ Cardinality(Alerts) \in Nat
  BY FiniteTables, FS_Subset, FS_CardinalityType
<1>2. PerAlert * Cardinality(Alerts) \in Nat  BY <1>1, PerType, Product
<1>. QED  BY <1>1, <1>2 DEF ToRead

\* A checker's own state decides how many steps it has left.
LEMMA LeftAlone ==
  ASSUME NEW c \in Checkers, pc'[c] = pc[c], todo'[c] = todo[c],
         pending'[c] = pending[c], job'[c] = job[c]
  PROVE  StepsLeft(c)' = StepsLeft(c)
BY DEF StepsLeft, ToRead

LEMMA LeftType ==
  ASSUME Inv, NEW c \in Checkers
  PROVE  StepsLeft(c) \in Nat /\ (pc[c] # "idle" => StepsLeft(c) > 0)
<1>1. /\ todo[c] \in SUBSET Budgets /\ pending[c] \in SUBSET Alerts
      /\ pc[c] \in {"idle", "scan", "recent", "insert", "deliver", "post", "log", "mark"}
  BY DEF Inv, TypeOK
<1>2. CASE pc[c] \in {"idle", "scan", "recent", "insert"}
  BY <1>1, <1>2, ReadCounts DEF StepsLeft
<1>3. CASE pc[c] = "deliver"
  BY <1>1, <1>3, SendCounts DEF StepsLeft
<1>4. CASE pc[c] \in Delivering
  <2>1. job[c] \in Job  BY <1>4 DEF Inv, JobOK, JobOf
  <2>2. ToTell(job[c]) \in Nat  BY <2>1, TellCounts
  <2>3. ToSend(pending[c] \ {job[c].alert}) \in Nat
    <3>1. pending[c] \ {job[c].alert} \in SUBSET Alerts  BY <1>1
    <3>. QED  BY <3>1, SendCounts
  <2>. QED  BY <1>4, <2>2, <2>3 DEF StepsLeft, Delivering
<1>. QED  BY <1>1, <1>2, <1>3, <1>4 DEF Delivering

LEMMA ReadingAdvances ==
  ASSUME Inv, NEW c \in Checkers,
         \/ LookForRecent(c) \/ Insert(c) \/ InsertOverflows(c)
         \/ ReadPending(c) \/ EndCheck(c)
         \/ \E b \in Budgets : Examine(c, b)
  PROVE  StepsLeft(c)' < StepsLeft(c)
<1>0. TypeOK /\ todo[c] \in SUBSET Budgets /\ pending[c] \in SUBSET Alerts
  BY DEF Inv, TypeOK
<1>1. CASE InsertOverflows(c) \/ EndCheck(c)
  <2>1. pc[c] # "idle" /\ pc'[c] = "idle"
    BY <1>0, <1>1 DEF InsertOverflows, GiveUp, EndCheck, Goto, TypeOK
  <2>2. StepsLeft(c)' = 0  BY <2>1 DEF StepsLeft
  <2>. QED  BY <2>1, <2>2, LeftType
<1>2. CASE Insert(c)
  <2>1. pc[c] = "insert" /\ pc'[c] = "scan" /\ todo' = todo
    BY <1>0, <1>2 DEF Insert, Goto, TypeOK
  <2>2. StepsLeft(c) = ToRead(c) + 1 /\ StepsLeft(c)' = ToRead(c)
    BY <2>1 DEF StepsLeft, ToRead
  <2>. QED  BY <1>0, <2>2, ReadCounts
<1>3. CASE ReadPending(c)
  <2>1. pc[c] = "scan" /\ pc'[c] = "deliver" /\ pending'[c] \in SUBSET Alerts
    BY <1>0, <1>3 DEF ReadPending, Goto, TypeOK, Rows
  <2>2. StepsLeft(c) = ToRead(c) /\ StepsLeft(c)' = ToSend(pending'[c])
    BY <2>1 DEF StepsLeft
  <2>3. ToSend(pending'[c]) \in Nat
        /\ ToSend(pending'[c]) <= PerAlert * Cardinality(Alerts) + 1
    BY <2>1, SendCounts
  <2>. QED  BY <1>0, <2>2, <2>3, ReadCounts
<1>4. ASSUME NEW b \in Budgets, Examine(c, b) PROVE StepsLeft(c)' < StepsLeft(c)
  <2>1. /\ pc[c] = "scan" /\ pc'[c] \in {"scan", "recent"}
        /\ b \in todo[c] /\ todo'[c] = todo[c] \ {b}
    BY <1>0, <1>4 DEF Examine, Goto, TypeOK
  <2>2. /\ Cardinality(todo[c] \ {b}) = Cardinality(todo[c]) - 1
    BY <1>0, <2>1, FiniteTables, FS_Subset, FS_RemoveElement
  <2>3. StepsLeft(c) = 3 * Cardinality(todo[c]) + PerAlert * Cardinality(Alerts) + 2
    BY <2>1 DEF StepsLeft, ToRead
  <2>4. \/ StepsLeft(c)' = 3 * Cardinality(todo[c] \ {b}) + PerAlert * Cardinality(Alerts) + 2
        \/ StepsLeft(c)' = 3 * Cardinality(todo[c] \ {b}) + PerAlert * Cardinality(Alerts) + 2 + 2
    BY <2>1 DEF StepsLeft, ToRead
  <2>5. Cardinality(todo[c]) \in Nat /\ PerAlert * Cardinality(Alerts) \in Nat
    BY <1>0, ReadCounts
  <2>. QED  BY <2>2, <2>3, <2>4, <2>5
<1>5. CASE LookForRecent(c)
  <2>1. pc[c] = "recent" /\ pc'[c] \in {"scan", "insert"} /\ todo' = todo
    BY <1>0, <1>5 DEF LookForRecent, Goto, TypeOK
  <2>2. /\ StepsLeft(c) = ToRead(c) + 2
        /\ StepsLeft(c)' = ToRead(c) \/ StepsLeft(c)' = ToRead(c) + 1
    BY <2>1 DEF StepsLeft, ToRead
  <2>. QED  BY <1>0, <2>2, ReadCounts
<1>. QED  BY <1>1, <1>2, <1>3, <1>4, <1>5

LEMMA TakingAdvances ==
  ASSUME Inv, NEW c \in Checkers, NEW a \in Alerts, TakeAlert(c, a)
  PROVE  StepsLeft(c)' < StepsLeft(c)
<1>0. TypeOK /\ pending[c] \in SUBSET Alerts /\ pc[c] = "deliver" /\ a \in pending[c]
  BY DEF Inv, TypeOK, TakeAlert
<1>. DEFINE rest == ToSend(pending[c] \ {a})
<1>1. /\ rest \in Nat /\ PerAlert \in Nat /\ StepsLeft(c) = rest + PerAlert
  <2>1. pending[c] \ {a} \in SUBSET Alerts  BY <1>0
  <2>2. StepsLeft(c) = ToSend(pending[c])  BY <1>0 DEF StepsLeft
  <2>. QED  BY <1>0, <2>1, <2>2, SendCounts, PerType
<1>2. CASE Matching(snapshot[c], a) = {} /\ pending' = [pending EXCEPT ![c] = @ \ {a}]
           /\ UNCHANGED <<pc, job>>
  <2>1. StepsLeft(c)' = rest  BY <1>0, <1>2 DEF StepsLeft, TypeOK
  <2>2. PerAlert > 0
    <3>1. PerHook * Cardinality(Webhooks) \in Nat
      BY FiniteTables, FS_CardinalityType, PerType, Product
    <3>. QED  BY <3>1 DEF PerAlert
  <2>. QED  BY <1>1, <2>1, <2>2
<1>3. ASSUME NEW h \in Matching(snapshot[c], a),
             job' = [job EXCEPT ![c] = Delivery(a, Matching(snapshot[c], a) \ {h}, h, 1)],
             Goto(c, "post"), UNCHANGED pending
      PROVE  StepsLeft(c)' < StepsLeft(c)
  <2>. DEFINE S == Matching(snapshot[c], a)
              j == Delivery(a, S \ {h}, h, 1)
  <2>1. S \in SUBSET Webhooks  BY <1>0 DEF Matching, TypeOK
  <2>2. pc'[c] = "post" /\ job'[c] = j /\ j.alert = a /\ pending'[c] = pending[c]
    BY <1>0, <1>3 DEF Goto, TypeOK, Delivery
  <2>3. StepsLeft(c)' = rest + ToTell(j) + 2  BY <2>2 DEF StepsLeft
  <2>4. ToTell(j) + 1 = PerHook * Cardinality(S) /\ PerHook * Cardinality(S) + 2 <= PerAlert
        /\ PerHook * Cardinality(S) \in Nat
    BY <1>3, <2>1, FirstTell
  <2>5. ToTell(j) \in Int
    <3>1. j \in Job  BY <1>3, <2>1, PipelineAssumption DEF Delivery, Job
    <3>. QED  BY <3>1, TellCounts
  <2>. HIDE DEF j, S, rest
  <2>. QED  BY <1>1, <2>3, <2>4, <2>5
<1>. QED  BY <1>2, <1>3 DEF TakeAlert

LEMMA TellingAdvances ==
  ASSUME Inv, NEW c \in Checkers, Post(c) \/ Log(c) \/ Mark(c)
  PROVE  StepsLeft(c)' < StepsLeft(c)
<1>0. TypeOK /\ pending[c] \in SUBSET Alerts /\ pc[c] \in Delivering
  BY DEF Inv, TypeOK, Post, Log, Mark, Delivering
<1>. DEFINE j == job[c]
            rest == ToSend(pending[c] \ {j.alert})
<1>1. j \in Job /\ rest \in Nat /\ ToTell(j) \in Nat /\ ToTell(j) > 0
  <2>1. j \in Job  BY <1>0 DEF Inv, JobOK, JobOf
  <2>2. pending[c] \ {j.alert} \in SUBSET Alerts  BY <1>0
  <2>. QED  BY <2>1, <2>2, TellCounts, SendCounts
<1>2. CASE Post(c)
  <2>1. PICK reply \in {"ok", "refused", "exception"} : job' = [job EXCEPT ![c].reply = reply]
    BY <1>2 DEF Post
  <2>2. job'[c] = [j EXCEPT !.reply = reply]  BY <1>0, <2>1 DEF TypeOK
  <2>3. /\ job'[c].alert = j.alert /\ job'[c].hooks = j.hooks
        /\ job'[c].attempt = j.attempt
    BY <1>1, <2>2 DEF Job
  <2>4. ToTell(job'[c]) = ToTell(j)  BY <2>3 DEF ToTell
  <2>5. pc[c] = "post" /\ pc'[c] = "log" /\ pending' = pending
    BY <1>0, <1>2 DEF Post, Goto, TypeOK
  <2>6. StepsLeft(c) = rest + ToTell(j) + 2 /\ StepsLeft(c)' = rest + ToTell(j) + 1
    BY <2>3, <2>4, <2>5 DEF StepsLeft
  <2>. QED  BY <1>1, <2>6
<1>3. CASE Log(c)
  <2>1. StepsLeft(c) = rest + ToTell(j) + 1 /\ pending' = pending
    BY <1>3 DEF Log, StepsLeft
  <2>2. ASSUME NEW new \in Job, new.alert = j.alert, ToTell(new) + 2 <= ToTell(j),
               job' = [job EXCEPT ![c] = new], Goto(c, "post")
        PROVE  StepsLeft(c)' < StepsLeft(c)
    <3>1. pc'[c] = "post" /\ job'[c] = new  BY <1>0, <2>2 DEF Goto, TypeOK
    <3>2. StepsLeft(c)' = rest + ToTell(new) + 2  BY <2>1, <2>2, <3>1 DEF StepsLeft
    <3>3. ToTell(new) \in Nat  BY TellCounts
    <3>. QED  BY <1>1, <2>1, <2>2, <3>2, <3>3
  <2>3. CASE /\ j.reply # "ok" /\ ~Exhausted(j)
             /\ job' = [job EXCEPT ![c] = Delivery(j.alert, j.hooks, j.hook, j.attempt + 1)]
             /\ Goto(c, "post")
    <3>. DEFINE new == Delivery(j.alert, j.hooks, j.hook, j.attempt + 1)
    <3>1. j.attempt < Attempts
      BY <1>1, <2>3, PipelineAssumption DEF Exhausted, Job
    <3>2. new \in Job /\ new.alert = j.alert
      BY <1>1, <3>1, PipelineAssumption DEF Delivery, Job
    <3>3. ToTell(new) + 2 <= ToTell(j)  BY <1>1, <3>1, TellCounts
    <3>. QED  BY <2>2, <2>3, <3>2, <3>3
  <2>4. ASSUME NEW h \in j.hooks, Goto(c, "post"),
               job' = [job EXCEPT ![c] = Delivery(j.alert, j.hooks \ {h}, h, 1)]
        PROVE  StepsLeft(c)' < StepsLeft(c)
    <3>. DEFINE new == Delivery(j.alert, j.hooks \ {h}, h, 1)
    <3>1. new \in Job /\ new.alert = j.alert
      BY <1>1, PipelineAssumption DEF Delivery, Job
    <3>2. ToTell(new) + 2 <= ToTell(j)  BY <1>1, TellCounts
    <3>. QED  BY <2>2, <2>4, <3>1, <3>2
  <2>5. CASE Goto(c, "mark") /\ UNCHANGED job
    <3>1. StepsLeft(c)' = rest + 1  BY <1>0, <2>1, <2>5 DEF Goto, TypeOK, StepsLeft
    <3>. QED  BY <1>1, <2>1, <3>1
  <2>. QED  BY <1>3, <2>3, <2>4, <2>5 DEF Log
<1>4. CASE Mark(c)
  <2>1. /\ pc[c] = "mark" /\ pc'[c] = "deliver"
        /\ pending'[c] = pending[c] \ {j.alert}
    BY <1>0, <1>4 DEF Mark, Goto, TypeOK
  <2>2. StepsLeft(c) = rest + 1 /\ StepsLeft(c)' = rest  BY <2>1 DEF StepsLeft
  <2>. QED  BY <1>1, <2>2
<1>. QED  BY <1>2, <1>3, <1>4

\* No step of another checker, of the environment, or of a fault, adds steps.
LEMMA OthersAddNothing ==
  ASSUME Inv, Next, NEW c \in Checkers, pc[c] # "idle", ~Proceed(c)
  PROVE  StepsLeft(c)' <= StepsLeft(c)
<1>0. TypeOK  BY DEF Inv
<1>1. ASSUME pc'[c] = "idle" PROVE StepsLeft(c)' <= StepsLeft(c)
  <2>1. StepsLeft(c)' = 0  BY <1>1 DEF StepsLeft
  <2>. QED  BY <2>1, LeftType
<1>2. ASSUME pc'[c] = pc[c], todo'[c] = todo[c], pending'[c] = pending[c], job'[c] = job[c]
      PROVE  StepsLeft(c)' <= StepsLeft(c)
  BY <1>2, LeftAlone, LeftType
<1>3. CASE \/ NewPeriod
           \/ \E b \in Budgets : UsageChanges(b)
           \/ EditWebhook
  BY <1>2, <1>3 DEF NewPeriod, UsageChanges, EditWebhook, cursor
<1>4. CASE Crash  BY <1>1, <1>4 DEF Crash
<1>5. CASE DatabaseFails(c)  BY <1>0, <1>1, <1>5 DEF DatabaseFails, GiveUp, Goto, TypeOK
<1>6. CASE LogFails(c)
  <2>1. /\ pc' = pc /\ pending' = pending /\ pc[c] = "log"
        /\ job' = [job EXCEPT ![c].reply = "exception"]
    BY <1>6 DEF LogFails
  <2>2. job[c] \in Job  BY <2>1 DEF Inv, JobOK, JobOf, Delivering
  <2>3. job'[c] = [job[c] EXCEPT !.reply = "exception"]  BY <1>0, <2>1 DEF TypeOK
  <2>4. /\ job'[c].alert = job[c].alert /\ job'[c].hooks = job[c].hooks
        /\ job'[c].attempt = job[c].attempt
    BY <2>2, <2>3 DEF Job
  <2>5. StepsLeft(c)' = StepsLeft(c)  BY <2>1, <2>4 DEF StepsLeft, ToTell
  <2>. QED  BY <2>5, LeftType
<1>7. ASSUME NEW d \in Checkers \ {c},
             StartCheck(d) \/ Proceed(d) \/ LogFails(d) \/ DatabaseFails(d)
      PROVE  StepsLeft(c)' <= StepsLeft(c)
  <2>1. /\ pc'[c] = pc[c] /\ todo'[c] = todo[c]
        /\ pending'[c] = pending[c] /\ job'[c] = job[c]
    <3>1. CASE StartCheck(d) \/ ReadPending(d) \/ EndCheck(d) \/ Insert(d)
      BY <1>0, <1>7, <3>1 DEF StartCheck, ReadPending, EndCheck, Insert, Goto, TypeOK
    <3>2. CASE InsertOverflows(d) \/ DatabaseFails(d)
      BY <1>0, <1>7, <3>2 DEF InsertOverflows, DatabaseFails, GiveUp, Goto, TypeOK
    <3>3. CASE LookForRecent(d) \/ \E b \in Budgets : Examine(d, b)
      BY <1>0, <1>7, <3>3 DEF LookForRecent, Examine, Goto, TypeOK
    <3>4. CASE \E a \in Alerts : TakeAlert(d, a)
      BY <1>0, <1>7, <3>4 DEF TakeAlert, Goto, TypeOK
    <3>5. CASE Post(d) \/ Mark(d) \/ LogFails(d)
      BY <1>0, <1>7, <3>5 DEF Post, Mark, LogFails, Goto, TypeOK
    <3>6. CASE Log(d)
      BY <1>0, <1>7, <3>6 DEF Log, Goto, TypeOK
    <3>. QED  BY <1>7, <3>1, <3>2, <3>3, <3>4, <3>5, <3>6 DEF Proceed
  <2>. QED  BY <1>2, <2>1
<1>8. ~StartCheck(c)  BY DEF StartCheck
<1>. QED  BY <1>3, <1>4, <1>5, <1>6, <1>7, <1>8 DEF Next

\* A cycle is over after a bounded number of its own steps, whatever others do
\* and whatever fails meanwhile.
THEOREM CyclesEnd == Spec => CycleAdvances
<1>. DEFINE Step == \A c \in Checkers : pc[c] # "idle" =>
                      IF Proceed(c) THEN StepsLeft(c)' < StepsLeft(c)
                                    ELSE StepsLeft(c)' <= StepsLeft(c)
<1>1. ASSUME Inv, [Next]_vars PROVE [Step]_vars
  <2>1. SUFFICES ASSUME Next, NEW c \in Checkers, pc[c] # "idle"
                 PROVE  IF Proceed(c) THEN StepsLeft(c)' < StepsLeft(c)
                                      ELSE StepsLeft(c)' <= StepsLeft(c)
    BY <1>1
  <2>2. CASE Proceed(c)
    BY <1>1, <2>2, ReadingAdvances, TakingAdvances, TellingAdvances DEF Proceed
  <2>3. CASE ~Proceed(c)  BY <1>1, <2>1, <2>3, OthersAddNothing
  <2>. QED  BY <2>2, <2>3
<1>. QED  BY <1>1, Invariance, PTL DEF Spec, CycleAdvances
=============================================================================
