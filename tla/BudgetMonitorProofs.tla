------------------------ MODULE BudgetMonitorProofs -------------------------
(***************************************************************************)
(* For any number of callers and threads: one loop at most, and get_stats  *)
(* reports a monitor only while it runs.                                   *)
(***************************************************************************)
EXTENDS BudgetMonitor, TLAPS

\* A caller that is about to join finds a thread: _thread is never unset.
StopperHasThread == \A c \in Callers : pc[c] = "stopping" => thread # None

\* One caller at most is inside start, and while it is, and only then, the
\* thread it assigned is new and nobody has told it to end.
OneStarter ==
  /\ \A c, d \in Callers : pc[c] = "starting" /\ pc[d] = "starting" => c = d
  /\ \A c \in Callers :
       pc[c] = "starting" => thread # None /\ loop[thread] = "new" /\ ~stop_event
  /\ \A t \in Threads : loop[t] = "new" => ~LockFree

Inv == TypeOK /\ StopperHasThread /\ OneStarter /\ AtMostOneLoop /\ ReportedRunning

LEMMA InvInit == Init => Inv
BY MonitorAssumption
DEF Init, Inv, TypeOK, StopperHasThread, OneStarter, LockFree, AtMostOneLoop,
    ReportedRunning

LEMMA StartInv ==
  ASSUME Inv, NEW c \in Callers, Start(c)
  PROVE  Inv'
<1> USE MonitorAssumption DEF Inv
<1>1. CASE Alive /\ UNCHANGED <<thread, stop_event, is_running, loop, pc>>
  BY <1>1
  DEF Start, Alive, TypeOK, StopperHasThread, OneStarter, LockFree, AtMostOneLoop,
      ReportedRunning
<1>2. CASE ~Alive /\ stop_event' = FALSE /\ NewThread(c)
  <2>1. PICK t \in Unused : thread' = t /\ loop' = [loop EXCEPT ![t] = "new"]
    BY <1>2 DEF NewThread
  <2>2. /\ t \in Threads /\ t # None
        /\ \A d \in Callers : target[d] # t
    BY DEF Unused
  <2>3. \A u \in Threads : loop[u] = "ended"    \* the old loop was the only one
    BY <1>2 DEF Start, Alive, OneStarter, AtMostOneLoop, TypeOK
  <2>4. pc' = [pc EXCEPT ![c] = "starting"] /\ LockFree /\ UNCHANGED target
    BY <1>2 DEF Start, NewThread
  <2>5. TypeOK'
    <3>1. \A d \in Callers : pc'[d] = "joining" =>
            target'[d] \in Threads /\ loop'[target'[d]] # "new"
      BY <2>1, <2>2, <2>4 DEF TypeOK
    <3> QED
      BY <1>2, <2>1, <2>2, <2>4, <3>1 DEF Start, NewThread, TypeOK
  <2>6. StopperHasThread' /\ OneStarter'
    BY <1>2, <2>1, <2>2, <2>3, <2>4
    DEF TypeOK, StopperHasThread, OneStarter, LockFree
  <2>7. AtMostOneLoop'
    BY <2>1, <2>2, <2>3 DEF TypeOK, AtMostOneLoop
  <2>8. ReportedRunning'
    BY <2>4 DEF TypeOK, ReportedRunning, LockFree
  <2> QED
    BY <2>5, <2>6, <2>7, <2>8
<1> QED
  BY <1>1, <1>2 DEF Start

LEMMA LaunchInv ==
  ASSUME Inv, NEW c \in Callers, Launch(c)
  PROVE  Inv'
<1> USE MonitorAssumption DEF Inv
<1>1. /\ thread \in Threads /\ loop[thread] = "new" /\ ~stop_event
      /\ loop' = [loop EXCEPT ![thread] = "top"]
      /\ pc' = [pc EXCEPT ![c] = "idle"]
      /\ UNCHANGED <<thread, stop_event, is_running, wanted, target>>
  BY DEF Launch, monitor, OneStarter, TypeOK
<1>2. TypeOK' /\ StopperHasThread' /\ AtMostOneLoop'
  BY <1>1 DEF TypeOK, StopperHasThread, AtMostOneLoop
<1>3. \A d \in Callers : pc'[d] # "starting"
  BY <1>1 DEF Launch, OneStarter, TypeOK
<1>4. \A t \in Threads : loop'[t] # "new"
  BY <1>1 DEF AtMostOneLoop, TypeOK
<1>5. OneStarter'
  BY <1>3, <1>4 DEF OneStarter
<1>6. ReportedRunning'
  BY <1>1 DEF ReportedRunning, Alive, TypeOK
<1> QED
  BY <1>2, <1>5, <1>6

LEMMA StopInv ==
  ASSUME Inv, NEW c \in Callers, Stop(c) \/ Join(c) \/ JoinRaises(c) \/ StopReturns(c)
  PROVE  Inv'
<1> USE MonitorAssumption DEF Inv
<1>1. CASE Stop(c)
  <2>1. TypeOK' /\ StopperHasThread'
    BY <1>1 DEF Stop, Alive, TypeOK, StopperHasThread
  <2>2. OneStarter'
    BY <1>1 DEF Stop, TypeOK, OneStarter, LockFree
  <2>3. AtMostOneLoop' /\ ReportedRunning'
    BY <1>1 DEF Stop, Alive, TypeOK, AtMostOneLoop, ReportedRunning, LockFree
  <2> QED
    BY <2>1, <2>2, <2>3
<1>2. CASE Join(c) \/ JoinRaises(c) \/ StopReturns(c)
  <2>1. /\ UNCHANGED <<thread, stop_event, is_running, wanted, loop>>
        /\ pc[c] \notin {"idle", "starting"}
        /\ \/ pc' = [pc EXCEPT ![c] = "idle"]
           \/ pc' = [pc EXCEPT ![c] = "joining"]
    BY <1>2 DEF Join, JoinRaises, StopReturns, monitor
  <2>2. TypeOK'
    BY <1>2
    DEF Join, JoinRaises, StopReturns, monitor, Unstarted, TypeOK, StopperHasThread
  <2>3. \A d \in Callers : /\ pc'[d] = "starting" <=> pc[d] = "starting"
                           /\ pc'[d] = "stopping" => pc[d] = "stopping"
    BY <2>1 DEF TypeOK
  <2>4. StopperHasThread' /\ OneStarter' /\ AtMostOneLoop' /\ ReportedRunning'
    BY <2>1, <2>3
    DEF StopperHasThread, OneStarter, LockFree, AtMostOneLoop, ReportedRunning, Alive
  <2> QED
    BY <2>2, <2>4
<1> QED
  BY <1>1, <1>2

LEMMA LoopInv ==
  ASSUME Inv, NEW t \in Threads, LoopStep(t)
  PROVE  Inv'
<1> USE MonitorAssumption DEF Inv
<1>1. TypeOK'
  BY DEF LoopStep, LoopTop, CheckEnds, Wake, monitor, TypeOK
<1>2. StopperHasThread' /\ OneStarter' /\ AtMostOneLoop'
  BY DEF LoopStep, LoopTop, CheckEnds, Wake, monitor, TypeOK, StopperHasThread,
         OneStarter, LockFree, AtMostOneLoop
<1>3. ReportedRunning'    \* a loop ends only once the event is set
  BY DEF LoopStep, LoopTop, CheckEnds, Wake, monitor, TypeOK, ReportedRunning, Alive,
         LockFree
<1> QED
  BY <1>1, <1>2, <1>3

LEMMA Invariance == Spec => []Inv
<1>1. Inv /\ [Next]_vars => Inv'
  <2> SUFFICES ASSUME Inv, [Next]_vars PROVE Inv'
    OBVIOUS
  <2>1. CASE UNCHANGED vars
    BY <2>1
    DEF vars, Inv, TypeOK, StopperHasThread, OneStarter, LockFree, AtMostOneLoop,
        ReportedRunning, Alive
  <2>2. CASE Next
    BY <2>2, StartInv, LaunchInv, StopInv, LoopInv DEF Next
  <2> QED
    BY <2>1, <2>2
<1> QED
  BY <1>1, InvInit, PTL DEF Spec

\* The fields keep their types, and nobody waits for a thread that was never
\* started.  That join may raise is a step of its own, JoinRaises.
THEOREM TypeCorrect == Spec => []TypeOK
BY Invariance, PTL DEF Inv

\* start never lets a second loop run beside one that was slow to stop.
THEOREM OneLoop == Spec => []AtMostOneLoop
BY Invariance, PTL DEF Inv

\* What get_stats reports, when no start holds the lock, as running is a loop
\* that has not been told to end.
THEOREM StatsTruthful == Spec => []ReportedRunning
BY Invariance, PTL DEF Inv

\* A loop that was told to end only comes nearer to its end, whoever starts and
\* stops meanwhile: the safety half of StopTakesEffect.
THEOREM StopIsKept == Spec => StopAdvances
<1>. DEFINE Running == \E t \in Threads : loop[t] # "ended"
            Step == stop_event /\ Running =>
                      /\ stop_event'
                      /\ \A t \in Threads : StepsLeft[loop'[t]] <= StepsLeft[loop[t]]
<1>1. ASSUME Inv, [Next]_vars PROVE [Step]_vars
  <2>1. SUFFICES ASSUME Next, stop_event, Running
                 PROVE  /\ stop_event'
                        /\ \A t \in Threads : StepsLeft[loop'[t]] <= StepsLeft[loop[t]]
    BY <1>1
  <2>2. Alive    \* the loop that runs is that of _thread, and is not new
    BY <1>1, <2>1, MonitorAssumption DEF Inv, AtMostOneLoop, OneStarter, LockFree, Alive
  <2>3. \A t \in Threads : StepsLeft[loop[t]] \in Nat
    BY <1>1 DEF Inv, TypeOK, StepsLeft
  <2>4. ASSUME NEW c \in Callers,
               Start(c) \/ Stop(c) \/ Join(c) \/ JoinRaises(c) \/ StopReturns(c)
        PROVE  stop_event' /\ loop' = loop
    BY <2>1, <2>2, <2>4 DEF Start, Stop, Join, JoinRaises, StopReturns, monitor
  <2>5. ASSUME NEW c \in Callers, Launch(c) PROVE FALSE
    BY <1>1, <2>1, <2>5 DEF Launch, Inv, OneStarter
  <2>6. ASSUME NEW t \in Threads, LoopStep(t)
        PROVE  stop_event' /\ \A u \in Threads : StepsLeft[loop'[u]] <= StepsLeft[loop[u]]
    <3>1. UNCHANGED stop_event /\ \A u \in Threads \ {t} : loop'[u] = loop[u]
      BY <1>1, <2>6 DEF LoopStep, LoopTop, CheckEnds, Wake, monitor, Inv, TypeOK
    <3>2. StepsLeft[loop'[t]] <= StepsLeft[loop[t]]
      BY <1>1, <2>1, <2>6
      DEF LoopStep, LoopTop, CheckEnds, Wake, Inv, TypeOK, StepsLeft
    <3>. QED  BY <2>1, <2>3, <3>1, <3>2
  <2>. QED  BY <2>1, <2>3, <2>4, <2>5, <2>6 DEF Next
<1>. QED  BY <1>1, Invariance, PTL DEF Spec, StopAdvances
=============================================================================
