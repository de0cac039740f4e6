--------------------------- MODULE BudgetMonitor ----------------------------
(***************************************************************************)
(* The life of toolkit_extensions' BudgetMonitor: start and stop, called   *)
(* by any thread, and the loop thread they begin and end.                  *)
(*                                                                         *)
(* start holds _lock to its end but is two steps: it assigns self._thread, *)
(* and then starts that thread.  stop asks the loop to end under the lock, *)
(* then, the lock released, reads self._thread again and joins it for five *)
(* seconds at most; a thread that start has assigned and not yet started   *)
(* cannot be joined, and stop ends in a RuntimeError.  A check cycle,      *)
(* which AlertPipeline models, may take longer than the five seconds.      *)
(*                                                                         *)
(* Threads are the loop threads; one that has ended, and that no caller    *)
(* still joins, stands for a new one.  Thread creation is taken to work.   *)
(***************************************************************************)
EXTENDS Naturals, FiniteSets

CONSTANTS
  Callers,
  Threads,
  None        \* _thread before the first start

ASSUME MonitorAssumption == None \notin Threads

VARIABLES
  thread,      \* _thread
  stop_event,  \* _stop_event is set
  is_running,  \* stats.is_running
  loop,        \* where each loop thread is
  pc,          \* where each caller is in start or stop
  target,      \* the thread each caller joins
  wanted       \* history: the latest call was start

monitor == <<thread, stop_event, is_running, wanted>>
vars    == <<thread, stop_event, is_running, loop, pc, target, wanted>>

\* The values of the fields, and what a caller waits for: a started thread.
TypeOK ==
  /\ thread \in Threads \cup {None}
  /\ stop_event \in BOOLEAN /\ is_running \in BOOLEAN /\ wanted \in BOOLEAN
  /\ loop \in [Threads -> {"new", "top", "checking", "waiting", "ended"}]
  /\ pc \in [Callers -> {"idle", "starting", "stopping", "joining"}]
  /\ target \in [Callers -> Threads \cup {None}]
  /\ \A c \in Callers :
       pc[c] = "joining" => target[c] \in Threads /\ loop[target[c]] # "new"

Init ==
  /\ thread = None
  /\ stop_event = FALSE /\ is_running = FALSE /\ wanted = FALSE
  /\ loop = [t \in Threads |-> "ended"]
  /\ pc = [c \in Callers |-> "idle"]
  /\ target = [c \in Callers |-> None]

----------------------------------------------------------------------------
\* _lock: only start keeps it over more than one step.
LockFree == \A c \in Callers : pc[c] # "starting"

\* self._thread is not None and self._thread.is_alive()
Alive == thread # None /\ loop[thread] \notin {"new", "ended"}

Unused == {t \in Threads : loop[t] = "ended" /\ \A c \in Callers : target[c] # t}

\* self._thread = threading.Thread(...)
NewThread(c) ==
  /\ is_running' = TRUE
  /\ \E t \in Unused : thread' = t /\ loop' = [loop EXCEPT ![t] = "new"]
  /\ pc' = [pc EXCEPT ![c] = "starting"]

\* Slips: start looks at the statistics instead of the thread, or clears the
\* event before it looks.
StartByStats(c) ==
  /\ pc[c] = "idle" /\ LockFree
  /\ wanted' = TRUE
  /\ \/ is_running /\ UNCHANGED <<thread, stop_event, is_running, loop, pc>>
     \/ ~is_running /\ stop_event' = FALSE /\ NewThread(c)
  /\ UNCHANGED target

StartClearsFirst(c) ==
  /\ pc[c] = "idle" /\ LockFree
  /\ wanted' = TRUE
  /\ stop_event' = FALSE
  /\ \/ Alive /\ UNCHANGED <<thread, is_running, loop, pc>>
     \/ ~Alive /\ NewThread(c)
  /\ UNCHANGED target

Start(c) ==
  /\ pc[c] = "idle" /\ LockFree
  /\ wanted' = TRUE
  /\ \/ Alive /\ UNCHANGED <<thread, stop_event, is_running, loop, pc>>
     \/ ~Alive /\ stop_event' = FALSE /\ NewThread(c)
  /\ UNCHANGED target

\* self._thread.start(), and the lock is released.
Launch(c) ==
  /\ pc[c] = "starting"
  /\ loop' = [loop EXCEPT ![thread] = "top"]
  /\ pc' = [pc EXCEPT ![c] = "idle"]
  /\ UNCHANGED <<monitor, target>>

\* A slip: the statistics still say that the monitor runs.
StopKeepsStats(c) ==
  /\ pc[c] = "idle" /\ LockFree
  /\ wanted' = FALSE
  /\ \/ ~Alive /\ UNCHANGED <<stop_event, pc>>
     \/ /\ Alive
        /\ stop_event' = TRUE
        /\ pc' = [pc EXCEPT ![c] = "stopping"]
  /\ UNCHANGED <<thread, is_running, loop, target>>

\* stop, under the lock.
Stop(c) ==
  /\ pc[c] = "idle" /\ LockFree
  /\ wanted' = FALSE
  /\ \/ ~Alive /\ UNCHANGED <<stop_event, is_running, pc>>
     \/ /\ Alive
        /\ stop_event' = TRUE
        /\ is_running' = FALSE
        /\ pc' = [pc EXCEPT ![c] = "stopping"]
  /\ UNCHANGED <<thread, loop, target>>

Unstarted == {t \in Threads : loop[t] = "new"}

\* self._thread.join, without the lock: another caller may have replaced the
\* thread, and not have started the new one ("cannot join thread before it is
\* started").
JoinRaises(c) ==
  /\ pc[c] = "stopping" /\ thread \in Unstarted
  /\ pc' = [pc EXCEPT ![c] = "idle"]
  /\ UNCHANGED <<monitor, loop, target>>

Join(c) ==
  /\ pc[c] = "stopping" /\ thread \notin Unstarted
  /\ pc' = [pc EXCEPT ![c] = "joining"]
  /\ target' = [target EXCEPT ![c] = thread]
  /\ UNCHANGED <<monitor, loop>>

\* The thread has ended, or the timeout is over; what is logged differs.
StopReturns(c) ==
  /\ pc[c] = "joining"
  /\ pc' = [pc EXCEPT ![c] = "idle"]
  /\ target' = [target EXCEPT ![c] = None]
  /\ UNCHANGED <<monitor, loop>>

----------------------------------------------------------------------------
(* _run_loop                                                               *)

\* A slip: the loop clears self._thread on its way out.
LoopTopForgets(t) ==
  /\ loop[t] = "top"
  /\ loop' = [loop EXCEPT ![t] = IF stop_event THEN "ended" ELSE "checking"]
  /\ thread' = IF stop_event THEN None ELSE thread
  /\ UNCHANGED <<stop_event, is_running, wanted, pc, target>>

\* while not self._stop_event.is_set()
LoopTop(t) ==
  /\ loop[t] = "top"
  /\ loop' = [loop EXCEPT ![t] = IF stop_event THEN "ended" ELSE "checking"]
  /\ UNCHANGED <<monitor, pc, target>>

\* The cycle is over, or an exception ended it and was logged.
CheckEnds(t) ==
  /\ loop[t] = "checking"
  /\ loop' = [loop EXCEPT ![t] = "waiting"]
  /\ UNCHANGED <<monitor, pc, target>>

\* _stop_event.wait: the interval is over, or the event is set.
Wake(t) ==
  /\ loop[t] = "waiting"
  /\ loop' = [loop EXCEPT ![t] = "top"]
  /\ UNCHANGED <<monitor, pc, target>>

LoopStep(t) == LoopTop(t) \/ CheckEnds(t) \/ Wake(t)

Next ==
  \/ \E c \in Callers : \/ Start(c) \/ Launch(c)
                        \/ Stop(c) \/ Join(c) \/ JoinRaises(c) \/ StopReturns(c)
  \/ \E t \in Threads : LoopStep(t)

Spec == Init /\ [][Next]_vars

\* A loop thread is scheduled, its cycles end and its waits time out.  No
\* caller has to call anything.
FairSpec == Spec /\ \A t \in Threads : WF_vars(LoopStep(t))

----------------------------------------------------------------------------
(* However starts and stops overlap, and although stop gives up waiting    *)
(* for a loop that is busy, there are never two loops: each would generate *)
(* and deliver the same alerts (the is_alive check of start).              *)
AtMostOneLoop == \A t \in Threads : loop[t] # "ended" => t = thread

(* get_stats, which waits for the lock, does not report a monitor that is  *)
(* gone or on its way out.                                                 *)
ReportedRunning == LockFree /\ is_running => Alive /\ ~stop_event

(* A stop is not lost, even if a start is called before the loop has seen  *)
(* it: the loop ends ("stop the background monitoring thread gracefully"). *)
StopTakesEffect == stop_event ~> \A t \in Threads : loop[t] = "ended"

(* A loop that was told to end comes to its end: no start, of however many *)
(* callers, takes the event back before the loop has seen it, and each of  *)
(* the loop's steps leaves it fewer to go.                                 *)
StepsLeft == [ended |-> 0, top |-> 1, waiting |-> 2, checking |-> 3, new |-> 4]

StopAdvances ==
  [][stop_event /\ (\E t \in Threads : loop[t] # "ended") =>
       stop_event' /\ \A t \in Threads : StepsLeft[loop'[t]] <= StepsLeft[loop[t]]]_vars

(* start promises to "start the background monitoring thread": when it was *)
(* the latest call, and has returned, there is a loop and it has not been  *)
(* told to end.                                                            *)
StartTakesEffect == LockFree /\ wanted => Alive /\ ~stop_event
=============================================================================
