------------------------------ MODULE CellThread ------------------------------
(***************************************************************************)
(* knet::CellThreadService (cell_thread.h, cell_thread.cpp): the thread    *)
(* under every Cell, CellTaskService and TCPServer.                        *)
(*                                                                         *)
(* Owners call Start and Close.  Each Start that finds the service stopped *)
(* detaches one worker running OnWork: m_onRun loops while IsRun() and may *)
(* stop the service itself with CloseWithoutWait when select fails (Cell,  *)
(* TCPServer), then m_onDestory, then m_sem.Weakup().  Close joins the     *)
(* detached worker through m_sem, without letting go of m_mutex.           *)
(*                                                                         *)
(* m_sem is the counting semaphore Semaphore is shown to implement.        *)
(***************************************************************************)
EXTENDS Integers, FiniteSets

CONSTANTS Owners,         \* threads that start and close the service
          MaxStarts,      \* bound on the workers ever started
          Free            \* m_mutex is not locked

ASSUME CellThreadAssumption == /\ MaxStarts \in Nat
                               /\ IsFiniteSet(Owners)
                               /\ Free \notin Owners

Workers == 1 .. MaxStarts

VARIABLES m_isRun,
          m_mutex,   \* the owner inside Close's m_sem.Wait, or Free: Start and
                     \* CloseWithoutWait lock and unlock in one step
          permits,   \* m_sem: wakeups no Close has used
          waiting,   \* m_sem: owners blocked in Wait
          starts,    \* workers detached so far
          pc,        \* where each worker is in OnWork
          selfStops  \* history: how often CloseWithoutWait stopped the service

vars == <<m_isRun, m_mutex, permits, waiting, starts, pc, selfStops>>

m_sem == INSTANCE CountingSemaphore WITH Threads <- Owners

Live == {w \in Workers : pc[w] \notin {"none", "gone"}}

TypeOK == /\ m_isRun \in BOOLEAN
          /\ m_mutex \in Owners \cup {Free}
          /\ permits \in Nat
          /\ waiting \in SUBSET Owners
          /\ starts \in 0 .. MaxStarts
          /\ pc \in [Workers -> {"none", "run", "failed", "destroy", "weakup", "gone"}]
          /\ selfStops \in Nat

Init == /\ m_isRun = FALSE
        /\ m_mutex = Free
        /\ m_sem!SemInit
        /\ starts = 0
        /\ pc = [w \in Workers |-> "none"]
        /\ selfStops = 0

-----------------------------------------------------------------------------
(***************************************************************************)
(* Owners.                                                                 *)
(***************************************************************************)

\* Start detaches a worker unless the service runs already.
Start == /\ m_mutex = Free
         /\ ~m_isRun
         /\ starts < MaxStarts
         /\ m_isRun' = TRUE
         /\ starts' = starts + 1
         /\ pc' = [pc EXCEPT ![starts + 1] = "run"]
         /\ UNCHANGED <<m_mutex, permits, waiting, selfStops>>

\* Bug: Close stops the worker without joining it.
BugCloseWait(o) == UNCHANGED <<m_mutex, permits, waiting>>

\* m_sem.Wait() inside Close: m_mutex stays locked if it blocks.
CloseWait(o) == \/ m_sem!TakeNow(o) /\ UNCHANGED m_mutex
                \/ m_sem!Block(o) /\ m_mutex' = o

\* Close stops the service and waits for its worker.  On a stopped service
\* it returns at once, and nothing changes.
Close(o) == /\ m_mutex = Free
            /\ m_isRun
            /\ m_isRun' = FALSE
            /\ CloseWait(o)
            /\ UNCHANGED <<starts, pc, selfStops>>

\* The blocked Close takes its permit, unlocks m_mutex and returns.
CloseReturn(o) == /\ m_mutex = o
                  /\ m_sem!Resume(o)
                  /\ m_mutex' = Free
                  /\ UNCHANGED <<m_isRun, starts, pc, selfStops>>

-----------------------------------------------------------------------------
(***************************************************************************)
(* Workers: one OnWork each.                                               *)
(***************************************************************************)

\* Worker w, and only w, moves from one place of OnWork to the next.
Goes(w, from, to) == /\ pc[w] = from
                     /\ pc' = [pc EXCEPT ![w] = to]

\* m_onRun sees IsRun() false and returns.  The flag is read without m_mutex.
LeaveLoop(w) == /\ ~m_isRun
                /\ Goes(w, "run", "destroy")
                /\ UNCHANGED <<m_isRun, m_mutex, permits, waiting, starts, selfStops>>

\* select fails inside m_onRun: the worker is about to stop the service.
SelectFails(w) == /\ Goes(w, "run", "failed")
                  /\ UNCHANGED <<m_isRun, m_mutex, permits, waiting, starts, selfStops>>

\* Bug: the worker leaves without stopping the service.
BugCloseWithoutWait(w) ==
    /\ m_mutex = Free
    /\ Goes(w, "failed", "destroy")
    /\ UNCHANGED <<m_isRun, m_mutex, permits, waiting, starts, selfStops>>

\* CloseWithoutWait needs m_mutex; then m_onRun leaves its loop.
CloseWithoutWait(w) ==
    /\ m_mutex = Free
    /\ Goes(w, "failed", "destroy")
    /\ m_isRun' = FALSE
    /\ selfStops' = IF m_isRun THEN selfStops + 1 ELSE selfStops
    /\ UNCHANGED <<m_mutex, permits, waiting, starts>>

\* m_onDestory runs and returns.
OnDestory(w) == /\ Goes(w, "destroy", "weakup")
                /\ UNCHANGED <<m_isRun, m_mutex, permits, waiting, starts, selfStops>>

\* Bug: the worker ends without the wakeup.
BugLastWeakup(w) == /\ Goes(w, "weakup", "gone")
                    /\ UNCHANGED <<m_isRun, m_mutex, permits, waiting, starts, selfStops>>

\* m_sem.Weakup(), the last thing a worker does.
LastWeakup(w) == /\ Goes(w, "weakup", "gone")
                 /\ m_sem!Post
                 /\ UNCHANGED <<m_isRun, m_mutex, starts, selfStops>>

Worker(w) == LeaveLoop(w) \/ CloseWithoutWait(w) \/ OnDestory(w) \/ LastWeakup(w)

Next == \/ Start
        \/ \E o \in Owners : Close(o) \/ CloseReturn(o)
        \/ \E w \in Workers : Worker(w) \/ SelectFails(w)

\* Threads are scheduled: a worker that can go on does, and so does a Close
\* that has a permit.  Nobody has to call Start or Close, and select does not
\* have to fail.
Fairness == /\ \A w \in Workers : WF_vars(Worker(w))
            /\ \A o \in Owners : WF_vars(CloseReturn(o))

Spec == Init /\ [][Next]_vars /\ Fairness

-----------------------------------------------------------------------------
(***************************************************************************)
(* Properties.                                                             *)
(***************************************************************************)

\* Every start is paid for: the live workers and the unused wakeups are the
\* running service, the Close in progress, and one for every time
\* CloseWithoutWait stopped the service and so left a wakeup nobody joins.
JoinBalance ==
    Cardinality(Live) + permits =
        (IF m_isRun THEN 1 ELSE 0) + Cardinality(waiting) + selfStops

\* When Close has returned there is no worker left, so the owner may destroy
\* what the worker used (~Cell, ~TCPServer), as long as no worker ever stopped
\* the service by itself.
ClosedMeansJoined ==
    m_mutex = Free /\ ~m_isRun /\ selfStops = 0 => Live = {}

\* Two loops run on the same data (m_clients of a Cell) only after the service
\* was stopped by a worker and started again.
OneLoop == selfStops = 0 => Cardinality({w \in Workers : pc[w] = "run"}) <= 1

\* Close and CloseWithoutWait wait for each other for ever: the worker wants
\* m_mutex, the owner holds it and wants the worker's wakeup.
Stuck == m_mutex # Free /\ permits = 0 /\ Live # {}
            /\ \A w \in Live : pc[w] = "failed"

\* Nothing but that deadlock keeps a Close from returning: without a failing
\* select every Close returns.
CloseReturnsOrStuck == \A o \in Owners : m_mutex = o ~> m_mutex # o \/ Stuck

\* A service that says it runs has a worker in its loop, or one that is about
\* to stop it: IsRun() is never true with nobody serving.
RunningIsServed == m_isRun => \E w \in Workers : pc[w] \in {"run", "failed"}
=============================================================================
