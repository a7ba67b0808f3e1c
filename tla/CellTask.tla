------------------------------- MODULE CellTask -------------------------------
(***************************************************************************)
(* knet::CellTaskService (cell_task.h, cell_task.cpp): tasks added by any  *)
(* thread, run in batches by one worker.                                   *)
(*                                                                         *)
(* The worker reads IsRun() and m_taskBuff.empty() without m_mutex, moves  *)
(* the buffer to the pool under m_mutex, and after its loop runs what is   *)
(* in the buffer, again without m_mutex and without clearing it.  Those    *)
(* reads race with AddTask: each one sees the list before or after a       *)
(* push_back.                                                              *)
(*                                                                         *)
(* Close returns when the worker is gone: the task service never calls     *)
(* CloseWithoutWait, so ClosedMeansJoined of CellThread applies.           *)
(***************************************************************************)
EXTENDS Integers, Sequences, FiniteSets, SequencesExt

CONSTANTS MaxTasks,   \* bound on the tasks ever added
          MaxLives    \* bound on the times the service is started

ASSUME CellTaskAssumption == MaxTasks \in Nat /\ MaxLives \in Nat

VARIABLES m_taskBuff, m_taskPool,
          m_isRun,    \* of m_threadService
          closing,    \* a Close has stopped the service and waits for the worker
          pc,         \* the worker's place in OnRun, "off" when there is none
          iter,       \* the worker's iterator over the list it runs
          added,      \* history: tasks 1 .. added were added, in this order
          executed,   \* history: the tasks run, in this order
          drained,    \* history: tasks run by the loop after the main loop
          lives,      \* history: times started
          cutoff      \* history: added when the last Close began

vars == <<m_taskBuff, m_taskPool, m_isRun, closing, pc, iter,
          added, executed, drained, lives, cutoff>>

service == <<m_isRun, closing, lives, cutoff>>
history == <<added, executed, drained>>

TypeOK == /\ m_taskBuff \in Seq(1 .. added)
          /\ m_taskPool \in Seq(1 .. added)
          /\ m_isRun \in BOOLEAN /\ closing \in BOOLEAN
          /\ pc \in {"off", "loop", "peek", "move", "pick", "run", "drain"}
          /\ iter \in Nat \ {0}
          /\ added \in 0 .. MaxTasks
          /\ executed \in Seq(1 .. added)
          /\ drained \subseteq 1 .. added
          /\ lives \in 0 .. MaxLives
          /\ cutoff \in 0 .. added

Init == /\ m_taskBuff = <<>> /\ m_taskPool = <<>>
        /\ m_isRun = FALSE /\ closing = FALSE
        /\ pc = "off" /\ iter = 1
        /\ added = 0 /\ executed = <<>> /\ drained = {}
        /\ lives = 0 /\ cutoff = 0

-----------------------------------------------------------------------------
\* Any thread adds a task, whether the service runs or not.
AddTask == /\ added < MaxTasks
           /\ added' = added + 1
           /\ m_taskBuff' = Append(m_taskBuff, added + 1)
           /\ UNCHANGED <<m_taskPool, pc, iter, executed, drained, service>>

\* Start, on a stopped service: m_threadService detaches a worker.
Start == /\ ~m_isRun /\ ~closing
         /\ lives < MaxLives
         /\ m_isRun' = TRUE
         /\ lives' = lives + 1
         /\ pc' = "loop"
         /\ UNCHANGED <<m_taskBuff, m_taskPool, closing, iter, cutoff, history>>

\* Close stops a running service ...
Close == /\ m_isRun /\ ~closing
         /\ m_isRun' = FALSE
         /\ closing' = TRUE
         /\ cutoff' = added
         /\ UNCHANGED <<m_taskBuff, m_taskPool, pc, iter, lives, history>>

\* Bug: Close does not wait for the worker.
BugCloseReturn == /\ closing
                  /\ closing' = FALSE
                  /\ UNCHANGED <<m_taskBuff, m_taskPool, pc, iter, m_isRun, lives, cutoff, history>>

\* ... and returns when its worker is gone.
CloseReturn == /\ closing /\ pc = "off"
               /\ closing' = FALSE
               /\ UNCHANGED <<m_taskBuff, m_taskPool, pc, iter, m_isRun, lives, cutoff, history>>

-----------------------------------------------------------------------------
(***************************************************************************)
(* The worker: OnRun.                                                      *)
(***************************************************************************)

\* Bug: tasks still in the buffer are forgotten when the loop is left.
BugLoop == /\ pc = "loop"
           /\ pc' = IF m_isRun THEN "peek" ELSE "off"
           /\ iter' = 1
           /\ UNCHANGED <<m_taskBuff, m_taskPool, service, history>>

\* while (thread->IsRun()): another round, or the final drain.
Loop == /\ pc = "loop"
        /\ pc' = IF m_isRun THEN "peek" ELSE "drain"
        /\ iter' = 1
        /\ UNCHANGED <<m_taskBuff, m_taskPool, service, history>>

\* The unlocked m_taskBuff.empty().
Peek == /\ pc = "peek"
        /\ pc' = IF m_taskBuff = <<>> THEN "pick" ELSE "move"
        /\ UNCHANGED <<m_taskBuff, m_taskPool, iter, service, history>>

\* Bug: the buffer is copied, not moved.
BugMove == /\ pc = "move"
           /\ m_taskPool' = m_taskPool \o m_taskBuff
           /\ pc' = "pick"
           /\ UNCHANGED <<m_taskBuff, iter, service, history>>

\* Bug: the new tasks replace those of the pool and lose the first of theirs.
BugMoveTail == /\ pc = "move"
               /\ m_taskPool' = Tail(m_taskBuff)
               /\ m_taskBuff' = <<>>
               /\ pc' = "pick"
               /\ UNCHANGED <<iter, service, history>>

\* The buffer moves to the pool under m_mutex.
Move == /\ pc = "move"
        /\ m_taskPool' = m_taskPool \o m_taskBuff
        /\ m_taskBuff' = <<>>
        /\ pc' = "pick"
        /\ UNCHANGED <<iter, service, history>>

\* An empty pool: sleep and go round again.  Otherwise run it.
Pick == /\ pc = "pick"
        /\ pc' = IF m_taskPool = <<>> THEN "loop" ELSE "run"
        /\ UNCHANGED <<m_taskBuff, m_taskPool, iter, service, history>>

\* The next task of the pool; after the last one the pool is cleared.
RunTask ==
    /\ pc = "run"
    /\ UNCHANGED <<m_taskBuff, added, drained, service>>
    /\ \/ /\ iter <= Len(m_taskPool)
          /\ executed' = Append(executed, m_taskPool[iter])
          /\ iter' = iter + 1
          /\ UNCHANGED <<m_taskPool, pc>>
       \/ /\ iter > Len(m_taskPool)
          /\ m_taskPool' = <<>>
          /\ pc' = "loop"
          /\ UNCHANGED <<iter, executed>>

\* The tasks left in the buffer, run where they are.  The iterator follows
\* tasks that are added meanwhile; the worker ends when it meets no more.
Drain ==
    /\ pc = "drain"
    /\ UNCHANGED <<m_taskBuff, m_taskPool, added, service>>
    /\ \/ /\ iter <= Len(m_taskBuff)
          /\ executed' = Append(executed, m_taskBuff[iter])
          /\ drained' = drained \cup {m_taskBuff[iter]}
          /\ iter' = iter + 1
          /\ UNCHANGED pc
       \/ /\ iter > Len(m_taskBuff)
          /\ pc' = "off"
          /\ UNCHANGED <<iter, executed, drained>>

Worker == Loop \/ Peek \/ Move \/ Pick \/ RunTask \/ Drain

Next == AddTask \/ Start \/ Close \/ CloseReturn \/ Worker

\* The worker is scheduled, and so is the thread inside Close.
Spec == Init /\ [][Next]_vars /\ WF_vars(Worker) /\ WF_vars(CloseReturn)

-----------------------------------------------------------------------------
(***************************************************************************)
(* Properties.                                                             *)
(***************************************************************************)

\* Tasks run in the order they were added, none twice and none skipped, over
\* the unlocked reads, the batches and the final drain.  This holds for one
\* life of the service; RepeatsOnlyDrained says what a restart adds.
InOrder == lives <= 1 => \A i \in DOMAIN executed : executed[i] = i

\* A task added before Close began has run when Close returns.
ClosedMeansDrained ==
    lives > 0 /\ ~m_isRun /\ ~closing => 1 .. cutoff \subseteq ToSet(executed)

\* The final drain leaves its tasks in the buffer, so a service started again
\* runs them once more: they, and no other task, are ever run twice.
RepeatsOnlyDrained ==
    \A i, j \in DOMAIN executed :
        i # j /\ executed[i] = executed[j] => executed[i] \in drained

\* A task added while the service runs is run in the end, even if the service
\* is closed meanwhile.
TaskRuns == \A k \in 1 .. MaxTasks :
                m_isRun /\ k <= added ~> k \in ToSet(executed)
=============================================================================
