------------------------------ MODULE Semaphore ------------------------------
(***************************************************************************)
(* knet::Semaphore (semaphore.h, semaphore.cpp): Wait and Weakup over one  *)
(* mutex, one condition variable and two counters.                         *)
(*                                                                         *)
(* Both operations hold m_mutex from beginning to end, except while Wait   *)
(* sleeps in m_cv.wait; so each stretch between two sleeps is one action.  *)
(* m_cv.wait(lock, pred) is `while (!pred()) wait(lock)`: the predicate is *)
(* read before the first sleep, and again after every return from a sleep, *)
(* whether a notify_one caused the return or not.                          *)
(***************************************************************************)
EXTENDS Integers, FiniteSets

CONSTANTS Threads,     \* threads that call the semaphore
          MaxWaitRef   \* bound: no Weakup once m_wait_ref has reached it

ASSUME SemaphoreAssumption == /\ IsFiniteSet(Threads)
                              /\ MaxWaitRef \in Nat

VARIABLES m_wait_ref,    \* permits left, or minus the waits not yet answered
          m_weakup_ref,  \* answers given to waits that have not consumed them
          sleep          \* where each thread is: outside Wait, asleep on m_cv,
                         \* or woken and waiting to lock m_mutex again

semVars == <<m_wait_ref, m_weakup_ref, sleep>>

Asleep == {t \in Threads : sleep[t] = "asleep"}
Woken  == {t \in Threads : sleep[t] = "woken"}

\* The threads inside m_cv.wait.
Blocked == {t \in Threads : sleep[t] # "out"}

SemTypeOK == /\ m_wait_ref \in Int
             /\ m_weakup_ref \in Nat
             /\ sleep \in [Threads -> {"out", "asleep", "woken"}]

SemaphoreInit == /\ m_wait_ref = 0
                 /\ m_weakup_ref = 0
                 /\ sleep = [t \in Threads |-> "out"]

\* Wait takes a permit that is left over: --m_wait_ref is not negative.
WaitThrough(t) ==
    /\ sleep[t] = "out"
    /\ m_wait_ref - 1 >= 0
    /\ m_wait_ref' = m_wait_ref - 1
    /\ UNCHANGED <<m_weakup_ref, sleep>>

\* Wait finds the predicate true before its first sleep: it overtakes the
\* waits the answer was given to.
WaitBarge(t) ==
    /\ sleep[t] = "out"
    /\ m_wait_ref - 1 < 0
    /\ m_weakup_ref > 0
    /\ m_wait_ref' = m_wait_ref - 1
    /\ m_weakup_ref' = m_weakup_ref - 1
    /\ UNCHANGED sleep

\* Wait goes to sleep on m_cv.
WaitSleep(t) ==
    /\ sleep[t] = "out"
    /\ m_wait_ref - 1 < 0
    /\ ~(m_weakup_ref > 0)
    /\ m_wait_ref' = m_wait_ref - 1
    /\ sleep' = [sleep EXCEPT ![t] = "asleep"]
    /\ UNCHANGED m_weakup_ref

\* Bug: m_cv.wait without a predicate.
BugLeave(t) ==
    /\ sleep[t] = "woken"
    /\ m_weakup_ref' = m_weakup_ref - 1
    /\ sleep' = [sleep EXCEPT ![t] = "out"]
    /\ UNCHANGED m_wait_ref

\* A woken thread locks m_mutex and reads the predicate: it leaves Wait ...
Leave(t) ==
    /\ sleep[t] = "woken"
    /\ m_weakup_ref > 0
    /\ m_weakup_ref' = m_weakup_ref - 1
    /\ sleep' = [sleep EXCEPT ![t] = "out"]
    /\ UNCHANGED m_wait_ref

\* ... or sleeps again.
SleepAgain(t) ==
    /\ sleep[t] = "woken"
    /\ ~(m_weakup_ref > 0)
    /\ sleep' = [sleep EXCEPT ![t] = "asleep"]
    /\ UNCHANGED <<m_wait_ref, m_weakup_ref>>

\* The condition variable returns without a notify_one.
SpuriousWakeup(t) ==
    /\ sleep[t] = "asleep"
    /\ sleep' = [sleep EXCEPT ![t] = "woken"]
    /\ UNCHANGED <<m_wait_ref, m_weakup_ref>>

\* m_cv.notify_one: some sleeping thread is woken; without one, nothing.
NotifyOne == \/ \E t \in Asleep : sleep' = [sleep EXCEPT ![t] = "woken"]
             \/ Asleep = {} /\ UNCHANGED sleep

\* Bug: the answer is counted and nobody is notified.
BugWeakupAnswer ==
    /\ m_wait_ref + 1 <= 0
    /\ m_wait_ref' = m_wait_ref + 1
    /\ m_weakup_ref' = m_weakup_ref + 1
    /\ UNCHANGED sleep

\* Weakup answers a wait: ++m_wait_ref is not positive.
WeakupAnswer ==
    /\ m_wait_ref + 1 <= 0
    /\ m_wait_ref' = m_wait_ref + 1
    /\ m_weakup_ref' = m_weakup_ref + 1
    /\ NotifyOne

\* Weakup leaves a permit for a later wait.
WeakupStore ==
    /\ m_wait_ref + 1 > 0
    /\ m_wait_ref < MaxWaitRef
    /\ m_wait_ref' = m_wait_ref + 1
    /\ UNCHANGED <<m_weakup_ref, sleep>>

Wait(t) == WaitThrough(t) \/ WaitBarge(t) \/ WaitSleep(t)

Weakup == WeakupAnswer \/ WeakupStore

Return(t) == Leave(t) \/ SleepAgain(t)

SemaphoreNext == \/ Weakup
                 \/ \E t \in Threads : Wait(t) \/ Return(t) \/ SpuriousWakeup(t)

\* A woken thread gets the mutex in the end.  Nothing makes a thread call
\* Wait or Weakup, and spurious returns cannot be relied on.
SemaphoreFairness == \A t \in Threads : WF_semVars(Return(t))

SemaphoreSpec == SemaphoreInit /\ [][SemaphoreNext]_semVars /\ SemaphoreFairness

-----------------------------------------------------------------------------
(***************************************************************************)
(* Properties.                                                             *)
(***************************************************************************)

\* The two counters and the threads inside the wait always agree: every
\* blocked thread is either still owed a wakeup (a negative m_wait_ref) or
\* has an answer waiting for it in m_weakup_ref, whoever overtook whom.
CountExact ==
    m_weakup_ref = Cardinality(Blocked) + (IF m_wait_ref < 0 THEN m_wait_ref ELSE 0)

\* No wakeup is lost: notify_one may wake a thread whose answer a barging
\* Wait has taken, and still there are never more answers than threads on
\* their way to pick one up.
NoLostWakeup == m_weakup_ref <= Cardinality(Woken)

\* The class is a counting semaphore: the permits are those left over and
\* the answers not yet consumed, in spite of barging and spurious returns.
Permits == m_weakup_ref + (IF m_wait_ref > 0 THEN m_wait_ref ELSE 0)

Abstract == INSTANCE CountingSemaphore WITH permits <- Permits, waiting <- Blocked

\* A wait returns only by taking the permit of one wakeup, and blocks only
\* when there is none.
ImplementsSafety == Abstract!SemSafety

\* While a thread is blocked and a permit exists, a blocked wait returns or
\* barging waits take the permits.
ImplementsProgress == Abstract!SemProgress
=============================================================================
