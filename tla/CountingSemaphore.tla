-------------------------- MODULE CountingSemaphore --------------------------
(***************************************************************************)
(* What knet::Semaphore promises to its callers: a pool of permits.  A     *)
(* wakeup adds a permit; a wait takes one, blocking only while there is    *)
(* none.  Semaphore implements this specification, and CellThread is built *)
(* on it.                                                                  *)
(***************************************************************************)
EXTENDS Naturals

CONSTANT Threads   \* threads that may wait

VARIABLES permits,  \* wakeups that no wait has used yet
          waiting   \* threads blocked inside a wait

semVars == <<permits, waiting>>

SemInit == /\ permits = 0
           /\ waiting = {}

\* A wakeup.
Post == /\ permits' = permits + 1
        /\ UNCHANGED waiting

\* A wait that finds a permit takes it and returns.
TakeNow(t) == /\ t \notin waiting
              /\ permits > 0
              /\ permits' = permits - 1
              /\ UNCHANGED waiting

\* A wait that finds no permit blocks.
Block(t) == /\ t \notin waiting
            /\ permits = 0
            /\ waiting' = waiting \cup {t}
            /\ UNCHANGED permits

\* A blocked wait takes a permit and returns.
Resume(t) == /\ t \in waiting
             /\ permits > 0
             /\ permits' = permits - 1
             /\ waiting' = waiting \ {t}

SemNext ==
    \/ Post
    \/ \E t \in Threads : TakeNow(t) \/ Block(t) \/ Resume(t)

\* The safety part of the promise.
SemSafety == SemInit /\ [][SemNext]_semVars

\* A blocked wait does not sleep on while there are permits: some blocked
\* wait returns, or barging waits have taken every permit.
SemProgress == WF_semVars(\E t \in Threads : Resume(t))

SemSpec == SemSafety /\ SemProgress
=============================================================================
