--------------------------- MODULE CellThreadProofs ---------------------------
(***************************************************************************)
(* Theorems about the Semaphore, for any finite set of threads, and about  *)
(* CellThread, whose Close waits on one, for any number of owners and of   *)
(* starts: the semaphore's counters are exact, it loses no wakeup and it   *)
(* implements the safety of CountingSemaphore; workers and wakeups         *)
(* balance, and so Close joins, as long as no worker stopped the service   *)
(* by itself.                                                              *)
(*                                                                         *)
(* The Semaphore's invariant is SemTypeOK, CountExact and NoLostWakeup.    *)
(* The last is not inductive alone: that an answer finds somebody to wake  *)
(* (m_weakup_ref < Cardinality(Blocked) when m_wait_ref < 0) is CountExact.*)
(*                                                                         *)
(* CellThread's JoinBalance needs to know which owner m_sem's waiting set  *)
(* can hold (the one that holds m_mutex, and then the service is stopped)  *)
(* and which pc a new worker starts from: MutexInv and StartsInv.          *)
(***************************************************************************)
EXTENDS CellThread, Semaphore, FiniteSetTheorems, TLAPS

(***************************************************************************)
(* Semaphore.                                                              *)
(***************************************************************************)

SemIInv == SemTypeOK /\ CountExact /\ NoLostWakeup

\* The sets of threads the counters are compared with are finite.
LEMMA ThreadSetsFinite ==
    /\ IsFiniteSet(Blocked) /\ IsFiniteSet(Woken) /\ IsFiniteSet(Asleep)
    /\ Cardinality(Blocked) \in Nat /\ Cardinality(Woken) \in Nat
    /\ Cardinality(Asleep) \in Nat
<1>1. IsFiniteSet(Threads)
  BY SemaphoreAssumption
<1>2. Blocked \subseteq Threads /\ Woken \subseteq Threads /\ Asleep \subseteq Threads
  BY DEF Blocked, Woken, Asleep
<1>3. IsFiniteSet(Blocked) /\ IsFiniteSet(Woken) /\ IsFiniteSet(Asleep)
  BY <1>1, <1>2, FS_Subset
<1>4. QED
  BY <1>3, FS_CardinalityType

\* The same sets after a step that changes the sleep of one thread.
LEMMA ThreadSetsChange ==
    ASSUME SemTypeOK, NEW t \in Threads, NEW v \in {"out", "asleep", "woken"},
           sleep' = [sleep EXCEPT ![t] = v]
    PROVE  /\ Blocked' = IF v = "out" THEN Blocked \ {t} ELSE Blocked \cup {t}
           /\ Woken' = IF v = "woken" THEN Woken \cup {t} ELSE Woken \ {t}
BY DEF SemTypeOK, Blocked, Woken

\* Adding a new element to a finite set, or removing one it has, changes its
\* cardinality by one.
LEMMA CardinalityStep ==
    ASSUME NEW S, IsFiniteSet(S), NEW x
    PROVE  /\ Cardinality(S \cup {x}) =
                IF x \in S THEN Cardinality(S) ELSE Cardinality(S) + 1
           /\ Cardinality(S \ {x}) =
                IF x \in S THEN Cardinality(S) - 1 ELSE Cardinality(S)
BY FS_AddElement, FS_RemoveElement

\* When every blocked thread is woken the two sets are one.
LEMMA AllWoken ==
    ASSUME SemTypeOK, Asleep = {}
    PROVE  Woken = Blocked
BY DEF SemTypeOK, Asleep, Woken, Blocked

LEMMA SemInitIInv == SemaphoreInit => SemIInv
<1> SUFFICES ASSUME SemaphoreInit PROVE SemIInv
  OBVIOUS
<1>1. Blocked = {} /\ Woken = {}
  BY DEF SemaphoreInit, Blocked, Woken
<1>2. Cardinality({}) = 0
  BY FS_EmptySet
<1>3. SemTypeOK
  BY DEF SemaphoreInit, SemTypeOK
<1>4. CountExact /\ NoLostWakeup
  BY <1>1, <1>2 DEF SemaphoreInit, CountExact, NoLostWakeup
<1>5. QED
  BY <1>3, <1>4 DEF SemIInv

LEMMA UnchangedSets ==
    ASSUME UNCHANGED sleep
    PROVE  Blocked' = Blocked /\ Woken' = Woken
BY DEF Blocked, Woken

\* Wait preserves the invariant on each of its three ways.
LEMMA SemWaitIInv ==
    ASSUME SemIInv, NEW t \in Threads, Wait(t)
    PROVE  SemIInv'
<1> USE DEF SemIInv
<1>1. CASE WaitThrough(t)
  <2>1. SemTypeOK'
    BY <1>1 DEF WaitThrough, SemTypeOK
  <2>2. Blocked' = Blocked /\ Woken' = Woken
    BY <1>1, UnchangedSets DEF WaitThrough
  <2>3. CountExact' /\ NoLostWakeup'
    BY <1>1, <2>2 DEF WaitThrough, CountExact, NoLostWakeup, SemTypeOK
  <2>4. QED
    BY <2>1, <2>3
<1>2. CASE WaitBarge(t)
  <2>1. SemTypeOK'
    BY <1>2 DEF WaitBarge, SemTypeOK
  <2>2. Blocked' = Blocked /\ Woken' = Woken
    BY <1>2, UnchangedSets DEF WaitBarge
  <2>3. CountExact'
    BY <1>2, <2>2, ThreadSetsFinite DEF WaitBarge, CountExact, SemTypeOK
  <2>4. NoLostWakeup'
    BY <1>2, <2>2, ThreadSetsFinite DEF WaitBarge, NoLostWakeup, SemTypeOK
  <2>5. QED
    BY <2>1, <2>3, <2>4
<1>3. CASE WaitSleep(t)
  <2>1. SemTypeOK'
    BY <1>3 DEF WaitSleep, SemTypeOK
  <2>2. Blocked' = Blocked \cup {t} /\ Woken' = Woken \ {t}
    BY <1>3, ThreadSetsChange DEF WaitSleep
  <2>3. t \notin Blocked /\ t \notin Woken
    BY <1>3 DEF WaitSleep, Blocked, Woken
  <2>4. /\ Cardinality(Blocked') = Cardinality(Blocked) + 1
        /\ Cardinality(Woken') = Cardinality(Woken)
    BY <2>2, <2>3, ThreadSetsFinite, CardinalityStep
  <2>5. CountExact'
    BY <1>3, <2>4, ThreadSetsFinite DEF WaitSleep, CountExact, SemTypeOK
  <2>6. NoLostWakeup'
    BY <1>3, <2>4 DEF WaitSleep, NoLostWakeup
  <2>7. QED
    BY <2>1, <2>5, <2>6
<1>4. QED
  BY <1>1, <1>2, <1>3 DEF Wait

\* So do a woken thread's two ways on, and a spurious return from m_cv.
LEMMA SemReturnIInv ==
    ASSUME SemIInv, NEW t \in Threads, Return(t) \/ SpuriousWakeup(t)
    PROVE  SemIInv'
<1> USE DEF SemIInv
<1>1. CASE Leave(t)
  <2>1. SemTypeOK'
    BY <1>1 DEF Leave, SemTypeOK
  <2>2. Blocked' = Blocked \ {t} /\ Woken' = Woken \ {t}
    BY <1>1, ThreadSetsChange DEF Leave
  <2>3. t \in Blocked /\ t \in Woken
    BY <1>1 DEF Leave, Blocked, Woken
  <2>4. /\ Cardinality(Blocked') = Cardinality(Blocked) - 1
        /\ Cardinality(Woken') = Cardinality(Woken) - 1
    BY <2>2, <2>3, ThreadSetsFinite, CardinalityStep
  <2>5. CountExact'
    BY <1>1, <2>4, ThreadSetsFinite DEF Leave, CountExact, SemTypeOK
  <2>6. NoLostWakeup'
    BY <1>1, <2>4, ThreadSetsFinite DEF Leave, NoLostWakeup, SemTypeOK
  <2>7. QED
    BY <2>1, <2>5, <2>6
<1>2. CASE SleepAgain(t)
  <2>1. SemTypeOK'
    BY <1>2 DEF SleepAgain, SemTypeOK
  <2>2. Blocked' = Blocked \cup {t} /\ t \in Blocked
    BY <1>2, ThreadSetsChange DEF SleepAgain, Blocked
  <2>3. Blocked' = Blocked
    BY <2>2
  <2>4. CountExact'
    BY <1>2, <2>3 DEF SleepAgain, CountExact
  <2>5. NoLostWakeup'
    <3>1. IsFiniteSet(Woken \ {t})
      BY ThreadSetsFinite, FS_RemoveElement
    <3>2. Woken' = Woken \ {t}
      BY <1>2, ThreadSetsChange DEF SleepAgain
    <3>3. Cardinality(Woken') \in Nat
      BY <3>1, <3>2, FS_CardinalityType
    <3>4. QED
      BY <1>2, <3>3 DEF SleepAgain, NoLostWakeup, SemTypeOK
  <2>6. QED
    BY <2>1, <2>4, <2>5
<1>3. CASE SpuriousWakeup(t)
  <2>1. SemTypeOK'
    BY <1>3 DEF SpuriousWakeup, SemTypeOK
  <2>2. Blocked' = Blocked \cup {t} /\ Woken' = Woken \cup {t} /\ t \in Blocked
    BY <1>3, ThreadSetsChange DEF SpuriousWakeup, Blocked
  <2>3. Blocked' = Blocked
    BY <2>2
  <2>4. Cardinality(Woken') >= Cardinality(Woken)
    <3>1. \/ Cardinality(Woken \cup {t}) = Cardinality(Woken)
          \/ Cardinality(Woken \cup {t}) = Cardinality(Woken) + 1
      BY ThreadSetsFinite, CardinalityStep
    <3>2. QED
      BY <2>2, <3>1, ThreadSetsFinite
  <2>5. CountExact'
    BY <1>3, <2>3 DEF SpuriousWakeup, CountExact
  <2>6. NoLostWakeup'
    <3>1. IsFiniteSet(Woken') /\ Cardinality(Woken') \in Nat
      BY <2>2, ThreadSetsFinite, FS_AddElement, FS_CardinalityType
    <3>2. QED
      BY <1>3, <2>4, <3>1, ThreadSetsFinite DEF SpuriousWakeup, NoLostWakeup, SemTypeOK
  <2>7. QED
    BY <2>1, <2>5, <2>6
<1>4. QED
  BY <1>1, <1>2, <1>3 DEF Return

\* And a Weakup, whether it notifies a thread, finds none asleep, or only
\* leaves a permit.
LEMMA SemWeakupIInv ==
    ASSUME SemIInv, Weakup
    PROVE  SemIInv'
<1> USE DEF SemIInv
<1>1. CASE WeakupStore
  <2>1. SemTypeOK'
    BY <1>1 DEF WeakupStore, SemTypeOK
  <2>2. Blocked' = Blocked /\ Woken' = Woken
    BY <1>1, UnchangedSets DEF WeakupStore
  <2>3. CountExact' /\ NoLostWakeup'
    BY <1>1, <2>2, ThreadSetsFinite DEF WeakupStore, CountExact, NoLostWakeup, SemTypeOK
  <2>4. QED
    BY <2>1, <2>3
<1>2. CASE WeakupAnswer
  <2>0. m_wait_ref < 0
    BY <1>2 DEF WeakupAnswer, SemTypeOK
  <2>1. CASE \E t \in Asleep : sleep' = [sleep EXCEPT ![t] = "woken"]
    <3>1. PICK t \in Asleep : sleep' = [sleep EXCEPT ![t] = "woken"]
      BY <2>1
    <3>2. t \in Threads /\ t \in Blocked /\ t \notin Woken
      BY <3>1 DEF Asleep, Blocked, Woken
    <3>3. Blocked' = Blocked \cup {t} /\ Woken' = Woken \cup {t}
      BY <3>1, <3>2, ThreadSetsChange
    <3>4. Blocked' = Blocked
      BY <3>2, <3>3
    <3>5. Cardinality(Woken') = Cardinality(Woken) + 1
      BY <3>2, <3>3, ThreadSetsFinite, CardinalityStep
    <3>6. SemTypeOK'
      BY <1>2, <3>1, <3>2 DEF WeakupAnswer, SemTypeOK
    <3>7. CountExact'
      BY <1>2, <2>0, <3>4, ThreadSetsFinite DEF WeakupAnswer, CountExact, SemTypeOK
    <3>8. NoLostWakeup'
      BY <1>2, <3>5, ThreadSetsFinite DEF WeakupAnswer, NoLostWakeup, SemTypeOK
    <3>9. QED
      BY <3>6, <3>7, <3>8
  <2>2. CASE Asleep = {} /\ UNCHANGED sleep
    <3>1. Blocked' = Blocked /\ Woken' = Woken /\ Woken = Blocked
      BY <2>2, UnchangedSets, AllWoken
    <3>2. SemTypeOK'
      BY <1>2, <2>2 DEF WeakupAnswer, SemTypeOK
    <3>3. CountExact'
      BY <1>2, <2>0, <3>1, ThreadSetsFinite DEF WeakupAnswer, CountExact, SemTypeOK
    <3>4. NoLostWakeup'
      BY <1>2, <2>0, <3>1, ThreadSetsFinite DEF WeakupAnswer, CountExact, NoLostWakeup, SemTypeOK
    <3>5. QED
      BY <3>2, <3>3, <3>4
  <2>3. QED
    BY <1>2, <2>1, <2>2 DEF WeakupAnswer, NotifyOne
<1>3. QED
  BY <1>1, <1>2 DEF Weakup

LEMMA SemStutterIInv ==
    ASSUME SemIInv, UNCHANGED semVars
    PROVE  SemIInv'
<1>1. Blocked' = Blocked /\ Woken' = Woken
  BY UnchangedSets DEF semVars
<1>2. QED
  BY <1>1 DEF SemIInv, SemTypeOK, CountExact, NoLostWakeup, semVars

LEMMA SemNextIInv == SemIInv /\ [SemaphoreNext]_semVars => SemIInv'
BY SemWaitIInv, SemReturnIInv, SemWeakupIInv, SemStutterIInv DEF SemaphoreNext

\* The type invariant, the exactness of the two counters and the promise that
\* no wakeup is lost hold in every reachable state, for any number of threads.
THEOREM SemaphoreInvariant == SemaphoreSpec => [](SemTypeOK /\ CountExact /\ NoLostWakeup)
<1>1. SemaphoreSpec => []SemIInv
  BY SemInitIInv, SemNextIInv, PTL DEF SemaphoreSpec
<1>2. SemIInv => SemTypeOK /\ CountExact /\ NoLostWakeup
  BY DEF SemIInv
<1>3. QED
  BY <1>1, <1>2, PTL

\* No wakeup is lost, whichever thread takes the answer of which Weakup: there
\* are never more answers than threads on their way to pick one up.
THEOREM NoLostWakeupHolds == SemaphoreSpec => []NoLostWakeup
<1>1. QED
  BY SemaphoreInvariant, PTL

-----------------------------------------------------------------------------
(***************************************************************************)
(* Refinement.                                                             *)
(***************************************************************************)

\* Every step of the class is a step of the abstract semaphore or none at all.
LEMMA StepRefines ==
    ASSUME SemTypeOK, [SemaphoreNext]_semVars
    PROVE  [Abstract!SemNext]_(Abstract!semVars)
<1>1. ASSUME NEW t \in Threads, WaitThrough(t) \/ WaitBarge(t)
      PROVE  Abstract!TakeNow(t)
  <2>1. Blocked' = Blocked /\ t \notin Blocked
    BY <1>1, UnchangedSets DEF WaitThrough, WaitBarge, Blocked
  <2>2. Permits > 0 /\ Permits' = Permits - 1
    BY <1>1 DEF WaitThrough, WaitBarge, Permits, SemTypeOK
  <2>3. QED
    BY <2>1, <2>2 DEF Abstract!TakeNow
<1>2. ASSUME NEW t \in Threads, WaitSleep(t)
      PROVE  Abstract!Block(t)
  <2>1. t \notin Blocked /\ Blocked' = Blocked \cup {t}
    BY <1>2, ThreadSetsChange DEF WaitSleep, Blocked
  <2>2. Permits = 0 /\ Permits' = 0
    BY <1>2 DEF WaitSleep, Permits, SemTypeOK
  <2>3. QED
    BY <2>1, <2>2 DEF Abstract!Block
<1>3. ASSUME NEW t \in Threads, Leave(t)
      PROVE  Abstract!Resume(t)
  <2>1. t \in Blocked /\ Blocked' = Blocked \ {t}
    BY <1>3, ThreadSetsChange DEF Leave, Blocked
  <2>2. Permits > 0 /\ Permits' = Permits - 1
    BY <1>3 DEF Leave, Permits, SemTypeOK
  <2>3. QED
    BY <2>1, <2>2 DEF Abstract!Resume
<1>4. ASSUME NEW t \in Threads, SleepAgain(t) \/ SpuriousWakeup(t)
      PROVE  UNCHANGED Abstract!semVars
  <2>1. t \in Blocked
    BY <1>4 DEF SleepAgain, SpuriousWakeup, Blocked
  <2>2. Blocked' = Blocked \cup {t}
    BY <1>4, ThreadSetsChange DEF SleepAgain, SpuriousWakeup
  <2>3. Permits' = Permits
    BY <1>4 DEF SleepAgain, SpuriousWakeup, Permits
  <2>4. QED
    BY <2>1, <2>2, <2>3 DEF Abstract!semVars
<1>5. ASSUME Weakup
      PROVE  Abstract!Post
  <2>1. Permits' = Permits + 1
    BY <1>5 DEF Weakup, WeakupAnswer, WeakupStore, Permits, SemTypeOK
  <2>2. Blocked' = Blocked
    <3>1. CASE UNCHANGED sleep
      BY <3>1, UnchangedSets
    <3>2. CASE \E t \in Asleep : sleep' = [sleep EXCEPT ![t] = "woken"]
      <4>1. PICK t \in Asleep : sleep' = [sleep EXCEPT ![t] = "woken"]
        BY <3>2
      <4>2. t \in Threads /\ t \in Blocked
        BY <4>1 DEF Asleep, Blocked
      <4>3. Blocked' = Blocked \cup {t}
        BY <4>1, <4>2, ThreadSetsChange
      <4>4. QED
        BY <4>2, <4>3
    <3>3. QED
      BY <1>5, <3>1, <3>2 DEF Weakup, WeakupAnswer, WeakupStore, NotifyOne
  <2>3. QED
    BY <2>1, <2>2 DEF Abstract!Post
<1>6. ASSUME UNCHANGED semVars
      PROVE  UNCHANGED Abstract!semVars
  BY <1>6 DEF semVars, Abstract!semVars, Permits, Blocked
<1>7. QED
  BY <1>1, <1>2, <1>3, <1>4, <1>5, <1>6 DEF SemaphoreNext, Wait, Return, Abstract!SemNext

\* The class implements the safety of the counting semaphore: a Wait returns
\* only for a Weakup of its own, in whatever order threads barge in, are
\* notified or wake spuriously.
THEOREM SemaphoreImplementsCounting == SemaphoreSpec => ImplementsSafety
<1>1. SemaphoreInit => Abstract!SemInit
  BY DEF SemaphoreInit, Abstract!SemInit, Permits, Blocked
<1>2. SemTypeOK /\ [SemaphoreNext]_semVars => [Abstract!SemNext]_(Abstract!semVars)
  BY StepRefines
<1>3. SemaphoreSpec => []SemTypeOK
  BY SemaphoreInvariant, PTL
<1>4. QED
  BY <1>1, <1>2, <1>3, PTL DEF SemaphoreSpec, ImplementsSafety, Abstract!SemSafety

-----------------------------------------------------------------------------
(***************************************************************************)
(* CellThreadService.                                                      *)
(***************************************************************************)

\* Close blocks with m_mutex locked and the service stopped.
MutexInv == /\ waiting = (IF m_mutex = Free THEN {} ELSE {m_mutex})
            /\ m_mutex # Free => ~m_isRun

\* Workers are detached in order, and a running service has the last one in
\* its loop.
StartsInv == /\ \A w \in Workers : pc[w] = "none" <=> w > starts
             /\ m_isRun => starts \in Workers /\ pc[starts] \in {"run", "failed"}

IInv == TypeOK /\ MutexInv /\ StartsInv /\ JoinBalance

LEMMA LiveFinite == IsFiniteSet(Live) /\ Cardinality(Live) \in Nat
<1>1. IsFiniteSet(Workers)
  BY CellThreadAssumption, FS_Interval DEF Workers
<1>2. Live \subseteq Workers
  BY DEF Live
<1>3. QED
  BY <1>1, <1>2, FS_Subset, FS_CardinalityType

\* Blocked owners: none, or the one that holds m_mutex.
LEMMA WaitingCardinality ==
    ASSUME TypeOK, MutexInv
    PROVE  Cardinality(waiting) = IF m_mutex = Free THEN 0 ELSE 1
<1>1. CASE m_mutex = Free
  BY <1>1, FS_EmptySet DEF MutexInv
<1>2. CASE m_mutex # Free
  <2>1. Cardinality({m_mutex}) = 1
    BY FS_Singleton
  <2>2. QED
    BY <1>2, <2>1 DEF MutexInv
<1>3. QED
  BY <1>1, <1>2

\* A worker that moves on inside OnWork stays live.
LEMMA LiveStays ==
    ASSUME TypeOK, NEW w \in Workers, pc[w] \notin {"none", "gone"},
           NEW v \in {"run", "failed", "destroy", "weakup"},
           pc' = [pc EXCEPT ![w] = v]
    PROVE  Live' = Live
BY DEF TypeOK, Live

LEMMA InitIInv == Init => IInv
<1> SUFFICES ASSUME Init PROVE IInv
  OBVIOUS
<1> USE DEF Init, m_sem!SemInit
<1>1. TypeOK
  <2>1. starts \in 0 .. MaxStarts
    BY CellThreadAssumption
  <2>2. pc \in [Workers -> {"none", "run", "failed", "destroy", "weakup", "gone"}]
    OBVIOUS
  <2>3. m_isRun \in BOOLEAN /\ m_mutex \in Owners \cup {Free} /\ waiting \in SUBSET Owners
    OBVIOUS
  <2>4. permits \in Nat /\ selfStops \in Nat
    OBVIOUS
  <2>5. QED
    BY <2>1, <2>2, <2>3, <2>4 DEF TypeOK
<1>2. MutexInv
  BY DEF MutexInv
<1>3. StartsInv
  BY CellThreadAssumption DEF StartsInv, Workers
<1>4. Live = {} /\ waiting = {}
  BY DEF Live
<1>5. JoinBalance
  BY <1>4, FS_EmptySet DEF JoinBalance
<1>6. QED
  BY <1>1, <1>2, <1>3, <1>5 DEF IInv

LEMMA StartIInv ==
    ASSUME IInv, Start
    PROVE  IInv'
<1> USE DEF IInv
<1> DEFINE w == starts + 1
<1>1. w \in Workers /\ w \in Nat
  BY CellThreadAssumption DEF Start, Workers, TypeOK
<1>2. TypeOK'
  BY <1>1, CellThreadAssumption DEF Start, TypeOK
<1>3. MutexInv'
  BY DEF Start, MutexInv
<1>4. StartsInv'
  <2>1. pc' = [pc EXCEPT ![w] = "run"] /\ starts' = w
    BY DEF Start
  <2>2. pc'[w] = "run"
    BY <1>1, <2>1 DEF TypeOK
  <2>3. ASSUME NEW v \in Workers
        PROVE  pc'[v] = "none" <=> v > w
    BY <2>1, <2>2, <1>1 DEF StartsInv, TypeOK, Workers
  <2>4. QED
    BY <1>1, <2>1, <2>2, <2>3 DEF StartsInv
<1>5. JoinBalance'
  <2>1. w \notin Live
    BY <1>1 DEF Live, StartsInv, TypeOK
  <2>2. Live' = Live \cup {w}
    BY <1>1 DEF Start, Live, TypeOK
  <2>3. Cardinality(Live') = Cardinality(Live) + 1
    BY <2>1, <2>2, LiveFinite, FS_AddElement
  <2>4. waiting' = waiting /\ permits' = permits /\ selfStops' = selfStops
        /\ m_isRun' /\ ~m_isRun
    BY DEF Start
  <2>5. Cardinality(waiting) \in Nat
    BY WaitingCardinality
  <2>6. QED
    BY <2>3, <2>4, <2>5, LiveFinite DEF JoinBalance, TypeOK
<1>6. QED
  BY <1>2, <1>3, <1>4, <1>5

LEMMA CloseIInv ==
    ASSUME IInv, NEW o \in Owners, Close(o)
    PROVE  IInv'
<1> USE DEF IInv
<1>1. m_mutex = Free /\ waiting = {} /\ m_isRun /\ ~m_isRun'
  BY DEF Close, MutexInv, TypeOK
<1>2. o # Free
  BY CellThreadAssumption
<1>3. Live' = Live
  BY DEF Close, Live
<1>4. StartsInv'
  BY <1>1 DEF Close, StartsInv
<1>5. CASE m_sem!TakeNow(o) /\ UNCHANGED m_mutex
  <2>1. /\ UNCHANGED <<m_mutex, waiting, starts, pc, selfStops>>
        /\ permits > 0 /\ permits' = permits - 1
    BY <1>5 DEF Close, m_sem!TakeNow
  <2>2. TypeOK' /\ MutexInv'
    <3>1. permits' \in Nat
      BY <2>1 DEF TypeOK
    <3>2. m_isRun' \in BOOLEAN
      BY DEF Close
    <3>3. QED
      BY <1>1, <2>1, <3>1, <3>2 DEF TypeOK, MutexInv
  <2>3. JoinBalance'
    BY <1>1, <1>3, <2>1, WaitingCardinality, LiveFinite DEF JoinBalance, TypeOK
  <2>4. QED
    BY <1>4, <2>2, <2>3
<1>6. CASE m_sem!Block(o) /\ m_mutex' = o
  <2>1. waiting' = {o} /\ permits' = permits /\ selfStops' = selfStops
    BY <1>1, <1>6 DEF Close, m_sem!Block
  <2>2. TypeOK' /\ MutexInv'
    BY <1>1, <1>2, <1>6, <2>1 DEF Close, TypeOK, MutexInv
  <2>3. Cardinality(waiting) = 0 /\ Cardinality(waiting') = 1
    BY <1>1, <2>1, FS_EmptySet, FS_Singleton
  <2>4. JoinBalance'
    BY <1>1, <1>3, <2>1, <2>3, LiveFinite DEF JoinBalance, TypeOK
  <2>5. QED
    BY <1>4, <2>2, <2>4
<1>7. QED
  BY <1>5, <1>6 DEF Close, CloseWait

LEMMA CloseReturnIInv ==
    ASSUME IInv, NEW o \in Owners, CloseReturn(o)
    PROVE  IInv'
<1> USE DEF IInv
<1>1. m_mutex = o /\ o # Free /\ waiting = {o}
  BY CellThreadAssumption DEF CloseReturn, MutexInv
<1>2. /\ m_mutex' = Free /\ waiting' = {} /\ permits' = permits - 1 /\ permits > 0
      /\ UNCHANGED <<m_isRun, starts, pc, selfStops>>
  BY <1>1 DEF CloseReturn, m_sem!Resume
<1>3. TypeOK' /\ MutexInv' /\ StartsInv'
  BY <1>1, <1>2 DEF TypeOK, MutexInv, StartsInv
<1>4. Cardinality(waiting) = 1 /\ Cardinality(waiting') = 0
  BY <1>1, <1>2, FS_EmptySet, FS_Singleton
<1>5. Live' = Live
  BY <1>2 DEF Live
<1>6. JoinBalance'
  BY <1>2, <1>4, <1>5, LiveFinite DEF JoinBalance, TypeOK
<1>7. QED
  BY <1>3, <1>6

\* The steps of a worker before its last one.
LEMMA WorkerMovesIInv ==
    ASSUME IInv, NEW w \in Workers,
           LeaveLoop(w) \/ SelectFails(w) \/ CloseWithoutWait(w) \/ OnDestory(w)
    PROVE  IInv'
<1> USE DEF IInv
<1>1. PICK v \in {"run", "failed", "destroy", "weakup"} :
          pc' = [pc EXCEPT ![w] = v]
  BY DEF LeaveLoop, SelectFails, CloseWithoutWait, OnDestory, Goes
<1>2. pc[w] \notin {"none", "gone"}
  BY DEF LeaveLoop, SelectFails, CloseWithoutWait, OnDestory, Goes
<1>3. Live' = Live
  BY <1>1, <1>2, LiveStays
<1>4. UNCHANGED <<m_mutex, permits, waiting, starts>>
  BY DEF LeaveLoop, SelectFails, CloseWithoutWait, OnDestory
<1>5. \/ UNCHANGED <<m_isRun, selfStops>>
      \/ m_isRun /\ ~m_isRun' /\ m_isRun' \in BOOLEAN /\ selfStops' = selfStops + 1
  BY DEF LeaveLoop, SelectFails, CloseWithoutWait, OnDestory, TypeOK
<1>6. TypeOK'
  BY <1>1, <1>4, <1>5 DEF TypeOK
<1>7. MutexInv'
  BY <1>4, <1>5 DEF MutexInv
<1>8. StartsInv'
  <2>1. \A u \in Workers : pc'[u] = "none" <=> u > starts'
    BY <1>1, <1>2, <1>4 DEF StartsInv, TypeOK
  <2>2. ASSUME m_isRun' PROVE pc'[starts] \in {"run", "failed"} /\ starts \in Workers
    <3>1. m_isRun
      BY <2>2, <1>5
    <3>2. starts \in Workers /\ pc[starts] \in {"run", "failed"}
      BY <3>1 DEF StartsInv
    <3>3. CASE w # starts
      BY <1>1, <3>2, <3>3 DEF TypeOK
    <3>4. CASE w = starts
      <4>1. SelectFails(w)
        BY <2>2, <3>1, <3>2, <3>4
           DEF LeaveLoop, SelectFails, CloseWithoutWait, OnDestory, Goes
      <4>2. QED
        BY <4>1, <3>2, <3>4 DEF SelectFails, Goes, TypeOK
    <3>5. QED
      BY <3>3, <3>4
  <2>3. QED
    BY <2>1, <2>2, <1>4 DEF StartsInv
<1>9. JoinBalance'
  BY <1>3, <1>4, <1>5, LiveFinite, WaitingCardinality DEF JoinBalance, TypeOK
<1>10. QED
  BY <1>6, <1>7, <1>8, <1>9

LEMMA WeakupIInv ==
    ASSUME IInv, NEW w \in Workers, LastWeakup(w)
    PROVE  IInv'
<1> USE DEF IInv
<1>1. /\ pc[w] = "weakup" /\ pc' = [pc EXCEPT ![w] = "gone"]
      /\ permits' = permits + 1
      /\ UNCHANGED <<m_isRun, m_mutex, waiting, starts, selfStops>>
  BY DEF LastWeakup, Goes, m_sem!Post
<1>2. TypeOK' /\ MutexInv'
  BY <1>1 DEF TypeOK, MutexInv
<1>3. StartsInv'
  BY <1>1 DEF StartsInv, TypeOK
<1>4. w \in Live /\ Live' = Live \ {w}
  BY <1>1 DEF Live, TypeOK
<1>5. Cardinality(Live') = Cardinality(Live) - 1
  BY <1>4, LiveFinite, FS_RemoveElement
<1>6. JoinBalance'
  BY <1>1, <1>5, LiveFinite, WaitingCardinality DEF JoinBalance, TypeOK
<1>7. QED
  BY <1>2, <1>3, <1>6

LEMMA NextIInv == IInv /\ [Next]_vars => IInv'
<1>1. ASSUME IInv, UNCHANGED vars
      PROVE  IInv'
  BY <1>1 DEF vars, IInv, TypeOK, MutexInv, StartsInv, JoinBalance, Live
<1>2. QED
  BY <1>1, StartIInv, CloseIInv, CloseReturnIInv, WorkerMovesIInv, WeakupIInv
     DEF Next, Worker

LEMMA SpecIInv == Spec => []IInv
BY InitIInv, NextIInv, PTL DEF Spec

\* Every start is paid for by a live worker or by a wakeup, in every reachable
\* state, for any number of owners and starts.
THEOREM JoinBalanceHolds == Spec => [](TypeOK /\ JoinBalance)
<1>1. IInv => TypeOK /\ JoinBalance
  BY DEF IInv
<1>2. QED
  BY <1>1, SpecIInv, PTL

\* Unless a worker ever stopped the service by itself, a closed service has no
\* live worker.
THEOREM CloseJoins == Spec => []ClosedMeansJoined
<1>1. IInv => ClosedMeansJoined
  <2> SUFFICES ASSUME IInv, m_mutex = Free, ~m_isRun, selfStops = 0
               PROVE  Live = {}
    BY DEF ClosedMeansJoined
  <2>1. Cardinality(Live) + permits = 0
    BY WaitingCardinality DEF IInv, JoinBalance
  <2>2. Cardinality(Live) = 0
    BY <2>1, LiveFinite DEF IInv, TypeOK
  <2>3. QED
    BY <2>2, LiveFinite, FS_EmptySet
<1>2. QED
  BY <1>1, SpecIInv, PTL

\* Unless a worker ever stopped the service by itself, at most one worker is in
\* the loop.
THEOREM OneLoopHolds == Spec => []OneLoop
<1>1. IInv => OneLoop
  <2> DEFINE Running == {w \in Workers : pc[w] = "run"}
  <2> SUFFICES ASSUME IInv, selfStops = 0
               PROVE  Cardinality(Running) <= 1
    BY DEF OneLoop
  <2>1. Cardinality(Live) <= 1
    BY WaitingCardinality, LiveFinite DEF IInv, JoinBalance, MutexInv, TypeOK
  <2>2. Running \subseteq Live
    BY DEF Live
  <2>3. Cardinality(Running) <= Cardinality(Live) /\ IsFiniteSet(Running)
    BY <2>2, LiveFinite, FS_Subset
  <2>4. Cardinality(Running) \in Nat
    BY <2>3, FS_CardinalityType
  <2>5. QED
    BY <2>1, <2>3, <2>4, LiveFinite
<1>2. QED
  BY <1>1, SpecIInv, PTL

\* A service whose IsRun() is true has a worker in its loop, or one about to
\* stop it.
THEOREM RunningIsServedHolds == Spec => []RunningIsServed
<1>1. IInv => RunningIsServed
  BY DEF IInv, StartsInv, RunningIsServed
<1>2. QED
  BY <1>1, SpecIInv, PTL
=============================================================================
