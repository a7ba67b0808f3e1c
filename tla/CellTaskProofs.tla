---------------------------- MODULE CellTaskProofs ----------------------------
(***************************************************************************)
(* CellTask, for any number of tasks and of lives of the service: tasks    *)
(* run in order in the first life, all that were added before Close have   *)
(* run when it returns, and only drained tasks are ever run again.         *)
(*                                                                         *)
(* None of the three is inductive: each needs to know where the tasks are  *)
(* that have not run.  They are in the pool from the iterator on while the *)
(* worker runs it, and in the buffer, from the iterator on in the drain.   *)
(***************************************************************************)
EXTENDS CellTask, SequenceTheorems, TLAPS

\* The first task of either list that has not run in this life.
PoolFrom == IF pc = "run" THEN iter ELSE 1
BuffFrom == IF pc = "drain" THEN iter ELSE 1

\* What holds at the places of the worker.
PlacesInv ==
    /\ m_isRun => pc # "off" /\ ~closing
    /\ pc # "off" /\ ~m_isRun => closing
    /\ pc = "drain" => ~m_isRun
    /\ lives = 0 => pc = "off" /\ executed = <<>>
    /\ pc \notin {"pick", "run"} => m_taskPool = <<>>
    /\ pc \in {"peek", "move", "pick"} => iter = 1
    /\ pc = "run" => iter <= Len(m_taskPool) + 1
    /\ pc = "drain" => iter <= Len(m_taskBuff) + 1

\* No task is twice in the lists.
DistinctInv ==
    /\ \A i, j \in DOMAIN m_taskPool : m_taskPool[i] = m_taskPool[j] => i = j
    /\ \A i, j \in DOMAIN m_taskBuff : m_taskBuff[i] = m_taskBuff[j] => i = j
    /\ \A i \in DOMAIN m_taskPool, j \in DOMAIN m_taskBuff : m_taskPool[i] # m_taskBuff[j]

\* A task that has run and is to run again has been drained.
RepeatInv ==
    /\ RepeatsOnlyDrained
    /\ \A i \in DOMAIN executed, j \in DOMAIN m_taskPool :
          j >= PoolFrom /\ m_taskPool[j] = executed[i] => executed[i] \in drained
    /\ \A i \in DOMAIN executed, j \in DOMAIN m_taskBuff :
          m_taskBuff[j] = executed[i] => executed[i] \in drained

\* Task k has run.
Ran(k) == \E i \in DOMAIN executed : executed[i] = k

\* Task k is in one of the lists and has not run in this life.
Waits(k) == \/ \E j \in DOMAIN m_taskPool : j >= PoolFrom /\ m_taskPool[j] = k
            \/ \E j \in DOMAIN m_taskBuff : j >= BuffFrom /\ m_taskBuff[j] = k

\* No task is lost.
CoverInv == /\ \A k \in 1 .. added : Ran(k) \/ Waits(k)
            /\ pc = "off" /\ lives > 0 => \A k \in 1 .. cutoff : Ran(k)

\* How many had run when the worker came to the front of its lists.
Base == Len(executed) - (IF pc \in {"run", "drain"} THEN iter - 1 ELSE 0)

\* The lists continue the numbers of the tasks that have run.
Consecutive == /\ \A j \in DOMAIN m_taskPool : m_taskPool[j] = Base + j
               /\ \A j \in DOMAIN m_taskBuff : m_taskBuff[j] = Base + Len(m_taskPool) + j
               /\ added = Base + Len(m_taskPool) + Len(m_taskBuff)

\* The service has not been closed.
FirstLife == lives = 0 \/ (lives = 1 /\ pc # "off")

OrderInv == InOrder /\ (FirstLife => Consecutive)

IInv == TypeOK /\ PlacesInv /\ DistinctInv /\ RepeatInv /\ CoverInv /\ OrderInv

-----------------------------------------------------------------------------
\* The lists as functions.
LEMMA ListFacts ==
    ASSUME TypeOK
    PROVE  /\ Len(m_taskBuff) \in Nat /\ DOMAIN m_taskBuff = 1 .. Len(m_taskBuff)
           /\ \A i \in 1 .. Len(m_taskBuff) : m_taskBuff[i] \in 1 .. added
           /\ Len(m_taskPool) \in Nat /\ DOMAIN m_taskPool = 1 .. Len(m_taskPool)
           /\ \A i \in 1 .. Len(m_taskPool) : m_taskPool[i] \in 1 .. added
           /\ Len(executed) \in Nat /\ DOMAIN executed = 1 .. Len(executed)
           /\ \A i \in 1 .. Len(executed) : executed[i] \in 1 .. added
           /\ added \in Nat /\ iter \in Nat /\ iter >= 1
BY LenProperties, ElementOfSeq, CellTaskAssumption DEF TypeOK

\* A list with one more element.
LEMMA AppendFacts ==
    ASSUME NEW n \in Nat, NEW s \in Seq(1 .. n), NEW e \in 1 .. n
    PROVE  /\ Append(s, e) \in Seq(1 .. n)
           /\ Len(Append(s, e)) = Len(s) + 1
           /\ DOMAIN Append(s, e) = 1 .. Len(s) + 1
           /\ \A i \in 1 .. Len(s) : Append(s, e)[i] = s[i]
           /\ Append(s, e)[Len(s) + 1] = e
BY AppendProperties, LenProperties

LEMMA SeqGrows == ASSUME NEW n \in Nat PROVE Seq(1 .. n) \subseteq Seq(1 .. n + 1)
BY SeqMonotonic

LEMMA BaseInt == ASSUME TypeOK PROVE Base \in Int
BY ListFacts DEF Base

LEMMA InitIInv == Init => IInv
<1> SUFFICES ASSUME Init PROVE IInv
  OBVIOUS
<1> USE CellTaskAssumption DEF Init
<1>1. TypeOK
  <2>1. <<>> \in Seq(1 .. added)
    BY EmptySeq
  <2>2. /\ m_taskBuff \in Seq(1 .. added) /\ m_taskPool \in Seq(1 .. added)
        /\ executed \in Seq(1 .. added)
    BY <2>1
  <2>3. /\ drained \subseteq 1 .. added /\ added \in 0 .. MaxTasks
        /\ lives \in 0 .. MaxLives /\ cutoff \in 0 .. added /\ iter \in Nat \ {0}
    OBVIOUS
  <2>4. QED
    BY <2>2, <2>3 DEF TypeOK
<1>2. /\ DOMAIN m_taskPool = {} /\ DOMAIN m_taskBuff = {} /\ DOMAIN executed = {}
      /\ Len(m_taskPool) = 0 /\ Len(m_taskBuff) = 0 /\ Len(executed) = 0
  OBVIOUS
<1>3. PlacesInv
  BY DEF PlacesInv
<1>4. DistinctInv /\ RepeatInv
  BY <1>2 DEF DistinctInv, RepeatInv, RepeatsOnlyDrained
<1>5. CoverInv
  BY DEF CoverInv
<1>6. OrderInv
  BY <1>2 DEF OrderInv, InOrder, Consecutive, Base
<1>7. QED
  BY <1>1, <1>3, <1>4, <1>5, <1>6 DEF IInv

LEMMA AddTaskIInv == ASSUME IInv, AddTask PROVE IInv'
<1> USE DEF IInv
<1>1. /\ added' = added + 1 /\ added' \in Nat /\ added' <= MaxTasks
      /\ m_taskBuff' \in Seq(1 .. added') /\ Len(m_taskBuff') = Len(m_taskBuff) + 1
      /\ DOMAIN m_taskBuff' = 1 .. Len(m_taskBuff) + 1
      /\ \A i \in 1 .. Len(m_taskBuff) : m_taskBuff'[i] = m_taskBuff[i]
      /\ m_taskBuff'[Len(m_taskBuff) + 1] = added + 1
      /\ UNCHANGED <<m_taskPool, pc, iter, executed, drained, service>>
  <2>1. added \in Nat /\ added + 1 \in 1 .. added + 1 /\ m_taskBuff \in Seq(1 .. added + 1)
    BY SeqGrows, CellTaskAssumption DEF TypeOK
  <2>2. QED
    BY <2>1, AppendFacts, CellTaskAssumption DEF AddTask
<1>2. TypeOK'
  <2>1. m_taskPool \in Seq(1 .. added') /\ executed \in Seq(1 .. added')
    BY <1>1, SeqGrows, CellTaskAssumption DEF TypeOK
  <2>2. drained \subseteq 1 .. added' /\ cutoff \in 0 .. added' /\ added' \in 0 .. MaxTasks
    BY <1>1, CellTaskAssumption DEF TypeOK
  <2>3. QED
    BY <1>1, <2>1, <2>2 DEF TypeOK, service
<1>3. PlacesInv'
  BY <1>1, ListFacts DEF PlacesInv, service
<1>. USE ListFacts
<1>4. DistinctInv'
  <2>1. ASSUME NEW i \in DOMAIN m_taskBuff', NEW j \in DOMAIN m_taskBuff',
               m_taskBuff'[i] = m_taskBuff'[j]
        PROVE  i = j
    <3>1. CASE i \in 1 .. Len(m_taskBuff) /\ j \in 1 .. Len(m_taskBuff)
      BY <1>1, <2>1, <3>1 DEF DistinctInv
    <3>2. CASE i = Len(m_taskBuff) + 1 /\ j \in 1 .. Len(m_taskBuff)
      <4>1. m_taskBuff'[j] \in 1 .. added /\ m_taskBuff'[i] = added + 1
        BY <1>1, <3>2
      <4>2. QED
        BY <2>1, <4>1
    <3>3. CASE j = Len(m_taskBuff) + 1 /\ i \in 1 .. Len(m_taskBuff)
      <4>1. m_taskBuff'[i] \in 1 .. added /\ m_taskBuff'[j] = added + 1
        BY <1>1, <3>3
      <4>2. QED
        BY <2>1, <4>1
    <3>4. QED
      BY <1>1, <3>1, <3>2, <3>3
  <2>2. ASSUME NEW i \in DOMAIN m_taskPool, NEW j \in DOMAIN m_taskBuff'
        PROVE  m_taskPool[i] # m_taskBuff'[j]
    <3>1. CASE j \in 1 .. Len(m_taskBuff)
      BY <1>1, <3>1 DEF DistinctInv
    <3>2. CASE j = Len(m_taskBuff) + 1
      BY <1>1, <3>2
    <3>3. QED
      BY <1>1, <3>1, <3>2
  <2>3. QED
    BY <1>1, <2>1, <2>2 DEF DistinctInv
<1>5. RepeatInv'
  <2>1. ASSUME NEW i \in DOMAIN executed, NEW j \in DOMAIN m_taskBuff',
               m_taskBuff'[j] = executed[i]
        PROVE  executed[i] \in drained
    <3>1. j \in 1 .. Len(m_taskBuff)
      BY <1>1, <2>1
    <3>2. QED
      BY <1>1, <2>1, <3>1 DEF RepeatInv
  <2>2. QED
    BY <1>1, <2>1 DEF RepeatInv, RepeatsOnlyDrained, PoolFrom
<1>6. CoverInv'
  <2>1. ASSUME NEW k \in 1 .. added' PROVE Ran(k)' \/ Waits(k)'
    <3>1. CASE k = added + 1
      <4>1. Len(m_taskBuff) + 1 >= BuffFrom
        BY ListFacts DEF BuffFrom, PlacesInv
      <4>2. Len(m_taskBuff) + 1 \in DOMAIN m_taskBuff' /\ BuffFrom' = BuffFrom
        BY <1>1 DEF BuffFrom
      <4>3. QED
        BY <1>1, <3>1, <4>1, <4>2 DEF Waits
    <3>2. CASE k # added + 1
      <4>1. Ran(k) \/ Waits(k)
        BY <1>1, <2>1, <3>2, ListFacts DEF CoverInv
      <4>2. QED
        BY <1>1, <4>1, ListFacts DEF Ran, Waits, PoolFrom, BuffFrom
    <3>3. QED
      BY <3>1, <3>2
  <2>2. QED
    BY <1>1, <2>1 DEF CoverInv, Ran, service
<1>7. OrderInv'
  <2>1. (FirstLife' <=> FirstLife) /\ Base' = Base /\ Base \in Int
    BY <1>1, BaseInt DEF FirstLife, Base, service
  <2>2. ASSUME FirstLife PROVE Consecutive'
    <3>1. Consecutive
      BY <2>2 DEF OrderInv
    <3>2. added' = Base + Len(m_taskPool) + Len(m_taskBuff')
      BY <1>1, <2>1, <3>1 DEF Consecutive
    <3>3. ASSUME NEW j \in DOMAIN m_taskBuff'
          PROVE  m_taskBuff'[j] = Base + Len(m_taskPool) + j
      <4>1. CASE j \in 1 .. Len(m_taskBuff)
        BY <1>1, <3>1, <4>1 DEF Consecutive
      <4>2. CASE j = Len(m_taskBuff) + 1
        BY <1>1, <2>1, <3>1, <4>2 DEF Consecutive
      <4>3. QED
        BY <1>1, <4>1, <4>2
    <3>4. QED
      BY <1>1, <2>1, <3>1, <3>2, <3>3 DEF Consecutive
  <2>3. InOrder'
    BY <1>1 DEF OrderInv, InOrder, service
  <2>4. QED
    BY <2>1, <2>2, <2>3 DEF OrderInv
<1>8. QED
  BY <1>2, <1>3, <1>4, <1>5, <1>6, <1>7

-----------------------------------------------------------------------------
\* A step that leaves the lists and what they are worth alone.
LEMMA SameLists ==
    ASSUME IInv, TypeOK', PlacesInv',
           UNCHANGED <<m_taskBuff, m_taskPool, history>>,
           UNCHANGED <<PoolFrom, BuffFrom, Base>>,
           pc' = "off" /\ lives' > 0 => pc = "off" /\ lives > 0 /\ UNCHANGED cutoff,
           lives' <= 1 => lives <= 1,
           FirstLife' => FirstLife
    PROVE  IInv'
<1> USE DEF IInv, history
<1>1. DistinctInv'
  BY DEF DistinctInv
<1>2. RepeatInv'
  BY DEF RepeatInv, RepeatsOnlyDrained
<1>3. CoverInv'
  <2>1. \A k : (Ran(k)' <=> Ran(k)) /\ (Waits(k)' <=> Waits(k))
    BY DEF Ran, Waits
  <2>2. QED
    BY <2>1 DEF CoverInv
<1>4. OrderInv'
  <2>1. Consecutive' <=> Consecutive
    BY DEF Consecutive
  <2>2. QED
    BY <2>1 DEF OrderInv, InOrder
<1>5. QED
  BY <1>1, <1>2, <1>3, <1>4

LEMMA StartIInv == ASSUME IInv, Start PROVE IInv'
<1> USE DEF IInv, Start, history
<1>1. TypeOK'
  BY CellTaskAssumption DEF TypeOK
<1>2. PlacesInv' /\ pc = "off"
  <2>1. pc = "off" /\ pc' = "loop" /\ m_taskPool = <<>>
    BY DEF PlacesInv
  <2>2. lives \in Nat /\ lives' = lives + 1
    BY CellTaskAssumption DEF TypeOK
  <2>3. QED
    BY <2>1, <2>2 DEF PlacesInv
<1>3. UNCHANGED <<PoolFrom, BuffFrom, Base>>
  BY <1>2 DEF PoolFrom, BuffFrom, Base
<1>4. lives \in Nat /\ lives' = lives + 1 /\ pc' = "loop"
  BY CellTaskAssumption DEF TypeOK
<1>5. (lives' <= 1 => lives <= 1) /\ (FirstLife' => FirstLife)
  BY <1>4 DEF FirstLife
<1>6. QED
  BY <1>1, <1>2, <1>3, <1>4, <1>5, SameLists

LEMMA CloseIInv == ASSUME IInv, Close PROVE IInv'
<1> USE DEF IInv, Close, history
<1>1. TypeOK'
  <2>1. added \in 0 .. added
    BY ListFacts
  <2>2. QED
    BY <2>1 DEF TypeOK
<1>2. PlacesInv' /\ pc # "off"
  BY DEF PlacesInv
<1>3. UNCHANGED <<PoolFrom, BuffFrom, Base>>
  BY DEF PoolFrom, BuffFrom, Base
<1>4. FirstLife' => FirstLife
  BY DEF FirstLife
<1>5. QED
  BY <1>1, <1>2, <1>3, <1>4, SameLists

LEMMA CloseReturnIInv == ASSUME IInv, CloseReturn PROVE IInv'
<1> USE DEF IInv, CloseReturn, history
<1>1. TypeOK'
  BY DEF TypeOK
<1>2. PlacesInv'
  BY DEF PlacesInv
<1>3. UNCHANGED <<PoolFrom, BuffFrom, Base>> /\ (FirstLife' => FirstLife)
  BY DEF PoolFrom, BuffFrom, Base, FirstLife
<1>4. QED
  BY <1>1, <1>2, <1>3, SameLists

\* The steps of the worker that only look.
LEMMA LookIInv == ASSUME IInv, Loop \/ Peek \/ Pick PROVE IInv'
<1> USE DEF IInv, Loop, Peek, Pick, history, service
<1>1. TypeOK'
  <2>1. /\ UNCHANGED <<m_taskBuff, m_taskPool, service, history>>
        /\ iter' \in Nat \ {0}
        /\ pc' \in {"peek", "drain", "pick", "move", "loop", "run"}
    BY DEF TypeOK
  <2>2. QED
    BY <2>1 DEF TypeOK
<1>2. PlacesInv'
  BY ListFacts, EmptySeq DEF PlacesInv
<1>3. UNCHANGED <<PoolFrom, BuffFrom>>
  BY DEF PoolFrom, BuffFrom, PlacesInv
<1>4. UNCHANGED Base
  BY DEF Base, PlacesInv
<1>5. pc # "off" /\ pc' # "off"
  OBVIOUS
<1>6. FirstLife' => FirstLife
  BY <1>5 DEF FirstLife
<1>7. QED
  BY <1>1, <1>2, <1>3, <1>4, <1>5, <1>6, SameLists

LEMMA MoveIInv == ASSUME IInv, Move PROVE IInv'
<1> USE DEF IInv, Move, history, service
<1>1. m_taskPool = <<>> /\ pc = "move" /\ pc' = "pick" /\ iter = 1 /\ iter' = 1
  BY DEF PlacesInv
<1>2. m_taskPool' = m_taskBuff /\ m_taskBuff' = <<>>
  BY <1>1, ConcatEmptySeq DEF TypeOK
<1>3. /\ DOMAIN m_taskPool = {} /\ DOMAIN m_taskBuff' = {}
      /\ Len(m_taskPool) = 0 /\ Len(m_taskBuff') = 0
  BY <1>1, <1>2
<1>4. TypeOK'
  BY <1>1, <1>2, EmptySeq DEF TypeOK
<1>5. PlacesInv'
  BY <1>1, <1>2 DEF PlacesInv
<1>6. DistinctInv'
  BY <1>2, <1>3 DEF DistinctInv
<1>7. RepeatInv'
  BY <1>2, <1>3 DEF RepeatInv, RepeatsOnlyDrained
<1>8. CoverInv'
  <2>1. ASSUME NEW k \in 1 .. added, ~Ran(k) PROVE Waits(k)'
    <3>1. PICK j \in DOMAIN m_taskBuff : j >= BuffFrom /\ m_taskBuff[j] = k
      BY <1>3, <2>1 DEF CoverInv, Waits
    <3>2. BuffFrom = 1 /\ PoolFrom' = 1
      BY <1>1 DEF BuffFrom, PoolFrom
    <3>3. QED
      BY <1>2, <3>1, <3>2 DEF Waits
  <2>2. QED
    BY <1>1, <2>1 DEF CoverInv, Ran
<1>9. OrderInv'
  <2>1. (FirstLife' <=> FirstLife) /\ UNCHANGED Base /\ Base \in Int
    BY <1>1, BaseInt DEF FirstLife, Base
  <2>2. ASSUME Consecutive PROVE Consecutive'
    BY <1>2, <1>3, <2>1, <2>2, ListFacts DEF Consecutive
  <2>3. QED
    BY <2>1, <2>2 DEF OrderInv, InOrder
<1>10. QED
  BY <1>4, <1>5, <1>6, <1>7, <1>8, <1>9

\* The pool is done.
LEMMA PoolEndIInv ==
    ASSUME IInv, RunTask, iter > Len(m_taskPool) PROVE IInv'
<1> USE DEF IInv, service
<1>1. /\ m_taskPool' = <<>> /\ pc = "run" /\ pc' = "loop"
      /\ UNCHANGED <<m_taskBuff, added, drained, iter, executed, service>>
  BY ListFacts DEF RunTask
<1>2. DOMAIN m_taskPool' = {} /\ Len(m_taskPool') = 0 /\ iter = Len(m_taskPool) + 1
  BY <1>1, ListFacts DEF PlacesInv
<1>3. TypeOK'
  BY <1>1, EmptySeq DEF TypeOK
<1>4. PlacesInv'
  BY <1>1 DEF PlacesInv
<1>5. DistinctInv'
  BY <1>1, <1>2 DEF DistinctInv
<1>6. RepeatInv'
  BY <1>1, <1>2 DEF RepeatInv, RepeatsOnlyDrained
<1>7. CoverInv'
  <2>1. ASSUME NEW k \in 1 .. added, ~Ran(k) PROVE Waits(k)'
    <3>1. ~\E j \in DOMAIN m_taskPool : j >= PoolFrom /\ m_taskPool[j] = k
      BY <1>1, <1>2, ListFacts DEF PoolFrom
    <3>2. PICK j \in DOMAIN m_taskBuff : j >= BuffFrom /\ m_taskBuff[j] = k
      BY <2>1, <3>1 DEF CoverInv, Waits
    <3>3. BuffFrom' = BuffFrom
      BY <1>1 DEF BuffFrom
    <3>4. QED
      BY <1>1, <3>2, <3>3 DEF Waits
  <2>2. QED
    BY <1>1, <2>1 DEF CoverInv, Ran
<1>8. OrderInv'
  <2>1. (FirstLife' <=> FirstLife) /\ Base' = Base + Len(m_taskPool) /\ Base \in Int
    BY <1>1, <1>2, BaseInt, ListFacts DEF FirstLife, Base
  <2>2. ASSUME Consecutive PROVE Consecutive'
    BY <1>1, <1>2, <2>1, <2>2, ListFacts DEF Consecutive
  <2>3. QED
    BY <1>1, <2>1, <2>2 DEF OrderInv, InOrder
<1>9. QED
  BY <1>3, <1>4, <1>5, <1>6, <1>7, <1>8

\* The drain is done: the worker ends, and every task has run.
LEMMA DrainEndIInv ==
    ASSUME IInv, Drain, iter > Len(m_taskBuff) PROVE IInv'
<1> USE DEF IInv, service
<1>1. /\ pc = "drain" /\ pc' = "off" /\ m_taskPool = <<>> /\ lives > 0
      /\ UNCHANGED <<m_taskBuff, m_taskPool, added, drained, iter, executed, service>>
  BY ListFacts, CellTaskAssumption DEF Drain, PlacesInv, TypeOK
<1>2. DOMAIN m_taskPool = {}
  BY <1>1
<1>3. TypeOK'
  BY <1>1 DEF TypeOK
<1>4. PlacesInv'
  BY <1>1 DEF PlacesInv
<1>5. DistinctInv' /\ RepeatInv'
  BY <1>1, <1>2 DEF DistinctInv, RepeatInv, RepeatsOnlyDrained
<1>6. CoverInv'
  <2>1. ASSUME NEW k \in 1 .. added PROVE Ran(k)
    <3>1. ~Waits(k)
      BY <1>1, <1>2, ListFacts DEF Waits, BuffFrom
    <3>2. QED
      BY <3>1 DEF CoverInv
  <2>2. cutoff \in 0 .. added
    BY DEF TypeOK
  <2>3. \A k \in 1 .. cutoff : k \in 1 .. added
    BY <2>2, ListFacts
  <2>4. QED
    BY <1>1, <2>1, <2>3 DEF CoverInv, Ran
<1>7. OrderInv'
  BY <1>1, CellTaskAssumption DEF OrderInv, InOrder, FirstLife, TypeOK
<1>8. QED
  BY <1>3, <1>4, <1>5, <1>6, <1>7

\* The task at the iterator of the pool.
LEMMA PoolTaskIInv ==
    ASSUME IInv, RunTask, iter <= Len(m_taskPool) PROVE IInv'
<1> USE DEF IInv, service
<1> DEFINE x == m_taskPool[iter]
<1>1. /\ pc = "run" /\ iter' = iter + 1 /\ executed' = Append(executed, x)
      /\ UNCHANGED <<m_taskPool, m_taskBuff, added, drained, pc, service>>
  BY ListFacts DEF RunTask
<1>2. iter \in 1 .. Len(m_taskPool) /\ iter \in DOMAIN m_taskPool /\ x \in 1 .. added
  BY <1>1, ListFacts
<1> HIDE DEF x
<1>3. /\ executed' \in Seq(1 .. added) /\ Len(executed') = Len(executed) + 1
      /\ DOMAIN executed' = 1 .. Len(executed) + 1
      /\ \A i \in 1 .. Len(executed) : executed'[i] = executed[i]
      /\ executed'[Len(executed) + 1] = x
  BY <1>1, <1>2, AppendFacts, ListFacts DEF TypeOK
<1>4. TypeOK'
  BY <1>1, <1>3, ListFacts DEF TypeOK
<1>5. PlacesInv'
  BY <1>1, <1>2, ListFacts DEF PlacesInv
<1>6. DistinctInv'
  BY <1>1 DEF DistinctInv
<1>7. RepeatInv'
  <2>1. PoolFrom = iter /\ PoolFrom' = iter + 1
    BY <1>1 DEF PoolFrom
  <2>2. \A i \in DOMAIN executed : executed[i] = x => x \in drained
    BY <1>2, <2>1, ListFacts DEF RepeatInv, x
  <2>3. ASSUME NEW i \in DOMAIN executed', NEW j \in DOMAIN executed', i # j,
               executed'[i] = executed'[j]
        PROVE  executed'[i] \in drained
    <3>1. CASE i \in 1 .. Len(executed) /\ j \in 1 .. Len(executed)
      BY <1>3, <2>3, <3>1, ListFacts DEF RepeatInv, RepeatsOnlyDrained
    <3>2. CASE i = Len(executed) + 1 /\ j \in 1 .. Len(executed)
      BY <1>3, <2>2, <2>3, <3>2, ListFacts
    <3>3. CASE j = Len(executed) + 1 /\ i \in 1 .. Len(executed)
      BY <1>3, <2>2, <2>3, <3>3, ListFacts
    <3>4. QED
      BY <1>3, <2>3, <3>1, <3>2, <3>3, ListFacts
  <2>4. ASSUME NEW i \in DOMAIN executed', NEW j \in DOMAIN m_taskPool,
               j >= iter + 1, m_taskPool[j] = executed'[i]
        PROVE  executed'[i] \in drained
    <3>1. CASE i \in 1 .. Len(executed)
      BY <1>3, <2>1, <2>4, <3>1, ListFacts DEF RepeatInv
    <3>2. CASE i = Len(executed) + 1
      <4>1. j = iter
        BY <1>2, <1>3, <2>4, <3>2 DEF DistinctInv, x
      <4>2. QED
        BY <2>4, <4>1, ListFacts
    <3>3. QED
      BY <1>3, <3>1, <3>2, ListFacts
  <2>5. ASSUME NEW i \in DOMAIN executed', NEW j \in DOMAIN m_taskBuff,
               m_taskBuff[j] = executed'[i]
        PROVE  executed'[i] \in drained
    <3>1. CASE i \in 1 .. Len(executed)
      BY <1>3, <2>5, <3>1, ListFacts DEF RepeatInv
    <3>2. CASE i = Len(executed) + 1
      BY <1>2, <1>3, <2>5, <3>2 DEF DistinctInv, x
    <3>3. QED
      BY <1>3, <3>1, <3>2, ListFacts
  <2>6. QED
    BY <1>1, <2>1, <2>3, <2>4, <2>5 DEF RepeatInv, RepeatsOnlyDrained
<1>8. CoverInv'
  <2>1. ASSUME NEW k \in 1 .. added PROVE Ran(k)' \/ Waits(k)'
    <3>1. CASE Ran(k)
      BY <1>3, <3>1, ListFacts DEF Ran
    <3>2. CASE \E j \in DOMAIN m_taskPool : j >= PoolFrom /\ m_taskPool[j] = k
      <4>1. PICK j \in DOMAIN m_taskPool : j >= iter /\ m_taskPool[j] = k
        BY <1>1, <3>2 DEF PoolFrom
      <4>2. CASE j = iter
        <5>1. executed'[Len(executed) + 1] = k /\ Len(executed) + 1 \in DOMAIN executed'
          BY <1>3, <4>1, <4>2, ListFacts DEF x
        <5>2. QED
          BY <5>1 DEF Ran
      <4>3. CASE j # iter
        <5>1. j >= PoolFrom'
          BY <1>1, <4>1, <4>3, ListFacts DEF PoolFrom
        <5>2. QED
          BY <1>1, <4>1, <5>1 DEF Waits
      <4>4. QED
        BY <4>2, <4>3
    <3>3. CASE \E j \in DOMAIN m_taskBuff : j >= BuffFrom /\ m_taskBuff[j] = k
      BY <1>1, <3>3 DEF Waits, BuffFrom
    <3>4. QED
      BY <3>1, <3>2, <3>3 DEF CoverInv, Waits
  <2>2. QED
    BY <1>1, <2>1 DEF CoverInv
<1>9. OrderInv'
  <2>1. (FirstLife' <=> FirstLife) /\ UNCHANGED Base /\ Base \in Int
        /\ Base = Len(executed) - (iter - 1)
    BY <1>1, <1>3, BaseInt, ListFacts DEF FirstLife, Base
  <2>2. Consecutive' <=> Consecutive
    BY <1>1, <2>1 DEF Consecutive
  <2>3. ASSUME lives <= 1 PROVE \A i \in DOMAIN executed' : executed'[i] = i
    <3>1. Consecutive
      BY <1>1, <2>3, CellTaskAssumption DEF OrderInv, FirstLife, TypeOK
    <3>2. x = Len(executed) + 1
      BY <1>2, <2>1, <3>1, ListFacts DEF Consecutive, x
    <3>3. \A i \in 1 .. Len(executed) : executed[i] = i
      BY <2>3, ListFacts DEF OrderInv, InOrder
    <3>4. ASSUME NEW i \in DOMAIN executed' PROVE executed'[i] = i
      <4>1. CASE i \in 1 .. Len(executed)
        BY <1>3, <3>3, <4>1
      <4>2. CASE i = Len(executed) + 1
        BY <1>3, <3>2, <4>2
      <4>3. QED
        BY <1>3, <4>1, <4>2, ListFacts
    <3>5. QED
      BY <3>4
  <2>4. QED
    BY <1>1, <2>1, <2>2, <2>3 DEF OrderInv, InOrder
<1>10. QED
  BY <1>4, <1>5, <1>6, <1>7, <1>8, <1>9

\* The task at the iterator of the drain, which stays in the buffer.
LEMMA DrainTaskIInv ==
    ASSUME IInv, Drain, iter <= Len(m_taskBuff) PROVE IInv'
<1> USE DEF IInv, service
<1> DEFINE x == m_taskBuff[iter]
<1>1. /\ pc = "drain" /\ iter' = iter + 1 /\ executed' = Append(executed, x)
      /\ drained' = drained \cup {x}
      /\ UNCHANGED <<m_taskPool, m_taskBuff, added, pc, service>>
  BY ListFacts DEF Drain
<1>2. iter \in 1 .. Len(m_taskBuff) /\ iter \in DOMAIN m_taskBuff /\ x \in 1 .. added
  BY <1>1, ListFacts
<1> HIDE DEF x
<1>3. /\ executed' \in Seq(1 .. added) /\ Len(executed') = Len(executed) + 1
      /\ DOMAIN executed' = 1 .. Len(executed) + 1
      /\ \A i \in 1 .. Len(executed) : executed'[i] = executed[i]
      /\ executed'[Len(executed) + 1] = x
  BY <1>1, <1>2, AppendFacts, ListFacts DEF TypeOK
<1>4. TypeOK'
  BY <1>1, <1>2, <1>3, ListFacts DEF TypeOK
<1>5. PlacesInv'
  BY <1>1, <1>2, ListFacts DEF PlacesInv
<1>6. DistinctInv'
  BY <1>1 DEF DistinctInv
<1>7. m_taskPool = <<>> /\ DOMAIN m_taskPool = {} /\ Len(m_taskPool) = 0
  BY <1>1 DEF PlacesInv
<1>8. RepeatInv'
  <2>1. ASSUME NEW i \in DOMAIN executed', NEW j \in DOMAIN executed', i # j,
               executed'[i] = executed'[j]
        PROVE  executed'[i] \in drained'
    <3>1. CASE i \in 1 .. Len(executed) /\ j \in 1 .. Len(executed)
      BY <1>1, <1>3, <2>1, <3>1, ListFacts DEF RepeatInv, RepeatsOnlyDrained
    <3>2. CASE i = Len(executed) + 1 \/ j = Len(executed) + 1
      BY <1>1, <1>3, <2>1, <3>2
    <3>3. QED
      BY <1>3, <2>1, <3>1, <3>2, ListFacts
  <2>2. ASSUME NEW i \in DOMAIN executed', NEW j \in DOMAIN m_taskBuff,
               m_taskBuff[j] = executed'[i]
        PROVE  executed'[i] \in drained'
    <3>1. CASE i \in 1 .. Len(executed)
      BY <1>1, <1>3, <2>2, <3>1, ListFacts DEF RepeatInv
    <3>2. CASE i = Len(executed) + 1
      BY <1>1, <1>3, <3>2
    <3>3. QED
      BY <1>3, <3>1, <3>2, ListFacts
  <2>3. QED
    BY <1>1, <1>7, <2>1, <2>2 DEF RepeatInv, RepeatsOnlyDrained
<1>9. CoverInv'
  <2>1. ASSUME NEW k \in 1 .. added PROVE Ran(k)' \/ Waits(k)'
    <3>1. CASE Ran(k)
      BY <1>3, <3>1, ListFacts DEF Ran
    <3>2. CASE ~Ran(k)
      <4>1. PICK j \in DOMAIN m_taskBuff : j >= iter /\ m_taskBuff[j] = k
        BY <1>1, <1>7, <3>2 DEF CoverInv, Waits, BuffFrom
      <4>2. CASE j = iter
        <5>1. executed'[Len(executed) + 1] = k /\ Len(executed) + 1 \in DOMAIN executed'
          BY <1>3, <4>1, <4>2, ListFacts DEF x
        <5>2. QED
          BY <5>1 DEF Ran
      <4>3. CASE j # iter
        <5>1. j >= BuffFrom'
          BY <1>1, <4>1, <4>3, ListFacts DEF BuffFrom
        <5>2. QED
          BY <1>1, <4>1, <5>1 DEF Waits
      <4>4. QED
        BY <4>2, <4>3
    <3>3. QED
      BY <3>1, <3>2
  <2>2. QED
    BY <1>1, <2>1 DEF CoverInv
<1>10. OrderInv'
  <2>1. (FirstLife' <=> FirstLife) /\ UNCHANGED Base /\ Base \in Int
        /\ Base = Len(executed) - (iter - 1)
    BY <1>1, <1>3, BaseInt, ListFacts DEF FirstLife, Base
  <2>2. Consecutive' <=> Consecutive
    BY <1>1, <2>1 DEF Consecutive
  <2>3. ASSUME lives <= 1 PROVE \A i \in DOMAIN executed' : executed'[i] = i
    <3>1. Consecutive
      BY <1>1, <2>3, CellTaskAssumption DEF OrderInv, FirstLife, TypeOK
    <3>2. x = Len(executed) + 1
      BY <1>2, <1>7, <2>1, <3>1, ListFacts DEF Consecutive, x
    <3>3. \A i \in 1 .. Len(executed) : executed[i] = i
      BY <2>3, ListFacts DEF OrderInv, InOrder
    <3>4. ASSUME NEW i \in DOMAIN executed' PROVE executed'[i] = i
      <4>1. CASE i \in 1 .. Len(executed)
        BY <1>3, <3>3, <4>1
      <4>2. CASE i = Len(executed) + 1
        BY <1>3, <3>2, <4>2
      <4>3. QED
        BY <1>3, <4>1, <4>2, ListFacts
    <3>5. QED
      BY <3>4
  <2>4. QED
    BY <1>1, <2>1, <2>2, <2>3 DEF OrderInv, InOrder
<1>11. QED
  BY <1>4, <1>5, <1>6, <1>8, <1>9, <1>10

LEMMA StutterIInv == ASSUME IInv, UNCHANGED vars PROVE IInv'
<1> USE DEF IInv, vars, history
<1>1. TypeOK' /\ PlacesInv'
  BY DEF TypeOK, PlacesInv
<1>2. UNCHANGED <<PoolFrom, BuffFrom, Base>> /\ (FirstLife' => FirstLife)
  BY DEF PoolFrom, BuffFrom, Base, FirstLife
<1>3. QED
  BY <1>1, <1>2, SameLists

LEMMA NextIInv == IInv /\ [Next]_vars => IInv'
<1> SUFFICES ASSUME IInv, [Next]_vars PROVE IInv'
  OBVIOUS
<1>1. CASE AddTask \/ Start \/ Close \/ CloseReturn
  BY <1>1, AddTaskIInv, StartIInv, CloseIInv, CloseReturnIInv
<1>2. CASE Loop \/ Peek \/ Pick \/ Move
  BY <1>2, LookIInv, MoveIInv
<1>3. CASE RunTask
  BY <1>3, PoolTaskIInv, PoolEndIInv DEF RunTask
<1>4. CASE Drain
  BY <1>4, DrainTaskIInv, DrainEndIInv DEF Drain
<1>5. CASE UNCHANGED vars
  BY <1>5, StutterIInv
<1>6. QED
  BY <1>1, <1>2, <1>3, <1>4, <1>5 DEF Next, Worker

-----------------------------------------------------------------------------
\* Whatever the number of tasks and lives, each task that was added has run
\* or still waits in one of the lists, and no list holds it twice.
THEOREM TaskInvariant == Spec => []IInv
BY InitIInv, NextIInv, PTL DEF Spec

\* In the first life of the service the unlocked reads of m_taskBuff, the
\* batches and the final drain change nothing: tasks run in the order in
\* which they were added.
THEOREM InOrderHolds == Spec => []InOrder
<1>1. IInv => InOrder
  BY DEF IInv, OrderInv
<1>2. QED
  BY <1>1, TaskInvariant, PTL

\* When Close has returned, the tasks added before it have run.
THEOREM ClosedMeansDrainedHolds == Spec => []ClosedMeansDrained
<1>1. ASSUME IInv PROVE ClosedMeansDrained
  <2>1. SUFFICES ASSUME lives > 0, ~m_isRun, ~closing, NEW k \in 1 .. cutoff
                 PROVE  k \in ToSet(executed)
    BY DEF ClosedMeansDrained
  <2>2. Ran(k)
    BY <1>1, <2>1 DEF IInv, PlacesInv, CoverInv
  <2>3. QED
    BY <2>2 DEF Ran, ToSet
<1>2. QED
  BY <1>1, TaskInvariant, PTL

\* Over any number of restarts, a task that runs twice is one that a final
\* drain left in the buffer.
THEOREM RepeatsOnlyDrainedHolds == Spec => []RepeatsOnlyDrained
<1>1. IInv => RepeatsOnlyDrained
  BY DEF IInv, RepeatInv
<1>2. QED
  BY <1>1, TaskInvariant, PTL
=============================================================================
