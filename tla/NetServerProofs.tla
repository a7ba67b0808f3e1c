-------------------------- MODULE NetServerProofs ---------------------------
(***************************************************************************)
(* NetServer, for any number of cells, connections, descriptors and        *)
(* failing selects.                                                        *)
(*                                                                         *)
(* Part one is about threads alone: which places each can be at for each   *)
(* place of the main thread, and why a service does not run any more.      *)
(* Part two follows the connections from accept to the last reference.     *)
(* Part three adds the descriptor sets, part four the counter of the       *)
(* server.  Part five is about ObjectPool, which the ClientSockets come    *)
(* from, for every size of the pool and every set of heap addresses.       *)
(***************************************************************************)
EXTENDS NetServer, ObjectPool, InductionLemmas, FiniteSetTheorems, TLAPS

CellPlaces == {"off", "loop", "join", "poll", "select", "read", "failed", "clear", "destroy",
               "gone"}

AcceptorPlaces == {"off", "loop", "poll", "scan", "failed", "gone"}

\* A cell's worker that has left its loop.
Left == {"clear", "destroy", "gone"}

ThreadTypes ==
    /\ main \in {"new", "up", "joinServer", "clear", "joinCell", "closed"}
    /\ victim \in 1 .. NumCells + 1
    /\ isRun \in [Threads -> BOOLEAN]
    /\ pc \in [Threads -> CellPlaces \cup AcceptorPlaces]
    /\ pc[Acceptor] \in AcceptorPlaces
    /\ \A c \in Cells : pc[c] \in CellPlaces
    /\ selfStopped \subseteq Threads

\* Where the main thread is in Start and Close.
MainInv ==
    /\ main = "new" => \A t \in Threads : pc[t] = "off" /\ ~isRun[t]
    /\ main # "new" => \A t \in Threads : pc[t] # "off"
    /\ main \in {"new", "up", "joinServer"} => victim = 1
    /\ main = "joinCell" => victim \in Cells
    /\ main = "closed" => victim = NumCells + 1

\* The acceptor is gone before the first cell goes.
AcceptorInv ==
    /\ main \in {"clear", "joinCell", "closed"} => pc[Acceptor] = "gone"
    /\ main = "up" /\ ~isRun[Acceptor] => pc[Acceptor] = "gone"
    /\ pc[Acceptor] = "gone" => ~isRun[Acceptor]

\* A cell's service has been stopped by its worker or by ~Cell.
CellsInv ==
    /\ \A c \in Cells : pc[c] \in Left => ~isRun[c]
    /\ \A c \in Cells : c \in selfStopped => pc[c] \in Left
    /\ \A c \in Cells : main # "new" /\ ~isRun[c] =>
           c \in selfStopped \/ c < victim \/ (c = victim /\ main = "joinCell")
    /\ \A c \in Cells : c < victim => pc[c] = "gone" \/ c \in selfStopped

ThreadInv == ThreadTypes /\ MainInv /\ AcceptorInv /\ CellsInv

-----------------------------------------------------------------------------
LEMMA ThreadFacts ==
    /\ NumCells \in Nat \ {0} /\ Acceptor \in Threads /\ Acceptor \notin Cells
    /\ \A c \in Cells : c \in Threads /\ c \in Nat /\ c >= 1 /\ c <= NumCells /\ c # Acceptor
BY NetServerAssumption DEF Threads, Cells

LEMMA InitThreads == Init => ThreadInv
BY ThreadFacts DEF Init, ThreadInv, ThreadTypes, MainInv, AcceptorInv, CellsInv, Threads, Cells,
   CellPlaces, AcceptorPlaces, Left

LEMMA StartThreads == ASSUME ThreadInv, Start PROVE ThreadInv'
<1> USE ThreadFacts DEF ThreadInv, Start
<1>1. ThreadTypes'
  BY DEF ThreadTypes, CellPlaces, AcceptorPlaces
<1>2. MainInv' /\ AcceptorInv'
  BY DEF ThreadTypes, MainInv, AcceptorInv
<1>3. CellsInv'
  BY DEF ThreadTypes, MainInv, CellsInv, Left
<1>4. QED
  BY <1>1, <1>2, <1>3

\* The main thread's steps inside Close, without what they do to the sockets.
LEMMA MainThreads ==
    ASSUME ThreadInv, CloseServer \/ ServerJoined \/ CloseCell \/ CellJoined \/ CloseReturns
    PROVE  ThreadInv'
<1> USE ThreadFacts DEF ThreadInv, services
<1>1. CASE CloseServer
  <2>1. ThreadTypes' /\ MainInv'
    BY <1>1 DEF CloseServer, ThreadTypes, MainInv
  <2>2. AcceptorInv' /\ CellsInv'
    BY <1>1 DEF CloseServer, ThreadTypes, MainInv, AcceptorInv, CellsInv
  <2>3. QED
    BY <2>1, <2>2
<1>2. CASE ServerJoined
  BY <1>2 DEF ServerJoined, ThreadTypes, MainInv, AcceptorInv, CellsInv
<1>3. CASE CloseCell /\ isRun[victim]
  <2>1. /\ main = "clear" /\ main' = "joinCell" /\ victim \in Cells
        /\ isRun' = [isRun EXCEPT ![victim] = FALSE]
        /\ UNCHANGED <<victim, pc, selfStopped>>
    BY <1>3 DEF CloseCell
  <2>2. ThreadTypes' /\ MainInv' /\ AcceptorInv'
    BY <2>1 DEF ThreadTypes, MainInv, AcceptorInv
  <2>3. CellsInv'
    BY <2>1 DEF ThreadTypes, CellsInv
  <2>4. QED
    BY <2>2, <2>3
<1>4. CASE CloseCell /\ ~isRun[victim]
  <2>1. /\ main = "clear" /\ main' = "clear" /\ victim \in Cells
        /\ isRun' = [isRun EXCEPT ![victim] = FALSE]
        /\ victim' = victim + 1
        /\ UNCHANGED <<pc, selfStopped>>
    BY <1>4 DEF CloseCell, DestroyCell
  <2>2. isRun' = isRun /\ victim \in selfStopped
    BY <1>4, <2>1 DEF ThreadTypes, CellsInv
  <2>3. ThreadTypes' /\ MainInv' /\ AcceptorInv'
    BY <2>1, <2>2 DEF ThreadTypes, MainInv, AcceptorInv
  <2>4. CellsInv'
    BY <2>1, <2>2 DEF ThreadTypes, CellsInv
  <2>5. QED
    BY <2>3, <2>4
<1>5. CASE CellJoined
  <2>1. /\ main = "joinCell" /\ main' = "clear" /\ victim \in Cells /\ pc[victim] = "gone"
        /\ victim' = victim + 1
        /\ UNCHANGED <<pc, isRun, selfStopped>>
    BY <1>5 DEF CellJoined, DestroyCell, MainInv
  <2>2. ThreadTypes' /\ MainInv' /\ AcceptorInv'
    BY <2>1 DEF ThreadTypes, MainInv, AcceptorInv
  <2>3. CellsInv'
    BY <2>1 DEF ThreadTypes, CellsInv
  <2>4. QED
    BY <2>2, <2>3
<1>6. CASE CloseReturns
  BY <1>6 DEF CloseReturns, ThreadTypes, MainInv, AcceptorInv, CellsInv
<1>7. QED
  BY <1>1, <1>2, <1>3, <1>4, <1>5, <1>6

\* A cell's worker that stays in its loop.
LEMMA CellRoundThreads ==
    ASSUME ThreadInv, UNCHANGED <<main, victim, isRun, selfStopped>>,
           NEW c \in Cells, NEW from \in CellPlaces \ (Left \cup {"off"}),
           NEW to \in CellPlaces \ (Left \cup {"off"}),
           Goes(c, from, to)
    PROVE  ThreadInv'
<1> USE ThreadFacts DEF ThreadInv, Goes
<1>1. ThreadTypes' /\ MainInv'
  BY DEF ThreadTypes, MainInv
<1>2. AcceptorInv'
  BY DEF ThreadTypes, AcceptorInv
<1>3. CellsInv'
  BY DEF ThreadTypes, CellsInv, Left
<1>4. QED
  BY <1>1, <1>2, <1>3

\* A cell's worker that leaves its loop, or goes on after it.
LEMMA CellLeavesThreads ==
    ASSUME ThreadInv, UNCHANGED <<main, victim, isRun, selfStopped>>,
           NEW c \in Cells, NEW from \in CellPlaces \ {"off", "gone"}, NEW to \in Left,
           Goes(c, from, to), ~isRun[c]
    PROVE  ThreadInv'
<1> USE ThreadFacts DEF ThreadInv, Goes, Left, CellPlaces
<1>1. ThreadTypes' /\ MainInv'
  BY DEF ThreadTypes, MainInv
<1>2. AcceptorInv'
  BY DEF ThreadTypes, AcceptorInv
<1>3. CellsInv'
  BY DEF ThreadTypes, CellsInv
<1>4. QED
  BY <1>1, <1>2, <1>3

\* The acceptor, which leaves its loop only when its service is stopped.
LEMMA AcceptorThreads ==
    ASSUME ThreadInv, UNCHANGED <<main, victim, isRun, selfStopped>>,
           NEW from \in AcceptorPlaces \ {"off", "gone"}, NEW to \in AcceptorPlaces \ {"off"},
           Goes(Acceptor, from, to), to = "gone" => ~isRun[Acceptor]
    PROVE  ThreadInv'
<1> USE ThreadFacts DEF ThreadInv, Goes
<1>1. ThreadTypes' /\ MainInv'
  BY DEF ThreadTypes, MainInv
<1>2. AcceptorInv'
  BY DEF ThreadTypes, AcceptorInv
<1>3. CellsInv'
  BY DEF ThreadTypes, CellsInv
<1>4. QED
  BY <1>1, <1>2, <1>3

LEMMA CloseWithoutWaitThreads ==
    ASSUME ThreadInv, NEW t \in Threads, CloseWithoutWait(t)
    PROVE  ThreadInv'
<1> USE ThreadFacts DEF ThreadInv, CloseWithoutWait, Goes, mains
<1>1. main # "new"
  BY DEF MainInv
<1>2. ThreadTypes' /\ MainInv'
  BY <1>1 DEF ThreadTypes, MainInv, CellPlaces, AcceptorPlaces
<1>3. AcceptorInv'
  BY <1>1 DEF ThreadTypes, AcceptorInv
<1>4. CellsInv'
  BY <1>1 DEF ThreadTypes, CellsInv, Threads, Left
<1>5. QED
  BY <1>2, <1>3, <1>4

LEMMA SameThreads ==
    ASSUME ThreadInv, UNCHANGED <<main, victim, isRun, pc, selfStopped>>
    PROVE  ThreadInv'
BY DEF ThreadInv, ThreadTypes, MainInv, AcceptorInv, CellsInv

LEMMA LoopThreads == ASSUME ThreadInv, NEW t \in Threads, Loop(t) PROVE ThreadInv'
<1> USE ThreadFacts
<1>1. UNCHANGED <<main, victim, isRun, selfStopped>>
  BY DEF Loop, mains, services
<1>2. CASE t = Acceptor /\ isRun[t]
  <2>1. Goes(Acceptor, "loop", "poll")
    BY <1>2 DEF Loop, IsRun
  <2>2. QED
    BY <1>1, <2>1, AcceptorThreads DEF AcceptorPlaces
<1>3. CASE t = Acceptor /\ ~isRun[t]
  <2>1. Goes(Acceptor, "loop", "gone")
    BY <1>3 DEF Loop, IsRun
  <2>2. QED
    BY <1>1, <1>3, <2>1, AcceptorThreads DEF AcceptorPlaces
<1>4. CASE t \in Cells /\ isRun[t]
  <2>1. Goes(t, "loop", "join")
    BY <1>4 DEF Loop, IsRun
  <2>2. QED
    BY <1>1, <1>4, <2>1, CellRoundThreads DEF CellPlaces, Left
<1>5. CASE t \in Cells /\ ~isRun[t]
  <2>1. Goes(t, "loop", "clear")
    BY <1>5 DEF Loop, IsRun
  <2>2. QED
    BY <1>1, <1>5, <2>1, CellLeavesThreads DEF CellPlaces, Left
<1>6. QED
  BY <1>2, <1>3, <1>4, <1>5 DEF Threads

LEMMA SelectFailsThreads == ASSUME ThreadInv, NEW t \in Threads, SelectFails(t) PROVE ThreadInv'
<1> USE ThreadFacts
<1>1. UNCHANGED <<main, victim, isRun, selfStopped>>
  BY DEF SelectFails, mains
<1>2. CASE t = Acceptor
  <2>1. Goes(Acceptor, "poll", "failed")
    BY <1>2 DEF SelectFails
  <2>2. QED
    BY <1>1, <2>1, AcceptorThreads DEF AcceptorPlaces
<1>3. CASE t \in Cells
  <2>1. Goes(t, "select", "failed")
    BY <1>3 DEF SelectFails
  <2>2. QED
    BY <1>1, <1>3, <2>1, CellRoundThreads DEF CellPlaces, Left
<1>4. QED
  BY <1>2, <1>3 DEF Threads

LEMMA AcceptorWorkerThreads == ASSUME ThreadInv, AcceptorWorker PROVE ThreadInv'
<1> USE ThreadFacts
<1>1. CASE Loop(Acceptor) \/ CloseWithoutWait(Acceptor)
  BY <1>1, LoopThreads, CloseWithoutWaitThreads
<1>2. CASE NoClient
  BY <1>2, AcceptorThreads DEF NoClient, mains, services, AcceptorPlaces
<1>3. CASE \E f \in Fds : Accept(f)
  BY <1>3, AcceptorThreads DEF Accept, mains, services, AcceptorPlaces
<1>4. CASE ScanCell
  BY <1>4, SameThreads DEF ScanCell, mains, services
<1>5. CASE AddClient
  BY <1>5, AcceptorThreads DEF AddClient, mains, services, AcceptorPlaces
<1>6. QED
  BY <1>1, <1>2, <1>3, <1>4, <1>5 DEF AcceptorWorker

LEMMA CellWorkerThreads == ASSUME ThreadInv, NEW c \in Cells, CellWorker(c) PROVE ThreadInv'
<1> USE ThreadFacts
<1>1. CASE Loop(c) \/ CloseWithoutWait(c)
  BY <1>1, LoopThreads, CloseWithoutWaitThreads
<1>2. CASE Join(c)
  <2>1. Goes(c, "join", "poll") /\ UNCHANGED <<main, victim, isRun, selfStopped>>
    BY <1>2 DEF Join, mains, services
  <2>2. QED
    BY <2>1, CellRoundThreads DEF CellPlaces, Left
<1>3. CASE FillFdSet(c)
  <2>1. /\ Goes(c, "poll", "loop") \/ Goes(c, "poll", "select")
        /\ UNCHANGED <<main, victim, isRun, selfStopped>>
    BY <1>3 DEF FillFdSet, mains, services
  <2>2. QED
    BY <2>1, CellRoundThreads DEF CellPlaces, Left
<1>4. CASE Select(c) \/ ReadDone(c)
  <2>1. /\ Goes(c, "select", "read") \/ Goes(c, "read", "loop")
        /\ UNCHANGED <<main, victim, isRun, selfStopped>>
    BY <1>4 DEF Select, ReadDone, mains, services
  <2>2. QED
    BY <2>1, CellRoundThreads DEF CellPlaces, Left
<1>5. CASE \E k \in Conns : RecvData(c, k) \/ ClientExit(c, k)
  BY <1>5, SameThreads DEF RecvData, ClientExit, mains, services
<1>6. CASE LeaveOnRun(c) \/ OnDestroy(c)
  <2>1. /\ Goes(c, "clear", "destroy") \/ Goes(c, "destroy", "gone")
        /\ UNCHANGED <<main, victim, isRun, selfStopped>>
    BY <1>6 DEF LeaveOnRun, OnDestroy, ClrClient, mains, services
  <2>2. ~isRun[c]
    BY <2>1 DEF ThreadInv, CellsInv, Left, Goes
  <2>3. QED
    BY <2>1, <2>2, CellLeavesThreads DEF CellPlaces, Left
<1>7. QED
  BY <1>1, <1>2, <1>3, <1>4, <1>5, <1>6 DEF CellWorker

LEMMA NextThreads == ThreadInv /\ [Next]_vars => ThreadInv'
<1> SUFFICES ASSUME ThreadInv, [Next]_vars PROVE ThreadInv'
  OBVIOUS
<1>1. CASE Start \/ Main
  BY <1>1, StartThreads, MainThreads DEF Main
<1>2. CASE AcceptorWorker
  BY <1>2, AcceptorWorkerThreads
<1>3. CASE \E c \in Cells : CellWorker(c)
  BY <1>3, CellWorkerThreads
<1>4. CASE \E t \in Threads : SelectFails(t)
  BY <1>4, SelectFailsThreads
<1>5. CASE \E k \in Conns : PeerSends(k) \/ PeerHangsUp(k)
  BY <1>5, SameThreads DEF PeerSends, PeerHangsUp, mains, services
<1>6. CASE UNCHANGED vars
  BY <1>6, SameThreads DEF vars, mains, services
<1>7. QED
  BY <1>1, <1>2, <1>3, <1>4, <1>5, <1>6 DEF Next

LEMMA SpecThreads == Spec => []ThreadInv
BY InitThreads, NextThreads, PTL DEF Spec

-----------------------------------------------------------------------------
\* While the acceptor hands over a client no cell is destroyed, and none is in
\* ClrClient but one whose worker stopped by itself.
THEOREM AcceptorMeetsLiveCellsHolds == Spec => []AcceptorMeetsLiveCells
<1>1. ASSUME ThreadInv PROVE AcceptorMeetsLiveCells
  <2>1. SUFFICES ASSUME pc[Acceptor] = "scan"
                 PROVE  /\ Destroyed = {}
                        /\ \A c \in Cells : pc[c] \in {"clear", "destroy"} => c \in selfStopped
    BY DEF AcceptorMeetsLiveCells
  <2>2. main \in {"up", "joinServer"} /\ victim = 1
    BY <1>1, <2>1, ThreadFacts DEF ThreadInv, ThreadTypes, MainInv, AcceptorInv
  <2>3. \A c \in Cells : ~(c < victim)
    BY <2>2, ThreadFacts
  <2>4. QED
    BY <1>1, <2>2, <2>3, ThreadFacts DEF ThreadInv, CellsInv, Left, Destroyed
<1>2. QED
  BY <1>1, SpecThreads, PTL

\* A destroyed cell has no worker left, but one that stopped by itself.
THEOREM NoWorkerInDestroyedCellHolds == Spec => []NoWorkerInDestroyedCell
<1>1. ThreadInv => NoWorkerInDestroyedCell
  BY DEF ThreadInv, CellsInv, Destroyed, NoWorkerInDestroyedCell
<1>2. QED
  BY <1>1, SpecThreads, PTL

-----------------------------------------------------------------------------
(***************************************************************************)
(* Part two: the connections.                                              *)
(***************************************************************************)
Homes(c) == m_clients[c] \cup m_clientsBuff[c]

\* The acceptor has a new connection in its hands.
Handing == pc[Acceptor] = "scan"

PlaceTypes ==
    /\ accepted \in 0 .. MaxConns
    /\ fd \in [Conns -> Fds \cup {Closed}]
    /\ scan \in [next : 1 .. NumCells + 1, min : Cells]
    /\ m_clients \in [Cells -> SUBSET Conns]
    /\ m_clientsBuff \in [Cells -> SUBSET Conns]

\* Every open connection has one home, and its home is the only place it is in.
HomeInv ==
    /\ \A k \in Conns : Alive(k) => \/ k = accepted /\ Handing
                                    \/ \E c \in Cells : k \in Homes(c)
    /\ \A c \in Cells : \A k \in Homes(c) : Alive(k)
    /\ \A c \in Cells : m_clients[c] \cap m_clientsBuff[c] = {}
    /\ \A c, d \in Cells : c # d => Homes(c) \cap Homes(d) = {}

\* The connections are those accepted, each with a descriptor of its own; the
\* last may be on its way to a cell, and destroyed cells have none.
AcceptedInv ==
    /\ \A k \in Conns : Alive(k) => k <= accepted
    /\ \A k, l \in Conns : Alive(k) /\ fd[k] = fd[l] => k = l
    /\ Handing => /\ accepted \in Conns /\ Alive(accepted)
                  /\ \A c \in Cells : accepted \notin Homes(c)
    /\ \A c \in Cells : c < victim => Homes(c) = {}

PlaceInv == PlaceTypes /\ HomeInv /\ AcceptedInv

LEMMA InitPlaces == Init => PlaceInv
BY ThreadFacts, NetServerAssumption
   DEF Init, PlaceInv, PlaceTypes, HomeInv, AcceptedInv, Homes, Handing, Alive, Cells

\* A step that leaves the connections where they are.
LEMMA SamePlaces ==
    ASSUME PlaceInv, UNCHANGED <<accepted, fd, m_clients, m_clientsBuff, victim, scan>>,
           Handing' <=> Handing
    PROVE  PlaceInv'
<1>1. \A c \in Cells : Homes(c)' = Homes(c)
  BY DEF Homes
<1>2. PlaceTypes'
  BY DEF PlaceInv, PlaceTypes
<1>3. HomeInv'
  BY <1>1 DEF PlaceInv, HomeInv, Alive
<1>4. AcceptedInv'
  BY <1>1 DEF PlaceInv, AcceptedInv, Alive
<1>5. QED
  BY <1>2, <1>3, <1>4 DEF PlaceInv

\* Accept gives the next connection a descriptor that nobody has.
LEMMA AcceptPlaces ==
    ASSUME ThreadInv, PlaceInv, NEW f \in Fds, Accept(f)
    PROVE  PlaceInv'
<1> USE DEF PlaceInv
<1>0. PICK k : k = accepted + 1
  OBVIOUS
<1>1. /\ k \in Conns /\ k \notin 1 .. accepted /\ accepted' = k /\ accepted \in Nat
      /\ fd' = [fd EXCEPT ![k] = f] /\ f # Closed /\ \A l \in Conns : fd[l] # f
      /\ ~Handing /\ Handing'
      /\ scan' = [next |-> 1, min |-> 1]
      /\ UNCHANGED <<m_clients, m_clientsBuff, victim>>
  BY <1>0, NetServerAssumption, ThreadFacts
     DEF Accept, Goes, Handing, PlaceTypes, Conns, FdsOf, cells, mains, ThreadInv, ThreadTypes
<1>2. fd'[k] = f /\ \A l \in Conns \ {k} : fd'[l] = fd[l]
  BY <1>1 DEF PlaceTypes
<1>3. ~Alive(k) /\ \A c \in Cells : k \notin Homes(c)
  <2>1. ~Alive(k)
    BY <1>1 DEF AcceptedInv, Conns
  <2>2. QED
    BY <2>1 DEF HomeInv
<1>4. Alive(k)' /\ \A l \in Conns \ {k} : Alive(l)' <=> Alive(l)
  BY <1>1, <1>2 DEF Alive
<1>5. \A c \in Cells : Homes(c)' = Homes(c) /\ Homes(c) \subseteq Conns
  BY <1>1 DEF Homes, PlaceTypes
<1>6. PlaceTypes'
  <2>1. accepted' \in 0 .. MaxConns /\ fd' \in [Conns -> Fds \cup {Closed}]
    BY <1>1 DEF PlaceTypes, Conns
  <2>2. scan' \in [next : 1 .. NumCells + 1, min : Cells]
    BY <1>1, ThreadFacts DEF Cells
  <2>3. QED
    BY <1>1, <2>1, <2>2 DEF PlaceTypes
<1>7. HomeInv'
  <2>1. \A l \in Conns : Alive(l)' => (l = accepted' /\ Handing') \/ \E c \in Cells : l \in Homes(c)'
    BY <1>1, <1>4, <1>5 DEF HomeInv
  <2>2. \A c \in Cells : \A l \in Homes(c)' : Alive(l)'
    BY <1>3, <1>4, <1>5 DEF HomeInv
  <2>3. QED
    BY <1>1, <1>5, <2>1, <2>2 DEF HomeInv
<1>8. AcceptedInv'
  <2>1. \A l \in Conns : Alive(l)' => l <= accepted'
    BY <1>1, <1>4 DEF AcceptedInv, Conns
  <2>2. \A l, m \in Conns : Alive(l)' /\ fd'[l] = fd'[m] => l = m
    BY <1>1, <1>2, <1>4 DEF AcceptedInv
  <2>3. QED
    BY <1>1, <1>3, <1>4, <1>5, <2>1, <2>2 DEF AcceptedInv
<1>9. QED
  BY <1>6, <1>7, <1>8

LEMMA ScanCellPlaces == ASSUME PlaceInv, ScanCell PROVE PlaceInv'
<1> USE DEF PlaceInv
<1>1. UNCHANGED <<accepted, fd, m_clients, m_clientsBuff, victim, pc>>
  BY DEF ScanCell, sockets, cells, mains
<1>2. scan' \in [next : 1 .. NumCells + 1, min : Cells]
  BY ThreadFacts DEF ScanCell, PlaceTypes, Cells
<1>3. PlaceTypes'
  BY <1>1, <1>2 DEF PlaceTypes
<1>4. HomeInv' /\ AcceptedInv'
  BY <1>1 DEF HomeInv, AcceptedInv, Homes, Alive, Handing
<1>5. QED
  BY <1>3, <1>4

\* The connection in the acceptor's hands gets its home.
LEMMA AddClientPlaces ==
    ASSUME ThreadInv, PlaceInv, AddClient
    PROVE  PlaceInv'
<1> USE DEF PlaceInv
<1>0. PICK d : d = scan.min
  OBVIOUS
<1>1. /\ d \in Cells /\ Handing /\ ~Handing'
      /\ m_clientsBuff' = [m_clientsBuff EXCEPT ![d] = @ \cup {accepted}]
      /\ UNCHANGED <<accepted, fd, m_clients, victim, scan>>
  BY <1>0, ThreadFacts
     DEF AddClient, Goes, Handing, PlaceTypes, sockets, mains, ThreadInv, ThreadTypes
<1>2. accepted \in Conns /\ Alive(accepted) /\ \A c \in Cells : accepted \notin Homes(c)
  BY <1>1 DEF AcceptedInv
<1>3. victim = 1
  BY <1>1, ThreadFacts DEF ThreadInv, ThreadTypes, MainInv, AcceptorInv, Handing
<1>4. /\ m_clientsBuff'[d] = m_clientsBuff[d] \cup {accepted}
      /\ \A c \in Cells \ {d} : m_clientsBuff'[c] = m_clientsBuff[c]
  BY <1>1 DEF PlaceTypes
<1>5. /\ Homes(d)' = Homes(d) \cup {accepted}
      /\ \A c \in Cells \ {d} : Homes(c)' = Homes(c)
  BY <1>1, <1>4 DEF Homes
<1>6. PlaceTypes'
  BY <1>1, <1>2 DEF PlaceTypes
<1>7. HomeInv'
  <2>1. \A k \in Conns : Alive(k)' => \E c \in Cells : k \in Homes(c)'
    BY <1>1, <1>5 DEF HomeInv, Alive
  <2>2. \A c \in Cells : \A k \in Homes(c)' : Alive(k)'
    BY <1>1, <1>2, <1>5 DEF HomeInv, Alive
  <2>3. \A c \in Cells : m_clients'[c] \cap m_clientsBuff'[c] = {}
    BY <1>1, <1>2, <1>4 DEF HomeInv, Homes
  <2>4. \A b, c \in Cells : b # c => Homes(b)' \cap Homes(c)' = {}
    BY <1>2, <1>5 DEF HomeInv
  <2>5. QED
    BY <2>1, <2>2, <2>3, <2>4 DEF HomeInv
<1>8. AcceptedInv'
  BY <1>1, <1>3, ThreadFacts DEF AcceptedInv, Alive
<1>9. QED
  BY <1>6, <1>7, <1>8

\* No client is replaced by one of the same descriptor, so Join closes none.
LEMMA JoinMoves ==
    ASSUME PlaceInv, NEW c \in Cells, Join(c)
    PROVE  /\ m_clients' = [m_clients EXCEPT ![c] = @ \cup m_clientsBuff[c]]
           /\ m_clientsBuff' = [m_clientsBuff EXCEPT ![c] = {}]
           /\ fd' = fd
<1> USE DEF PlaceInv
<1> DEFINE new  == m_clientsBuff[c]
           kept == {k \in m_clients[c] : fd[k] \notin FdsOf(new)}
<1>1. /\ m_clients' = [m_clients EXCEPT ![c] = kept \cup new]
      /\ m_clientsBuff' = [m_clientsBuff EXCEPT ![c] = @ \ new]
      /\ fd' = CloseFds(m_clients[c] \ kept)
  BY DEF Join, Newcomers, Enter
<1>2. kept = m_clients[c]
  <2>1. SUFFICES ASSUME NEW k \in m_clients[c], NEW l \in new, fd[k] = fd[l] PROVE FALSE
    BY DEF FdsOf
  <2>2. k \in Conns /\ l \in Conns /\ Alive(k) /\ k # l
    BY DEF HomeInv, PlaceTypes, Homes
  <2>3. QED
    BY <2>1, <2>2 DEF AcceptedInv
<1>3. fd' = [k \in Conns |-> fd[k]]
  BY <1>1, <1>2 DEF CloseFds
<1>4. fd' = fd
  BY <1>3 DEF PlaceTypes
<1>5. m_clientsBuff' = [m_clientsBuff EXCEPT ![c] = {}]
  BY <1>1
<1>6. QED
  BY <1>1, <1>2, <1>4, <1>5

LEMMA JoinPlaces == ASSUME PlaceInv, ThreadInv, NEW c \in Cells, Join(c) PROVE PlaceInv'
<1> USE DEF PlaceInv
<1>1. /\ UNCHANGED <<accepted, fd, victim, scan>> /\ (Handing' <=> Handing)
      /\ m_clients' = [m_clients EXCEPT ![c] = @ \cup m_clientsBuff[c]]
      /\ m_clientsBuff' = [m_clientsBuff EXCEPT ![c] = {}]
  BY JoinMoves, ThreadFacts DEF Join, mains, Goes, Handing, ThreadInv, ThreadTypes
<1>2. /\ m_clients'[c] = m_clients[c] \cup m_clientsBuff[c] /\ m_clientsBuff'[c] = {}
      /\ \A d \in Cells \ {c} : m_clients'[d] = m_clients[d] /\ m_clientsBuff'[d] = m_clientsBuff[d]
  BY <1>1 DEF PlaceTypes
<1>3. \A d \in Cells : Homes(d)' = Homes(d)
  BY <1>2 DEF Homes
<1>4. PlaceTypes'
  BY <1>1 DEF PlaceTypes
<1>5. HomeInv'
  BY <1>1, <1>2, <1>3 DEF HomeInv, Alive
<1>6. AcceptedInv'
  BY <1>1, <1>3 DEF AcceptedInv, Alive
<1>7. QED
  BY <1>4, <1>5, <1>6

LEMMA ClientExitPlaces ==
    ASSUME PlaceInv, NEW c \in Cells, NEW x \in Conns, ClientExit(c, x)
    PROVE  PlaceInv'
<1> USE DEF PlaceInv
<1>1. /\ x \in m_clients[c]
      /\ m_clients' = [m_clients EXCEPT ![c] = @ \ {x}]
      /\ fd' = [k \in Conns |-> IF k \in {x} THEN Closed ELSE fd[k]]
      /\ UNCHANGED <<accepted, m_clientsBuff, victim, scan>> /\ (Handing' <=> Handing)
  BY DEF ClientExit, Readable, CloseFds, mains, Handing
<1>2. /\ m_clients'[c] = m_clients[c] \ {x}
      /\ \A d \in Cells \ {c} : m_clients'[d] = m_clients[d]
  BY <1>1 DEF PlaceTypes
<1>3. x \notin m_clientsBuff[c]
  BY <1>1 DEF HomeInv
<1>4. Homes(c)' = Homes(c) \ {x} /\ \A d \in Cells \ {c} : Homes(d)' = Homes(d) \ {x}
  BY <1>1, <1>2, <1>3 DEF Homes, HomeInv
<1>5. \A d \in Cells : Homes(d)' = Homes(d) \ {x} /\ Homes(d) \subseteq Conns
  BY <1>4 DEF Homes, PlaceTypes
<1>6. \A k \in Conns : Alive(k)' <=> Alive(k) /\ k # x
  BY <1>1 DEF Alive
<1>7. \A k \in Conns : k # x => fd'[k] = fd[k]
  BY <1>1
<1>8. ~(Handing /\ accepted = x)
  BY <1>1 DEF AcceptedInv, Homes
<1>9. PlaceTypes'
  <2>1. fd' \in [Conns -> Fds \cup {Closed}] /\ m_clients' \in [Cells -> SUBSET Conns]
    BY <1>1 DEF PlaceTypes
  <2>2. QED
    BY <1>1, <2>1 DEF PlaceTypes
<1>10. HomeInv'
  <2>1. \A k \in Conns : Alive(k)' => (k = accepted' /\ Handing') \/ \E d \in Cells : k \in Homes(d)'
    BY <1>1, <1>5, <1>6 DEF HomeInv
  <2>2. \A d \in Cells : \A k \in Homes(d)' : Alive(k)'
    BY <1>5, <1>6 DEF HomeInv
  <2>3. \A d \in Cells : m_clients'[d] \cap m_clientsBuff'[d] = {}
    BY <1>1, <1>2 DEF HomeInv
  <2>4. \A b, d \in Cells : b # d => Homes(b)' \cap Homes(d)' = {}
    BY <1>5 DEF HomeInv
  <2>5. QED
    BY <2>1, <2>2, <2>3, <2>4 DEF HomeInv
<1>11. AcceptedInv'
  <2>1. \A k, l \in Conns : Alive(k)' /\ fd'[k] = fd'[l] => k = l
    <3>1. \A l \in Conns : l = x => fd'[l] = Closed
      BY <1>1
    <3>2. QED
      BY <1>6, <1>7, <3>1 DEF AcceptedInv, Alive
  <2>2. \A k \in Conns : Alive(k)' => k <= accepted'
    BY <1>1, <1>6 DEF AcceptedInv
  <2>3. QED
    BY <1>1, <1>5, <1>6, <1>8, <2>1, <2>2 DEF AcceptedInv
<1>12. QED
  BY <1>9, <1>10, <1>11

\* A cell forgets its clients, in ClrClient or with its destructor.
Forgets(c) == /\ fd' = CloseFds(Homes(c))
              /\ m_clients' = [m_clients EXCEPT ![c] = {}]
              /\ m_clientsBuff' = [m_clientsBuff EXCEPT ![c] = {}]

\* What a cell that forgets its clients leaves.
LEMMA ForgetFacts ==
    ASSUME PlaceInv, NEW c \in Cells, Forgets(c)
    PROVE  /\ m_clients'[c] = {} /\ m_clientsBuff'[c] = {}
           /\ \A d \in Cells \ {c} : /\ m_clients'[d] = m_clients[d]
                                     /\ m_clientsBuff'[d] = m_clientsBuff[d]
           /\ \A d \in Cells : Homes(d)' = Homes(d) \ Homes(c) /\ Homes(d) \subseteq Conns
           /\ \A k \in Conns : /\ k \in Homes(c) => fd'[k] = Closed
                               /\ k \notin Homes(c) => fd'[k] = fd[k]
           /\ \A k \in Conns : Alive(k)' <=> Alive(k) /\ k \notin Homes(c)
           /\ m_clients' \in [Cells -> SUBSET Conns] /\ m_clientsBuff' \in [Cells -> SUBSET Conns]
           /\ fd' \in [Conns -> Fds \cup {Closed}]
<1> USE DEF PlaceInv, Forgets
<1>1. /\ m_clients'[c] = {} /\ m_clientsBuff'[c] = {}
      /\ \A d \in Cells \ {c} : m_clients'[d] = m_clients[d] /\ m_clientsBuff'[d] = m_clientsBuff[d]
      /\ m_clients' \in [Cells -> SUBSET Conns] /\ m_clientsBuff' \in [Cells -> SUBSET Conns]
  BY DEF PlaceTypes
<1>2. \A d \in Cells : Homes(d)' = Homes(d) \ Homes(c) /\ Homes(d) \subseteq Conns
  <2>1. \A d \in Cells \ {c} : Homes(d)' = Homes(d) /\ Homes(d) \cap Homes(c) = {}
    BY <1>1 DEF HomeInv, Homes
  <2>2. Homes(c)' = {}
    BY <1>1 DEF Homes
  <2>3. \A d \in Cells : Homes(d) \subseteq Conns
    BY DEF Homes, PlaceTypes
  <2>4. QED
    BY <2>1, <2>2, <2>3
<1>3. /\ \A k \in Conns : /\ k \in Homes(c) => fd'[k] = Closed
                          /\ k \notin Homes(c) => fd'[k] = fd[k]
      /\ fd' \in [Conns -> Fds \cup {Closed}]
  BY DEF CloseFds, PlaceTypes
<1>4. \A k \in Conns : Alive(k)' <=> Alive(k) /\ k \notin Homes(c)
  BY <1>3 DEF Alive
<1>5. QED
  BY <1>1, <1>2, <1>3, <1>4

LEMMA ForgetPlaces ==
    ASSUME PlaceInv, NEW c \in Cells, Forgets(c), UNCHANGED <<accepted, scan>>,
           Handing' <=> Handing,
           \A d \in Cells : d < victim' => d < victim \/ d = c
    PROVE  PlaceInv'
<1> USE ForgetFacts
<1>1. PlaceTypes'
  BY DEF PlaceInv, PlaceTypes
<1>2. HomeInv'
  <2>1. \A k \in Conns : Alive(k)' => (k = accepted' /\ Handing') \/ \E d \in Cells : k \in Homes(d)'
    BY DEF PlaceInv, HomeInv
  <2>2. \A d \in Cells : \A k \in Homes(d)' : Alive(k)'
    BY DEF PlaceInv, HomeInv
  <2>3. \A d \in Cells : m_clients'[d] \cap m_clientsBuff'[d] = {}
    BY DEF PlaceInv, HomeInv
  <2>4. \A b, d \in Cells : b # d => Homes(b)' \cap Homes(d)' = {}
    BY DEF PlaceInv, HomeInv
  <2>5. QED
    BY <2>1, <2>2, <2>3, <2>4 DEF HomeInv
<1>3. AcceptedInv'
  <2>1. \A k, l \in Conns : Alive(k)' /\ fd'[k] = fd'[l] => k = l
    BY DEF PlaceInv, AcceptedInv, Alive
  <2>2. \A k \in Conns : Alive(k)' => k <= accepted'
    BY DEF PlaceInv, AcceptedInv
  <2>3. \A d \in Cells : d < victim' => Homes(d)' = {}
    BY DEF PlaceInv, AcceptedInv
  <2>4. QED
    BY <2>1, <2>2, <2>3 DEF PlaceInv, AcceptedInv
<1>4. QED
  BY <1>1, <1>2, <1>3 DEF PlaceInv

\* The steps by which a cell forgets its clients.
LEMMA ForgetSteps ==
    ASSUME ThreadInv,
           NEW c \in Cells,
           \/ LeaveOnRun(c) \/ OnDestroy(c)
           \/ c = victim /\ CloseCell /\ ~isRun[c]
           \/ c = victim /\ CellJoined
    PROVE  /\ Forgets(c) /\ pc[c] \in Left
           /\ UNCHANGED <<accepted, scan, m_connDelta, m_fdReadBak, m_connCount, isRun>>
           /\ dropped' = dropped \cup m_clients[c]
           /\ \A d \in Cells \ {c} : pc'[d] = pc[d]
           /\ pc'[c] \in Left
           /\ Handing' <=> Handing
           /\ \A d \in Cells : d < victim' => d < victim \/ d = c
<1> USE ThreadFacts DEF ThreadInv, ThreadTypes, Homes, Forgets, Left, Handing
<1>1. CASE LeaveOnRun(c) \/ OnDestroy(c)
  BY <1>1 DEF LeaveOnRun, OnDestroy, ClrClient, Goes, mains, services
<1>2. CASE c = victim /\ CloseCell /\ ~isRun[c]
  <2>1. /\ DestroyCell /\ main = "clear" /\ UNCHANGED <<pc, scan>>
        /\ isRun' = [isRun EXCEPT ![victim] = FALSE]
    BY <1>2 DEF CloseCell
  <2>2. pc[c] \in Left /\ isRun' = isRun
    BY <1>2, <2>1 DEF CellsInv
  <2>3. QED
    BY <1>2, <2>1, <2>2 DEF DestroyCell
<1>3. CASE c = victim /\ CellJoined
  <2>1. DestroyCell /\ UNCHANGED <<pc, scan, isRun>> /\ pc[c] = "gone"
    BY <1>3 DEF CellJoined, services
  <2>2. QED
    BY <1>3, <2>1 DEF DestroyCell
<1>4. QED
  BY <1>1, <1>2, <1>3

\* A step by which c forgets its clients.
ForgetStep(c) == \/ LeaveOnRun(c) \/ OnDestroy(c)
                 \/ c = victim /\ CloseCell /\ ~isRun[c]
                 \/ c = victim /\ CellJoined

\* A step that leaves the connections where they are, and the containers.
QuietStep ==
    \/ Start \/ CloseServer \/ ServerJoined \/ CloseReturns \/ NoClient
    \/ CloseCell /\ isRun[victim]
    \/ \E t \in Threads : Loop(t) \/ CloseWithoutWait(t) \/ SelectFails(t)
    \/ \E c \in Cells : \/ FillFdSet(c) \/ Select(c) \/ ReadDone(c)
                        \/ \E k \in Conns : RecvData(c, k)
    \/ \E k \in Conns : PeerSends(k) \/ PeerHangsUp(k)

LEMMA NextSplit ==
    ASSUME ThreadInv, Next
    PROVE  \/ QuietStep \/ (\E f \in Fds : Accept(f)) \/ ScanCell \/ AddClient
           \/ \E c \in Cells : \/ Join(c) \/ ForgetStep(c)
                               \/ \E k \in Conns : ClientExit(c, k)
<1> USE ThreadFacts DEF QuietStep, ForgetStep
<1>1. CASE Start
  BY <1>1
<1>2. CASE Main
  <2>1. CloseCell \/ CellJoined => victim \in Cells
    BY DEF CloseCell, ThreadInv, MainInv, CellJoined
  <2>2. QED
    BY <1>2, <2>1 DEF Main
<1>3. CASE AcceptorWorker
  BY <1>3 DEF AcceptorWorker
<1>4. CASE \E c \in Cells : CellWorker(c)
  BY <1>4 DEF CellWorker
<1>5. CASE \E t \in Threads : SelectFails(t)
  BY <1>5
<1>6. CASE \E k \in Conns : PeerSends(k) \/ PeerHangsUp(k)
  BY <1>6
<1>7. QED
  BY <1>1, <1>2, <1>3, <1>4, <1>5, <1>6 DEF Next

\* What quiet steps have in common.
LEMMA QuietFacts ==
    ASSUME ThreadInv, QuietStep
    PROVE  /\ UNCHANGED <<accepted, fd, m_clients, m_clientsBuff, victim, scan>>
           /\ UNCHANGED <<m_connCount, dropped>>
           /\ Handing' <=> Handing
<1> USE ThreadFacts DEF ThreadInv, ThreadTypes, Handing, Goes, mains, services, sockets, cells, events
<1>1. CASE Start
  BY <1>1 DEF Start, MainInv
<1>2. CASE CloseServer \/ ServerJoined \/ CloseReturns
  BY <1>2 DEF CloseServer, ServerJoined, CloseReturns
<1>3. CASE CloseCell /\ isRun[victim]
  BY <1>3 DEF CloseCell
<1>4. CASE NoClient
  BY <1>4 DEF NoClient
<1>5. ASSUME NEW t \in Threads, Loop(t) \/ CloseWithoutWait(t) \/ SelectFails(t)
      PROVE  /\ UNCHANGED <<accepted, fd, m_clients, m_clientsBuff, victim, scan>>
             /\ UNCHANGED <<m_connCount, dropped>>
             /\ Handing' <=> Handing
  <2>1. CASE Loop(t)
    BY <2>1 DEF Loop
  <2>2. CASE CloseWithoutWait(t)
    BY <2>2 DEF CloseWithoutWait
  <2>3. CASE SelectFails(t)
    BY <2>3 DEF SelectFails
  <2>4. QED
    BY <1>5, <2>1, <2>2, <2>3
<1>6. ASSUME NEW c \in Cells, \/ FillFdSet(c) \/ Select(c) \/ ReadDone(c)
                              \/ \E k \in Conns : RecvData(c, k)
      PROVE  /\ UNCHANGED <<accepted, fd, m_clients, m_clientsBuff, victim, scan>>
             /\ UNCHANGED <<m_connCount, dropped>>
             /\ Handing' <=> Handing
  BY <1>6 DEF FillFdSet, Select, ReadDone, RecvData
<1>7. CASE \E k \in Conns : PeerSends(k) \/ PeerHangsUp(k)
  BY <1>7 DEF PeerSends, PeerHangsUp
<1>8. QED
  BY <1>1, <1>2, <1>3, <1>4, <1>5, <1>6, <1>7 DEF QuietStep

LEMMA NextPlaces == ASSUME ThreadInv, PlaceInv, [Next]_vars PROVE PlaceInv'
<1>1. CASE QuietStep
  BY <1>1, QuietFacts, SamePlaces
<1>2. CASE (\E f \in Fds : Accept(f)) \/ ScanCell \/ AddClient
  BY <1>2, AcceptPlaces, ScanCellPlaces, AddClientPlaces
<1>3. ASSUME NEW c \in Cells, Join(c) \/ \E k \in Conns : ClientExit(c, k)
      PROVE  PlaceInv'
  BY <1>3, JoinPlaces, ClientExitPlaces
<1>4. ASSUME NEW c \in Cells, ForgetStep(c) PROVE PlaceInv'
  <2>1. /\ Forgets(c) /\ UNCHANGED <<accepted, scan>> /\ (Handing' <=> Handing)
        /\ \A d \in Cells : d < victim' => d < victim \/ d = c
    BY <1>4, ForgetSteps DEF ForgetStep
  <2>2. QED
    BY <2>1, ForgetPlaces
<1>5. CASE UNCHANGED vars
  BY <1>5, SamePlaces DEF vars, sockets, cells, mains, Handing
<1>6. QED
  BY <1>1, <1>2, <1>3, <1>4, <1>5, NextSplit

LEMMA SpecPlaces == Spec => [](ThreadInv /\ PlaceInv)
<1>1. Init => ThreadInv /\ PlaceInv
  BY InitThreads, InitPlaces
<1>2. ThreadInv /\ PlaceInv /\ [Next]_vars => ThreadInv' /\ PlaceInv'
  BY NextThreads, NextPlaces
<1>3. QED
  BY <1>1, <1>2, PTL DEF Spec

-----------------------------------------------------------------------------
\* From accept to its last reference a connection is in one place, in one cell,
\* and its descriptor is open just as long.
THEOREM OnePlaceHolds == Spec => []OnePlace
<1>1. ASSUME PlaceInv PROVE OnePlace
  <2>1. \A c, d \in Cells : m_clients[c] \cap m_clientsBuff[d] = {}
    BY <1>1 DEF PlaceInv, HomeInv, Homes
  <2>2. QED
    BY <1>1, <2>1 DEF PlaceInv, HomeInv, Homes, OnePlace, Handing
<1>2. QED
  BY <1>1, SpecPlaces, PTL

\* When Close has returned, every socket that was ever accepted is closed: the
\* acceptor was gone before the first cell went, so none came too late.
THEOREM ClosedMeansNoSocketsHolds == Spec => []ClosedMeansNoSockets
<1>1. ASSUME ThreadInv, PlaceInv PROVE ClosedMeansNoSockets
  <2>1. SUFFICES ASSUME main = "closed", NEW k \in Conns, Alive(k) PROVE FALSE
    BY DEF ClosedMeansNoSockets, FdsOf, Alive
  <2>2. ~Handing /\ victim = NumCells + 1
    BY <1>1, <2>1 DEF ThreadInv, MainInv, AcceptorInv, Handing
  <2>3. PICK c \in Cells : k \in Homes(c)
    BY <1>1, <2>1, <2>2 DEF PlaceInv, HomeInv
  <2>4. c < victim
    BY <2>2, ThreadFacts
  <2>5. QED
    BY <1>1, <2>3, <2>4 DEF PlaceInv, AcceptedInv
<1>2. QED
  BY <1>1, SpecPlaces, PTL

-----------------------------------------------------------------------------
(***************************************************************************)
(* Part three: the descriptor sets.                                        *)
(***************************************************************************)

\* The worker of a cell is in its loop.
Rounds == {"loop", "join", "poll", "select", "read"}

\* Unless m_connDelta says that it has to be filled again, the backup set is
\* that of the clients.
FreshInv ==
    /\ m_connDelta \in [Cells -> BOOLEAN]
    /\ m_fdReadBak \in [Cells -> SUBSET (Fds \cup {Closed})]
    /\ \A c \in Cells :
          /\ pc[c] \in Rounds /\ ~m_connDelta[c] => m_fdReadBak[c] = FdsOf(m_clients[c])
          /\ pc[c] = "select" => ~m_connDelta[c]

\* A step that fills no set, and changes the clients of no cell in its loop.
LEMMA SameFresh ==
    ASSUME FreshInv, UNCHANGED <<m_connDelta, m_fdReadBak>>,
           \A c \in Cells : pc'[c] \in Rounds =>
               /\ pc[c] \in Rounds /\ (pc'[c] = "select" => pc[c] = "select")
               /\ FdsOf(m_clients[c])' = FdsOf(m_clients[c])
    PROVE  FreshInv'
BY DEF FreshInv, Rounds

LEMMA FillFresh ==
    ASSUME ThreadInv, PlaceInv, FreshInv, NEW c \in Cells, FillFdSet(c)
    PROVE  FreshInv'
<1>1. /\ UNCHANGED <<fd, m_clients>>
      /\ \A d \in Cells : FdsOf(m_clients[d])' = FdsOf(m_clients[d])
      /\ \A d \in Cells \ {c} : pc'[d] = pc[d]
  BY ThreadFacts DEF FillFdSet, sockets, FdsOf, Goes, ThreadInv, ThreadTypes
<1>2. CASE m_clients[c] = {}
  <2>1. pc[c] = "poll" /\ pc'[c] = "loop" /\ UNCHANGED <<m_connDelta, m_fdReadBak>>
    BY <1>2, ThreadFacts DEF FillFdSet, Goes, ThreadInv, ThreadTypes
  <2>2. QED
    BY <1>1, <2>1, SameFresh DEF Rounds
<1>3. CASE m_clients[c] # {}
  <2>1. /\ pc[c] = "poll" /\ pc'[c] = "select"
        /\ m_fdReadBak' = [m_fdReadBak EXCEPT ![c] = FdSet(c)]
        /\ m_connDelta' = [m_connDelta EXCEPT ![c] = FALSE]
    BY <1>3, ThreadFacts DEF FillFdSet, Goes, ThreadInv, ThreadTypes
  <2>2. FdSet(c) = FdsOf(m_clients[c])
    BY <2>1 DEF FdSet, FreshInv, Rounds
  <2>3. FdsOf(m_clients[c]) \subseteq Fds \cup {Closed}
    BY DEF FdsOf, PlaceInv, PlaceTypes
  <2>4. /\ m_connDelta' \in [Cells -> BOOLEAN]
        /\ m_fdReadBak' \in [Cells -> SUBSET (Fds \cup {Closed})]
        /\ m_fdReadBak'[c] = FdsOf(m_clients[c]) /\ ~m_connDelta'[c]
        /\ \A d \in Cells \ {c} : /\ m_fdReadBak'[d] = m_fdReadBak[d]
                                  /\ m_connDelta'[d] = m_connDelta[d]
    BY <2>1, <2>2, <2>3 DEF FreshInv
  <2>5. QED
    BY <1>1, <2>1, <2>4 DEF FreshInv
<1>4. QED
  BY <1>2, <1>3

LEMMA QuietFresh ==
    ASSUME ThreadInv, PlaceInv, FreshInv, QuietStep
    PROVE  FreshInv'
<1>1. \A c \in Cells : FdsOf(m_clients[c])' = FdsOf(m_clients[c])
  BY QuietFacts DEF FdsOf
<1> USE ThreadFacts DEF mains, services, sockets, cells, events, Goes, ThreadInv, ThreadTypes, Rounds
<1>2. CASE Start
  <2>1. \A c \in Cells : m_connDelta'[c] = TRUE /\ pc'[c] = "loop"
    BY <1>2 DEF Start
  <2>2. UNCHANGED m_fdReadBak /\ m_connDelta' \in [Cells -> BOOLEAN]
    BY <1>2 DEF Start
  <2>3. QED
    BY <2>1, <2>2 DEF FreshInv
<1>3. CASE CloseServer \/ ServerJoined \/ CloseReturns \/ NoClient \/ (CloseCell /\ isRun[victim])
  <2>1. UNCHANGED <<m_connDelta, m_fdReadBak>> /\ \A c \in Cells : pc'[c] = pc[c]
    BY <1>3 DEF CloseServer, ServerJoined, CloseReturns, NoClient, CloseCell
  <2>2. QED
    BY <1>1, <2>1, SameFresh
<1>4. ASSUME NEW t \in Threads, Loop(t) \/ CloseWithoutWait(t) \/ SelectFails(t)
      PROVE  FreshInv'
  <2>1. UNCHANGED <<m_connDelta, m_fdReadBak>>
    BY <1>4 DEF Loop, CloseWithoutWait, SelectFails
  <2>2. \A c \in Cells : c # t => pc'[c] = pc[c]
    BY <1>4 DEF Loop, CloseWithoutWait, SelectFails
  <2>3. t \in Cells => \/ pc[t] = "loop" /\ pc'[t] \in {"join", "clear"}
                       \/ pc'[t] \in {"clear", "failed"}
    BY <1>4 DEF Loop, CloseWithoutWait, SelectFails
  <2>4. QED
    BY <1>1, <2>1, <2>2, <2>3, SameFresh
<1>5. ASSUME NEW c \in Cells, \/ FillFdSet(c) \/ Select(c) \/ ReadDone(c)
                              \/ \E k \in Conns : RecvData(c, k)
      PROVE  FreshInv'
  <2>1. CASE FillFdSet(c)
    BY <2>1, FillFresh
  <2>2. CASE Select(c) \/ ReadDone(c)
    <3>1. UNCHANGED <<m_connDelta, m_fdReadBak>> /\ \A d \in Cells \ {c} : pc'[d] = pc[d]
      BY <2>2 DEF Select, ReadDone
    <3>2. pc[c] \in {"select", "read"} /\ pc'[c] \in {"read", "loop"}
      BY <2>2 DEF Select, ReadDone
    <3>3. QED
      BY <1>1, <3>1, <3>2, SameFresh
  <2>3. CASE \E k \in Conns : RecvData(c, k)
    BY <1>1, <2>3, SameFresh DEF RecvData
  <2>4. QED
    BY <1>5, <2>1, <2>2, <2>3
<1>6. CASE \E k \in Conns : PeerSends(k) \/ PeerHangsUp(k)
  BY <1>1, <1>6, SameFresh DEF PeerSends, PeerHangsUp
<1>7. QED
  BY <1>2, <1>3, <1>4, <1>5, <1>6 DEF QuietStep

LEMMA AcceptorFresh ==
    ASSUME ThreadInv, PlaceInv, FreshInv, (\E f \in Fds : Accept(f)) \/ ScanCell \/ AddClient
    PROVE  FreshInv'
<1>1. /\ UNCHANGED <<m_connDelta, m_fdReadBak, m_clients>>
      /\ \A c \in Cells : pc'[c] = pc[c]
  BY ThreadFacts DEF Accept, ScanCell, AddClient, cells, Goes, ThreadInv, ThreadTypes
<1>2. \A c \in Cells : \A k \in m_clients[c] : fd'[k] = fd[k]
  <2>1. CASE \E f \in Fds : Accept(f)
    <3>1. PICK f \in Fds : fd' = [fd EXCEPT ![accepted + 1] = f]
      BY <2>1 DEF Accept
    <3>2. \A c \in Cells : \A k \in m_clients[c] : k \in Conns /\ k <= accepted /\ accepted \in Nat
      BY NetServerAssumption
         DEF PlaceInv, PlaceTypes, AcceptedInv, HomeInv, Homes, Conns
    <3>3. QED
      BY <3>1, <3>2 DEF PlaceInv, PlaceTypes, Conns
  <2>2. CASE ScanCell \/ AddClient
    BY <2>2 DEF ScanCell, AddClient, sockets
  <2>3. QED
    BY <2>1, <2>2
<1>3. \A c \in Cells : FdsOf(m_clients[c])' = FdsOf(m_clients[c])
  BY <1>1, <1>2 DEF FdsOf
<1>4. QED
  BY <1>1, <1>3, SameFresh

\* Join and OnClientExit set m_connDelta whenever they change the clients.
LEMMA ClientsFresh ==
    ASSUME ThreadInv, PlaceInv, FreshInv,
           NEW c \in Cells, Join(c) \/ \E k \in Conns : ClientExit(c, k)
    PROVE  FreshInv'
<1>1. UNCHANGED m_fdReadBak /\ m_connDelta' \in [Cells -> BOOLEAN]
  BY DEF Join, ClientExit, OnClientExit, FreshInv
<1>2. /\ \A d \in Cells \ {c} : pc'[d] = pc[d] /\ m_connDelta'[d] = m_connDelta[d]
                                /\ m_clients'[d] = m_clients[d]
      /\ \A d \in Cells \ {c} : \A k \in m_clients[d] : fd'[k] = fd[k]
  <2>1. CASE Join(c)
    <3>1. m_clients' = [m_clients EXCEPT ![c] = @ \cup m_clientsBuff[c]] /\ fd' = fd
      BY <2>1, JoinMoves
    <3>2. \A d \in Cells \ {c} : pc'[d] = pc[d] /\ m_connDelta'[d] = m_connDelta[d]
      BY <2>1, ThreadFacts DEF Join, Goes, ThreadInv, ThreadTypes, FreshInv
    <3>3. \A d \in Cells \ {c} : m_clients'[d] = m_clients[d]
      BY <3>1 DEF PlaceInv, PlaceTypes
    <3>4. QED
      BY <3>1, <3>2, <3>3
  <2>2. ASSUME NEW x \in Conns, ClientExit(c, x)
        PROVE  /\ \A d \in Cells \ {c} : pc'[d] = pc[d] /\ m_connDelta'[d] = m_connDelta[d]
                                         /\ m_clients'[d] = m_clients[d]
               /\ \A d \in Cells \ {c} : \A k \in m_clients[d] : fd'[k] = fd[k]
    <3>1. \A d \in Cells \ {c} : x \notin m_clients[d]
      BY <2>2 DEF ClientExit, Readable, PlaceInv, HomeInv, Homes
    <3>2. \A d \in Cells : m_clients[d] \subseteq Conns
      BY DEF PlaceInv, PlaceTypes
    <3>3. QED
      BY <2>2, <3>1, <3>2
         DEF ClientExit, OnClientExit, CloseFds, FreshInv, PlaceInv, PlaceTypes
  <2>3. QED
    BY <2>1, <2>2
<1>3. \A d \in Cells \ {c} : FdsOf(m_clients[d])' = FdsOf(m_clients[d])
  BY <1>2 DEF FdsOf
<1>4. /\ pc[c] \in Rounds /\ pc'[c] # "select"
      /\ ~m_connDelta'[c] => ~m_connDelta[c] /\ FdsOf(m_clients[c])' = FdsOf(m_clients[c])
  <2>1. CASE Join(c)
    <3>1. pc[c] = "join" /\ pc'[c] = "poll"
      BY <2>1, ThreadFacts DEF Join, Goes, ThreadInv, ThreadTypes
    <3>2. m_connDelta'[c] = (m_connDelta[c] \/ m_clientsBuff[c] # {})
      BY <2>1 DEF Join, Newcomers, FreshInv
    <3>3. m_clients' = [m_clients EXCEPT ![c] = @ \cup m_clientsBuff[c]] /\ fd' = fd
      BY <2>1, JoinMoves
    <3>4. m_clientsBuff[c] = {} => m_clients'[c] = m_clients[c]
      BY <3>3 DEF PlaceInv, PlaceTypes
    <3>5. QED
      BY <3>1, <3>2, <3>3, <3>4 DEF Rounds, FdsOf
  <2>2. CASE \E k \in Conns : ClientExit(c, k)
    BY <2>2 DEF ClientExit, OnClientExit, Readable, FreshInv, Rounds
  <2>3. QED
    BY <2>1, <2>2
<1>5. QED
  BY <1>1, <1>2, <1>3, <1>4 DEF FreshInv

LEMMA ForgetFresh ==
    ASSUME ThreadInv, PlaceInv, FreshInv, NEW c \in Cells, ForgetStep(c)
    PROVE  FreshInv'
<1>1. /\ Forgets(c) /\ UNCHANGED <<m_connDelta, m_fdReadBak>>
      /\ pc'[c] \notin Rounds /\ \A d \in Cells \ {c} : pc'[d] = pc[d]
  BY ForgetSteps DEF ForgetStep, Left, Rounds
<1>2. \A d \in Cells \ {c} : m_clients'[d] = m_clients[d] /\ \A k \in m_clients[d] : fd'[k] = fd[k]
  <2>1. \A d \in Cells \ {c} : \A k \in m_clients[d] : k \in Conns /\ k \notin Homes(c)
    BY DEF PlaceInv, PlaceTypes, HomeInv, Homes
  <2>2. QED
    BY <1>1, <2>1, ForgetFacts
<1>3. \A d \in Cells \ {c} : FdsOf(m_clients[d])' = FdsOf(m_clients[d])
  BY <1>2 DEF FdsOf
<1>4. QED
  BY <1>1, <1>3, SameFresh

LEMMA NextFresh == ASSUME ThreadInv, PlaceInv, FreshInv, [Next]_vars PROVE FreshInv'
<1>1. CASE UNCHANGED vars
  <2>1. UNCHANGED <<m_connDelta, m_fdReadBak, pc, fd, m_clients>>
    BY <1>1 DEF vars, cells, sockets
  <2>2. QED
    BY <2>1 DEF FreshInv, FdsOf
<1>2. QED
  BY <1>1, NextSplit, QuietFresh, AcceptorFresh, ClientsFresh, ForgetFresh

\* The set that select is called with is never stale: it holds exactly the open
\* descriptors of the cell's clients, whatever has been reused.
THEOREM FdSetFreshHolds == Spec => []FdSetFresh
<1>1. ASSUME ThreadInv, PlaceInv, FreshInv PROVE FdSetFresh
  <2>1. SUFFICES ASSUME NEW c \in Cells, pc[c] = "select"
                 PROVE  m_fdReadBak[c] = FdsOf(m_clients[c]) /\ Closed \notin m_fdReadBak[c]
    BY DEF FdSetFresh
  <2>2. m_fdReadBak[c] = FdsOf(m_clients[c])
    BY <1>1, <2>1 DEF FreshInv, Rounds
  <2>3. \A k \in m_clients[c] : fd[k] # Closed
    BY <1>1 DEF PlaceInv, HomeInv, Homes, Alive
  <2>4. QED
    BY <2>2, <2>3 DEF FdsOf
<1>2. Init => FreshInv
  BY DEF Init, FreshInv, FdsOf
<1>3. FreshInv /\ ThreadInv /\ PlaceInv /\ [Next]_vars => FreshInv'
  BY NextFresh
<1>4. QED
  BY <1>1, <1>2, <1>3, SpecPlaces, PTL DEF Spec

-----------------------------------------------------------------------------
(***************************************************************************)
(* Part four: the counter.                                                 *)
(***************************************************************************)
AllClients == UNION {m_clients[c] : c \in Cells}

\* What the cells forgot was closed, and stays so.
CountInv ==
    /\ m_connCount = Cardinality(AllClients) + Cardinality(dropped)
    /\ dropped \subseteq Conns
    /\ \A k \in dropped : k <= accepted /\ ~Alive(k)
    /\ dropped # {} => main # "new" /\ \E c \in Cells : ~isRun[c]

\* The sets that are counted are finite, and no client is in both.
LEMMA CountFacts ==
    ASSUME PlaceInv, CountInv
    PROVE  /\ IsFiniteSet(Conns)
           /\ AllClients \subseteq Conns /\ \A k \in AllClients : Alive(k)
           /\ AllClients \cap dropped = {}
           /\ IsFiniteSet(AllClients) /\ IsFiniteSet(dropped)
<1>1. IsFiniteSet(Conns)
  BY FS_Interval, NetServerAssumption DEF Conns
<1>2. AllClients \subseteq Conns /\ \A k \in AllClients : Alive(k)
  BY DEF AllClients, PlaceInv, PlaceTypes, HomeInv, Homes
<1>3. AllClients \cap dropped = {}
  BY <1>2 DEF CountInv
<1>4. QED
  BY <1>1, <1>2, <1>3, FS_Subset DEF CountInv

\* The size of two finite sets without a common element.
LEMMA DisjointSum ==
    ASSUME NEW S, NEW T, IsFiniteSet(S), IsFiniteSet(T), S \cap T = {}
    PROVE  /\ IsFiniteSet(S \cup T)
           /\ Cardinality(S \cup T) = Cardinality(S) + Cardinality(T)
           /\ Cardinality(S) \in Nat /\ Cardinality(T) \in Nat
BY SMTT(30), FS_Union, FS_EmptySet, FS_CardinalityType

\* A service that has stopped is not started again.
LEMMA RunsNoMore ==
    ASSUME ThreadInv, main # "new", [Next]_vars
    PROVE  main' # "new" /\ \A t \in Threads : isRun'[t] => isRun[t]
<1> USE DEF ThreadInv, ThreadTypes, services, mains
<1>1. CASE Main
  BY <1>1 DEF Main, CloseServer, ServerJoined, CloseCell, CellJoined, CloseReturns
<1>2. CASE AcceptorWorker
  BY <1>2, ThreadFacts DEF AcceptorWorker, Loop, CloseWithoutWait, NoClient, Accept, ScanCell, AddClient
<1>3. ASSUME NEW c \in Cells, CellWorker(c)
      PROVE  main' # "new" /\ \A t \in Threads : isRun'[t] => isRun[t]
  BY <1>3, ThreadFacts DEF CellWorker, Loop, CloseWithoutWait, Join, FillFdSet, Select, ReadDone, RecvData,
                  ClientExit, LeaveOnRun, OnDestroy, ClrClient
<1>4. CASE \E t \in Threads : SelectFails(t)
  BY <1>4 DEF SelectFails
<1>5. CASE \E k \in Conns : PeerSends(k) \/ PeerHangsUp(k)
  BY <1>5 DEF PeerSends, PeerHangsUp
<1>6. CASE UNCHANGED vars
  BY <1>6 DEF vars
<1>7. QED
  BY <1>1, <1>2, <1>3, <1>4, <1>5, <1>6 DEF Next, Start

\* Where the services are after a step, once something was dropped.
LEMMA DroppedStopped ==
    ASSUME ThreadInv, CountInv, [Next]_vars, dropped' = dropped
    PROVE  dropped' # {} => main' # "new" /\ \E c \in Cells : ~isRun'[c]
<1>1. SUFFICES ASSUME dropped # {} PROVE main' # "new" /\ \E c \in Cells : ~isRun'[c]
  OBVIOUS
<1>2. main # "new" /\ \E c \in Cells : ~isRun[c]
  BY <1>1 DEF CountInv
<1>3. main' # "new" /\ \A t \in Threads : isRun'[t] => isRun[t]
  BY <1>2, RunsNoMore
<1>4. QED
  BY <1>2, <1>3, ThreadFacts

\* A step that counts nobody: the clients, the counter and what was dropped stay.
LEMMA SameCount ==
    ASSUME ThreadInv, CountInv, [Next]_vars,
           UNCHANGED <<m_connCount, m_clients, dropped>>,
           \A k \in dropped : k <= accepted' /\ fd'[k] = fd[k]
    PROVE  CountInv'
<1>1. AllClients' = AllClients
  BY DEF AllClients
<1>2. \A k \in dropped' : k <= accepted' /\ ~Alive(k)'
  BY DEF CountInv, Alive
<1>3. QED
  BY <1>1, <1>2, DroppedStopped DEF CountInv

LEMMA AcceptorCount ==
    ASSUME ThreadInv, PlaceInv, CountInv, [Next]_vars,
           (\E f \in Fds : Accept(f)) \/ ScanCell \/ AddClient
    PROVE  CountInv'
<1>1. UNCHANGED <<m_connCount, m_clients, dropped>>
  BY DEF Accept, ScanCell, AddClient, events, cells
<1>2. \A k \in dropped : k \in Nat /\ k \in Conns /\ k <= accepted /\ accepted \in Nat
  BY NetServerAssumption DEF CountInv, PlaceInv, PlaceTypes, Conns
<1>3. \A k \in dropped : k <= accepted' /\ fd'[k] = fd[k]
  <2>1. CASE \E f \in Fds : Accept(f)
    <3>1. PICK f \in Fds : fd' = [fd EXCEPT ![accepted + 1] = f] /\ accepted' = accepted + 1
      BY <2>1 DEF Accept
    <3>2. QED
      BY <1>2, <3>1 DEF PlaceInv, PlaceTypes
  <2>2. CASE ScanCell \/ AddClient
    BY <1>2, <2>2 DEF ScanCell, AddClient, sockets
  <2>3. QED
    BY <2>1, <2>2
<1>4. QED
  BY <1>1, <1>3, SameCount

\* Those who join were clients of no cell.
LEMMA JoinCount ==
    ASSUME ThreadInv, PlaceInv, CountInv, [Next]_vars, NEW c \in Cells, Join(c)
    PROVE  CountInv'
<1> USE DEF PlaceInv
<1>1. /\ m_clients' = [m_clients EXCEPT ![c] = @ \cup m_clientsBuff[c]]
      /\ fd' = fd /\ accepted' = accepted /\ dropped' = dropped
      /\ m_connCount' = m_connCount + Cardinality(m_clientsBuff[c])
  BY JoinMoves DEF Join, OnJoin, Newcomers
<1>2. AllClients' = AllClients \cup m_clientsBuff[c]
  <2>1. m_clients'[c] = m_clients[c] \cup m_clientsBuff[c] /\ \A d \in Cells \ {c} : m_clients'[d] = m_clients[d]
    BY <1>1 DEF PlaceTypes
  <2>2. QED
    BY <2>1 DEF AllClients
<1>3. AllClients \cap m_clientsBuff[c] = {}
  BY DEF AllClients, HomeInv, Homes
<1>4. IsFiniteSet(m_clientsBuff[c])
  BY CountFacts, FS_Subset DEF PlaceTypes
<1>5. /\ Cardinality(AllClients') = Cardinality(AllClients) + Cardinality(m_clientsBuff[c])
      /\ Cardinality(AllClients) \in Nat /\ Cardinality(m_clientsBuff[c]) \in Nat
  BY <1>2, <1>3, <1>4, CountFacts, DisjointSum
<1>6. Cardinality(dropped) \in Nat
  BY CountFacts, FS_CardinalityType
<1>7. m_connCount' = Cardinality(AllClients') + Cardinality(dropped')
  BY <1>1, <1>5, <1>6 DEF CountInv
<1>8. QED
  BY <1>1, <1>7, DroppedStopped DEF CountInv, Alive

\* One that exits was a client of its cell only.
LEMMA ClientExitCount ==
    ASSUME ThreadInv, PlaceInv, CountInv, [Next]_vars,
           NEW c \in Cells, NEW x \in Conns, ClientExit(c, x)
    PROVE  CountInv'
<1> USE DEF PlaceInv
<1>1. /\ x \in m_clients[c] /\ m_clients' = [m_clients EXCEPT ![c] = @ \ {x}]
      /\ fd' = CloseFds({x}) /\ accepted' = accepted /\ dropped' = dropped
      /\ m_connCount' = m_connCount - 1
  BY DEF ClientExit, OnClientExit, OnExit, Readable
<1>2. AllClients' = AllClients \ {x} /\ x \in AllClients
  <2>1. m_clients'[c] = m_clients[c] \ {x} /\ \A d \in Cells \ {c} : m_clients'[d] = m_clients[d]
    BY <1>1 DEF PlaceTypes
  <2>2. \A d \in Cells \ {c} : x \notin m_clients[d]
    BY <1>1 DEF HomeInv, Homes
  <2>3. QED
    BY <1>1, <2>1, <2>2 DEF AllClients
<1>3. Cardinality(AllClients') = Cardinality(AllClients) - 1 /\ Cardinality(AllClients) \in Nat
  BY <1>2, CountFacts, FS_RemoveElement, FS_CardinalityType
<1>4. Cardinality(dropped) \in Nat
  BY CountFacts, FS_CardinalityType
<1>5. m_connCount' = Cardinality(AllClients') + Cardinality(dropped')
  BY <1>1, <1>3, <1>4 DEF CountInv
<1>6. \A k \in dropped' : k <= accepted' /\ ~Alive(k)'
  BY <1>1 DEF CountInv, CloseFds, Alive
<1>7. QED
  BY <1>1, <1>5, <1>6, DroppedStopped DEF CountInv

\* Those a cell forgets go from the clients to the dropped.
LEMMA ForgetCount ==
    ASSUME ThreadInv, PlaceInv, CountInv, [Next]_vars, NEW c \in Cells, ForgetStep(c)
    PROVE  CountInv'
<1> USE DEF PlaceInv
<1>1. /\ Forgets(c) /\ pc[c] \in Left
      /\ accepted' = accepted /\ m_connCount' = m_connCount /\ isRun' = isRun
      /\ dropped' = dropped \cup m_clients[c]
  BY ForgetSteps DEF ForgetStep
<1>2. AllClients = AllClients' \cup m_clients[c] /\ AllClients' \cap m_clients[c] = {}
  <2>1. m_clients'[c] = {} /\ \A d \in Cells \ {c} : m_clients'[d] = m_clients[d]
    BY <1>1, ForgetFacts
  <2>2. \A d \in Cells \ {c} : m_clients[d] \cap m_clients[c] = {}
    BY DEF HomeInv, Homes
  <2>3. QED
    BY <2>1, <2>2 DEF AllClients
<1>3. IsFiniteSet(AllClients') /\ IsFiniteSet(m_clients[c])
  <2>1. AllClients' \in SUBSET Conns /\ m_clients[c] \in SUBSET Conns
    BY <1>2, CountFacts
  <2>2. QED
    BY <2>1, CountFacts, FS_Subset
<1>4. /\ Cardinality(AllClients) = Cardinality(AllClients') + Cardinality(m_clients[c])
      /\ Cardinality(AllClients') \in Nat /\ Cardinality(m_clients[c]) \in Nat
  BY <1>2, <1>3, DisjointSum
<1>5. dropped \cap m_clients[c] = {}
  BY <1>2, CountFacts
<1>6. Cardinality(dropped') = Cardinality(dropped) + Cardinality(m_clients[c]) /\ Cardinality(dropped) \in Nat
  BY <1>1, <1>3, <1>5, CountFacts, DisjointSum
<1>7. m_connCount' = Cardinality(AllClients') + Cardinality(dropped')
  BY <1>1, <1>4, <1>6 DEF CountInv
<1>8. \A k \in dropped' : k \in Conns /\ k <= accepted' /\ ~Alive(k)'
  <2>1. \A k \in m_clients[c] : k \in Conns /\ k \in Homes(c) /\ k <= accepted
    BY DEF PlaceTypes, Homes, HomeInv, AcceptedInv
  <2>2. \A k \in Conns : Alive(k)' <=> Alive(k) /\ k \notin Homes(c)
    BY <1>1, ForgetFacts
  <2>3. QED
    BY <1>1, <2>1, <2>2 DEF CountInv
<1>9. main' # "new" /\ ~isRun'[c]
  <2>1. main # "new" /\ ~isRun[c]
    BY <1>1, ThreadFacts DEF ThreadInv, MainInv, CellsInv, Left
  <2>2. QED
    BY <1>1, <2>1, RunsNoMore
<1>10. QED
  BY <1>7, <1>8, <1>9 DEF CountInv

LEMMA NextCount == ASSUME ThreadInv, PlaceInv, CountInv, [Next]_vars PROVE CountInv'
<1>1. CASE QuietStep
  <2>1. UNCHANGED <<accepted, fd, m_connCount, m_clients, dropped>>
    BY <1>1, QuietFacts
  <2>2. QED
    BY <2>1, SameCount DEF CountInv
<1>2. CASE (\E f \in Fds : Accept(f)) \/ ScanCell \/ AddClient
  BY <1>2, AcceptorCount
<1>3. ASSUME NEW c \in Cells, Join(c) \/ (\E k \in Conns : ClientExit(c, k)) \/ ForgetStep(c)
      PROVE  CountInv'
  BY <1>3, JoinCount, ClientExitCount, ForgetCount
<1>4. CASE UNCHANGED vars
  <2>1. UNCHANGED <<accepted, fd, m_connCount, m_clients, dropped>>
    BY <1>4 DEF vars, sockets, cells, events
  <2>2. QED
    BY <2>1, SameCount DEF CountInv
<1>5. QED
  BY <1>1, <1>2, <1>3, <1>4, NextSplit

\* However often the threads update it, m_connCount is the number of clients of
\* all cells and of those that a stopped cell forgot without an OnExit.
THEOREM ConnCountExactHolds == Spec => []ConnCountExact
<1>1. ASSUME CountInv PROVE ConnCountExact
  BY <1>1 DEF CountInv, ConnCountExact, AllClients
<1>2. ASSUME Init PROVE CountInv
  <2>1. AllClients = {} /\ dropped = {} /\ m_connCount = 0
    BY <1>2 DEF Init, AllClients
  <2>2. QED
    BY <2>1, FS_EmptySet DEF CountInv
<1>3. CountInv /\ ThreadInv /\ PlaceInv /\ [Next]_vars => CountInv'
  BY NextCount
<1>4. QED
  BY <1>1, <1>2, <1>3, SpecPlaces, PTL DEF Spec

-----------------------------------------------------------------------------
(***************************************************************************)
(* Part five.  What the links say is not inductive: that AllocNode keeps   *)
(* m_header a free node depends on the whole list behind it.  The          *)
(* invariant therefore names the list: n free nodes, chain[1] at the       *)
(* header, each linked to the next.                                        *)
(***************************************************************************)
\* The free list is chain[1], ..., chain[n], without repetition, and is exactly
\* the pool's nodes nobody owns.
IsFreeList(n, chain) ==
    /\ chain \in [1 .. n -> Nodes]
    /\ m_header = IF n = 0 THEN NULL ELSE chain[1]
    /\ \A i \in 1 .. n : m_next[chain[i]] = IF i = n THEN NULL ELSE chain[i + 1]
    /\ \A i, j \in 1 .. n : chain[i] = chain[j] => i = j
    /\ \A b \in Nodes : owners[b] = 0 <=> \E i \in 1 .. n : chain[i] = b

FreeList == \E n \in Nat : \E chain \in [1 .. n -> Nodes] : IsFreeList(n, chain)

\* m_ref is what its name says, and no block has two owners.
RefExact == \A b \in Blocks : m_ref[b] = owners[b] /\ owners[b] \in {0, 1}

\* A node of the pool is never taken for a heap block, nor the other way while
\* the block is owned.
KindExact == \A b \in Blocks : /\ b \in Nodes => m_inPool[b]
                               /\ b \in Heap /\ owners[b] > 0 => ~m_inPool[b]

PoolInv == PoolTypeOK /\ FreeList /\ RefExact /\ KindExact

USE DEF Blocks, Live

\* InitPool links all nodes, in the order of m_id.
LEMMA InitPoolLinks == InitPool => PoolInv
<1> SUFFICES ASSUME InitPool PROVE PoolInv
  OBVIOUS
<1> USE ObjectPoolAssumption DEF Nodes
<1>1. PoolTypeOK
  <2>1. \A b \in Blocks : (IF b \in Nodes /\ b + 1 \in Nodes THEN b + 1 ELSE NULL)
                             \in Nodes \cup {NULL}
    OBVIOUS
  <2>2. m_next \in [Blocks -> Nodes \cup {NULL}]
    BY <2>1 DEF InitPool, InitNext
  <2>3. /\ m_header \in Nodes /\ m_ref \in [Blocks -> Nat]
        /\ m_inPool \in [Blocks -> BOOLEAN] /\ owners \in [Blocks -> Nat]
    BY DEF InitPool
  <2> QED BY <2>2, <2>3 DEF PoolTypeOK
<1>2. RefExact /\ KindExact
  BY DEF RefExact, KindExact, InitPool
<1>3. FreeList
  <2> DEFINE chain == [i \in 1 .. PoolSize |-> i - 1]
  <2>1. chain \in [1 .. PoolSize -> Nodes]
    OBVIOUS
  <2>2. \A i \in 1 .. PoolSize : m_next[chain[i]] = IF i = PoolSize THEN NULL ELSE chain[i + 1]
    BY DEF InitPool, InitNext
  <2>3. \A b \in Nodes : \E i \in 1 .. PoolSize : chain[i] = b
    <3> TAKE b \in Nodes
    <3> b + 1 \in 1 .. PoolSize /\ chain[b + 1] = b
      OBVIOUS
    <3> QED OBVIOUS
  <2>4. IsFreeList(PoolSize, chain)
    BY <2>1, <2>2, <2>3 DEF IsFreeList, InitPool
  <2> QED BY <2>1, <2>4 DEF FreeList
<1> QED BY <1>1, <1>2, <1>3 DEF PoolInv

\* Alloc from the pool takes the first node off the list.
LEMMA AllocNodeKeeps == PoolInv /\ AllocNode => PoolInv'
<1> SUFFICES ASSUME PoolInv, AllocNode PROVE PoolInv'
  OBVIOUS
<1> USE ObjectPoolAssumption
<1>1. PICK n \in Nat : \E chain \in [1 .. n -> Nodes] : IsFreeList(n, chain)
  BY DEF PoolInv, FreeList
<1>2. PICK chain \in [1 .. n -> Nodes] : IsFreeList(n, chain)
  BY <1>1
<1>3. n > 0 /\ m_header = chain[1] /\ m_header \in Nodes /\ owners[m_header] = 0
  BY <1>2 DEF IsFreeList, AllocNode
<1>4. PoolTypeOK'
  BY <1>3 DEF PoolInv, PoolTypeOK, AllocNode
<1>5. RefExact' /\ KindExact'
  BY <1>3 DEF PoolInv, PoolTypeOK, RefExact, KindExact, AllocNode
<1>6. FreeList'
  <2> DEFINE rest == [i \in 1 .. n - 1 |-> chain[i + 1]]
  <2>1. n - 1 \in Nat /\ rest \in [1 .. n - 1 -> Nodes]
    BY <1>3
  <2>2. m_header' = IF n - 1 = 0 THEN NULL ELSE rest[1]
    BY <1>2, <1>3 DEF IsFreeList, AllocNode
  <2>3. \A i \in 1 .. n - 1 : m_next'[rest[i]] = IF i = n - 1 THEN NULL ELSE rest[i + 1]
    BY <1>2, <1>3 DEF IsFreeList, AllocNode
  <2>4. \A i, j \in 1 .. n - 1 : rest[i] = rest[j] => i = j
    BY <1>2 DEF IsFreeList
  <2>5. ASSUME NEW b \in Nodes
        PROVE  owners'[b] = 0 <=> \E i \in 1 .. n - 1 : rest[i] = b
    <3>1. CASE b = m_header
      <4>1. owners'[b] # 0
        BY <1>3, <3>1 DEF PoolInv, PoolTypeOK, AllocNode
      <4>2. \A i \in 1 .. n - 1 : rest[i] # b
        BY <1>2, <1>3, <3>1 DEF IsFreeList
      <4> QED BY <4>1, <4>2
    <3>2. CASE b # m_header
      <4>1. owners'[b] = owners[b]
        BY <3>2 DEF PoolInv, PoolTypeOK, AllocNode
      <4>2. ASSUME NEW i \in 1 .. n, chain[i] = b
            PROVE  \E j \in 1 .. n - 1 : rest[j] = b
        <5> i # 1
          BY <1>3, <3>2, <4>2
        <5> i - 1 \in 1 .. n - 1 /\ rest[i - 1] = b
          BY <4>2
        <5> QED OBVIOUS
      <4>3. ASSUME NEW j \in 1 .. n - 1, rest[j] = b
            PROVE  \E i \in 1 .. n : chain[i] = b
        <5> j + 1 \in 1 .. n /\ chain[j + 1] = b
          BY <4>3
        <5> QED OBVIOUS
      <4> QED BY <1>2, <4>1, <4>2, <4>3 DEF IsFreeList
    <3> QED BY <3>1, <3>2
  <2>6. IsFreeList(n - 1, rest)'
    BY <2>1, <2>2, <2>3, <2>4, <2>5 DEF IsFreeList
  <2> QED BY <2>1, <2>6 DEF FreeList
<1> QED BY <1>4, <1>5, <1>6 DEF PoolInv

\* Free of a node nobody else owns puts it before the list.
LEMMA FreeNodeKeeps == ASSUME NEW b \in Blocks, PoolInv, FreeNode(b) PROVE PoolInv'
<1> USE ObjectPoolAssumption
<1>1. b \in Nodes /\ owners[b] = 1 /\ m_ref[b] - 1 = 0
  BY DEF PoolInv, PoolTypeOK, RefExact, KindExact, FreeNode
<1>2. /\ m_next' = [m_next EXCEPT ![b] = m_header]
      /\ m_header' = b
      /\ m_ref' = [m_ref EXCEPT ![b] = 0] /\ owners' = [owners EXCEPT ![b] = 0]
      /\ m_inPool' = m_inPool
  BY <1>1 DEF FreeNode, Release, PoolInv, PoolTypeOK, RefExact
<1>3. PoolTypeOK'
  BY <1>1, <1>2 DEF PoolInv, PoolTypeOK
<1>4. RefExact' /\ KindExact'
  BY <1>1, <1>2 DEF PoolInv, PoolTypeOK, RefExact, KindExact
<1>5. FreeList'
  <2>1. PICK n \in Nat : \E chain \in [1 .. n -> Nodes] : IsFreeList(n, chain)
    BY DEF PoolInv, FreeList
  <2>2. PICK chain \in [1 .. n -> Nodes] : IsFreeList(n, chain)
    BY <2>1
  <2>3. \A i \in 1 .. n : chain[i] # b
    BY <1>1, <2>2 DEF IsFreeList
  <2> DEFINE longer == [i \in 1 .. n + 1 |-> IF i = 1 THEN b ELSE chain[i - 1]]
  <2>4. n + 1 \in Nat /\ longer \in [1 .. n + 1 -> Nodes]
    BY <1>1
  <2>5. m_header' = IF n + 1 = 0 THEN NULL ELSE longer[1]
    BY <1>2
  <2>6. ASSUME NEW i \in 1 .. n + 1
        PROVE  m_next'[longer[i]] = IF i = n + 1 THEN NULL ELSE longer[i + 1]
    <3>1. CASE i = 1
      BY <1>1, <1>2, <2>2, <3>1 DEF IsFreeList, PoolInv, PoolTypeOK
    <3>2. CASE i # 1
      <4>1. i - 1 \in 1 .. n /\ longer[i] = chain[i - 1]
        BY <3>2
      <4>2. m_next'[chain[i - 1]] = m_next[chain[i - 1]]
        BY <1>2, <2>3, <4>1 DEF PoolInv, PoolTypeOK
      <4> QED BY <2>2, <4>1, <4>2 DEF IsFreeList
    <3> QED BY <3>1, <3>2
  <2>7. \A i, j \in 1 .. n + 1 : longer[i] = longer[j] => i = j
    BY <2>2, <2>3 DEF IsFreeList
  <2>8. ASSUME NEW c \in Nodes
        PROVE  owners'[c] = 0 <=> \E i \in 1 .. n + 1 : longer[i] = c
    <3>1. CASE c = b
      <4>1. owners'[c] = 0
        BY <1>2, <3>1 DEF PoolInv, PoolTypeOK
      <4>2. 1 \in 1 .. n + 1 /\ longer[1] = c
        BY <3>1
      <4> QED BY <4>1, <4>2
    <3>2. CASE c # b
      <4>1. owners'[c] = owners[c]
        BY <1>2, <3>2 DEF PoolInv, PoolTypeOK
      <4>2. ASSUME NEW i \in 1 .. n, chain[i] = c
            PROVE  \E j \in 1 .. n + 1 : longer[j] = c
        <5> i + 1 \in 1 .. n + 1 /\ longer[i + 1] = c
          BY <4>2
        <5> QED OBVIOUS
      <4>3. ASSUME NEW j \in 1 .. n + 1, longer[j] = c
            PROVE  \E i \in 1 .. n : chain[i] = c
        <5> j - 1 \in 1 .. n /\ chain[j - 1] = c
          BY <3>2, <4>3
        <5> QED OBVIOUS
      <4> QED BY <2>2, <4>1, <4>2, <4>3 DEF IsFreeList
    <3> QED BY <3>1, <3>2
  <2>9. IsFreeList(n + 1, longer)'
    BY <2>4, <2>5, <2>6, <2>7, <2>8 DEF IsFreeList
  <2> QED BY <2>4, <2>9 DEF FreeList
<1> QED BY <1>3, <1>4, <1>5 DEF PoolInv

\* A step that changes nothing of the nodes keeps their list.
LEMMA FreeListFrame ==
    ASSUME PoolInv, m_header' = m_header,
           \A b \in Nodes : m_next'[b] = m_next[b] /\ owners'[b] = owners[b]
    PROVE  FreeList'
<1>1. PICK n \in Nat : \E chain \in [1 .. n -> Nodes] : IsFreeList(n, chain)
  BY DEF PoolInv, FreeList
<1>2. PICK chain \in [1 .. n -> Nodes] : IsFreeList(n, chain)
  BY <1>1
<1>3. IsFreeList(n, chain)'
  BY <1>2 DEF IsFreeList
<1> QED BY <1>3 DEF FreeList

LEMMA AllocHeapKeeps == ASSUME NEW h \in Heap, PoolInv, AllocHeap(h) PROVE PoolInv'
<1> USE ObjectPoolAssumption
<1>1. owners[h] = 0
  BY DEF AllocHeap, PoolInv, PoolTypeOK
<1>2. PoolTypeOK'
  BY DEF PoolInv, PoolTypeOK, AllocHeap
<1>3. RefExact' /\ KindExact'
  BY <1>1 DEF PoolInv, PoolTypeOK, RefExact, KindExact, AllocHeap
<1>4. \A b \in Nodes : m_next'[b] = m_next[b] /\ owners'[b] = owners[b]
  BY DEF PoolInv, PoolTypeOK, AllocHeap
<1>5. FreeList'
  BY <1>4, FreeListFrame DEF AllocHeap
<1> QED BY <1>2, <1>3, <1>5 DEF PoolInv

LEMMA FreeHeapKeeps == ASSUME NEW b \in Blocks, PoolInv, FreeHeap(b) PROVE PoolInv'
<1> USE ObjectPoolAssumption
<1>1. b \in Heap /\ m_ref[b] = 1 /\ owners[b] = 1
  BY DEF PoolInv, PoolTypeOK, RefExact, KindExact, FreeHeap
<1>2. PoolTypeOK'
  BY <1>1 DEF PoolInv, PoolTypeOK, FreeHeap, Release
<1>3. RefExact' /\ KindExact'
  BY <1>1 DEF PoolInv, PoolTypeOK, RefExact, KindExact, FreeHeap, Release
<1>4. \A c \in Nodes : m_next'[c] = m_next[c] /\ owners'[c] = owners[c]
  BY <1>1 DEF PoolInv, PoolTypeOK, FreeHeap, Release
<1>5. FreeList'
  BY <1>4, FreeListFrame DEF FreeHeap
<1> QED BY <1>2, <1>3, <1>5 DEF PoolInv

LEMMA StutterKeeps == ASSUME PoolInv, UNCHANGED poolVars PROVE PoolInv'
<1>1. FreeList'
  BY FreeListFrame DEF poolVars
<1> QED BY <1>1 DEF poolVars, PoolInv, PoolTypeOK, RefExact, KindExact

LEMMA StepKeeps == PoolInv /\ [PoolNext]_poolVars => PoolInv'
<1> SUFFICES ASSUME PoolInv, [PoolNext]_poolVars PROVE PoolInv'
  OBVIOUS
<1>1. CASE AllocNode
  BY <1>1, AllocNodeKeeps
<1>2. CASE \E h \in Heap : AllocHeap(h)
  BY <1>2, AllocHeapKeeps
<1>3. CASE \E b \in Blocks : FreeNode(b)
  BY <1>3, FreeNodeKeeps
<1>4. CASE \E b \in Blocks : FreeHeap(b)
  BY <1>4, FreeHeapKeeps
<1>5. CASE UNCHANGED poolVars
  BY <1>5, StutterKeeps
<1> QED BY <1>1, <1>2, <1>3, <1>4, <1>5 DEF PoolNext

\* Whatever the order of Alloc and Free, the free list ends, has no repetition
\* and is exactly the pool's nodes nobody owns, and m_ref counts the owners.
THEOREM PoolInvariant == PoolSpec => []PoolInv
BY InitPoolLinks, StepKeeps, PTL DEF PoolSpec

-----------------------------------------------------------------------------
(***************************************************************************)
(* From the named list to the links that FreeListExact follows.            *)
(***************************************************************************)

\* A list without repetition is no longer than the pool.
LEMMA ChainFits ==
    ASSUME NEW n \in Nat, NEW chain \in [1 .. n -> Nodes],
           \A i, j \in 1 .. n : chain[i] = chain[j] => i = j
    PROVE  n <= PoolSize
<1>1. PoolSize \in Nat \ {0}
  BY ObjectPoolAssumption
<1>2. /\ IsFiniteSet(Nodes) /\ Cardinality(Nodes) = PoolSize
      /\ IsFiniteSet(1 .. n) /\ Cardinality(1 .. n) = n
  <2>1. /\ IsFiniteSet(0 .. PoolSize - 1)
        /\ Cardinality(0 .. PoolSize - 1) =
              IF 0 > PoolSize - 1 THEN 0 ELSE (PoolSize - 1) - 0 + 1
    BY <1>1, FS_Interval
  <2>2. IsFiniteSet(1 .. n) /\ Cardinality(1 .. n) = IF 1 > n THEN 0 ELSE n - 1 + 1
    BY FS_Interval
  <2> QED BY <1>1, <2>1, <2>2 DEF Nodes
<1>3. chain \in Injection(1 .. n, Nodes)
  BY DEF Injection, IsInjective
<1> QED BY <1>2, <1>3, FS_Injection

\* f follows the links from m_header, to the PoolSize-th.
Follows(f) == f = [k \in 0 .. PoolSize |->
                      IF k = 0 THEN m_header
                      ELSE IF f[k - 1] = NULL THEN NULL ELSE m_next[f[k - 1]]]

\* There is one way to follow them.
LEMMA OneWay ==
    ASSUME NEW f, NEW g, Follows(f), Follows(g)
    PROVE  \A k \in 0 .. PoolSize : f[k] = g[k]
<1> DEFINE Same == {k \in 0 .. PoolSize : f[k] = g[k]}
           Step(h, k) == IF k = 0 THEN m_header
                         ELSE IF h[k - 1] = NULL THEN NULL ELSE m_next[h[k - 1]]
<1>1. PoolSize \in Nat
  BY ObjectPoolAssumption
<1>2. f = [k \in 0 .. PoolSize |-> Step(f, k)] /\ g = [k \in 0 .. PoolSize |-> Step(g, k)]
  BY DEF Follows
<1>3. \A k \in 0 .. PoolSize : f[k] = Step(f, k) /\ g[k] = Step(g, k)
  <2> HIDE DEF Step
  <2> QED BY <1>2
<1>4. 0 \in Same
  BY <1>1, <1>3
<1>5. ASSUME NEW k \in 0 .. PoolSize - 1, k \in Same PROVE k + 1 \in Same
  <2>1. k + 1 \in 0 .. PoolSize /\ k + 1 # 0 /\ (k + 1) - 1 = k /\ f[k] = g[k]
    BY <1>1, <1>5
  <2>2. Step(f, k + 1) = Step(g, k + 1)
    BY <2>1
  <2> QED BY <1>3, <2>1, <2>2
<1>6. \A k \in 0 .. PoolSize : k \in Same
  <2> HIDE DEF Same
  <2> QED BY <1>1, <1>4, <1>5, UpTo
<1> QED BY <1>6

\* The links are the list, and then NULL.
LEMMA LinkIsChain ==
    ASSUME NEW n \in Nat, NEW chain \in [1 .. n -> Nodes], IsFreeList(n, chain), n <= PoolSize
    PROVE  \A k \in 0 .. PoolSize : Link[k] = IF k < n THEN chain[k + 1] ELSE NULL
<1> DEFINE g == [k \in 0 .. PoolSize |-> IF k < n THEN chain[k + 1] ELSE NULL]
<1>1. PoolSize \in Nat /\ NULL \notin Nodes
  BY ObjectPoolAssumption
<1>2. ASSUME NEW k \in 0 .. PoolSize
      PROVE  g[k] = IF k = 0 THEN m_header
                    ELSE IF g[k - 1] = NULL THEN NULL ELSE m_next[g[k - 1]]
  <2>1. CASE k = 0
    BY <1>1, <2>1 DEF IsFreeList
  <2>2. CASE k # 0
    <3>1. k - 1 \in 0 .. PoolSize /\ g[k - 1] = IF k - 1 < n THEN chain[k] ELSE NULL
      BY <1>1, <2>2
    <3>2. CASE k - 1 < n
      <4>1. k \in 1 .. n /\ g[k - 1] = chain[k] /\ chain[k] # NULL
        BY <1>1, <2>2, <3>1, <3>2
      <4>2. m_next[chain[k]] = IF k = n THEN NULL ELSE chain[k + 1]
        BY <4>1 DEF IsFreeList
      <4> QED BY <1>1, <2>2, <4>1, <4>2
    <3>3. CASE ~(k - 1 < n)
      BY <1>1, <2>2, <3>1, <3>3
    <3> QED BY <3>2, <3>3
  <2> QED BY <2>1, <2>2
<1>3. Follows(g)
  <2>1. g = [k \in 0 .. PoolSize |-> g[k]]
    OBVIOUS
  <2> HIDE DEF g
  <2> QED BY <1>2, <2>1 DEF Follows
<1>4. Follows(Link)
  <2> HIDE DEF g
  <2> QED BY <1>3 DEF Follows, Link
<1>5. \A k \in 0 .. PoolSize : Link[k] = g[k]
  <2> HIDE DEF g
  <2> QED BY <1>3, <1>4, OneWay
<1> QED BY <1>5

\* The free list ends after at most PoolSize links, and holds exactly the
\* pool's nodes nobody owns, whatever the order of Alloc and Free.
THEOREM FreeListExactHolds == PoolSpec => []FreeListExact
<1>1. PoolInv => FreeListExact
  <2> SUFFICES ASSUME PoolInv PROVE FreeListExact
    OBVIOUS
  <2>1. PICK n \in Nat : \E chain \in [1 .. n -> Nodes] : IsFreeList(n, chain)
    BY DEF PoolInv, FreeList
  <2>2. PICK chain \in [1 .. n -> Nodes] : IsFreeList(n, chain)
    BY <2>1
  <2>3. n <= PoolSize /\ PoolSize \in Nat /\ NULL \notin Nodes
    BY <2>2, ChainFits, ObjectPoolAssumption DEF IsFreeList
  <2>4. \A k \in 0 .. PoolSize : Link[k] = IF k < n THEN chain[k + 1] ELSE NULL
    BY <2>2, <2>3, LinkIsChain
  <2>5. Link[PoolSize] = NULL
    BY <2>3, <2>4
  <2>6. ASSUME NEW k \in 0 .. PoolSize, Link[k] # NULL PROVE Link[k] \in Nodes \ Live
    <3>1. k + 1 \in 1 .. n /\ Link[k] = chain[k + 1]
      BY <2>3, <2>4, <2>6
    <3>2. chain[k + 1] \in Nodes /\ owners[chain[k + 1]] = 0
      BY <2>2, <3>1 DEF IsFreeList
    <3> QED BY <3>1, <3>2
  <2>7. ASSUME NEW b \in Nodes \ Live PROVE \E k \in 0 .. PoolSize : Link[k] = b
    <3>1. owners[b] = 0
      BY DEF PoolInv, PoolTypeOK
    <3>2. PICK i \in 1 .. n : chain[i] = b
      BY <2>2, <3>1 DEF IsFreeList
    <3>3. i - 1 \in 0 .. PoolSize /\ i - 1 < n /\ (i - 1) + 1 = i
      BY <2>3
    <3>4. Link[i - 1] = b
      BY <2>4, <3>2, <3>3
    <3> QED BY <3>3, <3>4
  <2>8. {Link[k] : k \in 0 .. PoolSize} \ {NULL} = Nodes \ Live
    BY <2>3, <2>6, <2>7
  <2> QED BY <2>5, <2>8 DEF FreeListExact
<1> QED BY <1>1, PoolInvariant, PTL

-----------------------------------------------------------------------------
\* The assertions of Alloc and Free never fail.
THEOREM AssertionsHold == PoolSpec => []AssertsHold
<1>1. PoolInv => AssertsHold
  <2> SUFFICES ASSUME PoolInv PROVE AssertsHold
    OBVIOUS
  <2>1. ASSUME m_header # NULL PROVE m_ref[m_header] = 0
    <3>1. PICK n \in Nat : \E chain \in [1 .. n -> Nodes] : IsFreeList(n, chain)
      BY DEF PoolInv, FreeList
    <3>2. m_header \in Nodes /\ owners[m_header] = 0
      BY <2>1, <3>1 DEF IsFreeList
    <3> QED BY <3>2 DEF PoolInv, RefExact
  <2>2. \A b \in Live : m_ref[b] > 0
    BY DEF PoolInv, RefExact
  <2> QED BY <2>1, <2>2 DEF AssertsHold
<1> QED BY <1>1, PoolInvariant, PTL

\* A step of the pool hands a block nobody owns to one owner, or takes it back
\* from its only owner, or does neither.
LEMMA StepIsStoreStep == PoolInv /\ [PoolNext]_poolVars => [Store!StoreNext]_owners
<1> SUFFICES ASSUME PoolInv, [PoolNext]_poolVars PROVE [Store!StoreNext]_owners
  OBVIOUS
<1> USE DEF Store!StoreNext, Store!HandOut, Store!GiveBack
<1>1. CASE AllocNode
  <2>1. PICK n \in Nat : \E chain \in [1 .. n -> Nodes] : IsFreeList(n, chain)
    BY DEF PoolInv, FreeList
  <2>2. m_header \in Nodes /\ owners[m_header] = 0
    BY <1>1, <2>1 DEF IsFreeList, AllocNode
  <2>3. Store!HandOut(m_header)
    BY <1>1, <2>2 DEF AllocNode, PoolInv, PoolTypeOK
  <2> QED BY <2>2, <2>3
<1>2. ASSUME NEW h \in Heap, AllocHeap(h) PROVE Store!StoreNext
  <2>1. owners[h] = 0
    BY <1>2 DEF AllocHeap, PoolInv, PoolTypeOK
  <2>2. owners' = [owners EXCEPT ![h] = 1]
    BY <1>2, <2>1 DEF AllocHeap
  <2>3. Store!HandOut(h)
    BY <2>1, <2>2
  <2> QED BY <2>3
<1>3. ASSUME NEW b \in Blocks, FreeNode(b) \/ FreeHeap(b) PROVE Store!StoreNext
  <2>1. owners[b] = 1 /\ owners' = [owners EXCEPT ![b] = 0]
    BY <1>3 DEF FreeNode, FreeHeap, Release, PoolInv, PoolTypeOK, RefExact
  <2> QED BY <2>1
<1>4. CASE UNCHANGED poolVars
  BY <1>4 DEF poolVars
<1> QED BY <1>1, <1>2, <1>3, <1>4 DEF PoolNext

\* The pool implements BlockStore: a block, from the pool or from the heap, has
\* one owner at a time.
THEOREM PoolImplementsStore == PoolSpec => ImplementsStore
<1>1. InitPool => Store!StoreInit
  BY DEF InitPool, Store!StoreInit
<1> QED BY <1>1, StepIsStoreStep, PoolInvariant, PTL DEF PoolSpec, ImplementsStore, Store!StoreSpec
=============================================================================
