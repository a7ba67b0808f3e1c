------------------------------ MODULE NetServer ------------------------------
(***************************************************************************)
(* knet::TCPServer and its Cells (tcp_server.cpp, cell.cpp): connections   *)
(* accepted by one thread, handed to the cell that seems least loaded, and *)
(* served there until the peer hangs up or the server is closed.           *)
(*                                                                         *)
(* Threads: the main thread (Start, Close), the acceptor (TCPServer::OnRun)*)
(* and one worker per cell (Cell::OnRun).  Each thread but main runs on a  *)
(* CellThreadService that is started once; what CellThread models in full  *)
(* appears here as isRun, as pc "gone" for the wakeup, and as the lock the *)
(* main thread holds while it waits for a worker.                          *)
(*                                                                         *)
(* A ClientSocket lives as long as some shared_ptr refers to it, and its   *)
(* destructor closes the descriptor, which the system may then reuse.      *)
(* The task service of a cell has no tasks (AddSendTask has no caller) and *)
(* closing it always succeeds, so it does not appear.                      *)
(***************************************************************************)
EXTENDS Integers, FiniteSets

CONSTANTS NumCells,    \* the threadCount of Start
          MaxConns,    \* bound on the connections ever accepted
          Fds,         \* descriptors the system gives to accepted sockets
          MaxErrors,   \* bound on the calls of select that fail
          Acceptor,    \* the thread of TCPServer::m_threadService
          Closed       \* no descriptor

Cells   == 1 .. NumCells
Threads == Cells \cup {Acceptor}
Conns   == 1 .. MaxConns

\* Start(0) would leave m_cells[0] without an element for the first client.
ASSUME NetServerAssumption == /\ NumCells \in Nat \ {0}
                              /\ MaxConns \in Nat /\ MaxErrors \in Nat
                              /\ Acceptor \notin Cells
                              /\ Closed \notin Fds

VARIABLES
    main,          \* place of the main thread
    victim,        \* the cell m_cells.clear() has come to; those before are destroyed
    isRun, pc,     \* of every thread's service and worker
    scan,          \* the acceptor's place in AddClient2Cell: cell to look at, minCell
    accepted,      \* connections 1 .. accepted were accepted
    fd,            \* descriptor of each connection while its ClientSocket lives
    peer,          \* what the other side has done since the last recv
    m_clientsBuff, m_clients, m_connDelta, m_fdReadBak,   \* of every cell
    fdRead,        \* of every cell: what select returned and ReadData has not read
    m_connCount,   \* of the server
    joined, exited,\* history: connections OnJoin and OnExit were called for
    dropped,       \* history: joined connections whose cell forgot them silently
    selfStopped,   \* history: threads that stopped their own service
    errors         \* calls of select that failed

sockets  == <<accepted, fd>>
cells    == <<m_clientsBuff, m_clients, m_connDelta, m_fdReadBak, fdRead>>
events   == <<m_connCount, joined, exited, dropped>>
services == <<isRun, selfStopped, errors>>
mains    == <<main, victim>>
vars     == <<mains, services, pc, scan, sockets, peer, cells, events>>

Destroyed == {c \in Cells : c < victim}
Alive(k)  == fd[k] # Closed

\* The main thread waits for t inside CellThreadService::Close and holds the
\* service's m_mutex.
Joining(t) == \/ main = "joinServer" /\ t = Acceptor
              \/ main = "joinCell" /\ t = victim

FdsOf(conns) == {fd[k] : k \in conns}

\* The descriptors after the last reference to each of conns is gone.
CloseFds(conns) == [k \in Conns |-> IF k \in conns THEN Closed ELSE fd[k]]

TypeOK ==
    /\ main \in {"new", "up", "joinServer", "clear", "joinCell", "closed"}
    /\ victim \in 1 .. NumCells + 1
    /\ isRun \in [Threads -> BOOLEAN]
    /\ pc \in [Threads -> {"off", "loop", "join", "poll", "select", "read", "scan",
                           "failed", "clear", "destroy", "gone"}]
    /\ scan \in [next : 1 .. NumCells + 1, min : Cells]
    /\ accepted \in 0 .. MaxConns
    /\ fd \in [Conns -> Fds \cup {Closed}]
    /\ peer \in [Conns -> {"quiet", "sent", "leaving", "hungup"}]
    /\ m_clientsBuff \in [Cells -> SUBSET Conns]
    /\ m_clients \in [Cells -> SUBSET Conns]
    /\ m_connDelta \in [Cells -> BOOLEAN]
    /\ m_fdReadBak \in [Cells -> SUBSET Fds]
    /\ fdRead \in [Cells -> SUBSET Fds]
    /\ m_connCount \in Nat
    /\ joined \subseteq Conns /\ exited \subseteq Conns /\ dropped \subseteq Conns
    /\ selfStopped \subseteq Threads
    /\ errors \in 0 .. MaxErrors

Init == /\ main = "new" /\ victim = 1
        /\ isRun = [t \in Threads |-> FALSE]
        /\ pc = [t \in Threads |-> "off"]
        /\ scan = [next |-> 1, min |-> 1]
        /\ accepted = 0
        /\ fd = [k \in Conns |-> Closed]
        /\ peer = [k \in Conns |-> "quiet"]
        /\ m_clientsBuff = [c \in Cells |-> {}]
        /\ m_clients = [c \in Cells |-> {}]
        /\ m_connDelta = [c \in Cells |-> FALSE]
        /\ m_fdReadBak = [c \in Cells |-> {}]
        /\ fdRead = [c \in Cells |-> {}]
        /\ m_connCount = 0
        /\ joined = {} /\ exited = {} /\ dropped = {}
        /\ selfStopped = {} /\ errors = 0

Goes(t, from, to) == pc[t] = from /\ pc' = [pc EXCEPT ![t] = to]

-----------------------------------------------------------------------------
(***************************************************************************)
(* The main thread: Start, then Close.                                     *)
(***************************************************************************)

\* TCPServer::Start: the cells and their workers, then the acceptor.  Each
\* Cell::OnRun begins with m_connDelta = true.
Start == /\ main = "new"
         /\ main' = "up"
         /\ isRun' = [t \in Threads |-> TRUE]
         /\ pc' = [t \in Threads |-> "loop"]
         /\ m_connDelta' = [c \in Cells |-> TRUE]
         /\ UNCHANGED <<victim, selfStopped, errors, scan, sockets, peer, m_clientsBuff,
                        m_clients, m_fdReadBak, fdRead, events>>

\* Bug: TCPServer::Close does not stop the acceptor before it clears the cells.
BugCloseServer == /\ main = "up"
                  /\ main' = "clear"
                  /\ isRun' = [isRun EXCEPT ![Acceptor] = FALSE]
                  /\ UNCHANGED <<victim, selfStopped, errors, pc, scan, sockets, peer, cells, events>>

\* TCPServer::Close begins with the acceptor: it stops it and waits, or goes
\* on when the acceptor has stopped by itself.
CloseServer == /\ main = "up"
               /\ main' = IF isRun[Acceptor] THEN "joinServer" ELSE "clear"
               /\ isRun' = [isRun EXCEPT ![Acceptor] = FALSE]
               /\ UNCHANGED <<victim, selfStopped, errors, pc, scan, sockets, peer, cells, events>>

\* The acceptor's wakeup lets TCPServer::Close go on.
ServerJoined == /\ main = "joinServer" /\ pc[Acceptor] = "gone"
                /\ main' = "clear"
                /\ UNCHANGED <<victim, services, pc, scan, sockets, peer, cells, events>>

\* What is left of cell victim goes with it: ~Cell after both services are
\* closed.  Its clients' sockets are closed, without an OnExit.
DestroyCell ==
    /\ fd' = CloseFds(m_clients[victim] \cup m_clientsBuff[victim])
    /\ dropped' = dropped \cup m_clients[victim]
    /\ m_clients' = [m_clients EXCEPT ![victim] = {}]
    /\ m_clientsBuff' = [m_clientsBuff EXCEPT ![victim] = {}]
    /\ victim' = victim + 1
    /\ UNCHANGED <<accepted, m_connDelta, m_fdReadBak, fdRead, m_connCount, joined, exited>>

\* Bug: ~Cell stops the worker and does not wait for it.
BugCloseCell == /\ main = "clear" /\ victim \in Cells
                /\ isRun' = [isRun EXCEPT ![victim] = FALSE]
                /\ DestroyCell
                /\ UNCHANGED <<main, selfStopped, errors, pc, scan, peer>>

\* m_cells.clear() has come to cell victim: ~Cell stops its worker and waits,
\* or finds the service stopped and destroys the cell at once.
CloseCell == /\ main = "clear" /\ victim \in Cells
             /\ isRun' = [isRun EXCEPT ![victim] = FALSE]
             /\ UNCHANGED <<selfStopped, errors, pc, scan, peer>>
             /\ IF isRun[victim]
                THEN main' = "joinCell" /\ UNCHANGED <<victim, sockets, cells, events>>
                ELSE main' = "clear" /\ DestroyCell

\* The cell's worker is gone.
CellJoined == /\ main = "joinCell" /\ pc[victim] = "gone"
              /\ main' = "clear"
              /\ DestroyCell
              /\ UNCHANGED <<services, pc, scan, peer>>

\* m_cells is empty: the listening socket is closed and Close returns.
CloseReturns == /\ main = "clear" /\ victim = NumCells + 1
                /\ main' = "closed"
                /\ UNCHANGED <<victim, services, pc, scan, sockets, peer, cells, events>>

Main == CloseServer \/ ServerJoined \/ CloseCell \/ CellJoined \/ CloseReturns


-----------------------------------------------------------------------------
(***************************************************************************)
(* What every worker does with its service.                                *)
(***************************************************************************)

\* Bug: the loop goes on for ever.
BugIsRun(t) == TRUE

\* Read without the service's m_mutex.
IsRun(t) == isRun[t]

\* while (thread->IsRun()): one more round, or out of the loop.
Loop(t) ==
    /\ IF IsRun(t) THEN Goes(t, "loop", IF t = Acceptor THEN "poll" ELSE "join")
                   ELSE Goes(t, "loop", IF t = Acceptor THEN "gone" ELSE "clear")
    /\ UNCHANGED <<mains, services, scan, sockets, peer, cells, events>>

\* select returns an error (a signal, or a bad descriptor).
SelectFails(t) ==
    /\ errors < MaxErrors
    /\ errors' = errors + 1
    /\ Goes(t, IF t = Acceptor THEN "poll" ELSE "select", "failed")
    /\ UNCHANGED <<mains, isRun, selfStopped, scan, sockets, peer, cells, events>>

\* The worker stops its own service, when it gets the service's m_mutex, and
\* leaves its loop.
CloseWithoutWait(t) ==
    /\ ~Joining(t)
    /\ Goes(t, "failed", IF t = Acceptor THEN "gone" ELSE "clear")
    /\ isRun' = [isRun EXCEPT ![t] = FALSE]
    /\ selfStopped' = selfStopped \cup {t}
    /\ UNCHANGED <<mains, errors, scan, sockets, peer, cells, events>>

-----------------------------------------------------------------------------
(***************************************************************************)
(* The acceptor: TCPServer::OnRun.                                         *)
(***************************************************************************)

\* select times out, or accept fails: the next round.
NoClient == /\ Goes(Acceptor, "poll", "loop")
            /\ UNCHANGED <<mains, services, scan, sockets, peer, cells, events>>

\* Accept makes a ClientSocket of a new descriptor and begins AddClient2Cell
\* with the first cell as minCell.
Accept(f) ==
    /\ accepted < MaxConns
    /\ f \notin FdsOf(Conns)
    /\ Goes(Acceptor, "poll", "scan")
    /\ accepted' = accepted + 1
    /\ fd' = [fd EXCEPT ![accepted + 1] = f]
    /\ scan' = [next |-> 1, min |-> 1]
    /\ UNCHANGED <<mains, services, peer, cells, events>>

\* GetClientSize reads both containers without the cell's m_mutex.
GetClientSize(c) == Cardinality(m_clients[c]) + Cardinality(m_clientsBuff[c])

\* One turn of AddClient2Cell's loop.
ScanCell ==
    /\ pc[Acceptor] = "scan" /\ scan.next \in Cells
    /\ scan' = [next |-> scan.next + 1,
                 min  |-> IF GetClientSize(scan.min) > GetClientSize(scan.next)
                          THEN scan.next ELSE scan.min]
    /\ UNCHANGED <<mains, services, pc, sockets, peer, cells, events>>

\* AddClient on the cell that was least loaded when it was looked at.
AddClient ==
    /\ scan.next \notin Cells
    /\ Goes(Acceptor, "scan", "loop")
    /\ m_clientsBuff' = [m_clientsBuff EXCEPT ![scan.min] = @ \cup {accepted}]
    /\ UNCHANGED <<mains, services, scan, sockets, peer, m_clients, m_connDelta,
                   m_fdReadBak, fdRead, events>>

-----------------------------------------------------------------------------
(***************************************************************************)
(* The worker of a cell: Cell::OnRun.                                      *)
(***************************************************************************)

\* OnJoin for each new client.
OnJoin(new) == /\ m_connCount' = m_connCount + Cardinality(new)
               /\ joined' = joined \cup new

\* Bug: clients join only a cell that has none.
BugNewcomers(c) == IF m_clients[c] = {} THEN m_clientsBuff[c] ELSE {}

Newcomers(c) == m_clientsBuff[c]

\* Bug: the buffer is not cleared.
BugEnter(c, new) == /\ m_clients' = [m_clients EXCEPT ![c] = @ \cup new]
                    /\ UNCHANGED <<fd, m_clientsBuff>>

\* m_clients[fd] = client replaces a client of the same descriptor.
Enter(c, new) ==
    LET kept == {k \in m_clients[c] : fd[k] \notin FdsOf(new)}
    IN  /\ m_clients' = [m_clients EXCEPT ![c] = kept \cup new]
        /\ m_clientsBuff' = [m_clientsBuff EXCEPT ![c] = @ \ new]
        /\ fd' = CloseFds(m_clients[c] \ kept)

\* The new clients join, under the cell's m_mutex.
Join(c) == LET new == Newcomers(c) IN
           /\ Goes(c, "join", "poll")
           /\ OnJoin(new)
           /\ Enter(c, new)
           /\ m_connDelta' = [m_connDelta EXCEPT ![c] = @ \/ new # {}]
           /\ UNCHANGED <<mains, services, scan, accepted, peer, m_fdReadBak, fdRead,
                          exited, dropped>>

\* Bug: the backup set is never filled again.
BugFdSet(c) == m_fdReadBak[c]

\* The descriptors for select: from m_clients when m_connDelta says so, and
\* from m_fdReadBak when not.
FdSet(c) == IF m_connDelta[c] THEN FdsOf(m_clients[c]) ELSE m_fdReadBak[c]

\* No clients: sleep and go round.  Otherwise on to select.
FillFdSet(c) ==
    /\ IF m_clients[c] = {}
       THEN Goes(c, "poll", "loop") /\ UNCHANGED <<m_connDelta, m_fdReadBak>>
       ELSE /\ Goes(c, "poll", "select")
            /\ m_fdReadBak' = [m_fdReadBak EXCEPT ![c] = FdSet(c)]
            /\ m_connDelta' = [m_connDelta EXCEPT ![c] = FALSE]
    /\ UNCHANGED <<mains, services, scan, sockets, peer, m_clientsBuff, m_clients, fdRead, events>>

\* select leaves in fdRead the descriptors with something to read.
Select(c) ==
    /\ Goes(c, "select", "read")
    /\ fdRead' = [fdRead EXCEPT ![c] =
                    {f \in m_fdReadBak[c] :
                        \E k \in Conns : fd[k] = f /\ peer[k] # "quiet"}]
    /\ UNCHANGED <<mains, services, scan, sockets, peer, m_clientsBuff, m_clients,
                   m_connDelta, m_fdReadBak, events>>

\* ReadData's next client: one of m_clients whose descriptor is in fdRead.
Readable(c, k) == pc[c] = "read" /\ k \in m_clients[c] /\ fd[k] \in fdRead[c]

\* Recv returns bytes.
RecvData(c, k) ==
    /\ Readable(c, k) /\ peer[k] # "hungup"
    /\ peer' = [peer EXCEPT ![k] = IF @ = "leaving" THEN "hungup" ELSE "quiet"]
    /\ fdRead' = [fdRead EXCEPT ![c] = @ \ {fd[k]}]
    /\ UNCHANGED <<mains, services, pc, scan, sockets, m_clientsBuff, m_clients,
                   m_connDelta, m_fdReadBak, events>>

\* Bug: an OnExit that forgets the counter.
BugOnExit(k) == exited' = exited \cup {k} /\ UNCHANGED m_connCount

OnExit(k) == /\ m_connCount' = m_connCount - 1
             /\ exited' = exited \cup {k}

\* Bug: OnClientExit leaves m_connDelta alone.
BugOnClientExit(c, k) == OnExit(k) /\ UNCHANGED m_connDelta

OnClientExit(c, k) == /\ OnExit(k)
                      /\ m_connDelta' = [m_connDelta EXCEPT ![c] = TRUE]

\* Recv returns -1: OnClientExit, and m_clients.erase drops the last reference.
ClientExit(c, k) ==
    /\ Readable(c, k) /\ peer[k] = "hungup"
    /\ OnClientExit(c, k)
    /\ m_clients' = [m_clients EXCEPT ![c] = @ \ {k}]
    /\ fd' = CloseFds({k})
    /\ fdRead' = [fdRead EXCEPT ![c] = @ \ {fd[k]}]
    /\ UNCHANGED <<mains, services, pc, scan, accepted, peer, m_clientsBuff,
                   m_fdReadBak, joined, dropped>>

\* Every client has been looked at.
ReadDone(c) == /\ ~\E k \in Conns : Readable(c, k)
               /\ Goes(c, "read", "loop")
               /\ fdRead' = [fdRead EXCEPT ![c] = {}]
               /\ UNCHANGED <<mains, services, scan, sockets, peer, m_clientsBuff, m_clients,
                              m_connDelta, m_fdReadBak, events>>

\* ClrClient forgets every client without an OnExit, and without m_mutex.
ClrClient(c) ==
    /\ fd' = CloseFds(m_clients[c] \cup m_clientsBuff[c])
    /\ dropped' = dropped \cup m_clients[c]
    /\ m_clients' = [m_clients EXCEPT ![c] = {}]
    /\ m_clientsBuff' = [m_clientsBuff EXCEPT ![c] = {}]
    /\ UNCHANGED <<mains, services, scan, accepted, peer, m_connDelta, m_fdReadBak,
                   fdRead, m_connCount, joined, exited>>

\* At the end of OnRun ...
LeaveOnRun(c) == Goes(c, "clear", "destroy") /\ ClrClient(c)

\* ... and again in onDestroy, before the wakeup.
OnDestroy(c) == Goes(c, "destroy", "gone") /\ ClrClient(c)

-----------------------------------------------------------------------------
\* The other side of a connection sends, or hangs up.
HungUp(k) == peer[k] \in {"leaving", "hungup"}

PeerSends(k) == /\ Alive(k) /\ peer[k] = "quiet"
                /\ peer' = [peer EXCEPT ![k] = "sent"]
                /\ UNCHANGED <<mains, services, pc, scan, sockets, cells, events>>

\* A hangup behind data that recv has yet to return: the peer is leaving.
PeerHangsUp(k) == /\ Alive(k) /\ ~HungUp(k)
                  /\ peer' = [peer EXCEPT ![k] = IF @ = "sent" THEN "leaving" ELSE "hungup"]
                  /\ UNCHANGED <<mains, services, pc, scan, sockets, cells, events>>

CellWorker(c) == \/ Loop(c) \/ CloseWithoutWait(c)
                 \/ Join(c) \/ FillFdSet(c) \/ Select(c) \/ ReadDone(c)
                 \/ \E k \in Conns : RecvData(c, k) \/ ClientExit(c, k)
                 \/ LeaveOnRun(c) \/ OnDestroy(c)

AcceptorWorker == \/ Loop(Acceptor) \/ CloseWithoutWait(Acceptor)
                  \/ NoClient \/ (\E f \in Fds : Accept(f))
                  \/ ScanCell \/ AddClient

Next == \/ Start \/ Main
        \/ AcceptorWorker
        \/ \E c \in Cells : CellWorker(c)
        \/ \E t \in Threads : SelectFails(t)
        \/ \E k \in Conns : PeerSends(k) \/ PeerHangsUp(k)

\* Every thread of the server is scheduled.  main calls Close when it wants to
\* ("exit" is typed), and then goes on; peers and errors owe nothing.
Fairness == /\ WF_vars(AcceptorWorker)
            /\ \A c \in Cells : WF_vars(CellWorker(c))
            /\ WF_vars(ServerJoined \/ CloseCell \/ CellJoined \/ CloseReturns)

Spec == Init /\ [][Next]_vars /\ Fairness

-----------------------------------------------------------------------------
(***************************************************************************)
(* Properties.                                                             *)
(***************************************************************************)

\* The cached descriptor set is never stale: select is called for exactly the
\* open descriptors of the cell's clients, whoever joined or left and whatever
\* descriptor was reused since the set was built.
FdSetFresh == \A c \in Cells : pc[c] = "select" =>
                  /\ m_fdReadBak[c] = FdsOf(m_clients[c])
                  /\ Closed \notin m_fdReadBak[c]

\* A connection is in one place: one cell's buffer or one cell's map; it is
\* never lost between them, and its descriptor is open just as long.
OnePlace ==
    /\ \A k \in Conns : Alive(k) =>
           \/ k = accepted /\ pc[Acceptor] = "scan"
           \/ \E c \in Cells : k \in m_clients[c] \cup m_clientsBuff[c]
    /\ \A c, d \in Cells :
           /\ m_clients[c] \cap m_clientsBuff[d] = {}
           /\ c # d => /\ m_clients[c] \cap m_clients[d] = {}
                      /\ m_clientsBuff[c] \cap m_clientsBuff[d] = {}
           /\ \A k \in m_clients[c] \cup m_clientsBuff[c] : Alive(k)

\* m_connCount, which several threads update, counts the clients of all cells
\* and those a cell forgot without an OnExit: it never counts a connection
\* twice, and only a stopped cell makes it too high.
ConnCountExact ==
    /\ m_connCount = Cardinality(UNION {m_clients[c] : c \in Cells}) + Cardinality(dropped)
    /\ dropped # {} => \E c \in Cells : ~isRun[c]

\* While the acceptor is handing over a client no cell is destroyed, and none
\* is inside ClrClient, which empties m_clientsBuff without m_mutex - unless
\* that cell's worker had stopped by itself.
AcceptorMeetsLiveCells == pc[Acceptor] = "scan" =>
    /\ Destroyed = {}
    /\ \A c \in Cells : pc[c] \in {"clear", "destroy"} => c \in selfStopped

\* When ~Cell has run there is no worker left that uses the cell, unless the
\* worker had stopped by itself: then the destructor does not wait for it.
NoWorkerInDestroyedCell ==
    \A c \in Destroyed : pc[c] \notin {"off", "gone"} => c \in selfStopped

\* After Close every accepted socket has been closed.
ClosedMeansNoSockets == main = "closed" => FdsOf(Conns) \subseteq {Closed}

\* A worker and the thread that closes its service wait for each other.
Stuck == \E t \in Threads : Joining(t) /\ pc[t] = "failed"

\* The server is being closed, or is closed.
Closing == main \notin {"new", "up"}

\* An accepted connection is joined by its cell, unless the server is closed,
\* or the cell's worker has stopped by itself: such a cell still looks like the
\* least loaded one, and keeps or forgets every client it is given.
Served == \A k \in Conns :
    Alive(k) ~> k \in joined \/ Closing
                \/ \E c \in selfStopped \ {Acceptor} : k \in m_clientsBuff[c] \/ ~Alive(k)

\* A hangup of a joined connection is noticed, under the same conditions.
ExitNoticed == \A k \in Conns :
    k \in joined /\ HungUp(k) ~> k \in exited \cup dropped \/ Stuck

\* Close returns, unless select failed in a thread it was waiting for.
CloseEnds == Closing ~> main = "closed" \/ Stuck
=============================================================================
