------------------------------- MODULE EasyTcp -------------------------------
(***************************************************************************)
(* The stress client: EasyTcpClient/client.cpp over Src/tcp_client.cpp.    *)
(*                                                                         *)
(* main starts g_thread_count threads in SendFunc.  Each creates and       *)
(* connects a block of pre_count clients, counts itself in g_readyCount,   *)
(* waits there for all the others, and starts a detached thread in         *)
(* RecvFunc for its block; then one sends and the other receives, on the   *)
(* same TCPClient objects and without a lock, until the word exit is typed.*)
(* The sender then closes and deletes its clients and waits for nobody.    *)
(*                                                                         *)
(* TCPClient::CloseSock is three steps, as two threads may be in it at     *)
(* once.  A send, select or recv may fail at any time: the other end may   *)
(* reset the connection.  What TCPClient makes of the bytes it receives is *)
(* only logged and is left out; main's return ends the process.            *)
(***************************************************************************)
EXTENDS Integers, FiniteSets

CONSTANTS g_thread_count,   \* threads in SendFunc
          pre_count,        \* clients of each
          NumFds,           \* descriptors the system gives to sockets
          Nobody            \* owner of a descriptor that is not open

Threads == 1 .. g_thread_count
Clients == Threads \X (1 .. pre_count)
Agents  == {"SendFunc", "RecvFunc"} \X Threads
Fds     == 1 .. NumFds
INVALID_SOCKET == 0

ASSUME EasyTcpAssumption == /\ g_thread_count \in Nat /\ pre_count \in Nat \ {0}
                            /\ NumFds \in Nat /\ Nobody \notin Clients

VARIABLES
    g_runing, g_readyCount,
    ended,             \* the process has ended
    g_clients,         \* client -> nullptr, alive or deleted
    m_sock, m_isConn,  \* of each client
    owner,             \* descriptor -> the client it was opened for, if open
    pc, idx,           \* agent -> place, and position in its block
    reg,               \* agent -> m_sock as CloseSock's test has read it
    caller             \* agent -> the place CloseSock was called from

objects == <<g_clients, m_sock, m_isConn, owner>>
threads == <<pc, idx, reg, caller>>
vars == <<g_runing, g_readyCount, ended, objects, threads>>

Places == {"off", "create", "conn", "ready", "barrier", "loop", "send", "sending", "onrun",
           "selecting", "close", "closing", "closed", "finish", "delete", "returned", "done",
           "undefined"}

TypeOK ==
    /\ g_runing \in BOOLEAN /\ ended \in BOOLEAN
    /\ g_readyCount \in Nat
    /\ g_clients \in [Clients -> {"nullptr", "alive", "deleted"}]
    /\ m_sock \in [Clients -> Fds \cup {INVALID_SOCKET}]
    /\ m_isConn \in [Clients -> BOOLEAN]
    /\ owner \in [Fds -> Clients \cup {Nobody}]
    /\ pc \in [Agents -> Places] /\ caller \in [Agents -> Places]
    /\ idx \in [Agents -> 1 .. pre_count]
    /\ reg \in [Agents -> Fds \cup {INVALID_SOCKET}]

Init ==
    /\ g_runing = TRUE /\ g_readyCount = 0 /\ ended = FALSE
    /\ g_clients = [c \in Clients |-> "nullptr"]
    /\ m_sock = [c \in Clients |-> INVALID_SOCKET]
    /\ m_isConn = [c \in Clients |-> FALSE]
    /\ owner = [f \in Fds |-> Nobody]
    /\ pc = [a \in Agents |-> IF a[1] = "SendFunc" THEN "create" ELSE "off"]
    /\ idx = [a \in Agents |-> 1]
    /\ reg = [a \in Agents |-> INVALID_SOCKET]
    /\ caller = [a \in Agents |-> "off"]

\* The process ends: the system closes what it had open, and none of its
\* threads is left.
End == /\ ended' = TRUE
       /\ owner' = [f \in Fds |-> Nobody]
       /\ g_clients' = [c \in Clients |-> "nullptr"]
       /\ m_sock' = [c \in Clients |-> INVALID_SOCKET]
       /\ m_isConn' = [c \in Clients |-> FALSE]
       /\ pc' = [a \in Agents |-> "off"] /\ idx' = [a \in Agents |-> 1]
       /\ reg' = [a \in Agents |-> INVALID_SOCKET] /\ caller' = [a \in Agents |-> "off"]

-----------------------------------------------------------------------------
Sender(t)   == <<"SendFunc", t>>
Receiver(t) == <<"RecvFunc", t>>

\* The client an agent is at: g_clients[i].
Client(a) == <<a[2], idx[a]>>

IsRun(c) == m_sock[c] # INVALID_SOCKET /\ m_isConn[c]

At(a, place) == ~ended /\ pc[a] = place

\* Agent a goes to a place, at the first client of its block.
GoTo(a, place) == /\ pc' = [pc EXCEPT ![a] = place]
                  /\ idx' = [idx EXCEPT ![a] = 1]

\* Agent a goes to the next client of its block, or on when there is none.
NextClient(a, here, on) ==
    IF idx[a] < pre_count
    THEN /\ pc' = [pc EXCEPT ![a] = here]
         /\ idx' = [idx EXCEPT ![a] = @ + 1]
    ELSE GoTo(a, on)

\* Agent a stays at its client and goes to another place.
Step(a, from, to) == At(a, from) /\ pc' = [pc EXCEPT ![a] = to] /\ UNCHANGED idx

\* A call through g_clients[i] of a deleted client: nothing is said of what
\* the thread does next.
UseDeleted(a) ==
    /\ \E place \in {"send", "sending", "onrun", "selecting", "close", "closing", "closed"} :
          Step(a, place, "undefined")
    /\ g_clients[Client(a)] = "deleted"
    /\ UNCHANGED <<g_runing, g_readyCount, ended, objects, reg, caller>>

-----------------------------------------------------------------------------
(***************************************************************************)
(* TCPClient::CloseSock.                                                   *)
(***************************************************************************)

\* The call: a goes into CloseSock.
CallCloseSock(a, from) == /\ Step(a, from, "close")
                          /\ caller' = [caller EXCEPT ![a] = from]

\* Return from CloseSock: a sender or receiver goes to its next client, a
\* sender that is closing down deletes this one.
ReturnTo(a) ==
    /\ CASE caller[a] = "sending"   -> NextClient(a, "send", "loop")
         [] caller[a] = "selecting" -> NextClient(a, "onrun", "loop")
         [] OTHER -> pc' = [pc EXCEPT ![a] = "delete"] /\ UNCHANGED idx
    /\ caller' = [caller EXCEPT ![a] = "off"]
    /\ reg' = [reg EXCEPT ![a] = INVALID_SOCKET]

\* if (m_sock != INVALID_SOCKET)
TestSock(a) ==
    /\ At(a, "close") /\ g_clients[Client(a)] # "deleted"
    /\ IF m_sock[Client(a)] # INVALID_SOCKET
       THEN /\ Step(a, "close", "closing")
            /\ reg' = [reg EXCEPT ![a] = m_sock[Client(a)]]
            /\ UNCHANGED <<m_isConn, caller>>
       ELSE /\ m_isConn' = [m_isConn EXCEPT ![Client(a)] = FALSE]
            /\ ReturnTo(a)
    /\ UNCHANGED <<g_runing, g_readyCount, ended, g_clients, m_sock, owner>>

\* close(m_sock): a race with the other thread's CloseSock, so the compiled
\* code closes what the test read or what is there now.
CloseFd(a) ==
    /\ Step(a, "closing", "closed") /\ g_clients[Client(a)] # "deleted"
    /\ \E s \in {reg[a], m_sock[Client(a)]} :
          owner' = [f \in Fds |-> IF f = s THEN Nobody ELSE owner[f]]
    /\ UNCHANGED <<g_runing, g_readyCount, ended, g_clients, m_sock, m_isConn, reg, caller>>

\* m_sock = INVALID_SOCKET; m_isConn = false
ClearSock(a) ==
    /\ At(a, "closed") /\ g_clients[Client(a)] # "deleted"
    /\ m_sock' = [m_sock EXCEPT ![Client(a)] = INVALID_SOCKET]
    /\ m_isConn' = [m_isConn EXCEPT ![Client(a)] = FALSE]
    /\ ReturnTo(a)
    /\ UNCHANGED <<g_runing, g_readyCount, ended, g_clients, owner>>

CloseSock(a) == TestSock(a) \/ CloseFd(a) \/ ClearSock(a)

-----------------------------------------------------------------------------
(***************************************************************************)
(* SendFunc.                                                               *)
(***************************************************************************)

\* Both loops before the barrier return at once when exit has been typed.
ReturnEarly(t) ==
    /\ ~g_runing
    /\ \E place \in {"create", "conn"} : Step(Sender(t), place, "returned")
    /\ UNCHANGED <<g_runing, g_readyCount, ended, objects, reg, caller>>

\* new TCPClient
Create(t) ==
    /\ At(Sender(t), "create") /\ g_runing
    /\ g_clients' = [g_clients EXCEPT ![Client(Sender(t))] = "alive"]
    /\ NextClient(Sender(t), "create", "conn")
    /\ UNCHANGED <<g_runing, g_readyCount, ended, m_sock, m_isConn, owner, reg, caller>>

\* Conn: socket, which may fail, and then connect, which may fail too.
Conn(t) ==
    LET c == Client(Sender(t))
    IN  /\ At(Sender(t), "conn") /\ g_runing
        /\ \/ /\ \E f \in {g \in Fds : owner[g] = Nobody} :
                    /\ owner' = [owner EXCEPT ![f] = c]
                    /\ m_sock' = [m_sock EXCEPT ![c] = f]
              /\ m_isConn' \in {m_isConn, [m_isConn EXCEPT ![c] = TRUE]}
           \/ UNCHANGED <<owner, m_sock, m_isConn>>
        /\ NextClient(Sender(t), "conn", "ready")
        /\ UNCHANGED <<g_runing, g_readyCount, ended, g_clients, reg, caller>>

\* g_readyCount++
Ready(t) ==
    /\ Step(Sender(t), "ready", "barrier")
    /\ g_readyCount' = g_readyCount + 1
    /\ UNCHANGED <<g_runing, ended, objects, reg, caller>>

\* Bug: no barrier.
BugAllReady == TRUE

\* Bug: the last thread waits for one more.
BugAllReadyLate == g_readyCount > g_thread_count

AllReady == g_readyCount >= g_thread_count

\* Past the barrier, the thread in RecvFunc is started.
StartRecv(t) ==
    /\ At(Sender(t), "barrier") /\ AllReady
    /\ pc' = [pc EXCEPT ![Sender(t)] = "loop", ![Receiver(t)] = "loop"]
    /\ UNCHANGED <<g_runing, g_readyCount, ended, objects, idx, reg, caller>>

\* Bug: the loop is left when the first client is not running any more.
BugSendMore(t) == g_runing /\ IsRun(<<t, 1>>)

\* Bug: the sender goes on for ever.
BugSendAlways(t) == TRUE

SendMore(t) == g_runing

\* while (g_runing)
SendLoop(t) ==
    /\ At(Sender(t), "loop")
    /\ GoTo(Sender(t), IF SendMore(t) THEN "send" ELSE "finish")
    /\ UNCHANGED <<g_runing, g_readyCount, ended, objects, reg, caller>>

\* Send does nothing with a client that does not run.
TestRun(t) ==
    LET c == Client(Sender(t))
    IN  /\ At(Sender(t), "send") /\ g_clients[c] # "deleted"
        /\ IF IsRun(c) THEN Step(Sender(t), "send", "sending")
                       ELSE NextClient(Sender(t), "send", "loop")
        /\ UNCHANGED <<g_runing, g_readyCount, ended, objects, reg, caller>>

\* send(m_sock): on an error the socket is closed.  The client never calls
\* CellNetwork::Init, so on Linux the signal of a broken pipe may end it.
SendCall(t) ==
    /\ At(Sender(t), "sending") /\ g_clients[Client(Sender(t))] # "deleted"
    /\ \/ CallCloseSock(Sender(t), "sending") /\ UNCHANGED <<ended, objects, reg>>
       \/ NextClient(Sender(t), "send", "loop") /\ UNCHANGED <<ended, objects, reg, caller>>
       \/ End
    /\ UNCHANGED <<g_runing, g_readyCount>>

\* After the loop every client is closed ...
Finish(t) ==
    /\ CallCloseSock(Sender(t), "finish")
    /\ UNCHANGED <<g_runing, g_readyCount, ended, objects, reg>>

\* ... and deleted.  The destructor's CloseSock finds no socket: nothing opens
\* one after the barrier.
Delete(t) ==
    LET c == Client(Sender(t))
    IN  /\ At(Sender(t), "delete")
        /\ g_clients' = [g_clients EXCEPT ![c] = "deleted"]
        /\ NextClient(Sender(t), "finish", "done")
        /\ UNCHANGED <<g_runing, g_readyCount, ended, m_sock, m_isConn, owner, reg, caller>>

SendFunc(t) == \/ ReturnEarly(t) \/ Create(t) \/ Conn(t) \/ Ready(t) \/ StartRecv(t)
               \/ SendLoop(t) \/ TestRun(t) \/ SendCall(t) \/ Finish(t) \/ Delete(t)
               \/ CloseSock(Sender(t)) \/ UseDeleted(Sender(t))

-----------------------------------------------------------------------------
(***************************************************************************)
(* RecvFunc.                                                               *)
(***************************************************************************)

\* while (g_runing); three seconds after its start the thread leaves out the
\* first client of the block.
RecvLoop(t) ==
    /\ At(Receiver(t), "loop")
    /\ \/ g_runing /\ GoTo(Receiver(t), "onrun")
       \/ g_runing /\ IF pre_count > 1
                      THEN /\ pc' = [pc EXCEPT ![Receiver(t)] = "onrun"]
                           /\ idx' = [idx EXCEPT ![Receiver(t)] = 2]
                      ELSE UNCHANGED <<pc, idx>>
       \/ ~g_runing /\ GoTo(Receiver(t), "done")
    /\ UNCHANGED <<g_runing, g_readyCount, ended, objects, reg, caller>>

\* OnRun does nothing with a client that does not run.
OnRun(t) ==
    LET c == Client(Receiver(t))
    IN  /\ At(Receiver(t), "onrun") /\ g_clients[c] # "deleted"
        /\ IF IsRun(c) THEN Step(Receiver(t), "onrun", "selecting")
                       ELSE NextClient(Receiver(t), "onrun", "loop")
        /\ UNCHANGED <<g_runing, g_readyCount, ended, objects, reg, caller>>

\* select, and Recv when there is something: on an error the socket is closed.
SelectRecv(t) ==
    /\ At(Receiver(t), "selecting") /\ g_clients[Client(Receiver(t))] # "deleted"
    /\ \/ CallCloseSock(Receiver(t), "selecting")
       \/ NextClient(Receiver(t), "onrun", "loop") /\ UNCHANGED caller
    /\ UNCHANGED <<g_runing, g_readyCount, ended, objects, reg>>

RecvFunc(t) == RecvLoop(t) \/ OnRun(t) \/ SelectRecv(t) \/ CloseSock(Receiver(t))
                  \/ UseDeleted(Receiver(t))

-----------------------------------------------------------------------------
\* inputThread2: the word exit is typed.
Exit == /\ ~ended /\ g_runing /\ g_runing' = FALSE
        /\ UNCHANGED <<g_readyCount, ended, objects, threads>>

\* main notices and returns, whatever the detached threads are doing.
MainReturns == ~ended /\ ~g_runing /\ End /\ UNCHANGED <<g_runing, g_readyCount>>

Next == \/ \E t \in Threads : SendFunc(t) \/ RecvFunc(t)
        \/ Exit \/ MainReturns

\* The threads are scheduled and their calls return.  Nobody has to type exit,
\* and main may wait in getchar for ever.
Spec == Init /\ [][Next]_vars /\ \A t \in Threads : WF_vars(SendFunc(t)) /\ WF_vars(RecvFunc(t))

-----------------------------------------------------------------------------
(***************************************************************************)
(* Properties.                                                             *)
(***************************************************************************)

\* The descriptor numbers the threads hold, of client c: in m_sock, and in the
\* register of a thread inside CloseSock.
Held(c) == {m_sock[c]} \cup {reg[a] : a \in {b \in Agents : pc[b] = "closing" /\ Client(b) = c}}

\* Two threads may close one client's socket, the second time by a number that
\* is not open any more.  That number is never another client's by then, so no
\* client loses its socket to another's CloseSock and none sends on another's:
\* sockets are opened before the barrier and closed after it.
OwnSocket == \A c \in Clients : \A s \in Held(c) \ {INVALID_SOCKET} : owner[s] \in {c, Nobody}

\* A thread that is about to use a deleted client, or has.
Dangling(a) == \/ pc[a] = "undefined"
               \/ /\ pc[a] \in {"send", "sending", "onrun", "selecting", "close", "closing",
                                "closed"}
                  /\ g_clients[Client(a)] = "deleted"

\* Only a receiving thread ever uses a deleted client, and only after exit.
DeletedOnlyAtExit == \A a \in Agents : Dangling(a) => a[1] = "RecvFunc" /\ ~g_runing

\* Unless exit is typed or the process is killed, all the threads connect, meet and start to receive.
AllStart == <>(~g_runing \/ ended \/ \A t \in Threads : pc[Receiver(t)] # "off")

\* An agent that does no more: a sender may also wait at the barrier for one
\* that returned early.
Finished(a) == \/ pc[a] \in {"off", "returned", "done", "undefined"}
               \/ pc[a] = "barrier" /\ \E t \in Threads : pc[Sender(t)] = "returned"

\* After exit every thread comes to its end, unless it waits at the barrier for
\* a thread that exit made return before it.
ExitEnds == ~g_runing ~> (ended \/ \A a \in Agents : Finished(a))
=============================================================================
