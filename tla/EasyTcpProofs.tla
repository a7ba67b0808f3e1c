---------------------------- MODULE EasyTcpProofs ----------------------------
(***************************************************************************)
(* EasyTcp, for any number of threads, clients and descriptors.            *)
(*                                                                         *)
(* Part one, who uses a deleted client: the invariant says where each      *)
(* thread can be, that a sender deletes its clients in their order and     *)
(* after exit only, and hence never meets one that it has deleted.         *)
(*                                                                         *)
(* Part two, whose socket is closed: the invariant counts the threads that *)
(* have passed the increment of g_readyCount, so that nothing is closed    *)
(* before the last socket has been opened.                                 *)
(***************************************************************************)
EXTENDS EasyTcp, FiniteSetTheorems, TLAPS

InClose == {"close", "closing", "closed"}

SenderPlaces == {"off", "create", "conn", "ready", "barrier", "loop", "send", "sending",
                 "finish", "delete", "returned", "done"} \cup InClose

ReceiverPlaces == {"off", "loop", "onrun", "selecting", "done", "undefined"} \cup InClose

\* Where the threads are, and who calls CloseSock.
Roles == \A t \in Threads :
    /\ pc[Sender(t)] \in SenderPlaces
    /\ pc[Receiver(t)] \in ReceiverPlaces
    /\ pc[Sender(t)] \in InClose => caller[Sender(t)] \in {"sending", "finish"}
    /\ pc[Receiver(t)] \in InClose => caller[Receiver(t)] = "selecting"

\* The sender is in its last loop.
Finishing(t) == \/ pc[Sender(t)] \in {"finish", "delete"}
                \/ pc[Sender(t)] \in InClose /\ caller[Sender(t)] = "finish"

\* The deleted clients of a block are those before the sender's position in its
\* last loop, or all after it.
DeletedInOrder == \A t \in Threads, i \in 1 .. pre_count :
    g_clients[<<t, i>>] = "deleted" =>
        /\ ~g_runing
        /\ \/ pc[Sender(t)] = "done"
           \/ Finishing(t) /\ i < idx[Sender(t)]

ExitFirst == \A t \in Threads : Finishing(t) \/ pc[Receiver(t)] = "undefined" => ~g_runing

DInv == TypeOK /\ Roles /\ DeletedInOrder /\ ExitFirst

-----------------------------------------------------------------------------
(***************************************************************************)
(* Agents and their moves.                                                 *)
(***************************************************************************)

\* Agent a moves to one of the places, at some client of its block.
Moves(a, places) == \E p \in places, j \in 1 .. pre_count :
    pc' = [pc EXCEPT ![a] = p] /\ idx' = [idx EXCEPT ![a] = j]

LEMMA AgentFacts ==
    /\ \A t \in Threads : /\ Sender(t) \in Agents /\ Receiver(t) \in Agents
                          /\ Sender(t)[1] = "SendFunc" /\ Receiver(t)[1] = "RecvFunc"
                          /\ Sender(t)[2] = t /\ Receiver(t)[2] = t
    /\ \A t, u \in Threads : /\ Sender(t) # Receiver(u)
                             /\ Sender(t) = Sender(u) => t = u
                             /\ Receiver(t) = Receiver(u) => t = u
    /\ \A a \in Agents : \E t \in Threads : a = Sender(t) \/ a = Receiver(t)
BY DEF Agents, Sender, Receiver

LEMMA ClientFacts ==
    ASSUME TypeOK
    PROVE  /\ \A a \in Agents : Client(a) \in Clients /\ idx[a] \in 1 .. pre_count
           /\ \A t \in Threads : /\ Client(Sender(t)) = <<t, idx[Sender(t)]>>
                                 /\ Client(Receiver(t)) = <<t, idx[Receiver(t)]>>
BY DEF TypeOK, Agents, Clients, Client, Sender, Receiver

LEMMA FirstIndex == 1 \in 1 .. pre_count
BY EasyTcpAssumption

LEMMA GoToMoves ==
    ASSUME NEW a \in Agents, NEW place, GoTo(a, place)
    PROVE  Moves(a, {place})
BY FirstIndex DEF GoTo, Moves

LEMMA StepMoves ==
    ASSUME TypeOK, NEW a \in Agents, NEW from, NEW to, Step(a, from, to)
    PROVE  Moves(a, {to}) /\ At(a, from) /\ idx' = idx
<1>1. idx = [idx EXCEPT ![a] = idx[a]] /\ idx[a] \in 1 .. pre_count
  BY DEF TypeOK
<1>2. QED
  BY <1>1 DEF Step, Moves

\* NextClient moves on by one, or leaves the loop.
LEMMA NextClientMoves ==
    ASSUME TypeOK, NEW a \in Agents, NEW here, NEW on, NextClient(a, here, on)
    PROVE  /\ Moves(a, {here, on})
           /\ \/ pc' = [pc EXCEPT ![a] = here] /\ idx' = [idx EXCEPT ![a] = idx[a] + 1]
              \/ pc' = [pc EXCEPT ![a] = on]
<1>1. CASE idx[a] < pre_count
  <2>1. idx[a] + 1 \in 1 .. pre_count
    BY <1>1, EasyTcpAssumption DEF TypeOK
  <2>2. QED
    BY <1>1, <2>1 DEF NextClient, Moves
<1>2. CASE ~(idx[a] < pre_count)
  <2>1. GoTo(a, on)
    BY <1>2 DEF NextClient
  <2>2. QED
    BY <2>1, FirstIndex DEF GoTo, Moves
<1>3. QED
  BY <1>1, <1>2

\* What a move leaves alone.
LEMMA MovesFacts ==
    ASSUME TypeOK, NEW a \in Agents, NEW places \in SUBSET Places, Moves(a, places)
    PROVE  /\ pc' \in [Agents -> Places] /\ idx' \in [Agents -> 1 .. pre_count]
           /\ pc'[a] \in places
           /\ \A b \in Agents : b # a => pc'[b] = pc[b] /\ idx'[b] = idx[b]
BY DEF TypeOK, Moves

LEMMA MovesTo ==
    ASSUME TypeOK, NEW a \in Agents, NEW P, Moves(a, P)
    PROVE  /\ pc'[a] \in P
           /\ \A b \in Agents : b # a => pc'[b] = pc[b] /\ idx'[b] = idx[b]
BY DEF TypeOK, Moves

LEMMA PlacesFacts == SenderPlaces \subseteq Places /\ ReceiverPlaces \subseteq Places
BY DEF SenderPlaces, ReceiverPlaces, InClose, Places

LEMMA MovesAgain ==
    ASSUME NEW a \in Agents, NEW P, NEW Q, P \subseteq Q, Moves(a, P)
    PROVE  Moves(a, Q)
BY DEF Moves

\* Return from CloseSock.
LEMMA ReturnToMoves ==
    ASSUME TypeOK, NEW a \in Agents, ReturnTo(a)
    PROVE  /\ caller[a] = "sending" => Moves(a, {"send", "loop"})
           /\ caller[a] = "selecting" => Moves(a, {"onrun", "loop"})
           /\ caller[a] = "finish" => Moves(a, {"delete"}) /\ idx' = idx
           /\ caller' = [caller EXCEPT ![a] = "off"]
           /\ reg' = [reg EXCEPT ![a] = INVALID_SOCKET]
<1>1. CASE caller[a] = "sending"
  BY <1>1, NextClientMoves DEF ReturnTo
<1>2. CASE caller[a] = "selecting"
  BY <1>2, NextClientMoves DEF ReturnTo
<1>3. CASE caller[a] \notin {"sending", "selecting"}
  <2>1. pc' = [pc EXCEPT ![a] = "delete"] /\ idx' = idx
    BY <1>3 DEF ReturnTo
  <2>2. Moves(a, {"delete"})
    BY <2>1 DEF TypeOK, Moves
  <2>3. QED
    BY <1>3, <2>1, <2>2 DEF ReturnTo
<1>4. QED
  BY <1>1, <1>2, <1>3

\* A step of CloseSock goes on in it, or returns.
LEMMA CloseSockMoves ==
    ASSUME TypeOK, NEW a \in Agents, CloseSock(a)
    PROVE  \/ Moves(a, {"closing", "closed"}) /\ idx' = idx /\ caller' = caller
           \/ ReturnTo(a)
<1>1. CASE TestSock(a)
  <2>1. CASE Step(a, "close", "closing") /\ caller' = caller
    <3>1. Moves(a, {"closing"}) /\ idx' = idx
      BY <2>1, StepMoves
    <3>2. QED
      BY <2>1, <3>1 DEF Moves
  <2>2. QED
    BY <1>1, <2>1 DEF TestSock
<1>2. CASE CloseFd(a)
  <2>1. Moves(a, {"closed"}) /\ idx' = idx
    BY <1>2, StepMoves DEF CloseFd
  <2>2. QED
    BY <1>2, <2>1 DEF CloseFd, Moves
<1>3. CASE ClearSock(a)
  BY <1>3 DEF ClearSock
<1>4. QED
  BY <1>1, <1>2, <1>3 DEF CloseSock

-----------------------------------------------------------------------------
(***************************************************************************)
(* Part one.                                                               *)
(***************************************************************************)

\* A sender that is not in its last loop moves to a place outside it.
LEMMA SenderKeeps ==
    ASSUME DInv, NEW t \in Threads, NEW P,
           P \subseteq SenderPlaces \ {"finish", "delete"},
           Moves(Sender(t), P), ~Finishing(t), pc[Sender(t)] # "done",
           \A b \in Agents : b # Sender(t) => caller'[b] = caller[b],
           pc'[Sender(t)] \in InClose => caller'[Sender(t)] = "sending",
           g_runing' = g_runing,
           \A c \in Clients : g_clients'[c] = "deleted" => g_clients[c] = "deleted"
    PROVE  Roles' /\ DeletedInOrder' /\ ExitFirst'
<1> USE AgentFacts DEF DInv
<1>1. /\ pc'[Sender(t)] \in P
      /\ \A b \in Agents : b # Sender(t) => pc'[b] = pc[b] /\ idx'[b] = idx[b]
  BY MovesFacts, PlacesFacts
<1>2. \A u \in Threads : u # t => (Finishing(u)' <=> Finishing(u))
  BY <1>1 DEF Finishing
<1>3. Roles'
  BY <1>1 DEF Roles
<1>4. DeletedInOrder'
  <2> SUFFICES ASSUME NEW u \in Threads, NEW i \in 1 .. pre_count,
                      g_clients'[<<u, i>>] = "deleted"
               PROVE  /\ ~g_runing'
                      /\ pc'[Sender(u)] = "done" \/ (Finishing(u)' /\ i < idx'[Sender(u)])
    BY DEF DeletedInOrder
  <2>1. g_clients[<<u, i>>] = "deleted"
    BY DEF Clients
  <2>2. u # t
    BY <2>1 DEF DeletedInOrder
  <2>3. QED
    BY <1>1, <1>2, <2>1, <2>2 DEF DeletedInOrder
<1>5. ExitFirst'
  <2>1. ~Finishing(t)'
    BY <1>1 DEF Finishing
  <2>2. QED
    BY <1>1, <1>2, <2>1 DEF ExitFirst
<1>6. QED
  BY <1>3, <1>4, <1>5

\* A sender that is in its last loop stays there, at its client.
LEMMA FinishingKeeps ==
    ASSUME DInv, NEW t \in Threads, NEW P, P \subseteq SenderPlaces,
           Moves(Sender(t), P), idx' = idx, Finishing(t),
           \A b \in Agents : b # Sender(t) => caller'[b] = caller[b],
           pc'[Sender(t)] \in InClose => caller'[Sender(t)] = "finish",
           pc'[Sender(t)] \in {"finish", "delete"} \cup InClose,
           g_runing' = g_runing, g_clients' = g_clients
    PROVE  Roles' /\ DeletedInOrder' /\ ExitFirst'
<1> USE AgentFacts DEF DInv
<1>1. /\ pc'[Sender(t)] \in P
      /\ \A b \in Agents : b # Sender(t) => pc'[b] = pc[b]
  BY MovesFacts, PlacesFacts
<1>2. \A u \in Threads : Finishing(u)' <=> Finishing(u)
  BY <1>1 DEF Finishing
<1>3. \A u \in Threads : pc'[Sender(u)] = "done" <=> pc[Sender(u)] = "done"
  BY <1>1 DEF Finishing, InClose
<1>4. Roles'
  BY <1>1 DEF Roles
<1>5. DeletedInOrder'
  BY <1>2, <1>3 DEF DeletedInOrder
<1>6. ExitFirst'
  BY <1>1, <1>2 DEF ExitFirst
<1>7. QED
  BY <1>4, <1>5, <1>6

\* A step of a receiver.
LEMMA ReceiverKeeps ==
    ASSUME DInv, NEW t \in Threads, NEW P, P \subseteq ReceiverPlaces,
           Moves(Receiver(t), P),
           \A b \in Agents : b # Receiver(t) => caller'[b] = caller[b],
           pc'[Receiver(t)] \in InClose => caller'[Receiver(t)] = "selecting",
           pc'[Receiver(t)] = "undefined" => ~g_runing,
           g_runing' = g_runing, g_clients' = g_clients
    PROVE  Roles' /\ DeletedInOrder' /\ ExitFirst'
<1> USE AgentFacts DEF DInv
<1>1. /\ pc'[Receiver(t)] \in P
      /\ \A b \in Agents : b # Receiver(t) => pc'[b] = pc[b] /\ idx'[b] = idx[b]
  BY MovesFacts, PlacesFacts
<1>2. \A u \in Threads : Finishing(u)' <=> Finishing(u)
  BY <1>1 DEF Finishing
<1>3. Roles'
  BY <1>1 DEF Roles
<1>4. DeletedInOrder'
  BY <1>1, <1>2 DEF DeletedInOrder
<1>5. ExitFirst'
  BY <1>1, <1>2 DEF ExitFirst
<1>6. QED
  BY <1>3, <1>4, <1>5

\* A sender never meets a client that it has deleted.
LEMMA SenderMeetsLive ==
    ASSUME DInv, NEW t \in Threads, g_clients[Client(Sender(t))] = "deleted"
    PROVE  pc[Sender(t)] = "done"
<1>1. Client(Sender(t)) = <<t, idx[Sender(t)]>> /\ idx[Sender(t)] \in 1 .. pre_count
  BY ClientFacts, AgentFacts DEF DInv
<1>2. QED
  BY <1>1, EasyTcpAssumption DEF DInv, DeletedInOrder

\* A deleted client means that exit has been typed.
LEMMA DeletedMeansExit ==
    ASSUME DInv, NEW a \in Agents, g_clients[Client(a)] = "deleted"
    PROVE  ~g_runing
BY DEF DInv, DeletedInOrder, TypeOK, Agents, Client

LEMMA DInit == Init => DInv
<1> SUFFICES ASSUME Init PROVE DInv
  OBVIOUS
<1> USE AgentFacts DEF Init
<1>1. TypeOK
  <2>1. pc \in [Agents -> Places]
    BY DEF Places
  <2>2. "off" \in Places
    BY DEF Places
  <2>3. QED
    BY <2>1, <2>2, FirstIndex DEF TypeOK
<1>2. Roles
  BY DEF Roles, SenderPlaces, ReceiverPlaces, InClose, Agents, Sender, Receiver
<1>3. DeletedInOrder
  BY DEF DeletedInOrder, Clients
<1>4. ExitFirst
  BY DEF ExitFirst, Finishing, InClose
<1>5. QED
  BY <1>1, <1>2, <1>3, <1>4 DEF DInv

\* What most steps leave as it was has its type.
LEMMA ThreadTypes ==
    ASSUME TypeOK, NEW a \in Agents, NEW P \in SUBSET Places, Moves(a, P),
           UNCHANGED <<g_runing, g_readyCount, ended, objects>>,
           caller' \in [Agents -> Places], reg' \in [Agents -> Fds \cup {INVALID_SOCKET}]
    PROVE  TypeOK'
<1>1. pc' \in [Agents -> Places] /\ idx' \in [Agents -> 1 .. pre_count]
  BY MovesFacts
<1>2. QED
  BY <1>1 DEF TypeOK, objects

\* The end of the process.
LEMMA EndKeeps == ASSUME DInv, End, UNCHANGED <<g_runing, g_readyCount>> PROVE DInv'
<1> USE AgentFacts DEF End
<1>1. TypeOK'
  <2>1. "off" \in Places
    BY DEF Places
  <2>2. QED
    BY <2>1, FirstIndex DEF DInv, TypeOK
<1>2. Roles'
  BY DEF Roles, SenderPlaces, ReceiverPlaces, InClose
<1>3. DeletedInOrder'
  BY DEF DeletedInOrder, Clients
<1>4. ExitFirst'
  BY DEF ExitFirst, Finishing, InClose
<1>5. QED
  BY <1>1, <1>2, <1>3, <1>4 DEF DInv

\* The three steps of CloseSock keep the types.
LEMMA CloseSockTypes ==
    ASSUME TypeOK, NEW a \in Agents, caller[a] \in {"sending", "selecting", "finish"}, CloseSock(a)
    PROVE  TypeOK'
<1> USE ClientFacts
<1>1. CASE TestSock(a)
  <2>1. CASE m_sock[Client(a)] # INVALID_SOCKET
    <3>1. Step(a, "close", "closing") /\ caller' = caller
          /\ reg' = [reg EXCEPT ![a] = m_sock[Client(a)]] /\ UNCHANGED objects
      BY <1>1, <2>1 DEF TestSock, objects
    <3>2. Moves(a, {"closing"})
      BY <3>1, StepMoves
    <3>3. caller' \in [Agents -> Places] /\ reg' \in [Agents -> Fds \cup {INVALID_SOCKET}]
      BY <3>1 DEF TypeOK
    <3>4. UNCHANGED <<g_runing, g_readyCount, ended, objects>>
      BY <1>1, <3>1 DEF TestSock
    <3>5. QED
      BY <3>2, <3>3, <3>4, ThreadTypes DEF Places
  <2>2. CASE m_sock[Client(a)] = INVALID_SOCKET
    <3>1. ReturnTo(a) /\ m_isConn' = [m_isConn EXCEPT ![Client(a)] = FALSE]
          /\ UNCHANGED <<g_runing, g_readyCount, ended, g_clients, m_sock, owner>>
      BY <1>1, <2>2 DEF TestSock
    <3>2. Moves(a, {"send", "loop", "onrun", "delete"})
      BY <3>1, ReturnToMoves, MovesAgain
    <3>3. pc' \in [Agents -> Places] /\ idx' \in [Agents -> 1 .. pre_count]
      BY <3>2, MovesFacts DEF Places
    <3>4. caller' \in [Agents -> Places] /\ reg' \in [Agents -> Fds \cup {INVALID_SOCKET}]
      BY <3>1, ReturnToMoves DEF TypeOK, Places
    <3>5. QED
      BY <3>1, <3>3, <3>4 DEF TypeOK
  <2>3. QED
    BY <2>1, <2>2
<1>2. CASE CloseFd(a)
  <2>1. Moves(a, {"closed"})
    BY <1>2, StepMoves DEF CloseFd
  <2>2. pc' \in [Agents -> Places] /\ idx' \in [Agents -> 1 .. pre_count]
    BY <2>1, MovesFacts DEF Places
  <2>3. owner' \in [Fds -> Clients \cup {Nobody}]
    BY <1>2 DEF CloseFd, TypeOK
  <2>4. QED
    BY <1>2, <2>2, <2>3 DEF CloseFd, TypeOK
<1>3. CASE ClearSock(a)
  <2>1. /\ ReturnTo(a) /\ m_sock' = [m_sock EXCEPT ![Client(a)] = INVALID_SOCKET]
        /\ m_isConn' = [m_isConn EXCEPT ![Client(a)] = FALSE]
        /\ UNCHANGED <<g_runing, g_readyCount, ended, g_clients, owner>>
    BY <1>3 DEF ClearSock
  <2>2. Moves(a, {"send", "loop", "onrun", "delete"})
    BY <2>1, ReturnToMoves, MovesAgain
  <2>3. pc' \in [Agents -> Places] /\ idx' \in [Agents -> 1 .. pre_count]
    BY <2>2, MovesFacts DEF Places
  <2>4. caller' \in [Agents -> Places] /\ reg' \in [Agents -> Fds \cup {INVALID_SOCKET}]
    BY <2>1, ReturnToMoves DEF TypeOK, Places
  <2>5. QED
    BY <2>1, <2>3, <2>4 DEF TypeOK
<1>4. QED
  BY <1>1, <1>2, <1>3 DEF CloseSock

\* CloseSock of a sender: called after a failed send, it returns to the loop;
\* called from the last loop, it stays in it.
LEMMA SenderCloses ==
    ASSUME DInv, NEW t \in Threads, CloseSock(Sender(t))
    PROVE  DInv'
<1> DEFINE a == Sender(t)
<1> USE AgentFacts, ClientFacts
<1>1. pc[a] \in InClose /\ caller[a] \in {"sending", "finish"}
  BY DEF CloseSock, TestSock, CloseFd, ClearSock, At, Step, InClose, DInv, Roles
<1>2. g_runing' = g_runing /\ g_clients' = g_clients
  BY DEF CloseSock, TestSock, CloseFd, ClearSock
<1>3. TypeOK'
  BY <1>1, CloseSockTypes DEF DInv
<1>4. /\ Moves(a, {"closing", "closed"}) /\ idx' = idx /\ caller' = caller
      \/ ReturnTo(a)
  BY CloseSockMoves DEF DInv
<1>5. CASE Moves(a, {"closing", "closed"}) /\ idx' = idx /\ caller' = caller
  <2>1. pc'[a] \in InClose
    BY <1>5, MovesTo DEF DInv, InClose
  <2>2. {"closing", "closed"} \subseteq SenderPlaces \ {"finish", "delete"}
    BY DEF SenderPlaces, InClose
  <2>3. CASE caller[a] = "sending"
    <3>1. ~Finishing(t) /\ pc[a] # "done"
      BY <1>1, <2>3 DEF Finishing, InClose
    <3>2. QED
      BY <1>2, <1>3, <1>5, <2>2, <2>3, <3>1, SenderKeeps DEF DInv
  <2>4. CASE caller[a] = "finish"
    <3>1. Finishing(t)
      BY <1>1, <2>4 DEF Finishing
    <3>2. QED
      BY <1>2, <1>3, <1>5, <2>1, <2>2, <2>4, <3>1, FinishingKeeps DEF DInv
  <2>5. QED
    BY <1>1, <2>3, <2>4
<1>6. CASE ReturnTo(a)
  <2>1. \A b \in Agents : b # a => caller'[b] = caller[b]
    BY <1>6, ReturnToMoves DEF DInv, TypeOK
  <2>2. CASE caller[a] = "sending"
    <3>1. Moves(a, {"send", "loop"}) /\ ~Finishing(t) /\ pc[a] # "done"
      BY <1>1, <1>6, <2>2, ReturnToMoves DEF Finishing, InClose, DInv
    <3>2. {"send", "loop"} \subseteq SenderPlaces \ {"finish", "delete"}
      BY DEF SenderPlaces, InClose
    <3>3. pc'[a] \notin InClose
      BY <3>1, MovesTo DEF DInv, InClose
    <3>4. QED
      BY <1>2, <1>3, <2>1, <3>1, <3>2, <3>3, SenderKeeps DEF DInv
  <2>3. CASE caller[a] = "finish"
    <3>1. Moves(a, {"delete"}) /\ idx' = idx /\ Finishing(t)
      BY <1>1, <1>6, <2>3, ReturnToMoves DEF Finishing, DInv
    <3>2. {"delete"} \subseteq SenderPlaces
      BY DEF SenderPlaces
    <3>3. pc'[a] = "delete"
      BY <3>1, MovesTo DEF DInv
    <3>4. QED
      BY <1>2, <1>3, <2>1, <3>1, <3>2, <3>3, FinishingKeeps DEF DInv, InClose
  <2>4. QED
    BY <1>1, <2>2, <2>3
<1>7. QED
  BY <1>4, <1>5, <1>6

\* CloseSock of a receiver.
LEMMA ReceiverCloses ==
    ASSUME DInv, NEW t \in Threads, CloseSock(Receiver(t))
    PROVE  DInv'
<1> DEFINE a == Receiver(t)
<1> USE AgentFacts, ClientFacts
<1>1. pc[a] \in InClose /\ caller[a] = "selecting"
  BY DEF CloseSock, TestSock, CloseFd, ClearSock, At, Step, InClose, DInv, Roles
<1>2. g_runing' = g_runing /\ g_clients' = g_clients
  BY DEF CloseSock, TestSock, CloseFd, ClearSock
<1>3. TypeOK'
  BY <1>1, CloseSockTypes DEF DInv
<1>4. /\ Moves(a, {"closing", "closed"}) /\ caller' = caller
      \/ ReturnTo(a)
  BY CloseSockMoves DEF DInv
<1>5. CASE Moves(a, {"closing", "closed"}) /\ caller' = caller
  <2>1. pc'[a] # "undefined"
    BY <1>5, MovesTo DEF DInv
  <2>2. {"closing", "closed"} \subseteq ReceiverPlaces
    BY DEF ReceiverPlaces, InClose
  <2>3. QED
    BY <1>1, <1>2, <1>3, <1>5, <2>1, <2>2, ReceiverKeeps DEF DInv
<1>6. CASE ReturnTo(a)
  <2>1. Moves(a, {"onrun", "loop"}) /\ \A b \in Agents : b # a => caller'[b] = caller[b]
    BY <1>1, <1>6, ReturnToMoves DEF DInv, TypeOK
  <2>2. {"onrun", "loop"} \subseteq ReceiverPlaces
    BY DEF ReceiverPlaces
  <2>3. pc'[a] \notin InClose /\ pc'[a] # "undefined"
    BY <2>1, MovesTo DEF DInv, InClose
  <2>4. QED
    BY <1>2, <1>3, <2>1, <2>2, <2>3, ReceiverKeeps DEF DInv
<1>7. QED
  BY <1>4, <1>5, <1>6

\* The steps of a sender up to the barrier, and those of its sending loop.
LEMMA SenderSteps ==
    ASSUME DInv, NEW t \in Threads,
           \/ ReturnEarly(t) \/ Create(t) \/ Conn(t) \/ Ready(t) \/ TestRun(t)
           \/ SendCall(t) /\ ~End
    PROVE  DInv'
<1> DEFINE a == Sender(t)
<1> USE AgentFacts, ClientFacts DEF DInv
<1>2. pc[a] \in {"create", "conn", "ready", "send", "sending"}
  BY DEF ReturnEarly, Create, Conn, Ready, TestRun, SendCall, Step, At
<1>3. ~Finishing(t) /\ pc[a] # "done"
  BY <1>2 DEF Finishing, InClose
<1>4. g_runing' = g_runing /\ \A c \in Clients : g_clients'[c] = "deleted" => g_clients[c] = "deleted"
  BY DEF ReturnEarly, Create, Conn, Ready, TestRun, SendCall, objects, TypeOK
<1>5. /\ reg' = reg
      /\ \/ caller' = caller
         \/ caller' = [caller EXCEPT ![a] = "sending"] /\ SendCall(t)
  BY DEF ReturnEarly, Create, Conn, Ready, TestRun, SendCall, CallCloseSock
<1>6. \/ Moves(a, {"returned", "create", "conn", "ready", "barrier", "sending", "send", "loop"})
         /\ caller' = caller
      \/ Moves(a, {"close"}) /\ caller' = [caller EXCEPT ![a] = "sending"]
  <2>1. CASE ReturnEarly(t)
    <3>1. Moves(a, {"returned"})
      BY <2>1, StepMoves DEF ReturnEarly
    <3>2. QED
      BY <2>1, <3>1 DEF ReturnEarly, Moves
  <2>2. CASE Create(t)
    <3>1. Moves(a, {"create", "conn"})
      BY <2>2, NextClientMoves DEF Create
    <3>2. QED
      BY <2>2, <3>1 DEF Create, Moves
  <2>3. CASE Conn(t)
    <3>1. Moves(a, {"conn", "ready"})
      BY <2>3, NextClientMoves DEF Conn
    <3>2. QED
      BY <2>3, <3>1 DEF Conn, Moves
  <2>4. CASE Ready(t)
    <3>1. Moves(a, {"barrier"})
      BY <2>4, StepMoves DEF Ready
    <3>2. QED
      BY <2>4, <3>1 DEF Ready, Moves
  <2>5. CASE TestRun(t)
    <3>1. Moves(a, {"sending"}) \/ Moves(a, {"send", "loop"})
      BY <2>5, StepMoves, NextClientMoves DEF TestRun
    <3>2. QED
      BY <2>5, <3>1 DEF TestRun, Moves
  <2>6. CASE SendCall(t) /\ ~End
    <3>1. CASE CallCloseSock(a, "sending")
      <4>1. Step(a, "sending", "close") /\ caller' = [caller EXCEPT ![a] = "sending"]
        BY <3>1 DEF CallCloseSock
      <4>2. QED
        BY <4>1, StepMoves
    <3>2. CASE NextClient(a, "send", "loop") /\ caller' = caller
      <4>1. Moves(a, {"send", "loop"})
        BY <3>2, NextClientMoves
      <4>2. QED
        BY <3>2, <4>1 DEF Moves
    <3>3. QED
      BY <2>6, <3>1, <3>2 DEF SendCall
  <2>7. QED
    BY <2>1, <2>2, <2>3, <2>4, <2>5, <2>6
<1>7. PICK P : /\ P \subseteq SenderPlaces \ {"finish", "delete"} /\ Moves(a, P)
               /\ P \cap InClose = {} \/ caller'[a] = "sending"
  <2>1. /\ {"returned", "create", "conn", "ready", "barrier", "sending", "send", "loop"}
                \subseteq SenderPlaces \ {"finish", "delete"}
        /\ {"returned", "create", "conn", "ready", "barrier", "sending", "send", "loop"}
                \cap InClose = {}
        /\ {"close"} \subseteq SenderPlaces \ {"finish", "delete"}
    BY DEF SenderPlaces, InClose
  <2>2. caller' = [caller EXCEPT ![a] = "sending"] => caller'[a] = "sending"
    BY DEF TypeOK
  <2>3. QED
    BY <1>6, <2>1, <2>2
<1>8. Roles' /\ DeletedInOrder' /\ ExitFirst'
  <2>1. \A b \in Agents : b # a => caller'[b] = caller[b]
    BY <1>5 DEF TypeOK
  <2>2. pc'[a] \in InClose => caller'[a] = "sending"
    BY <1>7, MovesTo
  <2>3. QED
    BY <1>3, <1>4, <1>7, <2>1, <2>2, SenderKeeps
<1>9. TypeOK'
  <2>1. pc' \in [Agents -> Places] /\ idx' \in [Agents -> 1 .. pre_count]
    BY <1>7, MovesFacts, PlacesFacts
  <2>2. caller' \in [Agents -> Places] /\ reg' \in [Agents -> Fds \cup {INVALID_SOCKET}]
    BY <1>5 DEF TypeOK, Places
  <2>3. g_clients' \in [Clients -> {"nullptr", "alive", "deleted"}]
    BY DEF ReturnEarly, Create, Conn, Ready, TestRun, SendCall, objects, TypeOK
  <2>4. m_sock' \in [Clients -> Fds \cup {INVALID_SOCKET}] /\ m_isConn' \in [Clients -> BOOLEAN]
        /\ owner' \in [Fds -> Clients \cup {Nobody}]
    <3>1. CASE Conn(t)
      <4>1. CASE UNCHANGED <<owner, m_sock, m_isConn>>
        BY <4>1 DEF TypeOK
      <4>2. CASE ~UNCHANGED <<owner, m_sock, m_isConn>>
        <5>1. PICK f \in Fds : /\ owner' = [owner EXCEPT ![f] = Client(a)]
                              /\ m_sock' = [m_sock EXCEPT ![Client(a)] = f]
          BY <3>1, <4>2 DEF Conn
        <5>2. \/ m_isConn' = m_isConn
              \/ m_isConn' = [m_isConn EXCEPT ![Client(a)] = TRUE]
          BY <3>1, <4>2 DEF Conn
        <5>3. QED
          BY <5>1, <5>2 DEF TypeOK
      <4>3. QED
        BY <4>1, <4>2
    <3>2. CASE ~Conn(t)
      BY <3>2 DEF ReturnEarly, Create, Ready, TestRun, SendCall, objects, TypeOK
    <3>3. QED
      BY <3>1, <3>2
  <2>5. g_runing' \in BOOLEAN /\ ended' \in BOOLEAN /\ g_readyCount' \in Nat
    BY DEF ReturnEarly, Create, Conn, Ready, TestRun, SendCall, TypeOK
  <2>6. QED
    BY <2>1, <2>2, <2>3, <2>4, <2>5 DEF TypeOK
<1>10. QED
  BY <1>8, <1>9

\* The barrier opens for a sender, which starts its receiver.
LEMMA StartRecvKeeps == ASSUME DInv, NEW t \in Threads, StartRecv(t) PROVE DInv'
<1> USE AgentFacts DEF DInv, StartRecv, At, objects
<1>1. /\ pc'[Sender(t)] = "loop" /\ pc'[Receiver(t)] = "loop"
      /\ \A u \in Threads : u # t => /\ pc'[Sender(u)] = pc[Sender(u)]
                                     /\ pc'[Receiver(u)] = pc[Receiver(u)]
  BY DEF TypeOK
<1>2. TypeOK'
  BY DEF TypeOK, Places
<1>3. Roles'
  BY <1>1 DEF Roles, SenderPlaces, ReceiverPlaces, InClose
<1>4. \A u \in Threads : Finishing(u)' <=> Finishing(u)
  BY <1>1 DEF Finishing, InClose
<1>5. DeletedInOrder'
  BY <1>1, <1>4 DEF DeletedInOrder
<1>6. ExitFirst'
  BY <1>1, <1>4 DEF ExitFirst
<1>7. QED
  BY <1>2, <1>3, <1>5, <1>6

\* From the sending loop to its end: no client of the block has been deleted.
LEMMA SendLoopKeeps == ASSUME DInv, NEW t \in Threads, SendLoop(t) PROVE DInv'
<1> DEFINE a == Sender(t)
<1> USE AgentFacts DEF DInv
<1>1. pc[a] = "loop" /\ UNCHANGED <<g_runing, g_readyCount, ended, objects, reg, caller>>
  BY DEF SendLoop, At
<1>2. GoTo(a, "send") \/ (GoTo(a, "finish") /\ ~g_runing)
  BY DEF SendLoop, SendMore
<1>3. TypeOK'
  <2>1. \A p \in {"send", "finish"} : GoTo(a, p) => Moves(a, {p}) /\ {p} \in SUBSET Places
    BY GoToMoves DEF Places
  <2>2. QED
    BY <1>1, <1>2, <2>1, ThreadTypes DEF TypeOK
<1>4. CASE GoTo(a, "send")
  <2>1. Moves(a, {"send"}) /\ {"send"} \subseteq SenderPlaces \ {"finish", "delete"}
    BY <1>4, GoToMoves DEF SenderPlaces, InClose
  <2>2. pc'[a] \notin InClose /\ ~Finishing(t)
    BY <1>1, <2>1, MovesTo DEF InClose, Finishing
  <2>3. QED
    BY <1>1, <1>3, <2>1, <2>2, SenderKeeps DEF objects
<1>5. CASE GoTo(a, "finish") /\ ~g_runing
  <2>1. /\ pc'[a] = "finish"
        /\ \A b \in Agents : b # a => pc'[b] = pc[b] /\ idx'[b] = idx[b]
    <3>1. Moves(a, {"finish"})
      BY <1>5, GoToMoves
    <3>2. QED
      BY <3>1, MovesTo
  <2>2. \A u \in Threads : u # t => (Finishing(u)' <=> Finishing(u))
    BY <1>1, <2>1 DEF Finishing
  <2>3. \A i \in 1 .. pre_count : g_clients[<<t, i>>] # "deleted"
    BY <1>1 DEF DeletedInOrder, Finishing, InClose
  <2>4. Roles'
    BY <1>1, <2>1 DEF Roles, SenderPlaces, InClose
  <2>5. DeletedInOrder'
    BY <1>1, <2>1, <2>2, <2>3 DEF DeletedInOrder, objects
  <2>6. ExitFirst'
    BY <1>1, <1>5, <2>1, <2>2 DEF ExitFirst
  <2>7. QED
    BY <1>3, <2>4, <2>5, <2>6
<1>6. QED
  BY <1>2, <1>4, <1>5

\* The last loop closes a client ...
LEMMA FinishKeeps == ASSUME DInv, NEW t \in Threads, Finish(t) PROVE DInv'
<1> DEFINE a == Sender(t)
<1> USE AgentFacts DEF DInv
<1>1. /\ Step(a, "finish", "close") /\ caller' = [caller EXCEPT ![a] = "finish"]
      /\ UNCHANGED <<g_runing, g_readyCount, ended, objects, reg>>
  BY DEF Finish, CallCloseSock
<1>2. Moves(a, {"close"}) /\ idx' = idx /\ pc[a] = "finish"
  BY <1>1, StepMoves DEF At
<1>3. TypeOK'
  <2>1. caller' \in [Agents -> Places] /\ {"close"} \in SUBSET Places
    BY <1>1 DEF TypeOK, Places
  <2>2. QED
    BY <1>1, <1>2, <2>1, ThreadTypes DEF TypeOK
<1>4. /\ {"close"} \subseteq SenderPlaces /\ Finishing(t)
      /\ pc'[a] = "close" /\ caller'[a] = "finish"
      /\ \A b \in Agents : b # a => caller'[b] = caller[b]
  BY <1>1, <1>2, MovesTo DEF SenderPlaces, InClose, Finishing, TypeOK
<1>5. QED
  BY <1>1, <1>2, <1>3, <1>4, FinishingKeeps DEF objects, InClose

\* ... and deletes it.
LEMMA DeleteKeeps == ASSUME DInv, NEW t \in Threads, Delete(t) PROVE DInv'
<1> DEFINE a == Sender(t)
<1> USE AgentFacts DEF DInv
<1>1. /\ pc[a] = "delete"
      /\ g_clients' = [g_clients EXCEPT ![Client(a)] = "deleted"]
      /\ NextClient(a, "finish", "done")
      /\ UNCHANGED <<g_runing, g_readyCount, ended, m_sock, m_isConn, owner, reg, caller>>
  BY DEF Delete, At
<1>2. /\ Client(a) = <<t, idx[a]>> /\ idx[a] \in 1 .. pre_count
      /\ pc[a] \in {"finish", "delete"} /\ ~g_runing
  BY <1>1, ClientFacts DEF ExitFirst, Finishing
<1>3. /\ pc'[a] \in {"finish", "done"}
      /\ \A b \in Agents : b # a => pc'[b] = pc[b] /\ idx'[b] = idx[b]
      /\ pc'[a] = "finish" => idx'[a] = idx[a] + 1
  <2>1. /\ Moves(a, {"finish", "done"})
        /\ \/ pc' = [pc EXCEPT ![a] = "finish"] /\ idx' = [idx EXCEPT ![a] = idx[a] + 1]
           \/ pc' = [pc EXCEPT ![a] = "done"]
    BY <1>1, NextClientMoves
  <2>2. pc'[a] = "finish" => idx'[a] = idx[a] + 1
    BY <2>1 DEF TypeOK
  <2>3. QED
    BY <2>1, <2>2, MovesTo
<1>4. TypeOK'
  <2>1. Moves(a, {"finish", "done"}) /\ {"finish", "done"} \in SUBSET Places
    BY <1>1, NextClientMoves DEF Places
  <2>2. pc' \in [Agents -> Places] /\ idx' \in [Agents -> 1 .. pre_count]
    BY <2>1, MovesFacts
  <2>3. QED
    BY <1>1, <2>2 DEF TypeOK
<1>5. Roles'
  BY <1>1, <1>3 DEF Roles, SenderPlaces, InClose
<1>6. \A u \in Threads : u # t => (Finishing(u)' <=> Finishing(u))
  BY <1>1, <1>3 DEF Finishing
<1>7. DeletedInOrder'
  <2> SUFFICES ASSUME NEW u \in Threads, NEW i \in 1 .. pre_count,
                      g_clients'[<<u, i>>] = "deleted"
               PROVE  /\ ~g_runing'
                      /\ pc'[Sender(u)] = "done" \/ (Finishing(u)' /\ i < idx'[Sender(u)])
    BY DEF DeletedInOrder
  <2>1. CASE u # t
    <3>1. g_clients[<<u, i>>] = "deleted"
      BY <1>1, <1>2, <2>1 DEF Clients, TypeOK
    <3>2. QED
      BY <1>1, <1>3, <1>6, <2>1, <3>1 DEF DeletedInOrder
  <2>2. CASE u = t
    <3>1. i = idx[a] \/ g_clients[<<t, i>>] = "deleted"
      BY <1>1, <1>2, <2>2 DEF Clients, TypeOK
    <3>2. i <= idx[a]
      BY <1>1, <1>2, <3>1, EasyTcpAssumption DEF DeletedInOrder
    <3>3. pc'[a] = "finish" => i < idx'[a]
      BY <1>2, <1>3, <3>2, EasyTcpAssumption
    <3>4. QED
      BY <1>1, <1>2, <1>3, <2>2, <3>3 DEF Finishing
  <2>3. QED
    BY <2>1, <2>2
<1>8. ExitFirst'
  BY <1>1, <1>2, <1>3, <1>6 DEF ExitFirst
<1>9. QED
  BY <1>4, <1>5, <1>7, <1>8

\* The steps of a receiver, but for CloseSock's.
LEMMA ReceiverSteps ==
    ASSUME DInv, NEW t \in Threads,
           RecvLoop(t) \/ OnRun(t) \/ SelectRecv(t) \/ UseDeleted(Receiver(t))
    PROVE  DInv'
<1> DEFINE a == Receiver(t)
           P == {"done", "onrun", "loop", "selecting"}
<1> USE AgentFacts, ClientFacts DEF DInv
<1>1. UNCHANGED <<g_runing, g_readyCount, ended, objects, reg>>
  BY DEF RecvLoop, OnRun, SelectRecv, UseDeleted
<1>2. \/ Moves(a, P) /\ caller' = caller
      \/ Moves(a, {"close"}) /\ caller' = [caller EXCEPT ![a] = "selecting"]
      \/ Moves(a, {"undefined"}) /\ caller' = caller /\ ~g_runing
  <2>1. CASE RecvLoop(t)
    <3>1. CASE GoTo(a, "onrun") \/ GoTo(a, "done")
      <4>1. Moves(a, {"onrun"}) \/ Moves(a, {"done"})
        BY <3>1, GoToMoves
      <4>2. QED
        BY <2>1, <4>1 DEF RecvLoop, Moves
    <3>2. CASE pre_count > 1 /\ pc' = [pc EXCEPT ![a] = "onrun"] /\ idx' = [idx EXCEPT ![a] = 2]
      <4>1. 2 \in 1 .. pre_count
        BY <3>2, EasyTcpAssumption
      <4>2. QED
        BY <2>1, <3>2, <4>1 DEF RecvLoop, Moves
    <3>3. CASE UNCHANGED <<pc, idx>>
      <4>1. pc' = [pc EXCEPT ![a] = "loop"] /\ idx' = [idx EXCEPT ![a] = idx[a]]
        BY <2>1, <3>3 DEF RecvLoop, At, TypeOK
      <4>2. QED
        BY <2>1, <4>1 DEF RecvLoop, Moves
    <3>4. QED
      BY <2>1, <3>1, <3>2, <3>3 DEF RecvLoop
  <2>2. CASE OnRun(t)
    <3>1. Moves(a, {"selecting"}) \/ Moves(a, {"onrun", "loop"})
      BY <2>2, StepMoves, NextClientMoves DEF OnRun
    <3>2. QED
      BY <2>2, <3>1 DEF OnRun, Moves
  <2>3. CASE SelectRecv(t)
    <3>1. CASE CallCloseSock(a, "selecting")
      <4>1. Step(a, "selecting", "close") /\ caller' = [caller EXCEPT ![a] = "selecting"]
        BY <3>1 DEF CallCloseSock
      <4>2. QED
        BY <4>1, StepMoves
    <3>2. CASE NextClient(a, "onrun", "loop") /\ caller' = caller
      <4>1. Moves(a, {"onrun", "loop"})
        BY <3>2, NextClientMoves
      <4>2. QED
        BY <3>2, <4>1 DEF Moves
    <3>3. QED
      BY <2>3, <3>1, <3>2 DEF SelectRecv
  <2>4. CASE UseDeleted(a)
    <3>1. PICK place : Step(a, place, "undefined")
      BY <2>4 DEF UseDeleted
    <3>2. Moves(a, {"undefined"})
      BY <3>1, StepMoves
    <3>3. ~g_runing
      BY <2>4, DeletedMeansExit DEF UseDeleted
    <3>4. QED
      BY <2>4, <3>2, <3>3 DEF UseDeleted
  <2>5. QED
    BY <2>1, <2>2, <2>3, <2>4
<1>3. PICK Q : /\ Q \subseteq ReceiverPlaces /\ Moves(a, Q)
               /\ Q \cap InClose = {} \/ caller'[a] = "selecting"
               /\ "undefined" \in Q => ~g_runing
  <2>1. /\ P \subseteq ReceiverPlaces /\ P \cap InClose = {} /\ "undefined" \notin P
        /\ {"close"} \subseteq ReceiverPlaces /\ "undefined" \notin {"close"}
        /\ {"undefined"} \subseteq ReceiverPlaces /\ {"undefined"} \cap InClose = {}
    BY DEF ReceiverPlaces, InClose
  <2>2. caller' = [caller EXCEPT ![a] = "selecting"] => caller'[a] = "selecting"
    BY DEF TypeOK
  <2>3. QED
    BY <1>2, <2>1, <2>2
<1>4. /\ caller' \in [Agents -> Places]
      /\ \A b \in Agents : b # a => caller'[b] = caller[b]
  BY <1>2 DEF TypeOK, Places
<1>5. TypeOK'
  BY <1>1, <1>3, <1>4, ThreadTypes, PlacesFacts DEF TypeOK
<1>6. /\ pc'[a] \in InClose => caller'[a] = "selecting"
      /\ pc'[a] = "undefined" => ~g_runing
  BY <1>3, MovesTo
<1>7. QED
  BY <1>1, <1>3, <1>4, <1>5, <1>6, ReceiverKeeps DEF objects

LEMMA DNext == DInv /\ [Next]_vars => DInv'
<1> SUFFICES ASSUME DInv, [Next]_vars PROVE DInv'
  OBVIOUS
<1> USE AgentFacts
<1>1. ASSUME NEW t \in Threads, SendFunc(t) PROVE DInv'
  <2>1. CASE UseDeleted(Sender(t))
    <3>1. pc[Sender(t)] # "done" /\ g_clients[Client(Sender(t))] = "deleted"
      BY <2>1 DEF UseDeleted, Step, At
    <3>2. QED
      BY <3>1, SenderMeetsLive
  <2>2. CASE SendCall(t)
    <3>1. CASE End
      BY <2>2, <3>1, EndKeeps DEF SendCall
    <3>2. CASE ~End
      BY <2>2, <3>2, SenderSteps
    <3>3. QED
      BY <3>1, <3>2
  <2>3. QED
    BY <1>1, <2>1, <2>2, SenderSteps, StartRecvKeeps, SendLoopKeeps, FinishKeeps, DeleteKeeps,
       SenderCloses DEF SendFunc
<1>2. ASSUME NEW t \in Threads, RecvFunc(t) PROVE DInv'
  BY <1>2, ReceiverSteps, ReceiverCloses DEF RecvFunc
<1>3. CASE Exit
  <2>1. g_runing' = FALSE /\ UNCHANGED <<g_readyCount, ended, objects, threads>>
    BY <1>3 DEF Exit
  <2>2. \A t \in Threads : Finishing(t)' <=> Finishing(t)
    BY <2>1 DEF Finishing, threads
  <2>3. QED
    BY <2>1, <2>2 DEF DInv, TypeOK, Roles, DeletedInOrder, ExitFirst, objects, threads
<1>4. CASE MainReturns
  BY <1>4, EndKeeps DEF MainReturns
<1>5. CASE UNCHANGED vars
  BY <1>5 DEF vars, objects, threads, DInv, TypeOK, Roles, DeletedInOrder, ExitFirst, Finishing,
              Sender, Receiver
<1>6. QED
  BY <1>1, <1>2, <1>3, <1>4, <1>5 DEF Next

\* The types, the roles of the threads and the order of deletion.
THEOREM DeletionInvariant == Spec => []DInv
<1>1. QED
  BY DInit, DNext, PTL DEF Spec

\* A deleted client is used by a receiving thread only, and only after exit.
THEOREM DeletedOnlyAtExitHolds == Spec => []DeletedOnlyAtExit
<1>1. ASSUME DInv, NEW a \in Agents, Dangling(a)
      PROVE  a[1] = "RecvFunc" /\ ~g_runing
  <2>1. PICK t \in Threads : a = Sender(t) \/ a = Receiver(t)
    BY AgentFacts
  <2>2. CASE a = Sender(t)
    <3>1. pc[a] \notin {"undefined", "onrun", "selecting"}
      BY <1>1, <2>2 DEF DInv, Roles, SenderPlaces, InClose
    <3>2. g_clients[Client(a)] = "deleted" /\ pc[a] # "done"
      BY <1>1, <3>1 DEF Dangling
    <3>3. QED
      BY <1>1, <2>2, <3>2, SenderMeetsLive
  <2>3. CASE a = Receiver(t)
    BY <1>1, <2>3, AgentFacts, DeletedMeansExit DEF Dangling, DInv, ExitFirst
  <2>4. QED
    BY <2>1, <2>2, <2>3
<1>2. DInv => DeletedOnlyAtExit
  BY <1>1 DEF DeletedOnlyAtExit
<1>3. QED
  BY <1>2, DeletionInvariant, PTL

-----------------------------------------------------------------------------
(***************************************************************************)
(* Part two.                                                               *)
(***************************************************************************)

BeforePlaces == {"create", "conn", "ready", "returned"}

\* Thread t has not counted itself in g_readyCount.
Before(t) == pc[Sender(t)] \in BeforePlaces

Counted == {t \in Threads : ~Before(t)}

AllCounted == \A t \in Threads : ~Before(t)

CountInv == ~ended => g_readyCount = Cardinality(Counted)

\* An agent past the barrier, or at its end.
Past(a) == pc[a] \notin BeforePlaces \cup {"barrier", "off"}

\* Nobody passes the barrier before all threads have counted themselves ...
BarrierInv == \A a \in Agents : Past(a) => AllCounted

\* ... and until then every socket that was opened is still its client's.
OpenedInv == ~AllCounted =>
    \A c \in Clients : m_sock[c] # INVALID_SOCKET => owner[m_sock[c]] = c

OInv == DInv /\ CountInv /\ BarrierInv /\ OpenedInv /\ OwnSocket

LEMMA CountedFacts ==
    /\ IsFiniteSet(Threads) /\ Cardinality(Threads) = g_thread_count
    /\ IsFiniteSet(Counted) /\ Cardinality(Counted) \in Nat
    /\ Cardinality(Counted) >= g_thread_count => AllCounted
<1>1. IsFiniteSet(Threads) /\ Cardinality(Threads) = g_thread_count
  BY EasyTcpAssumption, FS_Interval DEF Threads
<1>2. Counted \subseteq Threads
  BY DEF Counted
<1>3. IsFiniteSet(Counted) /\ Cardinality(Counted) \in Nat
  BY <1>1, <1>2, FS_Subset, FS_CardinalityType
<1>4. ASSUME Cardinality(Counted) >= g_thread_count PROVE AllCounted
  <2>1. Counted = Threads
    BY <1>1, <1>2, <1>3, <1>4, FS_Subset, EasyTcpAssumption
  <2>2. QED
    BY <2>1 DEF Counted, AllCounted
<1>5. QED
  BY <1>1, <1>3, <1>4

\* OwnSocket, when sockets are only closed and forgotten, and a thread that goes
\* into closing has read its client's m_sock.
LEMMA OwnSocketKept ==
    ASSUME TypeOK, TypeOK', OwnSocket,
           \A c \in Clients : m_sock'[c] \in {m_sock[c], INVALID_SOCKET},
           \A f \in Fds : owner'[f] \in {owner[f], Nobody},
           \A b \in Agents : pc'[b] = "closing" =>
               /\ Client(b)' = Client(b)
               /\ \/ reg'[b] = m_sock[Client(b)]
                  \/ pc[b] = "closing" /\ reg'[b] = reg[b]
    PROVE  OwnSocket'
<1> SUFFICES ASSUME NEW c \in Clients, NEW s \in Held(c)', s # INVALID_SOCKET
             PROVE  owner'[s] \in {c, Nobody}
  BY DEF OwnSocket
<1>1. s \in Held(c)
  <2>1. CASE s = m_sock'[c]
    BY <2>1 DEF Held
  <2>2. CASE s # m_sock'[c]
    <3>1. PICK b \in Agents : pc'[b] = "closing" /\ Client(b)' = c /\ s = reg'[b]
      BY <2>2 DEF Held
    <3>2. QED
      BY <3>1 DEF Held
  <2>3. QED
    BY <2>1, <2>2
<1>2. s \in Fds
  <2>1. s = m_sock[c] \/ \E b \in Agents : s = reg[b]
    BY <1>1 DEF Held
  <2>2. QED
    BY <2>1 DEF TypeOK
<1>3. QED
  BY <1>1, <1>2 DEF OwnSocket

\* A step of an agent past the barrier, which stays there.
LEMMA LateStep ==
    ASSUME OInv, DInv', NEW a \in Agents, Past(a),
           NEW P, P \cap (BeforePlaces \cup {"barrier", "off"}) = {}, Moves(a, P),
           UNCHANGED <<g_readyCount, ended>>
    PROVE  (CountInv /\ BarrierInv /\ OpenedInv)'
<1> USE DEF OInv, DInv
<1>1. AllCounted /\ pc'[a] \in P /\ \A b \in Agents : b # a => pc'[b] = pc[b]
  BY MovesTo DEF BarrierInv
<1>2. AllCounted'
  BY <1>1, AgentFacts DEF AllCounted, Before
<1>3. Counted = Threads /\ Counted' = Threads
  BY <1>1, <1>2 DEF AllCounted, Counted
<1>4. QED
  BY <1>2, <1>3 DEF CountInv, BarrierInv, OpenedInv

\* While somebody has not counted itself, nobody is in CloseSock.
LEMMA EarlyNobodyCloses ==
    ASSUME OInv, ~AllCounted, NEW b \in Agents
    PROVE  pc[b] \in BeforePlaces \cup {"barrier", "off"}
BY DEF OInv, BarrierInv, Past

\* A step of a sender before the barrier.
LEMMA EarlyStep ==
    ASSUME OInv, NEW t \in Threads, Before(t),
           NEW P \in SUBSET (BeforePlaces \cup {"barrier"}), Moves(Sender(t), P)
    PROVE  /\ \A b \in Agents : pc'[b] \in BeforePlaces \cup {"barrier", "off"}
           /\ \A u \in Threads : u # t => (Before(u)' <=> Before(u))
           /\ Before(t)' <=> pc'[Sender(t)] # "barrier"
           /\ BarrierInv'
<1> USE AgentFacts DEF OInv, DInv
<1>1. ~AllCounted
  BY DEF AllCounted
<1>2. pc'[Sender(t)] \in P /\ \A b \in Agents : b # Sender(t) => pc'[b] = pc[b]
  BY MovesTo
<1>3. \A b \in Agents : pc'[b] \in BeforePlaces \cup {"barrier", "off"}
  BY <1>1, <1>2, EarlyNobodyCloses
<1>4. QED
  BY <1>2, <1>3 DEF Before, BeforePlaces, BarrierInv, Past

\* A late step that does not touch sockets.
LEMMA LateQuiet ==
    ASSUME OInv, DInv', NEW a \in Agents, Past(a),
           NEW P, P \cap (BeforePlaces \cup {"barrier", "off", "closing"}) = {}, Moves(a, P),
           UNCHANGED <<g_readyCount, ended, m_sock, owner, reg>>
    PROVE  OInv'
<1> USE DEF OInv, DInv
<1>1. (CountInv /\ BarrierInv /\ OpenedInv)'
  BY LateStep
<1>2. pc'[a] # "closing" /\ \A b \in Agents : b # a => pc'[b] = pc[b] /\ idx'[b] = idx[b]
  BY MovesTo
<1>3. \A b \in Agents : pc'[b] = "closing" => Client(b)' = Client(b) /\ pc[b] = "closing"
  BY <1>2 DEF Client
<1>4. OwnSocket'
  BY <1>3, OwnSocketKept
<1>5. QED
  BY <1>1, <1>4

\* CloseSock's steps.
LEMMA CloseSockKeeps ==
    ASSUME OInv, DInv', NEW a \in Agents, CloseSock(a)
    PROVE  OInv'
<1> USE AgentFacts, ClientFacts DEF OInv, DInv
<1>1. pc[a] \in InClose /\ Past(a)
  BY DEF CloseSock, TestSock, CloseFd, ClearSock, At, Step, InClose, Past, BeforePlaces
<1>2. caller[a] \in {"sending", "selecting", "finish"}
  BY <1>1 DEF Roles
<1>3. UNCHANGED <<g_readyCount, ended>>
  BY DEF CloseSock, TestSock, CloseFd, ClearSock
<1>4. ASSUME ReturnTo(a)
      PROVE  /\ Moves(a, {"send", "loop", "onrun", "delete"})
             /\ pc'[a] # "closing"
             /\ \A b \in Agents : b # a => pc'[b] = pc[b] /\ idx'[b] = idx[b] /\ reg'[b] = reg[b]
  <2>1. Moves(a, {"send", "loop"}) \/ Moves(a, {"onrun", "loop"}) \/ Moves(a, {"delete"})
    BY <1>2, <1>4, ReturnToMoves
  <2>2. Moves(a, {"send", "loop", "onrun", "delete"})
    BY <2>1 DEF Moves
  <2>3. \A b \in Agents : b # a => reg'[b] = reg[b]
    BY <1>4, ReturnToMoves DEF TypeOK
  <2>4. QED
    BY <2>2, <2>3, MovesTo
<1>5. (CountInv /\ BarrierInv /\ OpenedInv)'
  <2>1. Moves(a, {"closing", "closed", "send", "loop", "onrun", "delete"})
    BY <1>4, CloseSockMoves DEF Moves
  <2>2. {"closing", "closed", "send", "loop", "onrun", "delete"}
            \cap (BeforePlaces \cup {"barrier", "off"}) = {}
    BY DEF BeforePlaces
  <2>3. QED
    BY <1>1, <1>3, <2>1, <2>2, LateStep
<1>6. OwnSocket'
  <2>1. CASE TestSock(a)
    <3>1. m_sock' = m_sock /\ owner' = owner
      BY <2>1 DEF TestSock
    <3>2. \A b \in Agents : pc'[b] = "closing" =>
             /\ Client(b)' = Client(b)
             /\ \/ reg'[b] = m_sock[Client(b)]
                \/ pc[b] = "closing" /\ reg'[b] = reg[b]
      <4>1. CASE ReturnTo(a)
        BY <1>4, <4>1 DEF Client
      <4>2. CASE Step(a, "close", "closing") /\ reg' = [reg EXCEPT ![a] = m_sock[Client(a)]]
        <5>1. idx' = idx /\ \A b \in Agents : b # a => pc'[b] = pc[b]
          BY <4>2, StepMoves, MovesTo
        <5>2. /\ reg'[a] = m_sock[Client(a)]
              /\ \A b \in Agents : b # a => reg'[b] = reg[b]
          BY <4>2 DEF TypeOK
        <5>3. QED
          BY <5>1, <5>2 DEF Client
      <4>3. QED
        BY <2>1, <4>1, <4>2 DEF TestSock
    <3>3. QED
      BY <3>1, <3>2, OwnSocketKept
  <2>2. CASE CloseFd(a)
    <3>1. m_sock' = m_sock /\ reg' = reg /\ \A f \in Fds : owner'[f] \in {owner[f], Nobody}
      BY <2>2 DEF CloseFd
    <3>2. Moves(a, {"closed"}) /\ idx' = idx
      BY <2>2, StepMoves DEF CloseFd
    <3>3. \A b \in Agents : pc'[b] = "closing" => Client(b)' = Client(b) /\ pc[b] = "closing"
      BY <3>2, MovesTo DEF Client
    <3>4. QED
      BY <3>1, <3>3, OwnSocketKept
  <2>3. CASE ClearSock(a)
    <3>1. /\ owner' = owner /\ ReturnTo(a)
          /\ m_sock' = [m_sock EXCEPT ![Client(a)] = INVALID_SOCKET]
      BY <2>3 DEF ClearSock
    <3>2. \A c \in Clients : m_sock'[c] \in {m_sock[c], INVALID_SOCKET}
      BY <3>1 DEF TypeOK
    <3>3. \A b \in Agents : pc'[b] = "closing" =>
             Client(b)' = Client(b) /\ pc[b] = "closing" /\ reg'[b] = reg[b]
      BY <1>4, <3>1 DEF Client
    <3>4. QED
      BY <3>1, <3>2, <3>3, OwnSocketKept
  <2>4. QED
    BY <2>1, <2>2, <2>3 DEF CloseSock
<1>7. QED
  BY <1>5, <1>6

\* The other late steps of a sender.
LEMMA LateSenderSteps ==
    ASSUME OInv, DInv', NEW t \in Threads,
           SendLoop(t) \/ TestRun(t) \/ (SendCall(t) /\ ~End) \/ Finish(t) \/ Delete(t)
    PROVE  OInv'
<1> DEFINE a == Sender(t)
           P == {"send", "finish", "sending", "loop", "close", "done"}
<1> USE AgentFacts DEF OInv, DInv
<1>1. UNCHANGED <<g_readyCount, ended, m_sock, owner, reg>>
  BY DEF SendLoop, TestRun, SendCall, Finish, Delete, objects
<1>2. Past(a)
  BY DEF SendLoop, TestRun, SendCall, Finish, Delete, CallCloseSock, Step, At, Past, BeforePlaces
<1>3. Moves(a, P)
  <2>1. CASE SendLoop(t)
    <3>1. Moves(a, {"send"}) \/ Moves(a, {"finish"})
      BY <2>1, GoToMoves DEF SendLoop
    <3>2. QED
      BY <3>1 DEF Moves
  <2>2. CASE TestRun(t)
    <3>1. Moves(a, {"sending"}) \/ Moves(a, {"send", "loop"})
      BY <2>2, StepMoves, NextClientMoves DEF TestRun
    <3>2. QED
      BY <3>1 DEF Moves
  <2>3. CASE SendCall(t) /\ ~End
    <3>1. Moves(a, {"close"}) \/ Moves(a, {"send", "loop"})
      BY <2>3, StepMoves, NextClientMoves DEF SendCall, CallCloseSock
    <3>2. QED
      BY <3>1 DEF Moves
  <2>4. CASE Finish(t)
    <3>1. Moves(a, {"close"})
      BY <2>4, StepMoves DEF Finish, CallCloseSock
    <3>2. QED
      BY <3>1 DEF Moves
  <2>5. CASE Delete(t)
    <3>1. Moves(a, {"finish", "done"})
      BY <2>5, NextClientMoves DEF Delete
    <3>2. QED
      BY <3>1 DEF Moves
  <2>6. QED
    BY <2>1, <2>2, <2>3, <2>4, <2>5
<1>4. P \cap (BeforePlaces \cup {"barrier", "off", "closing"}) = {}
  BY DEF BeforePlaces
<1>5. QED
  BY <1>1, <1>2, <1>3, <1>4, LateQuiet

\* The other steps of a receiver.
LEMMA LateReceiverSteps ==
    ASSUME OInv, DInv', NEW t \in Threads,
           RecvLoop(t) \/ OnRun(t) \/ SelectRecv(t) \/ UseDeleted(Receiver(t))
    PROVE  OInv'
<1> DEFINE a == Receiver(t)
           P == {"onrun", "loop", "done", "selecting", "close", "undefined"}
<1> USE AgentFacts DEF OInv, DInv
<1>1. UNCHANGED <<g_readyCount, ended, m_sock, owner, reg>>
  BY DEF RecvLoop, OnRun, SelectRecv, UseDeleted, objects
<1>2. Past(a)
  BY DEF RecvLoop, OnRun, SelectRecv, UseDeleted, CallCloseSock, Step, At, Past, BeforePlaces
<1>3. Moves(a, P)
  <2>1. CASE RecvLoop(t)
    <3>1. CASE GoTo(a, "onrun") \/ GoTo(a, "done")
      <4>1. Moves(a, {"onrun"}) \/ Moves(a, {"done"})
        BY <3>1, GoToMoves
      <4>2. QED
        BY <4>1 DEF Moves
    <3>2. CASE pre_count > 1 /\ pc' = [pc EXCEPT ![a] = "onrun"] /\ idx' = [idx EXCEPT ![a] = 2]
      <4>1. 2 \in 1 .. pre_count
        BY <3>2, EasyTcpAssumption
      <4>2. QED
        BY <3>2, <4>1 DEF Moves
    <3>3. CASE UNCHANGED <<pc, idx>>
      <4>1. pc' = [pc EXCEPT ![a] = "loop"] /\ idx' = [idx EXCEPT ![a] = idx[a]]
        BY <2>1, <3>3 DEF RecvLoop, At, TypeOK
      <4>2. QED
        BY <4>1 DEF Moves, TypeOK
    <3>4. QED
      BY <2>1, <3>1, <3>2, <3>3 DEF RecvLoop
  <2>2. CASE OnRun(t)
    <3>1. Moves(a, {"selecting"}) \/ Moves(a, {"onrun", "loop"})
      BY <2>2, StepMoves, NextClientMoves DEF OnRun
    <3>2. QED
      BY <3>1 DEF Moves
  <2>3. CASE SelectRecv(t)
    <3>1. Moves(a, {"close"}) \/ Moves(a, {"onrun", "loop"})
      BY <2>3, StepMoves, NextClientMoves DEF SelectRecv, CallCloseSock
    <3>2. QED
      BY <3>1 DEF Moves
  <2>4. CASE UseDeleted(a)
    <3>1. PICK place : Step(a, place, "undefined")
      BY <2>4 DEF UseDeleted
    <3>2. Moves(a, {"undefined"})
      BY <3>1, StepMoves
    <3>3. QED
      BY <3>2 DEF Moves
  <2>5. QED
    BY <2>1, <2>2, <2>3, <2>4
<1>4. P \cap (BeforePlaces \cup {"barrier", "off", "closing"}) = {}
  BY DEF BeforePlaces
<1>5. QED
  BY <1>1, <1>2, <1>3, <1>4, LateQuiet

\* The steps of a sender before the barrier.
LEMMA EarlySteps ==
    ASSUME OInv, DInv', NEW t \in Threads, ReturnEarly(t) \/ Create(t) \/ Conn(t) \/ Ready(t)
    PROVE  OInv'
<1> DEFINE a == Sender(t)
           P == BeforePlaces \cup {"barrier"}
<1> USE AgentFacts DEF OInv, DInv
<1>1. Before(t) /\ ~ended /\ ended' = ended
  BY DEF ReturnEarly, Create, Conn, Ready, Step, At, Before, BeforePlaces
<1>2. /\ Moves(a, P)
      /\ IF Ready(t) THEN pc'[a] = "barrier" ELSE pc'[a] # "barrier"
  <2>1. CASE ReturnEarly(t)
    <3>1. Moves(a, {"returned"}) /\ pc[a] \in {"create", "conn"}
      BY <2>1, StepMoves DEF ReturnEarly, At
    <3>2. Moves(a, P)
      BY <3>1 DEF Moves, BeforePlaces
    <3>3. pc'[a] # "barrier"
      BY <3>1, MovesTo
    <3>4. QED
      BY <3>1, <3>2, <3>3 DEF Ready, Step, At
  <2>2. CASE Create(t)
    <3>1. Moves(a, {"create", "conn"}) /\ pc[a] = "create"
      BY <2>2, NextClientMoves DEF Create, At
    <3>2. Moves(a, P)
      BY <3>1 DEF Moves, BeforePlaces
    <3>3. pc'[a] # "barrier"
      BY <3>1, MovesTo
    <3>4. QED
      BY <3>1, <3>2, <3>3 DEF Ready, Step, At
  <2>3. CASE Conn(t)
    <3>1. Moves(a, {"conn", "ready"}) /\ pc[a] = "conn"
      BY <2>3, NextClientMoves DEF Conn, At
    <3>2. Moves(a, P)
      BY <3>1 DEF Moves, BeforePlaces
    <3>3. pc'[a] # "barrier"
      BY <3>1, MovesTo
    <3>4. QED
      BY <3>1, <3>2, <3>3 DEF Ready, Step, At
  <2>4. CASE Ready(t)
    <3>1. Moves(a, {"barrier"})
      BY <2>4, StepMoves DEF Ready
    <3>2. Moves(a, P)
      BY <3>1 DEF Moves
    <3>3. pc'[a] = "barrier"
      BY <3>1, MovesTo
    <3>4. QED
      BY <2>4, <3>2, <3>3
  <2>5. QED
    BY <2>1, <2>2, <2>3, <2>4
<1>3. /\ \A b \in Agents : pc'[b] \in BeforePlaces \cup {"barrier", "off"}
      /\ \A u \in Threads : u # t => (Before(u)' <=> Before(u))
      /\ Before(t)' <=> pc'[a] # "barrier"
      /\ BarrierInv'
  BY <1>1, <1>2, EarlyStep
<1>4. CountInv'
  <2>1. CASE Ready(t)
    <3>1. Counted' = Counted \cup {t} /\ t \notin Counted
      BY <1>1, <1>2, <1>3, <2>1 DEF Counted
    <3>2. Cardinality(Counted \cup {t}) = Cardinality(Counted) + 1
      BY <3>1, CountedFacts, FS_AddElement
    <3>3. QED
      BY <1>1, <2>1, <3>1, <3>2 DEF CountInv, Ready
  <2>2. CASE ~Ready(t)
    <3>1. Counted' = Counted
      BY <1>1, <1>2, <1>3, <2>2 DEF Counted
    <3>2. g_readyCount' = g_readyCount
      BY <2>2 DEF ReturnEarly, Create, Conn
    <3>3. QED
      BY <1>1, <3>1, <3>2 DEF CountInv
  <2>3. QED
    BY <2>1, <2>2
<1>5. /\ ~AllCounted
      /\ \A c \in Clients : m_sock[c] # INVALID_SOCKET => owner[m_sock[c]] = c
  BY <1>1 DEF AllCounted, OpenedInv
<1>6. \A c \in Clients : m_sock'[c] # INVALID_SOCKET => owner'[m_sock'[c]] = c
  <2>1. CASE UNCHANGED <<owner, m_sock>>
    BY <1>5, <2>1
  <2>2. CASE ~UNCHANGED <<owner, m_sock>>
    <3>1. PICK f \in Fds : /\ owner[f] = Nobody
                           /\ owner' = [owner EXCEPT ![f] = Client(a)]
                           /\ m_sock' = [m_sock EXCEPT ![Client(a)] = f]
      BY <2>2 DEF ReturnEarly, Create, Conn, Ready, objects
    <3>2. ASSUME NEW c \in Clients, m_sock'[c] # INVALID_SOCKET
          PROVE  owner'[m_sock'[c]] = c
      <4>1. CASE c = Client(a)
        BY <3>1, <4>1 DEF TypeOK
      <4>2. CASE c # Client(a)
        <5>1. m_sock'[c] = m_sock[c] /\ owner[m_sock[c]] = c /\ m_sock[c] \in Fds
          BY <1>5, <3>1, <3>2, <4>2 DEF TypeOK
        <5>2. m_sock[c] # f
          BY <3>1, <5>1, EasyTcpAssumption
        <5>3. QED
          BY <3>1, <5>1, <5>2 DEF TypeOK
      <4>3. QED
        BY <4>1, <4>2
    <3>3. QED
      BY <3>2
  <2>3. QED
    BY <2>1, <2>2
<1>7. OwnSocket'
  <2>1. \A b \in Agents : pc'[b] # "closing"
    BY <1>3 DEF BeforePlaces
  <2>2. QED
    BY <1>6, <2>1 DEF OwnSocket, Held
<1>8. QED
  BY <1>3, <1>4, <1>6, <1>7 DEF OpenedInv

\* The barrier opens when all the threads have counted themselves.
LEMMA StartRecvOwn == ASSUME OInv, DInv', NEW t \in Threads, StartRecv(t) PROVE OInv'
<1> USE AgentFacts DEF OInv, DInv
<1>1. /\ pc[Sender(t)] = "barrier" /\ ~ended
      /\ UNCHANGED <<g_readyCount, ended, objects, idx, reg>>
      /\ pc' = [pc EXCEPT ![Sender(t)] = "loop", ![Receiver(t)] = "loop"]
  BY DEF StartRecv, At
<1>2. AllCounted
  BY <1>1, CountedFacts DEF CountInv, StartRecv, AllReady
<1>3. \A b \in Agents : pc'[b] = pc[b] \/ pc'[b] = "loop"
  BY <1>1 DEF TypeOK
<1>4. AllCounted'
  BY <1>2, <1>3 DEF AllCounted, Before, BeforePlaces
<1>5. Counted = Threads /\ Counted' = Threads
  BY <1>2, <1>4 DEF AllCounted, Counted
<1>6. (CountInv /\ BarrierInv /\ OpenedInv)'
  BY <1>1, <1>4, <1>5 DEF CountInv, BarrierInv, OpenedInv
<1>7. OwnSocket'
  <2>1. \A b \in Agents : pc'[b] = "closing" => Client(b)' = Client(b) /\ pc[b] = "closing"
    BY <1>1, <1>3 DEF Client
  <2>2. QED
    BY <1>1, <2>1, OwnSocketKept DEF objects
<1>8. QED
  BY <1>6, <1>7

\* The process ends.
LEMMA EndOwn == ASSUME DInv', End PROVE (CountInv /\ BarrierInv /\ OpenedInv /\ OwnSocket)'
<1>1. /\ ended' = TRUE /\ \A a \in Agents : pc'[a] = "off"
      /\ \A c \in Clients : m_sock'[c] = INVALID_SOCKET
  BY DEF End
<1>2. CountInv' /\ BarrierInv' /\ OpenedInv'
  BY <1>1 DEF CountInv, BarrierInv, OpenedInv, Past
<1>3. OwnSocket'
  BY <1>1 DEF OwnSocket, Held
<1>4. QED
  BY <1>2, <1>3

LEMMA OInit == Init => OInv
<1> SUFFICES ASSUME Init PROVE OInv
  OBVIOUS
<1> USE AgentFacts DEF Init
<1>1. \A a \in Agents : pc[a] \in {"create", "off"}
  OBVIOUS
<1>2. Counted = {}
  BY DEF Counted, Before, BeforePlaces, Sender, Agents
<1>3. CountInv
  BY <1>2, FS_EmptySet DEF CountInv
<1>4. BarrierInv /\ OpenedInv
  BY <1>1 DEF BarrierInv, Past, BeforePlaces, OpenedInv
<1>5. OwnSocket
  BY <1>1 DEF OwnSocket, Held
<1>6. QED
  BY <1>3, <1>4, <1>5, DInit DEF OInv

LEMMA ONext == OInv /\ [Next]_vars => OInv'
<1> SUFFICES ASSUME OInv, [Next]_vars PROVE OInv'
  OBVIOUS
<1>1. DInv /\ DInv'
  BY DNext DEF OInv
<1>2. ASSUME NEW t \in Threads, SendFunc(t) PROVE OInv'
  <2>1. CASE UseDeleted(Sender(t))
    <3>1. pc[Sender(t)] # "done" /\ g_clients[Client(Sender(t))] = "deleted"
      BY <2>1, AgentFacts DEF UseDeleted, Step, At
    <3>2. QED
      BY <1>1, <3>1, SenderMeetsLive
  <2>2. CASE SendCall(t)
    <3>1. CASE End
      BY <1>1, <3>1, EndOwn DEF OInv
    <3>2. CASE ~End
      BY <1>1, <2>2, <3>2, LateSenderSteps
    <3>3. QED
      BY <3>1, <3>2
  <2>3. QED
    BY <1>1, <1>2, <2>1, <2>2, AgentFacts, EarlySteps, StartRecvOwn, LateSenderSteps, CloseSockKeeps
    DEF SendFunc
<1>3. ASSUME NEW t \in Threads, RecvFunc(t) PROVE OInv'
  BY <1>1, <1>3, AgentFacts, LateReceiverSteps, CloseSockKeeps DEF RecvFunc
<1>4. CASE Exit
  BY <1>1, <1>4 DEF Exit, objects, threads, OInv, CountInv, BarrierInv, OpenedInv, OwnSocket,
                    Counted, AllCounted, Before, Past, Held, Client, Sender
<1>5. CASE MainReturns
  BY <1>1, <1>5, EndOwn DEF MainReturns, OInv
<1>6. CASE UNCHANGED vars
  BY <1>1, <1>6 DEF vars, objects, threads, OInv, CountInv, BarrierInv, OpenedInv, OwnSocket,
                    Counted, AllCounted, Before, Past, Held, Client, Sender
<1>7. QED
  BY <1>2, <1>3, <1>4, <1>5, <1>6 DEF Next

\* Nobody closes a socket before all have been opened, so that a number closed
\* twice is never another client's.
THEOREM OwnSocketHolds == Spec => []OwnSocket
<1>1. OInv => OwnSocket
  BY DEF OInv
<1>2. QED
  BY <1>1, OInit, ONext, PTL DEF Spec
=============================================================================
