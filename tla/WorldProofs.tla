---------------------------- MODULE WorldProofs -----------------------------
(***************************************************************************)
(* The lock-step World, for any number of connections, descriptors,        *)
(* messages and frames: sessions belong to their clients, messages are     *)
(* handled for the connection they came from, sessions kill the process    *)
(* only through an empty one that GetUser made, every key is in one frame, *)
(* and the World implements FrameServer.                                   *)
(*                                                                         *)
(* The first three rest on one invariant, IInv, about what a descriptor    *)
(* stands for.  The session under it is that of a joined client which has  *)
(* it, or empty, or missing; and as long as a queued message holds it, no  *)
(* session of another connection can get under it, because it is not free. *)
(*                                                                         *)
(* GameInv adds the users and the keys: the counter is the number of the   *)
(* users, so the next is new.  StreamInv adds what was sent: each session  *)
(* has been told of the frame that is due to it, which during a broadcast  *)
(* depends on where the iterator is.  Each of the three is preserved with  *)
(* the help of those before it.                                            *)
(***************************************************************************)
EXTENDS World, InductionLemmas, FiniteSetTheorems, TLAPS

\* The types of what the argument is about.
TypesInv ==
    /\ accepted \in 0 .. MaxConns
    /\ fd \in [Conns -> Fds \cup {0}]
    /\ \A k \in 1 .. accepted : fd[k] \in Fds
    /\ clients \subseteq 1 .. accepted
    /\ m_sessions \in [Fds -> Conns \cup {Absent, Null}]
    /\ m_msgQueue \in Seq(Conns)
    /\ \A i \in DOMAIN m_msgQueue : m_msgQueue[i] \in 1 .. accepted

\* What the sessions, the clients and the queue say of one another.
SessionsInv ==
    /\ \A k \in clients : m_sessions[fd[k]] = k
    /\ \A f \in Fds : m_sessions[f] \in Conns =>
                         m_sessions[f] \in clients /\ fd[m_sessions[f]] = f
    /\ \A f \in Fds : m_sessions[f] = Null => f \in phantoms
    /\ \A i \in DOMAIN m_msgQueue :
          m_sessions[fd[m_msgQueue[i]]] \in {m_msgQueue[i], Absent, Null}

\* The main thread works on the message at the front of the queue.
FrontInv ==
    /\ pc \in {"find", "fetch", "call", "handle", "pop"} => m_msgQueue # <<>>
    /\ pc = "bcast" /\ bcast[1].type = "SCSight" => m_msgQueue # <<>>
    /\ HandledForItsConnection

IInv == TypesInv /\ (Alive => SessionsInv) /\ FrontInv /\ PhantomsKill

-----------------------------------------------------------------------------
LEMMA ConnFacts ==
    ASSUME TypesInv
    PROVE  /\ accepted \in Nat /\ \A k \in 1 .. accepted : k \in Conns
           /\ clients \subseteq Conns
           /\ \A i \in DOMAIN m_msgQueue : m_msgQueue[i] \in Conns /\ fd[m_msgQueue[i]] \in Fds
           /\ \A k \in clients : fd[k] \in Fds
           /\ MaxConns \in Nat
BY WorldAssumption DEF TypesInv, Conns

\* The descriptors of clients, sessions and queued messages are open.
LEMMA OpenFacts ==
    ASSUME TypesInv, SessionsInv
    PROVE  /\ \A k \in clients : fd[k] \in OpenFds
           /\ \A f \in Fds : m_sessions[f] \in Conns => f \in OpenFds
           /\ \A i \in DOMAIN m_msgQueue : fd[m_msgQueue[i]] \in OpenFds
<1>1. \A k \in 1 .. accepted : Referenced(k) => fd[k] \in OpenFds
  BY DEF OpenFds
<1>2. \A k \in clients : k \in 1 .. accepted /\ Referenced(k)
  BY DEF Referenced, TypesInv
<1>3. \A i \in DOMAIN m_msgQueue : m_msgQueue[i] \in 1 .. accepted /\ Referenced(m_msgQueue[i])
  BY DEF Referenced, TypesInv, ToSet
<1>4. \A f \in Fds : m_sessions[f] \in Conns => m_sessions[f] \in clients /\ fd[m_sessions[f]] = f
  BY DEF SessionsInv
<1>5. QED
  BY <1>1, <1>2, <1>3, <1>4

\* Only the queue and the sessions matter to the main thread's steps; this is
\* about those that touch neither.
LEMMA QuietStep ==
    ASSUME IInv, UNCHANGED <<net, m_sessions, mailbox, phantoms>>, Alive,
           pc' \in {"find", "fetch", "call", "handle", "pop"} => m_msgQueue # <<>>,
           pc' = "bcast" /\ bcast'[1].type = "SCSight" => m_msgQueue # <<>>,
           pc' \in {"call", "handle"} => pc \in {"call", "handle"} /\ UNCHANGED player,
           PhantomsKill'
    PROVE  IInv'
<1> USE DEF net, mailbox
<1>1. TypesInv' /\ SessionsInv'
  BY DEF IInv, TypesInv, SessionsInv
<1>2. FrontInv'
  BY DEF IInv, FrontInv, HandledForItsConnection, Client
<1>3. QED
  BY <1>1, <1>2 DEF IInv

LEMMA InitIInv == Init => IInv
<1> SUFFICES ASSUME Init PROVE IInv
  OBVIOUS
<1> USE DEF Init
<1>1. TypesInv
  <2>1. m_msgQueue \in Seq(Conns) /\ DOMAIN m_msgQueue = {}
    BY EmptySeq
  <2>2. QED
    BY <2>1, WorldAssumption DEF TypesInv
<1>2. SessionsInv
  BY WorldAssumption DEF SessionsInv
<1>3. FrontInv /\ PhantomsKill
  BY DEF FrontInv, HandledForItsConnection, PhantomsKill
<1>4. QED
  BY <1>1, <1>2, <1>3 DEF IInv

\* A descriptor that is given to a new connection is nobody's, so a session
\* under it can only be an empty one.
LEMMA OnJoinIInv == ASSUME IInv, NEW f \in Fds, OnJoin(f) PROVE IInv'
<1> DEFINE k == accepted + 1
<1>1. /\ TypesInv /\ SessionsInv /\ f \notin OpenFds
      /\ accepted' = k /\ fd' = [fd EXCEPT ![k] = f] /\ clients' = clients \cup {k}
      /\ k \in Conns /\ k \notin 1 .. accepted
      /\ UNCHANGED <<m_msgQueue, pc, player, bcast, phantoms>>
  BY ConnFacts DEF IInv, OnJoin, Conns, mailbox, local
<1> HIDE DEF k
<1>2. fd'[k] = f /\ \A l \in 1 .. accepted : fd'[l] = fd[l] /\ l # k
  BY <1>1, ConnFacts DEF TypesInv
<1>3. 1 .. accepted' = (1 .. accepted) \cup {k}
  BY <1>1, ConnFacts DEF k
<1>4. m_sessions[f] \in {Absent, Null}
  BY <1>1, OpenFacts DEF TypesInv
<1>5. \/ /\ m_sessions[f] = Absent /\ crash' = crash
         /\ m_sessions' = [m_sessions EXCEPT ![f] = k]
      \/ m_sessions[f] = Null /\ crash' = "RegisterUser" /\ m_sessions' = m_sessions
  BY <1>1, <1>2, <1>4 DEF OnJoin, RegisterUser
<1>6. TypesInv'
  <2>1. accepted' \in 0 .. MaxConns /\ fd' \in [Conns -> Fds \cup {0}]
    BY <1>1 DEF TypesInv, Conns
  <2>2. m_sessions' \in [Fds -> Conns \cup {Absent, Null}]
    BY <1>1, <1>5 DEF TypesInv
  <2>3. QED
    BY <1>1, <1>2, <1>3, <2>1, <2>2 DEF TypesInv
<1>7. ASSUME Alive' PROVE SessionsInv'
  <2>1. m_sessions[f] = Absent /\ m_sessions' = [m_sessions EXCEPT ![f] = k]
    BY <1>5, <1>7 DEF Alive
  <2>2. m_sessions'[f] = k /\ \A g \in Fds \ {f} : m_sessions'[g] = m_sessions[g]
    BY <1>1, <2>1 DEF TypesInv
  <2>3. \A l \in clients : l \in 1 .. accepted /\ fd[l] \in Fds \ {f}
    BY <1>1, OpenFacts DEF TypesInv
  <2>4. \A l \in clients' : m_sessions'[fd'[l]] = l
    BY <1>1, <1>2, <2>2, <2>3 DEF SessionsInv
  <2>5. ASSUME NEW g \in Fds, m_sessions'[g] \in Conns
        PROVE  m_sessions'[g] \in clients' /\ fd'[m_sessions'[g]] = g
    BY <1>1, <1>2, <2>2, <2>3, <2>5 DEF SessionsInv
  <2>6. \A g \in Fds : m_sessions'[g] = Null => g \in phantoms'
    BY <1>1, <2>2, WorldAssumption DEF SessionsInv
  <2>7. \A i \in DOMAIN m_msgQueue :
           m_sessions'[fd'[m_msgQueue[i]]] \in {m_msgQueue[i], Absent, Null}
    <3>1. \A i \in DOMAIN m_msgQueue : m_msgQueue[i] \in 1 .. accepted
                                       /\ fd[m_msgQueue[i]] \in Fds \ {f}
      BY <1>1, OpenFacts DEF TypesInv
    <3>2. QED
      BY <1>1, <1>2, <2>2, <3>1 DEF SessionsInv
  <2>8. QED
    BY <1>1, <2>4, <2>5, <2>6, <2>7 DEF SessionsInv
<1>8. FrontInv'
  BY <1>1 DEF IInv, FrontInv, HandledForItsConnection, Client
<1>9. PhantomsKill'
  BY <1>1, <1>2, <1>5 DEF IInv, PhantomsKill, SessionsInv, OnJoin, Alive
<1>10. QED
  BY <1>6, <1>7, <1>8, <1>9 DEF IInv

\* A client that leaves still has its session, so DeleteUser finds it.
LEMMA OnExitIInv == ASSUME IInv, NEW k \in Conns, OnExit(k) PROVE IInv'
<1>1. /\ TypesInv /\ SessionsInv /\ k \in clients /\ clients' = clients \ {k}
      /\ m_sessions[fd[k]] = k /\ fd[k] \in Fds
      /\ UNCHANGED <<accepted, fd, m_msgQueue, pc, player, bcast, phantoms>>
  BY ConnFacts DEF IInv, OnExit, mailbox, local, SessionsInv
<1>2. crash' = crash /\ m_sessions' = [m_sessions EXCEPT ![fd[k]] = Absent]
  BY <1>1, WorldAssumption DEF OnExit
<1>3. m_sessions'[fd[k]] = Absent /\ \A g \in Fds \ {fd[k]} : m_sessions'[g] = m_sessions[g]
  BY <1>1, <1>2 DEF TypesInv
<1>4. TypesInv'
  BY <1>1, <1>2 DEF TypesInv
<1>5. SessionsInv'
  <2>1. \A l \in clients' : l \in clients /\ fd[l] \in Fds \ {fd[k]}
    BY <1>1, ConnFacts DEF SessionsInv
  <2>2. \A l \in clients' : m_sessions'[fd[l]] = l
    BY <1>1, <1>3, <2>1 DEF SessionsInv
  <2>3. ASSUME NEW g \in Fds, m_sessions'[g] \in Conns
        PROVE  m_sessions'[g] \in clients' /\ fd[m_sessions'[g]] = g
    <3>1. g # fd[k] /\ m_sessions'[g] = m_sessions[g]
      BY <1>3, <2>3, WorldAssumption
    <3>2. QED
      BY <1>1, <2>3, <3>1 DEF SessionsInv
  <2>4. \A g \in Fds : m_sessions'[g] = Null => g \in phantoms
    BY <1>1, <1>3, WorldAssumption DEF SessionsInv
  <2>5. \A i \in DOMAIN m_msgQueue :
           m_sessions'[fd[m_msgQueue[i]]] \in {m_msgQueue[i], Absent, Null}
    BY <1>1, <1>3, ConnFacts DEF SessionsInv
  <2>6. QED
    BY <1>1, <2>2, <2>3, <2>4, <2>5 DEF SessionsInv
<1>6. FrontInv' /\ PhantomsKill'
  BY <1>1, <1>2 DEF OnExit, Alive, IInv, FrontInv, HandledForItsConnection, Client, PhantomsKill
<1>7. QED
  BY <1>4, <1>5, <1>6 DEF IInv

LEMMA OnMessageIInv == ASSUME IInv, NEW k \in Conns, OnMessage(k) PROVE IInv'
<1>1. /\ TypesInv /\ SessionsInv /\ k \in clients
      /\ m_msgQueue' = Append(m_msgQueue, k)
      /\ UNCHANGED <<accepted, fd, clients, m_sessions, pc, player, bcast, phantoms, crash>>
  BY DEF IInv, OnMessage, net, local
<1>2. /\ m_msgQueue' \in Seq(Conns) /\ m_msgQueue' # <<>>
      /\ \A i \in DOMAIN m_msgQueue' : \/ /\ i \in DOMAIN m_msgQueue
                                            /\ m_msgQueue'[i] = m_msgQueue[i]
                                         \/ m_msgQueue'[i] = k
      /\ m_msgQueue # <<>> => Head(m_msgQueue') = Head(m_msgQueue)
  BY <1>1, AppendProperties, LenProperties, HeadTailProperties, EmptySeq DEF TypesInv
<1>3. TypesInv'
  BY <1>1, <1>2 DEF TypesInv
<1>4. SessionsInv'
  BY <1>1, <1>2 DEF SessionsInv
<1>5. FrontInv' /\ PhantomsKill'
  BY <1>1, <1>2 DEF IInv, FrontInv, HandledForItsConnection, Client, PhantomsKill
<1>6. QED
  BY <1>3, <1>4, <1>5 DEF IInv

\* The second lookup of GetUser: what it finds is the session of the message's
\* own connection, or it makes the empty one.
LEMMA FetchUserIInv == ASSUME IInv, FetchUser PROVE IInv'
<1> DEFINE f == fd[Client]
<1>1. /\ TypesInv /\ SessionsInv /\ Alive /\ m_msgQueue # <<>> /\ crash' = crash
      /\ UNCHANGED <<accepted, fd, clients, m_msgQueue, bcast>>
  BY DEF IInv, FetchUser, At, net, mailbox, FrontInv
<1>2. 1 \in DOMAIN m_msgQueue /\ Client = m_msgQueue[1]
  BY <1>1, EmptySeq, LenProperties DEF TypesInv, Client
<1>3. f \in Fds /\ m_sessions[f] \in {Client, Absent, Null} /\ Client \in Conns
  BY <1>1, <1>2, ConnFacts DEF SessionsInv
<1> HIDE DEF f
<1>4. \/ /\ m_sessions[f] = Absent /\ phantoms' = phantoms \cup {f} /\ pc' = "pop"
         /\ m_sessions' = [m_sessions EXCEPT ![f] = Null]
      \/ /\ m_sessions[f] # Absent /\ phantoms' = phantoms /\ m_sessions' = m_sessions
         /\ player' = m_sessions[f]
         /\ pc' \in {"pop", "call"} /\ (pc' = "call" => player' # Null)
  BY <1>1 DEF FetchUser, TypesInv, f
<1>5. TypesInv'
  BY <1>1, <1>4 DEF TypesInv
<1>6. SessionsInv'
  <2>1. CASE m_sessions[f] = Absent
    <3>1. m_sessions'[f] = Null /\ \A g \in Fds \ {f} : m_sessions'[g] = m_sessions[g]
      BY <1>1, <1>3, <1>4, <2>1 DEF TypesInv
    <3>2. \A k \in clients : fd[k] \in Fds \ {f} /\ k \in Conns
      BY <1>1, <2>1, ConnFacts, WorldAssumption DEF SessionsInv
    <3>3. f \in phantoms' /\ \A g \in Fds : g \in phantoms => g \in phantoms'
      BY <1>4, <2>1
    <3>4. \A i \in DOMAIN m_msgQueue : fd[m_msgQueue[i]] \in Fds
      BY <1>1, ConnFacts
    <3>5. QED
      BY <1>1, <3>1, <3>2, <3>3, <3>4, WorldAssumption DEF SessionsInv
  <2>2. CASE m_sessions[f] # Absent
    BY <1>1, <1>4, <2>2 DEF SessionsInv
  <2>3. QED
    BY <2>1, <2>2
<1>7. FrontInv'
  BY <1>1, <1>3, <1>4 DEF FrontInv, HandledForItsConnection, Client
<1>8. PhantomsKill'
  BY <1>1 DEF PhantomsKill, Alive
<1>9. QED
  BY <1>5, <1>6, <1>7, <1>8 DEF IInv

\* The handler is called for the player that GetUser found.
LEMMA CallHandlerIInv == ASSUME IInv, CallHandler PROVE IInv'
<1>1. /\ Alive /\ pc = "call" /\ pc' \in {"call", "handle"} /\ m_msgQueue # <<>>
      /\ crash' \in {"no", "empty handler"}
      /\ UNCHANGED <<net, m_sessions, mailbox, phantoms, player>>
  BY DEF IInv, CallHandler, At, FrontInv, Alive
<1>2. PhantomsKill'
  BY <1>1 DEF PhantomsKill
<1> QED BY <1>1, <1>2, QuietStep

LEMMA HandleLoginIInv == ASSUME IInv, HandleLogin PROVE IInv'
<1>1. /\ Alive /\ pc = "handle" /\ m_msgQueue # <<>> /\ SessionsInv /\ crash = "no"
      /\ UNCHANGED <<net, m_sessions, mailbox, phantoms, player>>
  BY DEF IInv, HandleLogin, At, FrontInv, Alive
<1>2. \/ crash' = "empty PlayerPtr" /\ pc' = pc /\ \E f \in Fds : m_sessions[f] = Null
      \/ pc' \in {"bcast", "pop"} /\ crash' = crash
  BY DEF HandleLogin, SendLoginInfo
<1>3. PhantomsKill'
  BY <1>1, <1>2 DEF SessionsInv, PhantomsKill
<1>4. pc' \in {"call", "handle"} => pc \in {"call", "handle"} /\ UNCHANGED player
  BY <1>1
<1>5. QED
  BY <1>1, <1>3, <1>4, QuietStep

LEMMA PopMsgIInv == ASSUME IInv, PopMsg PROVE IInv'
<1>1. /\ TypesInv /\ SessionsInv /\ m_msgQueue # <<>> /\ Alive /\ pc' = "turn"
      /\ m_msgQueue' = Tail(m_msgQueue)
      /\ UNCHANGED <<accepted, fd, clients, m_sessions, phantoms, crash>>
  BY DEF IInv, PopMsg, Goes, At, net, FrontInv
<1>2. /\ m_msgQueue' \in Seq(Conns)
      /\ \A i \in DOMAIN m_msgQueue' : /\ i + 1 \in DOMAIN m_msgQueue
                                       /\ m_msgQueue'[i] = m_msgQueue[i + 1]
  BY <1>1, HeadTailProperties, LenProperties, EmptySeq DEF TypesInv
<1>3. TypesInv'
  BY <1>1, <1>2 DEF TypesInv
<1>4. SessionsInv'
  BY <1>1, <1>2 DEF SessionsInv
<1>5. FrontInv' /\ PhantomsKill'
  BY <1>1 DEF IInv, FrontInv, HandledForItsConnection, PhantomsKill
<1>6. QED
  BY <1>3, <1>4, <1>5 DEF IInv

LEMMA BroadcastStepIInv == ASSUME IInv, BroadcastStep PROVE IInv'
<1>1. /\ Alive /\ crash = "no" /\ SessionsInv /\ pc = "bcast" /\ cursor \in Fds
      /\ UNCHANGED <<net, m_sessions, mailbox, phantoms, pc, bcast, player>>
  BY DEF IInv, BroadcastStep, At, Alive
<1>2. \/ crash' = crash
      \/ m_sessions[cursor] = Null /\ crash' = "empty PlayerPtr"
  BY DEF BroadcastStep, Visit
<1>3. PhantomsKill'
  BY <1>1, <1>2 DEF SessionsInv, PhantomsKill
<1>4. QED
  BY <1>1, <1>3, QuietStep DEF IInv, FrontInv

\* The steps that change neither sessions, queue nor crash.
LEMMA OtherIInv ==
    ASSUME IInv,
           \/ NoMessage \/ FindHandler \/ FindUser \/ HandleReady \/ HandleFrame \/ ParseFails
           \/ NoTurn \/ FrameTurn \/ BroadcastDone
    PROVE  IInv'
<1>1. /\ Alive /\ crash' = crash
      /\ UNCHANGED <<net, m_sessions, mailbox, phantoms, player>>
  BY DEF NoMessage, FindHandler, FindUser, HandleReady, HandleFrame, ParseFails, NoTurn, FrameTurn,
         BroadcastDone, Goes, At, local
<1>2. pc' \notin {"call", "handle"}
  BY DEF NoMessage, FindHandler, FindUser, HandleReady, HandleFrame, ParseFails, NoTurn, FrameTurn,
         BroadcastDone, Goes, At
<1>3. pc' \in {"find", "fetch", "call", "handle", "pop"} => m_msgQueue # <<>>
  BY DEF NoMessage, FindHandler, FindUser, HandleReady, HandleFrame, ParseFails, NoTurn, FrameTurn,
         BroadcastDone, Goes, At, IInv, FrontInv
<1>4. pc' = "bcast" => bcast'[1].type # "SCSight"
  BY DEF NoMessage, FindHandler, FindUser, HandleReady, HandleFrame, ParseFails, NoTurn, FrameTurn,
         BroadcastDone, Goes, At
<1>5. PhantomsKill'
  BY <1>1 DEF Alive, PhantomsKill
<1>6. QED
  BY <1>1, <1>2, <1>3, <1>4, <1>5, QuietStep

LEMMA SlotReusedIInv == ASSUME IInv, SlotReused PROVE IInv'
BY DEF SlotReused, IInv, TypesInv, SessionsInv, FrontInv, HandledForItsConnection, Client,
       PhantomsKill, Alive, net, local

LEMMA StutterIInv == ASSUME IInv, UNCHANGED vars PROVE IInv'
BY DEF vars, IInv, TypesInv, SessionsInv, FrontInv, HandledForItsConnection, Client,
       PhantomsKill, Alive, net, mailbox, local

LEMMA NextIInv == IInv /\ [Next]_vars => IInv'
<1> SUFFICES ASSUME IInv, [Next]_vars PROVE IInv'
  OBVIOUS
<1>1. CASE CellThread
  BY <1>1, OnJoinIInv, OnExitIInv, OnMessageIInv, SlotReusedIInv DEF CellThread
<1>2. CASE MainThread
  BY <1>2, FetchUserIInv, CallHandlerIInv, HandleLoginIInv, PopMsgIInv, BroadcastStepIInv, OtherIInv
     DEF MainThread
<1>3. CASE UNCHANGED vars
  BY <1>3, StutterIInv
<1>4. QED
  BY <1>1, <1>2, <1>3 DEF Next

LEMMA SpecIInv == Spec => []IInv
BY InitIInv, NextIInv, PTL DEF Spec

-----------------------------------------------------------------------------
\* Descriptors are reused, and still the session under a joined client's
\* descriptor is its own.
THEOREM SessionOfClientHolds == Spec => []SessionOfClient
<1>1. IInv => SessionOfClient
  BY DEF IInv, SessionsInv, SessionOfClient
<1>2. QED
  BY <1>1, SpecIInv, PTL

\* The Player that a queued message is handled for is that of the connection
\* which sent it, whoever came and went while it waited.
THEOREM HandledForItsConnectionHolds == Spec => []HandledForItsConnection
<1>1. IInv => HandledForItsConnection
  BY DEF IInv, FrontInv
<1>2. QED
  BY <1>1, SpecIInv, PTL

\* RegisterUser's assertion fails only for a descriptor that GetUser made an empty
\* session for, an empty PlayerPtr is in such a session, and DeleteUser's assertion
\* never fails, for any order of joins, exits and messages.
THEOREM PhantomsKillHolds == Spec => []PhantomsKill
<1>1. IInv => PhantomsKill
  BY DEF IInv
<1>2. QED
  BY <1>1, SpecIInv, PTL

-----------------------------------------------------------------------------
(***************************************************************************)
(* Users, keys and frames.                                                 *)
(***************************************************************************)

KeySet == 1 .. MaxMsgs

\* What the queue's memory, the users and the frames may be.
GameTypes ==
    /\ slot.type = "ECSFrame" => slot.uuid \in UUIDs /\ slot.key \in KeySet
    /\ received \in 0 .. MaxMsgs
    /\ m_UUID \in [Conns -> UUIDs]
    /\ m_nxtFrameID \in Nat
    /\ m_curFrameID = IF m_nxtFrameID = 0 THEN 0 ELSE m_nxtFrameID - 1
    /\ m_curFrameInfo \in [UUIDs -> Seq(KeySet)]
    /\ taken \in [UUIDs -> Seq(KeySet)]
    /\ m_oldFrameInfo \in [0 .. m_nxtFrameID - 1 -> [UUIDs -> Seq(KeySet)]]
    /\ cursor \in 1 .. NumFds + 1

HasUser == {k \in Conns : m_UUID[k] # 0}

\* The counter is the number of the users, so it gives a new one each time and
\* does not run out before the connections do.
UsersInv ==
    /\ m_uuid_counter = Cardinality(HasUser)
    /\ \A k \in Conns : m_UUID[k] <= m_uuid_counter
    /\ \A k, l \in Conns : m_UUID[k] = m_UUID[l] /\ m_UUID[k] # 0 => k = l
    /\ \A k \in Conns : k \notin 1 .. accepted => m_UUID[k] = 0

LEMMA ConnsFinite == IsFiniteSet(Conns) /\ Cardinality(Conns) = MaxConns
<1>1. MaxConns \in Nat
  BY WorldAssumption
<1>2. /\ IsFiniteSet(1 .. MaxConns)
      /\ Cardinality(1 .. MaxConns) = IF 1 > MaxConns THEN 0 ELSE MaxConns - 1 + 1
  BY <1>1, FS_Interval
<1> QED BY <1>1, <1>2 DEF Conns

\* The counter is a number, and below MaxConns while a connection has no user.
LEMMA CounterFits ==
    ASSUME UsersInv, GameTypes
    PROVE  /\ m_uuid_counter \in Nat /\ m_uuid_counter <= MaxConns
           /\ IsFiniteSet(HasUser)
           /\ \A k \in Conns : m_UUID[k] = 0 => m_uuid_counter + 1 \in UUIDs \ {0}
<1>1. HasUser \subseteq Conns /\ MaxConns \in Nat
  BY WorldAssumption DEF HasUser
<1>2. /\ IsFiniteSet(HasUser) /\ Cardinality(HasUser) <= MaxConns
      /\ Cardinality(HasUser) = MaxConns => HasUser = Conns
  BY <1>1, ConnsFinite, FS_Subset
<1>3. m_uuid_counter \in Nat
  BY <1>2, FS_CardinalityType DEF UsersInv
<1>4. ASSUME NEW k \in Conns, m_UUID[k] = 0 PROVE m_uuid_counter + 1 \in UUIDs \ {0}
  <2>1. k \notin HasUser
    BY <1>4 DEF HasUser
  <2>2. m_uuid_counter # MaxConns
    BY <1>2, <2>1 DEF UsersInv
  <2> QED BY <1>1, <1>2, <1>3, <2>2 DEF UUIDs, UsersInv
<1> QED BY <1>1, <1>2, <1>3, <1>4 DEF UsersInv

\* The player of a message that is handled is a connection which was accepted.
LEMMA PlayerFacts ==
    ASSUME IInv, pc = "handle"
    PROVE  player \in Conns /\ player \in 1 .. accepted
<1>1. m_msgQueue # <<>> /\ player = Client /\ TypesInv
  BY DEF IInv, FrontInv, HandledForItsConnection
<1>2. 1 \in DOMAIN m_msgQueue /\ Client = m_msgQueue[1]
  BY <1>1, EmptySeq, LenProperties DEF TypesInv, Client
<1> QED BY <1>1, <1>2, ConnFacts DEF TypesInv

\* What a step may change of the users: nothing, but for a login.
LEMMA UsersKept ==
    ASSUME IInv, GameTypes, UsersInv,
           UNCHANGED <<m_UUID, m_uuid_counter>>, accepted' = accepted \/ accepted' = accepted + 1
    PROVE  UsersInv'
<1>1. \A k : k \in 1 .. accepted => k \in 1 .. accepted'
  BY DEF IInv, TypesInv
<1>2. HasUser' = HasUser
  BY DEF HasUser
<1> QED BY <1>1, <1>2 DEF UsersInv

LEMMA NewUser ==
    ASSUME IInv, GameTypes, UsersInv, pc = "handle", FirstLogin,
           m_uuid_counter' = m_uuid_counter + 1,
           m_UUID' = [m_UUID EXCEPT ![player] = m_uuid_counter + 1],
           accepted' = accepted
    PROVE  UsersInv' /\ m_UUID' \in [Conns -> UUIDs]
           /\ m_uuid_counter + 1 \in UUIDs \ ({0} \cup {m_UUID[l] : l \in Conns})
<1>1. player \in Conns /\ player \in 1 .. accepted /\ m_UUID[player] = 0
  BY PlayerFacts DEF FirstLogin
<1>2. /\ m_uuid_counter \in Nat /\ m_uuid_counter + 1 \in UUIDs \ {0}
      /\ IsFiniteSet(HasUser)
  BY <1>1, CounterFits
<1>3. m_UUID' \in [Conns -> UUIDs] /\ m_UUID'[player] = m_uuid_counter + 1
      /\ \A l \in Conns \ {player} : m_UUID'[l] = m_UUID[l]
  BY <1>1, <1>2 DEF GameTypes
<1>4. \A l \in Conns : m_UUID[l] \in Nat /\ m_UUID[l] <= m_uuid_counter
  BY WorldAssumption DEF UsersInv, GameTypes, UUIDs
<1>5. HasUser' = HasUser \cup {player} /\ player \notin HasUser
  BY <1>1, <1>2, <1>3 DEF HasUser
<1>6. m_uuid_counter' = Cardinality(HasUser')
  BY <1>2, <1>5, FS_AddElement DEF UsersInv
<1>7. \A k \in Conns : m_UUID'[k] <= m_uuid_counter'
  BY <1>2, <1>3, <1>4
<1>8. \A k, l \in Conns : m_UUID'[k] = m_UUID'[l] /\ m_UUID'[k] # 0 => k = l
  BY <1>2, <1>3, <1>4 DEF UsersInv
<1>9. \A k \in Conns : k \notin 1 .. accepted' => m_UUID'[k] = 0
  BY <1>1, <1>3 DEF UsersInv
<1>10. m_uuid_counter + 1 \notin {m_UUID[l] : l \in Conns}
  BY <1>2, <1>4
<1> QED BY <1>2, <1>3, <1>6, <1>7, <1>8, <1>9, <1>10 DEF UsersInv

\* What HandleFrame takes is in the coming frame, and what a frame holds stays.
LEMMA HandleFrameKeys ==
    ASSUME GameTypes, KeysInOneFrame, HandleFrame
    PROVE  /\ KeysInOneFrame'
           /\ m_curFrameInfo' \in [UUIDs -> Seq(KeySet)] /\ taken' \in [UUIDs -> Seq(KeySet)]
<1>1. UNCHANGED <<m_nxtFrameID, m_oldFrameInfo>>
  BY DEF HandleFrame
<1>2. CASE slot.type # "ECSFrame"
  <2>1. UNCHANGED <<m_curFrameInfo, taken>>
    BY <1>2 DEF HandleFrame
  <2> QED BY <1>1, <2>1 DEF KeysInOneFrame, GameTypes
<1>3. CASE slot.type = "ECSFrame"
  <2> DEFINE u == slot.uuid
             key == slot.key
  <2>1. /\ u \in UUIDs /\ key \in KeySet
        /\ m_curFrameInfo' = [m_curFrameInfo EXCEPT ![u] = Append(@, key)]
        /\ taken' = [taken EXCEPT ![u] = Append(@, key)]
    BY <1>3 DEF HandleFrame, GameTypes
  <2> HIDE DEF u, key
  <2>2. m_curFrameInfo' \in [UUIDs -> Seq(KeySet)] /\ taken' \in [UUIDs -> Seq(KeySet)]
    BY <2>1, AppendProperties DEF GameTypes
  <2>3. ASSUME NEW v \in UUIDs
        PROVE  taken'[v] = FlattenSeq([i \in 1 .. m_nxtFrameID |-> m_oldFrameInfo[i - 1][v]])
                              \o m_curFrameInfo'[v]
    <3> DEFINE old == [i \in 1 .. m_nxtFrameID |-> m_oldFrameInfo[i - 1][v]]
    <3>1. taken[v] = FlattenSeq(old) \o m_curFrameInfo[v]
      BY DEF KeysInOneFrame
    <3>2. old \in Seq(Seq(KeySet))
      <4>1. \A i \in 1 .. m_nxtFrameID : m_oldFrameInfo[i - 1][v] \in Seq(KeySet)
        BY DEF GameTypes
      <4> QED BY <4>1 DEF GameTypes
    <3> HIDE DEF old
    <3>3. FlattenSeq(old) \in Seq(KeySet)
      BY <3>2, FlattenAppend, EmptySeq
    <3>4. CASE v # u
      BY <2>1, <3>1, <3>4 DEF old, GameTypes
    <3>5. CASE v = u
      <4>1. taken'[v] = Append(taken[v], key) /\ m_curFrameInfo'[v] = Append(m_curFrameInfo[v], key)
            /\ m_curFrameInfo[v] \in Seq(KeySet)
        BY <2>1, <3>5 DEF GameTypes
      <4>2. taken'[v] = FlattenSeq(old) \o m_curFrameInfo'[v]
        <5>1. Append(FlattenSeq(old) \o m_curFrameInfo[v], key)
                 = FlattenSeq(old) \o Append(m_curFrameInfo[v], key)
          <6> DEFINE a == FlattenSeq(old)
                     b == m_curFrameInfo[v]
          <6>1. a \in Seq(KeySet) /\ b \in Seq(KeySet) /\ key \in KeySet
            BY <2>1, <3>3, <4>1
          <6> HIDE DEF a, b
          <6>2. /\ Append(b, key) = b \o <<key>> /\ <<key>> \in Seq(KeySet)
                /\ a \o b \in Seq(KeySet) /\ Append(a \o b, key) = (a \o b) \o <<key>>
            BY <6>1, AppendIsConcat, ConcatProperties
          <6>3. Append(a \o b, key) = a \o Append(b, key)
            BY <6>1, <6>2, ConcatAssociative
          <6> QED BY <6>3 DEF a, b
        <5> QED BY <3>1, <4>1, <5>1
      <4> QED BY <4>2 DEF old
    <3> QED BY <3>4, <3>5
  <2> QED BY <1>1, <2>2, <2>3 DEF KeysInOneFrame
<1> QED BY <1>2, <1>3

\* FrameTurn moves the keys of the coming frame to the end of the log.
LEMMA FrameTurnKeys ==
    ASSUME GameTypes, KeysInOneFrame, FrameTurn
    PROVE  /\ KeysInOneFrame'
           /\ m_oldFrameInfo' \in [0 .. m_nxtFrameID' - 1 -> [UUIDs -> Seq(KeySet)]]
           /\ m_oldFrameInfo'[m_nxtFrameID] = m_curFrameInfo
           /\ \A n \in 0 .. m_nxtFrameID - 1 : m_oldFrameInfo'[n] = m_oldFrameInfo[n]
<1>1. /\ m_nxtFrameID' = m_nxtFrameID + 1 /\ m_nxtFrameID \in Nat /\ taken' = taken
      /\ KeepFrame
      /\ m_curFrameInfo' = NoKeys
      /\ m_oldFrameInfo \in [0 .. m_nxtFrameID - 1 -> [UUIDs -> Seq(KeySet)]]
      /\ m_curFrameInfo \in [UUIDs -> Seq(KeySet)]
  BY DEF FrameTurn, GameTypes, history
<1>2. m_oldFrameInfo' = [n \in 0 .. m_nxtFrameID |-> IF n = m_nxtFrameID THEN m_curFrameInfo
                                                     ELSE m_oldFrameInfo[n]]
  <2>1. DOMAIN m_oldFrameInfo \cup {m_nxtFrameID} = 0 .. m_nxtFrameID
    BY <1>1
  <2> QED BY <1>1, <2>1 DEF KeepFrame
<1>3. m_oldFrameInfo' \in [0 .. m_nxtFrameID' - 1 -> [UUIDs -> Seq(KeySet)]]
  BY <1>1, <1>2
<1>4. /\ m_oldFrameInfo'[m_nxtFrameID] = m_curFrameInfo
      /\ \A n \in 0 .. m_nxtFrameID - 1 : m_oldFrameInfo'[n] = m_oldFrameInfo[n]
  BY <1>1, <1>2
<1>5. ASSUME NEW v \in UUIDs
      PROVE  taken[v] = FlattenSeq([i \in 1 .. m_nxtFrameID' |-> m_oldFrameInfo'[i - 1][v]])
                            \o m_curFrameInfo'[v]
  <2> DEFINE old == [i \in 1 .. m_nxtFrameID |-> m_oldFrameInfo[i - 1][v]]
             new == [i \in 1 .. m_nxtFrameID' |-> m_oldFrameInfo'[i - 1][v]]
  <2>1. old \in Seq(Seq(KeySet)) /\ Len(old) = m_nxtFrameID
    <3>1. \A i \in 1 .. m_nxtFrameID : m_oldFrameInfo[i - 1][v] \in Seq(KeySet)
      BY <1>1
    <3> QED BY <1>1, <3>1
  <2>2. m_curFrameInfo[v] \in Seq(KeySet)
    BY <1>1
  <2>3. new = Append(old, m_curFrameInfo[v])
    <3>1. \A i \in 1 .. m_nxtFrameID : m_oldFrameInfo'[i - 1][v] = m_oldFrameInfo[i - 1][v]
      BY <1>1, <1>4
    <3>2. m_oldFrameInfo'[(m_nxtFrameID + 1) - 1][v] = m_curFrameInfo[v]
      BY <1>1, <1>4
    <3>3. Len(new) = m_nxtFrameID + 1 /\ new \in Seq(Seq(KeySet))
      <4>1. \A i \in 1 .. m_nxtFrameID + 1 : m_oldFrameInfo'[i - 1][v] \in Seq(KeySet)
        BY <1>1, <1>3
      <4> QED BY <1>1, <4>1
    <3>4. \A i \in 1 .. m_nxtFrameID + 1 : new[i] = Append(old, m_curFrameInfo[v])[i]
      <4>1. /\ \A i \in 1 .. m_nxtFrameID : new[i] = old[i]
            /\ new[m_nxtFrameID + 1] = m_curFrameInfo[v]
        BY <1>1, <3>1, <3>2
      <4> HIDE DEF old, new
      <4> QED BY <1>1, <2>1, <2>2, <4>1, AppendProperties
    <3>5. /\ Append(old, m_curFrameInfo[v]) \in Seq(Seq(KeySet))
          /\ Len(Append(old, m_curFrameInfo[v])) = m_nxtFrameID + 1
      <4> HIDE DEF old
      <4> QED BY <2>1, <2>2, AppendProperties
    <3> HIDE DEF old, new
    <3> QED BY <1>1, <3>3, <3>4, <3>5, SeqEqual
  <2>4. FlattenSeq(new) = FlattenSeq(old) \o m_curFrameInfo[v] /\ FlattenSeq(old) \in Seq(KeySet)
    <3> HIDE DEF old, new
    <3> QED BY <2>1, <2>2, <2>3, FlattenAppend
  <2>5. taken[v] = FlattenSeq(new)
    BY <2>4 DEF KeysInOneFrame
  <2>6. m_curFrameInfo'[v] = <<>>
    BY <1>1 DEF NoKeys
  <2>7. FlattenSeq(new) \o <<>> = FlattenSeq(new)
    <3> HIDE DEF old, new
    <3> QED BY <2>2, <2>4, ConcatProperties, ConcatEmptySeq
  <2> HIDE DEF old
  <2> QED BY <2>5, <2>6, <2>7
<1> QED BY <1>1, <1>3, <1>4, <1>5 DEF KeysInOneFrame

\* The keys and the users, together.
GameInv == GameTypes /\ UsersInv /\ KeysInOneFrame

LEMMA InitGame == Init => GameInv
<1> SUFFICES ASSUME Init PROVE GameInv
  OBVIOUS
<1> USE DEF Init
<1>1. GameTypes
  <2>1. <<>> \in Seq(KeySet) /\ 0 \in UUIDs
    BY WorldAssumption DEF UUIDs
  <2>2. m_curFrameInfo \in [UUIDs -> Seq(KeySet)] /\ taken \in [UUIDs -> Seq(KeySet)]
    BY <2>1 DEF NoKeys
  <2>3. m_oldFrameInfo \in [0 .. m_nxtFrameID - 1 -> [UUIDs -> Seq(KeySet)]]
    OBVIOUS
  <2>4. m_UUID \in [Conns -> UUIDs] /\ cursor \in 1 .. NumFds + 1
    BY <2>1, WorldAssumption
  <2> QED BY <2>1, <2>2, <2>3, <2>4, WorldAssumption DEF GameTypes, Junk
<1>2. UsersInv
  <2>1. HasUser = {}
    BY DEF HasUser
  <2> QED BY <2>1, FS_EmptySet DEF UsersInv
<1>3. KeysInOneFrame
  <2> SUFFICES ASSUME NEW u \in UUIDs
               PROVE  taken[u] = FlattenSeq([i \in 1 .. m_nxtFrameID |-> m_oldFrameInfo[i - 1][u]])
                                    \o m_curFrameInfo[u]
    BY DEF KeysInOneFrame
  <2>1. taken[u] = <<>> /\ m_curFrameInfo[u] = <<>>
    BY DEF NoKeys
  <2>2. [i \in 1 .. m_nxtFrameID |-> m_oldFrameInfo[i - 1][u]] = <<>>
    OBVIOUS
  <2>3. FlattenSeq(<<>>) = <<>>
    BY DEF FlattenSeq
  <2> QED BY <2>1, <2>2, <2>3
<1> QED BY <1>1, <1>2, <1>3 DEF GameInv

\* The steps that do nothing to users, keys and frames.
LEMMA QuietGame ==
    ASSUME IInv, GameInv,
           UNCHANGED <<m_UUID, m_uuid_counter, logged, taken>>,
           slot'.type = "ECSFrame" => slot'.uuid \in UUIDs /\ slot'.key \in KeySet,
           received' \in 0 .. MaxMsgs, cursor' \in 1 .. NumFds + 1,
           accepted' \in {accepted, accepted + 1}
    PROVE  GameInv'
<1> USE DEF logged, GameInv
<1>1. GameTypes'
  BY DEF GameTypes
<1>2. KeysInOneFrame'
  BY DEF KeysInOneFrame
<1> QED BY <1>1, <1>2, UsersKept

LEMMA OnMessageGame == ASSUME IInv, GameInv, NEW k \in Conns, OnMessage(k) PROVE GameInv'
<1>1. /\ received \in 0 .. MaxMsgs /\ received < MaxMsgs /\ received' = received + 1
      /\ slot' \in {LoginMsg, ReadyMsg, FrameMsg(m_UUID[k], received + 1)}
      /\ m_UUID[k] \in UUIDs /\ cursor \in 1 .. NumFds + 1
      /\ UNCHANGED <<m_UUID, m_uuid_counter, logged, taken, accepted, cursor>>
  BY DEF OnMessage, GameInv, GameTypes, net, game, history, local
<1>2. received' \in 0 .. MaxMsgs /\ received + 1 \in KeySet
  BY <1>1, WorldAssumption DEF KeySet
<1>3. slot'.type = "ECSFrame" => slot'.uuid \in UUIDs /\ slot'.key \in KeySet
  BY <1>1, <1>2 DEF LoginMsg, ReadyMsg, FrameMsg
<1> QED BY <1>1, <1>2, <1>3, QuietGame

LEMMA HandleLoginGame == ASSUME IInv, GameInv, HandleLogin PROVE GameInv'
<1>1. /\ UNCHANGED <<net, m_sessions, mailbox, logged, taken>>
      /\ pc = "handle" /\ cursor' \in 1 .. NumFds + 1
  <2>1. cursor' = 1 \/ cursor' = cursor
    BY DEF HandleLogin, SendLoginInfo
  <2> QED BY <2>1, WorldAssumption DEF HandleLogin, At, GameInv, GameTypes
<1>2. CASE FirstLogin
  <2>1. /\ m_uuid_counter' = m_uuid_counter + 1
        /\ m_UUID' = [m_UUID EXCEPT ![player] = m_uuid_counter + 1]
        /\ accepted' = accepted
    BY <1>1, <1>2 DEF HandleLogin, net
  <2>2. UsersInv' /\ m_UUID' \in [Conns -> UUIDs]
    BY <1>1, <1>2, <2>1, NewUser DEF GameInv
  <2>3. GameTypes'
    BY <1>1, <2>2 DEF GameInv, GameTypes, mailbox, logged
  <2>4. KeysInOneFrame'
    BY <1>1 DEF GameInv, KeysInOneFrame, logged
  <2> QED BY <2>2, <2>3, <2>4 DEF GameInv
<1>3. CASE ~FirstLogin
  <2>1. UNCHANGED <<m_UUID, m_uuid_counter>>
    BY <1>3 DEF HandleLogin
  <2> QED BY <1>1, <2>1, QuietGame DEF GameInv, GameTypes, net, mailbox
<1> QED BY <1>2, <1>3

LEMMA HandleFrameGame == ASSUME IInv, GameInv, HandleFrame PROVE GameInv'
<1>1. /\ KeysInOneFrame'
      /\ m_curFrameInfo' \in [UUIDs -> Seq(KeySet)] /\ taken' \in [UUIDs -> Seq(KeySet)]
  BY HandleFrameKeys DEF GameInv
<1>2. UNCHANGED <<net, mailbox, m_UUID, m_uuid_counter, m_curFrameID, m_nxtFrameID,
                  m_oldFrameInfo, cursor>>
  BY DEF HandleFrame, game, local
<1>3. GameTypes'
  BY <1>1, <1>2 DEF GameInv, GameTypes, mailbox
<1>4. UsersInv'
  BY <1>2, UsersKept DEF GameInv, net
<1> QED BY <1>1, <1>3, <1>4 DEF GameInv

LEMMA FrameTurnGame == ASSUME IInv, GameInv, FrameTurn PROVE GameInv'
<1>1. /\ KeysInOneFrame'
      /\ m_oldFrameInfo' \in [0 .. m_nxtFrameID' - 1 -> [UUIDs -> Seq(KeySet)]]
  BY FrameTurnKeys DEF GameInv
<1>2. /\ UNCHANGED <<net, mailbox, m_UUID, m_uuid_counter, taken>>
      /\ m_curFrameID' = m_nxtFrameID /\ m_nxtFrameID' = m_nxtFrameID + 1
      /\ m_curFrameInfo' = NoKeys /\ cursor' = 1
  BY DEF FrameTurn, game, history
<1>3. m_curFrameInfo' \in [UUIDs -> Seq(KeySet)]
  BY <1>2 DEF NoKeys
<1>4. GameTypes'
  BY <1>1, <1>2, <1>3, WorldAssumption DEF GameInv, GameTypes, mailbox
<1>5. UsersInv'
  BY <1>2, UsersKept DEF GameInv, net
<1> QED BY <1>1, <1>4, <1>5 DEF GameInv

LEMMA BroadcastStepGame == ASSUME IInv, GameInv, BroadcastStep PROVE GameInv'
<1>1. cursor \in 1 .. NumFds /\ cursor' \in 1 .. NumFds + 1
  BY WorldAssumption DEF BroadcastStep, Fds
<1> QED BY <1>1, QuietGame DEF BroadcastStep, GameInv, GameTypes, net, mailbox, game

LEMMA OtherGame ==
    ASSUME IInv, GameInv,
           \/ \E f \in Fds : OnJoin(f)
           \/ \E k \in Conns : OnExit(k)
           \/ SlotReused \/ NoMessage \/ FindHandler \/ FindUser \/ FetchUser \/ CallHandler
           \/ HandleReady \/ ParseFails \/ PopMsg \/ NoTurn \/ BroadcastDone
           \/ UNCHANGED vars
    PROVE  GameInv'
<1>1. UNCHANGED <<m_UUID, m_uuid_counter, logged, taken, received, cursor>>
  BY DEF OnJoin, OnExit, SlotReused, NoMessage, FindHandler, FindUser, FetchUser, CallHandler,
         HandleReady, ParseFails, PopMsg, NoTurn, BroadcastDone, vars, net, mailbox, local,
         game, history
<1>2. slot' = slot \/ slot' = Junk
  BY DEF OnJoin, OnExit, SlotReused, NoMessage, FindHandler, FindUser, FetchUser, CallHandler,
         HandleReady, ParseFails, PopMsg, NoTurn, BroadcastDone, vars, net, mailbox, local,
         game, history
<1>3. accepted' \in {accepted, accepted + 1}
  BY DEF OnJoin, OnExit, SlotReused, NoMessage, FindHandler, FindUser, FetchUser, CallHandler,
         HandleReady, ParseFails, PopMsg, NoTurn, BroadcastDone, vars, net, mailbox, local,
         game, history
<1> QED BY <1>1, <1>2, <1>3, QuietGame DEF GameInv, GameTypes, Junk

LEMMA NextGame == IInv /\ GameInv /\ [Next]_vars => GameInv'
<1> SUFFICES ASSUME IInv, GameInv, [Next]_vars PROVE GameInv'
  OBVIOUS
<1>1. CASE CellThread
  BY <1>1, OnMessageGame, OtherGame DEF CellThread
<1>2. CASE MainThread
  BY <1>2, HandleLoginGame, HandleFrameGame, FrameTurnGame, BroadcastStepGame, OtherGame
     DEF MainThread
<1>3. CASE UNCHANGED vars
  BY <1>3, OtherGame
<1> QED BY <1>1, <1>2, <1>3 DEF Next

LEMMA SpecGame == Spec => []GameInv
BY InitIInv, InitGame, NextIInv, NextGame, PTL DEF Spec

\* Every key that HandleFrame took for a user is in exactly one frame, or waits
\* for the next, and the user's keys are in the order in which they were taken.
THEOREM KeysInOneFrameHolds == Spec => []KeysInOneFrame
<1>1. GameInv => KeysInOneFrame
  BY DEF GameInv
<1> QED BY <1>1, SpecGame, PTL

-----------------------------------------------------------------------------
(***************************************************************************)
(* What clients see: World implements FrameServer.                         *)
(***************************************************************************)

\* What a sequence of messages says of the frame that comes next.
Says(s, n) == \A i \in DOMAIN s :
    Abstract!IsFrameMsg(s[i]) /\ (\A j \in i + 1 .. Len(s) : ~Abstract!IsFrameMsg(s[j]))
        => Abstract!After(s[i]) = n

\* A message about another matter changes nothing of it, one about frames all.
LEMMA SaysAppend ==
    ASSUME NEW S, NEW s \in Seq(S), NEW m \in S, NEW n,
           \/ ~Abstract!IsFrameMsg(m) /\ Says(s, n)
           \/ Abstract!IsFrameMsg(m) /\ Abstract!After(m) = n
    PROVE  s \o <<m>> \in Seq(S) /\ Says(s \o <<m>>, n)
<1> DEFINE t == s \o <<m>>
<1>1. /\ t \in Seq(S) /\ Len(t) = Len(s) + 1 /\ Len(s) \in Nat /\ t[Len(s) + 1] = m
      /\ \A i \in 1 .. Len(s) : t[i] = s[i]
  BY LenProperties, ConcatProperties
<1> HIDE DEF t
<1>2. ASSUME NEW i \in DOMAIN t, Abstract!IsFrameMsg(t[i]),
             \A j \in i + 1 .. Len(t) : ~Abstract!IsFrameMsg(t[j])
      PROVE  Abstract!After(t[i]) = n
  <2>1. i \in 1 .. Len(s) + 1
    BY <1>1, LenProperties
  <2>2. CASE i = Len(s) + 1
    BY <1>1, <1>2, <2>2
  <2>3. CASE i # Len(s) + 1
    <3>1. i \in 1 .. Len(s) /\ Len(s) + 1 \in i + 1 .. Len(t) /\ i \in DOMAIN s
      BY <1>1, <2>1, <2>3, LenProperties
    <3>2. ~Abstract!IsFrameMsg(m)
      BY <1>1, <1>2, <3>1
    <3>3. \A j \in i + 1 .. Len(s) : ~Abstract!IsFrameMsg(s[j])
      <4>1. \A j \in i + 1 .. Len(s) : j \in i + 1 .. Len(t) /\ j \in 1 .. Len(s)
        BY <1>1, <3>1
      <4> QED BY <1>1, <1>2, <4>1
    <3>4. Says(s, n) /\ Abstract!IsFrameMsg(s[i])
      BY <1>1, <1>2, <3>1, <3>2
    <3>5. Abstract!After(s[i]) = n
      BY <3>1, <3>3, <3>4 DEF Says
    <3> QED BY <1>1, <3>1, <3>5
  <2> QED BY <2>2, <2>3
<1>3. Says(t, n)
  BY <1>2 DEF Says
<1> QED BY <1>1, <1>3 DEF t

LEMMA SaysAppendTwo ==
    ASSUME NEW S, NEW s \in Seq(S), NEW l \in S, NEW m \in S,
           Abstract!IsFrameMsg(m)
    PROVE  s \o <<l, m>> \in Seq(S) /\ Says(s \o <<l, m>>, Abstract!After(m))
<1>1. s \o <<l, m>> = (s \o <<l>>) \o <<m>> /\ s \o <<l>> \in Seq(S)
  <2> DEFINE a == <<l, m>>
             b == <<l>>
             c == <<m>>
  <2>1. /\ a \in Seq(S) /\ Len(a) = 2 /\ a[1] = l /\ a[2] = m
        /\ b \in Seq(S) /\ Len(b) = 1 /\ b[1] = l
        /\ c \in Seq(S) /\ Len(c) = 1 /\ c[1] = m
    OBVIOUS
  <2> HIDE DEF a, b, c
  <2>2. /\ Len(s) \in Nat
        /\ s \o a \in Seq(S) /\ Len(s \o a) = Len(s) + 2
        /\ \A i \in 1 .. Len(s) + 2 : (s \o a)[i] = IF i <= Len(s) THEN s[i] ELSE a[i - Len(s)]
        /\ s \o b \in Seq(S) /\ Len(s \o b) = Len(s) + 1
        /\ \A i \in 1 .. Len(s) + 1 : (s \o b)[i] = IF i <= Len(s) THEN s[i] ELSE b[i - Len(s)]
    <3>1. Len(s) \in Nat
      BY LenProperties
    <3>2. \A t \in Seq(S) :
             /\ s \o t \in Seq(S) /\ Len(s \o t) = Len(s) + Len(t)
             /\ \A i \in 1 .. Len(s) + Len(t) :
                   (s \o t)[i] = IF i <= Len(s) THEN s[i] ELSE t[i - Len(s)]
      BY ConcatProperties
    <3> QED BY <2>1, <3>1, <3>2
  <2> DEFINE d == s \o b
             e == s \o a
  <2> HIDE DEF d, e
  <2>3. /\ d \o c \in Seq(S) /\ Len(d \o c) = Len(s) + 2
        /\ \A i \in 1 .. Len(s) + 2 : (d \o c)[i] = IF i <= Len(s) + 1 THEN d[i]
                                                    ELSE c[i - (Len(s) + 1)]
    BY <2>1, <2>2, ConcatProperties DEF d
  <2>4. ASSUME NEW i \in 1 .. Len(s) + 2 PROVE (d \o c)[i] = e[i]
    <3>1. CASE i <= Len(s)
      BY <2>2, <2>3, <3>1 DEF d, e
    <3>2. CASE i = Len(s) + 1
      BY <2>1, <2>2, <2>3, <3>2 DEF d, e
    <3>3. CASE i = Len(s) + 2
      BY <2>1, <2>2, <2>3, <3>3 DEF d, e
    <3>4. i <= Len(s) \/ i = Len(s) + 1 \/ i = Len(s) + 2
      BY <2>2
    <3> QED BY <3>1, <3>2, <3>3, <3>4
  <2>5. e \in Seq(S) /\ Len(e) = Len(s) + 2
    BY <2>2 DEF e
  <2>6. d \o c = e
    BY <2>3, <2>4, <2>5, SeqEqual
  <2> QED BY <2>2, <2>6 DEF a, b, c, d, e
<1>2. /\ (s \o <<l>>) \o <<m>> \in Seq(S)
      /\ Says((s \o <<l>>) \o <<m>>, Abstract!After(m))
  BY <1>1, SaysAppend
<1> QED BY <1>1, <1>2

Messages == {Abstract!SCLogin(u) : u \in UUIDs}
            \cup {Abstract!SCFrameInit(c, n) : c \in Nat, n \in Nat}
            \cup {Abstract!SCSight(p) : p \in Abstract!Listings}
            \cup {Abstract!SCFrame(n) : n \in Nat}

\* Nothing is sent to a connection that there is not yet.
SentInv == /\ sent \in [Conns -> Seq(Messages)]
           /\ \A k \in Conns : k \notin 1 .. accepted => sent[k] = <<>>

\* A sight lists users that there are, each once.
Listed(p) == /\ \A i \in DOMAIN p : p[i] = 0 \/ \E l \in Conns : p[i] = m_UUID[l]
             /\ \A i, j \in DOMAIN p : i # j /\ p[i] = p[j] => p[i] = 0

\* What is broadcast is such a sight, or the last frame.
BcastInv == pc = "bcast" =>
    \/ \E p \in Abstract!Listings : bcast = << Abstract!SCSight(p) >> /\ Listed(p)
    \/ m_nxtFrameID > 0 /\ bcast = << Abstract!SCFrame(m_curFrameID) >>

\* The frame that the session of descriptor f has to be sent next: the one being
\* broadcast, if the iterator has still to pass f, or the one to come.
Due(f) == IF pc = "bcast" /\ bcast[1].type = "SCFrame" /\ cursor <= f THEN m_curFrameID
          ELSE m_nxtFrameID

\* That is what its connection was told.
DueInv == \A f \in Fds : m_sessions[f] \in Conns => Says(sent[m_sessions[f]], Due(f))

StreamInv == SentInv /\ BcastInv /\ DueInv

\* The steps that send nothing and begin no broadcast.
LEMMA QuietStream ==
    ASSUME IInv, GameInv, StreamInv,
           UNCHANGED <<sent, m_UUID, m_curFrameID, m_nxtFrameID, bcast, cursor>>,
           accepted' \in {accepted, accepted + 1},
           pc' = "bcast" => pc = "bcast",
           pc = "bcast" => pc' = "bcast" \/ cursor \notin Fds,
           \A f \in Fds : m_sessions'[f] \in Conns =>
               m_sessions'[f] = m_sessions[f] \/ sent[m_sessions'[f]] = <<>>
    PROVE  StreamInv'
<1>1. SentInv'
  <2>1. \A k : k \in 1 .. accepted => k \in 1 .. accepted'
    BY DEF IInv, TypesInv
  <2> QED BY <2>1 DEF StreamInv, SentInv
<1>2. BcastInv'
  BY DEF StreamInv, BcastInv, Listed
<1>3. ASSUME NEW f \in Fds PROVE Due(f)' = Due(f)
  <2>1. f \in 1 .. NumFds /\ cursor \in 1 .. NumFds + 1 /\ (cursor \notin Fds => cursor = NumFds + 1)
        /\ NumFds \in Nat
    BY WorldAssumption DEF Fds, GameInv, GameTypes
  <2>2. cursor \notin Fds => ~(cursor <= f)
    BY <2>1
  <2>3. CASE pc = "bcast" /\ pc' # "bcast"
    BY <2>2, <2>3 DEF Due
  <2>4. CASE pc # "bcast" \/ pc' = "bcast"
    BY <2>4 DEF Due
  <2> QED BY <2>3, <2>4
<1>4. ASSUME NEW f \in Fds, m_sessions'[f] \in Conns
      PROVE  Says(sent'[m_sessions'[f]], Due(f)')
  <2>1. CASE m_sessions'[f] = m_sessions[f]
    BY <1>3, <1>4, <2>1 DEF StreamInv, DueInv
  <2>2. CASE sent[m_sessions'[f]] = <<>>
    BY <2>2 DEF Says
  <2> QED BY <1>4, <2>1, <2>2
<1> QED BY <1>1, <1>2, <1>4 DEF StreamInv, DueInv

LEMMA InitStream == Init => StreamInv
<1> SUFFICES ASSUME Init PROVE StreamInv
  OBVIOUS
<1>1. SentInv
  BY DEF Init, SentInv
<1>2. BcastInv
  BY DEF Init, BcastInv
<1>3. DueInv
  BY WorldAssumption DEF Init, DueInv
<1> QED BY <1>1, <1>2, <1>3 DEF StreamInv

LEMMA OnJoinStream ==
    ASSUME IInv, GameInv, StreamInv, NEW f \in Fds, OnJoin(f) PROVE StreamInv'
<1>1. /\ accepted' = accepted + 1 /\ accepted + 1 \in Conns /\ accepted + 1 \notin 1 .. accepted
      /\ fd' = [fd EXCEPT ![accepted + 1] = f] /\ TypesInv
      /\ UNCHANGED <<sent, m_UUID, m_curFrameID, m_nxtFrameID, bcast, cursor, pc>>
  BY ConnFacts DEF IInv, OnJoin, Conns, local, logged, history
<1>2. sent[accepted + 1] = <<>> /\ fd'[accepted + 1] = f
  BY <1>1 DEF StreamInv, SentInv, TypesInv
<1>3. m_sessions' = m_sessions \/ m_sessions' = [m_sessions EXCEPT ![f] = accepted + 1]
  BY <1>1, <1>2 DEF OnJoin, RegisterUser
<1>4. \A g \in Fds : m_sessions'[g] = m_sessions[g] \/ m_sessions'[g] = accepted + 1
  BY <1>1, <1>3 DEF TypesInv
<1>5. \A g \in Fds : m_sessions'[g] \in Conns =>
          m_sessions'[g] = m_sessions[g] \/ sent[m_sessions'[g]] = <<>>
  BY <1>2, <1>4
<1> QED BY <1>1, <1>5, QuietStream

LEMMA OtherStream ==
    ASSUME IInv, GameInv, StreamInv,
           \/ \E k \in Conns : OnExit(k) \/ OnMessage(k)
           \/ SlotReused \/ NoMessage \/ FindHandler \/ FindUser \/ FetchUser \/ CallHandler
           \/ HandleReady \/ HandleFrame \/ ParseFails \/ PopMsg \/ NoTurn \/ BroadcastDone
           \/ UNCHANGED vars
    PROVE  StreamInv'
<1>1. UNCHANGED <<sent, m_UUID, m_curFrameID, m_nxtFrameID, bcast, cursor, accepted>>
  BY DEF OnExit, OnMessage, SlotReused, NoMessage, FindHandler, FindUser, FetchUser, CallHandler,
         HandleReady, HandleFrame, ParseFails, PopMsg, NoTurn, BroadcastDone, vars, net, local,
         logged, history
<1>2. pc' = "bcast" => pc = "bcast"
  BY DEF OnExit, OnMessage, SlotReused, NoMessage, FindHandler, FindUser, FetchUser, CallHandler,
         HandleReady, HandleFrame, ParseFails, PopMsg, NoTurn, BroadcastDone, Goes, At, vars
<1>3. pc = "bcast" => pc' = "bcast" \/ cursor \notin Fds
  BY DEF OnExit, OnMessage, SlotReused, NoMessage, FindHandler, FindUser, FetchUser, CallHandler,
         HandleReady, HandleFrame, ParseFails, PopMsg, NoTurn, BroadcastDone, Goes, At, vars
<1>4. \/ m_sessions' = m_sessions
      \/ \E f : m_sessions' = [m_sessions EXCEPT ![f] = Absent]
      \/ \E f : m_sessions' = [m_sessions EXCEPT ![f] = Null]
  <2>1. CASE FetchUser
    BY <2>1 DEF FetchUser, IInv, TypesInv
  <2>2. CASE \E k \in Conns : OnExit(k)
    BY <2>2 DEF OnExit
  <2>3. CASE ~FetchUser /\ ~(\E k \in Conns : OnExit(k))
    BY <2>3 DEF OnMessage, SlotReused, NoMessage, FindHandler, FindUser, CallHandler, HandleReady,
                HandleFrame, ParseFails, PopMsg, NoTurn, BroadcastDone, vars
  <2> QED BY <2>1, <2>2, <2>3
<1>5. \A f \in Fds : m_sessions'[f] \in {m_sessions[f], Absent, Null}
  BY <1>4 DEF IInv, TypesInv
<1>6. \A f \in Fds : m_sessions'[f] \in Conns => m_sessions'[f] = m_sessions[f]
  BY <1>5, WorldAssumption
<1> QED BY <1>1, <1>2, <1>3, <1>6, QuietStream

\* FrameTurn begins to send every session the frame that they all expect.
LEMMA FrameTurnStream == ASSUME IInv, GameInv, StreamInv, FrameTurn PROVE StreamInv'
<1>1. /\ pc = "turn" /\ pc' = "bcast" /\ cursor' = 1
      /\ m_curFrameID' = m_nxtFrameID /\ m_nxtFrameID' = m_nxtFrameID + 1
      /\ m_nxtFrameID \in Nat
      /\ bcast' = << Abstract!SCFrame(m_nxtFrameID) >>
      /\ UNCHANGED <<sent, m_sessions, accepted>>
  BY DEF FrameTurn, Goes, At, GameInv, GameTypes, net, history, Abstract!SCFrame
<1>2. SentInv'
  BY <1>1 DEF StreamInv, SentInv
<1>3. BcastInv'
  BY <1>1 DEF BcastInv
<1>4. ASSUME NEW f \in Fds PROVE Due(f) = m_nxtFrameID /\ Due(f)' = m_nxtFrameID
  <2>1. bcast'[1].type = "SCFrame"
    BY <1>1 DEF Abstract!SCFrame
  <2>2. 1 <= f
    BY WorldAssumption DEF Fds
  <2> QED BY <1>1, <2>1, <2>2 DEF Due
<1>5. DueInv'
  BY <1>1, <1>4 DEF StreamInv, DueInv
<1> QED BY <1>2, <1>3, <1>5 DEF StreamInv

\* The players that SendLoginInfo lists: one for each session, so no more than
\* there are connections and no user twice.
LEMMA PlayersListed ==
    ASSUME IInv, SessionsInv, UsersInv', m_UUID' \in [Conns -> UUIDs]
    PROVE  \E q \in Abstract!Listings : Players = q /\ Listed(q)'
<1> DEFINE entry == [f \in Fds |-> IF m_sessions[f] \in Conns THEN << m_UUID'[m_sessions[f]] >>
                                   ELSE <<>>]
           p == FlattenSeq(entry)
<1>1. NumFds \in Nat /\ Fds = 1 .. NumFds
  BY WorldAssumption DEF Fds
<1>2. /\ entry \in [1 .. NumFds -> Seq(UUIDs)]
      /\ \A f \in 1 .. NumFds : entry[f] = <<>> \/ \E a \in UUIDs : entry[f] = <<a>>
  <2>1. \A f \in Fds : m_sessions[f] \in Conns => m_UUID'[m_sessions[f]] \in UUIDs
    OBVIOUS
  <2> QED BY <1>1, <2>1
<1>3. \A f \in Fds : entry[f] # <<>> =>
          m_sessions[f] \in Conns /\ entry[f] = << m_UUID'[m_sessions[f]] >>
  OBVIOUS
<1>4. Players = p
  BY DEF Players
<1> HIDE DEF entry
<1>5. p \in Seq(UUIDs) /\ \E h : Sources(h, p, entry, NumFds)
  BY <1>1, <1>2, FlattenOnes
<1>6. PICK h : Sources(h, p, entry, NumFds)
  BY <1>5
<1> HIDE DEF p
<1>7. Len(p) \in Nat /\ DOMAIN p = 1 .. Len(p) /\ p \in [1 .. Len(p) -> UUIDs]
  BY <1>5, LenProperties
<1> DEFINE g == [i \in 1 .. Len(p) |-> m_sessions[h[i]]]
<1>8. ASSUME NEW i \in 1 .. Len(p)
      PROVE  h[i] \in Fds /\ g[i] \in Conns /\ p[i] = m_UUID'[g[i]] /\ fd[g[i]] = h[i]
  <2>1. h[i] \in Fds /\ entry[h[i]] = << p[i] >>
    BY <1>1, <1>6 DEF Sources
  <2>2. m_sessions[h[i]] \in Conns /\ << p[i] >> = << m_UUID'[m_sessions[h[i]]] >>
    <3>1. << p[i] >> # <<>>
      OBVIOUS
    <3> QED BY <1>3, <2>1, <3>1
  <2>3. p[i] = m_UUID'[m_sessions[h[i]]]
    BY <2>2
  <2>4. fd[m_sessions[h[i]]] = h[i]
    BY <2>1, <2>2 DEF SessionsInv
  <2> QED BY <2>1, <2>2, <2>3, <2>4
<1>9. \A i, j \in 1 .. Len(p) : g[i] = g[j] => i = j
  <2> HIDE DEF g
  <2>1. \A i, j \in 1 .. Len(p) : g[i] = g[j] => h[i] = h[j]
    BY <1>8
  <2> QED BY <1>6, <2>1 DEF Sources
<1>10. Len(p) \in 0 .. Cardinality(Conns)
  <2>1. g \in [1 .. Len(p) -> Conns]
    BY <1>8
  <2>2. IsFiniteSet(1 .. Len(p)) /\ Cardinality(1 .. Len(p)) = Len(p)
    <3>1. /\ IsFiniteSet(1 .. Len(p))
          /\ Cardinality(1 .. Len(p)) = IF 1 > Len(p) THEN 0 ELSE Len(p) - 1 + 1
      BY <1>7, FS_Interval
    <3> QED BY <1>7, <3>1
  <2> HIDE DEF g
  <2>3. Cardinality(1 .. Len(p)) <= Cardinality(Conns)
    <3>1. g \in Injection(1 .. Len(p), Conns)
      BY <1>9, <2>1 DEF Injection, IsInjective
    <3> QED BY <2>2, <3>1, ConnsFinite, FS_Injection
  <2> QED BY <1>7, <2>2, <2>3, ConnsFinite, WorldAssumption
<1>11. p \in Abstract!Listings
  <2>1. [1 .. Len(p) -> UUIDs] \in {[1 .. n -> UUIDs] : n \in 0 .. Cardinality(Conns)}
    BY <1>10
  <2>2. Abstract!Listings = UNION {[1 .. n -> UUIDs] : n \in 0 .. Cardinality(Conns)}
    BY Zenon DEF Abstract!Listings, Abstract!Cardinality, Cardinality
  <2>3. p \in UNION {[1 .. n -> UUIDs] : n \in 0 .. Cardinality(Conns)}
    BY <1>7, <2>1, Zenon
  <2> QED BY <2>2, <2>3, Zenon
<1>12. \A i \in 1 .. Len(p) : \E l \in Conns : p[i] = m_UUID'[l]
  <2> HIDE DEF g
  <2> QED BY <1>8
<1>13. ASSUME NEW i \in 1 .. Len(p), NEW j \in 1 .. Len(p), i # j, p[i] = p[j]
       PROVE  p[i] = 0
  <2> HIDE DEF g
  <2> QED BY <1>8, <1>9, <1>13 DEF UsersInv
<1>14. /\ \A i \in DOMAIN p : p[i] = 0 \/ \E l \in Conns : p[i] = m_UUID'[l]
       /\ \A i, j \in DOMAIN p : i # j /\ p[i] = p[j] => p[i] = 0
  BY <1>7, <1>12, <1>13
<1>15. PICK q : q = p
  OBVIOUS
<1>16. Listed(q)'
  BY <1>14, <1>15 DEF Listed
<1> QED BY <1>4, <1>11, <1>15, <1>16

\* The first login of a player tells it which frame comes next.
LEMMA HandleLoginStream == ASSUME IInv, GameInv, StreamInv, HandleLogin PROVE StreamInv'
<1>1. /\ Alive /\ pc = "handle" /\ player \in Conns /\ player \in 1 .. accepted /\ SessionsInv
      /\ UNCHANGED <<accepted, m_sessions, m_curFrameID, m_nxtFrameID>>
      /\ m_curFrameID \in Nat /\ m_nxtFrameID \in Nat
  BY PlayerFacts DEF HandleLogin, At, IInv, GameInv, GameTypes, net, logged
<1>2. CASE ~FirstLogin
  <2>1. pc' = "pop" /\ UNCHANGED <<sent, m_UUID, bcast, cursor>>
    BY <1>2 DEF HandleLogin
  <2> QED BY <1>1, <2>1, QuietStream
<1>3. CASE FirstLogin
  <2> DEFINE u == m_uuid_counter + 1
             login == Abstract!SCLogin(u)
             init == Abstract!SCFrameInit(m_curFrameID, m_nxtFrameID)
  <2>1. /\ m_UUID' = [m_UUID EXCEPT ![player] = u] /\ m_uuid_counter' = u
        /\ sent' = [sent EXCEPT ![player] = @ \o << login, init >>]
        /\ SendLoginInfo
    BY <1>3 DEF HandleLogin, Send, Abstract!SCLogin, Abstract!SCFrameInit
  <2>2. UsersInv' /\ m_UUID' \in [Conns -> UUIDs] /\ u \in UUIDs
    BY <1>1, <1>3, <2>1, NewUser DEF GameInv
  <2>3. /\ login \in Messages /\ init \in Messages
        /\ Abstract!IsFrameMsg(init) /\ Abstract!After(init) = m_nxtFrameID
    BY <1>1, <2>2 DEF Messages, Abstract!SCFrameInit, Abstract!IsFrameMsg, Abstract!After
  <2> HIDE DEF u, login, init
  <2>4. /\ sent'[player] \in Seq(Messages) /\ Says(sent'[player], m_nxtFrameID)
        /\ \A k \in Conns \ {player} : sent'[k] = sent[k]
    <3>1. sent \in [Conns -> Seq(Messages)] /\ sent[player] \in Seq(Messages)
      BY <1>1 DEF StreamInv, SentInv
    <3>2. /\ sent[player] \o << login, init >> \in Seq(Messages)
          /\ Says(sent[player] \o << login, init >>, m_nxtFrameID)
      BY <2>3, <3>1, SaysAppendTwo
    <3> QED BY <1>1, <2>1, <3>1, <3>2
  <2>5. SentInv'
    BY <1>1, <2>1, <2>4 DEF StreamInv, SentInv
  <2>6. BcastInv'
    <3>1. CASE pc' = "bcast"
      <4>1. bcast' = << Abstract!SCSight(Players) >>
        BY <1>1, <2>1, <3>1 DEF SendLoginInfo, Abstract!SCSight
      <4>2. PICK q \in Abstract!Listings : Players = q /\ Listed(q)'
        BY <1>1, <2>2, PlayersListed
      <4> QED BY <4>1, <4>2 DEF BcastInv
    <3> QED BY <3>1 DEF BcastInv
  <2>7. \A f \in Fds : Due(f) = m_nxtFrameID /\ Due(f)' = m_nxtFrameID
    <3>1. pc' # "bcast" \/ bcast'[1].type # "SCFrame"
      <4>1. CASE \E f \in Fds : m_sessions[f] = Null
        BY <1>1, <2>1, <4>1 DEF SendLoginInfo
      <4>2. CASE ~\E f \in Fds : m_sessions[f] = Null
        <5>1. bcast' = << [type |-> "SCSight", players |-> Players] >>
          BY <2>1, <4>2 DEF SendLoginInfo
        <5>2. PICK q : q = Players
          OBVIOUS
        <5> QED BY <5>1, <5>2
      <4> QED BY <4>1, <4>2
    <3> QED BY <1>1, <3>1 DEF Due
  <2>8. DueInv'
    BY <1>1, <2>4, <2>7 DEF StreamInv, DueInv
  <2> QED BY <2>5, <2>6, <2>8 DEF StreamInv
<1> QED BY <1>2, <1>3

\* What the iterator sends to a session: a sight, or the frame it expects.
LEMMA BroadcastSends ==
    ASSUME IInv, GameInv, StreamInv, BroadcastStep, m_sessions[cursor] \in Conns
    PROVE  \E k \in Conns, m \in Messages :
              /\ m_sessions[cursor] = k /\ cursor \in Fds /\ bcast = <<m>>
              /\ sent' = [sent EXCEPT ![k] = @ \o <<m>>]
              /\ \/ /\ ~Abstract!IsFrameMsg(m)
                    /\ m.type # "SCFrame"
                    /\ \E p \in Abstract!Listings : m = Abstract!SCSight(p) /\ Listed(p)
                 \/ /\ m = Abstract!SCFrame(m_curFrameID) /\ m_nxtFrameID > 0
                    /\ m.type = "SCFrame"
                    /\ Abstract!IsFrameMsg(m) /\ Abstract!After(m) = m_nxtFrameID
                    /\ Says(sent[k], m_curFrameID)
<1> DEFINE k == m_sessions[cursor]
<1>1. /\ pc = "bcast" /\ cursor \in Fds /\ cursor <= cursor
      /\ k \in Conns /\ sent' = [sent EXCEPT ![k] = @ \o bcast]
      /\ m_curFrameID = IF m_nxtFrameID = 0 THEN 0 ELSE m_nxtFrameID - 1
      /\ m_nxtFrameID \in Nat
  <2>1. pc = "bcast" /\ cursor \in Fds /\ cursor <= cursor
    BY WorldAssumption DEF BroadcastStep, At, Fds
  <2>2. k # Absent /\ k # Null
    BY WorldAssumption
  <2>3. sent' = [sent EXCEPT ![k] = @ \o bcast]
    BY <2>2 DEF BroadcastStep, Visit, Send
  <2> QED BY <2>1, <2>3 DEF GameInv, GameTypes
<1> HIDE DEF k
<1>2. ASSUME NEW p \in Abstract!Listings, bcast = << Abstract!SCSight(p) >>, Listed(p)
      PROVE  /\ ~Abstract!IsFrameMsg(Abstract!SCSight(p))
             /\ Abstract!SCSight(p) \in Messages
             /\ Abstract!SCSight(p).type # "SCFrame"
  BY DEF Abstract!SCSight, Abstract!IsFrameMsg, Messages
<1>3. ASSUME m_nxtFrameID > 0, bcast = << Abstract!SCFrame(m_curFrameID) >>
      PROVE  /\ Abstract!SCFrame(m_curFrameID) \in Messages
             /\ Abstract!SCFrame(m_curFrameID).type = "SCFrame"
             /\ Abstract!IsFrameMsg(Abstract!SCFrame(m_curFrameID))
             /\ Abstract!After(Abstract!SCFrame(m_curFrameID)) = m_nxtFrameID
             /\ Says(sent[k], m_curFrameID)
  <2>1. m_curFrameID \in Nat /\ m_curFrameID + 1 = m_nxtFrameID
    BY <1>1, <1>3
  <2>2. Due(cursor) = m_curFrameID
    BY <1>1, <1>3 DEF Due, Abstract!SCFrame
  <2>3. Says(sent[k], m_curFrameID)
    BY <1>1, <2>2 DEF StreamInv, DueInv, k
  <2>4. Abstract!SCFrame(m_curFrameID) \in Messages
    BY <2>1 DEF Messages
  <2>5. /\ Abstract!SCFrame(m_curFrameID).type = "SCFrame"
        /\ Abstract!IsFrameMsg(Abstract!SCFrame(m_curFrameID))
        /\ Abstract!After(Abstract!SCFrame(m_curFrameID)) = m_nxtFrameID
    BY <2>1 DEF Abstract!SCFrame, Abstract!IsFrameMsg, Abstract!After
  <2> QED BY <2>3, <2>4, <2>5
<1>4. CASE \E p \in Abstract!Listings : bcast = << Abstract!SCSight(p) >> /\ Listed(p)
  BY <1>1, <1>2, <1>4 DEF k
<1>5. CASE m_nxtFrameID > 0 /\ bcast = << Abstract!SCFrame(m_curFrameID) >>
  BY <1>1, <1>3, <1>5 DEF k
<1> QED BY <1>1, <1>4, <1>5 DEF StreamInv, BcastInv

LEMMA BroadcastStepStream == ASSUME IInv, GameInv, StreamInv, BroadcastStep PROVE StreamInv'
<1>1. /\ Alive /\ SessionsInv /\ cursor \in Fds /\ cursor' = cursor + 1 /\ pc = "bcast"
      /\ UNCHANGED <<accepted, m_sessions, m_UUID, m_curFrameID, m_nxtFrameID, pc, bcast>>
  BY DEF BroadcastStep, At, IInv, logged, net
<1>2. BcastInv'
  BY <1>1 DEF StreamInv, BcastInv, Listed
<1>3. ASSUME NEW f \in Fds, f # cursor PROVE Due(f)' = Due(f)
  <2>1. f \in Int /\ cursor \in Int
    BY <1>1, WorldAssumption DEF Fds
  <2>2. cursor + 1 <= f <=> cursor <= f
    BY <1>3, <2>1
  <2> QED BY <1>1, <2>2 DEF Due
<1>4. ASSUME NEW f \in Fds, f = cursor PROVE Due(f)' = m_nxtFrameID
  <2>1. ~(cursor + 1 <= f)
    BY <1>4, WorldAssumption DEF Fds
  <2> QED BY <1>1, <2>1 DEF Due
<1>5. CASE m_sessions[cursor] \notin Conns
  <2>1. sent' = sent
    BY <1>5 DEF BroadcastStep, Visit
  <2> QED BY <1>1, <1>2, <1>3, <1>5, <2>1 DEF StreamInv, SentInv, DueInv
<1>6. CASE m_sessions[cursor] \in Conns
  <2> DEFINE k == m_sessions[cursor]
  <2>1. PICK m \in Messages :
           /\ sent' = [sent EXCEPT ![k] = @ \o <<m>>]
           /\ \/ ~Abstract!IsFrameMsg(m) /\ m.type # "SCFrame" /\ bcast = <<m>>
              \/ Abstract!IsFrameMsg(m) /\ Abstract!After(m) = m_nxtFrameID
    BY <1>6, BroadcastSends
  <2>2. sent \in [Conns -> Seq(Messages)] /\ k \in Conns /\ sent[k] \in Seq(Messages)
    BY <1>6 DEF StreamInv, SentInv
  <2>3. Says(sent[k], m_nxtFrameID) \/ Abstract!IsFrameMsg(m)
    <3>1. ASSUME m.type # "SCFrame", bcast = <<m>> PROVE Due(cursor) = m_nxtFrameID
      BY <3>1 DEF Due
    <3> QED BY <1>1, <1>6, <2>1, <3>1 DEF StreamInv, DueInv
  <2> HIDE DEF k
  <2>4. sent[k] \o <<m>> \in Seq(Messages) /\ Says(sent[k] \o <<m>>, m_nxtFrameID)
    BY <2>1, <2>2, <2>3, SaysAppend
  <2>5. /\ sent' \in [Conns -> Seq(Messages)] /\ Says(sent'[k], m_nxtFrameID)
        /\ \A l \in Conns \ {k} : sent'[l] = sent[l]
    BY <2>1, <2>2, <2>4
  <2>6. k \in 1 .. accepted /\ fd[k] = cursor
    BY <1>1, <1>6 DEF SessionsInv, IInv, TypesInv, k
  <2>7. SentInv'
    BY <1>1, <2>5, <2>6 DEF StreamInv, SentInv
  <2>8. ASSUME NEW f \in Fds, m_sessions[f] \in Conns PROVE Says(sent'[m_sessions[f]], Due(f)')
    <3>1. CASE f = cursor
      BY <1>4, <2>5, <3>1 DEF k
    <3>2. CASE f # cursor
      <4>1. m_sessions[f] # k
        BY <1>1, <2>6, <2>8, <3>2 DEF SessionsInv
      <4> QED BY <1>3, <2>5, <2>8, <3>2, <4>1 DEF StreamInv, DueInv
    <3> QED BY <3>1, <3>2
  <2> QED BY <1>1, <1>2, <2>7, <2>8 DEF StreamInv, DueInv
<1> QED BY <1>5, <1>6

LEMMA NextStream == IInv /\ GameInv /\ StreamInv /\ [Next]_vars => StreamInv'
<1> SUFFICES ASSUME IInv, GameInv, StreamInv, [Next]_vars PROVE StreamInv'
  OBVIOUS
<1>1. CASE CellThread
  BY <1>1, OnJoinStream, OtherStream DEF CellThread
<1>2. CASE MainThread
  BY <1>2, HandleLoginStream, FrameTurnStream, BroadcastStepStream, OtherStream DEF MainThread
<1>3. CASE UNCHANGED vars
  BY <1>3, OtherStream
<1> QED BY <1>1, <1>2, <1>3 DEF Next

LEMMA SpecStream == Spec => []StreamInv
BY InitIInv, InitGame, InitStream, NextIInv, NextGame, NextStream, PTL DEF Spec

\* The frames are a sequence, as long as the next frame's number says.
LEMMA FramesFacts ==
    ASSUME GameInv
    PROVE  /\ frames \in Seq([UUIDs -> Seq(KeySet)])
           /\ Abstract!NxtFrameID = m_nxtFrameID
           /\ Abstract!CurFrameID = m_curFrameID
           /\ frames = <<>> <=> m_nxtFrameID = 0
<1>1. /\ m_nxtFrameID \in Nat
      /\ \A n \in 1 .. m_nxtFrameID : m_oldFrameInfo[n - 1] \in [UUIDs -> Seq(KeySet)]
      /\ m_curFrameID = IF m_nxtFrameID = 0 THEN 0 ELSE m_nxtFrameID - 1
  BY DEF GameInv, GameTypes
<1>2. frames \in Seq([UUIDs -> Seq(KeySet)]) /\ Len(frames) = m_nxtFrameID
  BY <1>1 DEF frames
<1>3. frames = <<>> <=> m_nxtFrameID = 0
  <2> HIDE DEF frames
  <2> QED BY <1>2, EmptySeq
<1> QED BY <1>1, <1>2, <1>3 DEF Abstract!NxtFrameID, Abstract!CurFrameID

LEMMA InitAbstract == Init => Abstract!Init
<1> SUFFICES ASSUME Init PROVE Abstract!Init
  OBVIOUS
<1>1. frames = <<>>
  BY DEF Init, frames
<1> QED BY <1>1 DEF Init, Abstract!Init, NoKeys, Abstract!NoKeys

\* The steps that no client sees.
LEMMA HiddenAbstract ==
    ASSUME UNCHANGED <<m_nxtFrameID, m_oldFrameInfo, m_curFrameInfo, m_UUID, sent>>
    PROVE  UNCHANGED Abstract!vars
BY DEF frames, Abstract!vars

LEMMA HandleLoginAbstract ==
    ASSUME IInv, GameInv, HandleLogin PROVE Abstract!Next \/ UNCHANGED Abstract!vars
<1>1. /\ pc = "handle" /\ player \in Conns /\ UNCHANGED accepted
      /\ UNCHANGED <<m_nxtFrameID, m_oldFrameInfo, m_curFrameInfo>>
  BY PlayerFacts DEF HandleLogin, At, logged, net
<1>2. CASE ~FirstLogin
  BY <1>1, <1>2, HiddenAbstract DEF HandleLogin
<1>3. CASE FirstLogin
  <2> DEFINE u == m_uuid_counter + 1
  <2>1. /\ m_UUID' = [m_UUID EXCEPT ![player] = u] /\ m_uuid_counter' = u
        /\ Abstract!Send(player, << Abstract!SCLogin(u),
                                    Abstract!SCFrameInit(m_curFrameID, m_nxtFrameID) >>)
    BY <1>3 DEF HandleLogin, Send, Abstract!Send, Abstract!SCLogin, Abstract!SCFrameInit
  <2>2. u \in UUIDs \ ({0} \cup {m_UUID[l] : l \in Conns})
    BY <1>1, <1>3, <2>1, NewUser DEF GameInv
  <2> HIDE DEF u
  <2>3. Abstract!CurFrameID = m_curFrameID /\ Abstract!NxtFrameID = m_nxtFrameID
    BY FramesFacts
  <2>4. UNCHANGED <<frames, m_curFrameInfo>>
    BY <1>1 DEF frames
  <2>5. Abstract!Login(player)
    BY <1>3, <2>1, <2>2, <2>3, <2>4 DEF Abstract!Login, FirstLogin
  <2> QED BY <1>1, <2>5 DEF Abstract!Next
<1> QED BY <1>2, <1>3

LEMMA HandleFrameAbstract ==
    ASSUME IInv, GameInv, HandleFrame PROVE Abstract!Next \/ UNCHANGED Abstract!vars
<1>1. UNCHANGED <<m_nxtFrameID, m_oldFrameInfo, m_UUID, sent>>
  BY DEF HandleFrame
<1>2. CASE slot.type # "ECSFrame"
  BY <1>1, <1>2, HiddenAbstract DEF HandleFrame
<1>3. CASE slot.type = "ECSFrame"
  <2> DEFINE u == slot.uuid
             key == slot.key
  <2>1. /\ u \in UUIDs /\ key \in KeySet /\ m_curFrameInfo[u] \in Seq(KeySet)
        /\ m_curFrameInfo' = [m_curFrameInfo EXCEPT ![u] = Append(@, key)]
    BY <1>3 DEF HandleFrame, GameInv, GameTypes
  <2> HIDE DEF u, key
  <2>2. Append(m_curFrameInfo[u], key) = m_curFrameInfo[u] \o <<key>>
    BY <2>1, AppendIsConcat
  <2>3. m_curFrameInfo' = [m_curFrameInfo EXCEPT ![u] = @ \o <<key>>]
    BY <2>1, <2>2
  <2>4. Abstract!Take(u, <<key>>)
    BY <1>1, <2>3 DEF Abstract!Take, frames
  <2> QED BY <2>1, <2>4 DEF Abstract!Next, KeySet
<1> QED BY <1>2, <1>3

LEMMA FrameTurnAbstract ==
    ASSUME IInv, GameInv, FrameTurn PROVE Abstract!Next
<1> DEFINE Frame == [UUIDs -> Seq(KeySet)]
           longer == Append(frames, m_curFrameInfo)
<1>1. /\ m_nxtFrameID' = m_nxtFrameID + 1 /\ m_nxtFrameID \in Nat
      /\ m_curFrameInfo' = NoKeys /\ m_curFrameInfo \in Frame
      /\ UNCHANGED <<m_UUID, sent>>
  BY DEF FrameTurn, GameInv, GameTypes, history
<1>2. /\ m_oldFrameInfo'[m_nxtFrameID] = m_curFrameInfo
      /\ \A n \in 0 .. m_nxtFrameID - 1 : m_oldFrameInfo'[n] = m_oldFrameInfo[n]
  BY FrameTurnKeys DEF GameInv
<1>3. frames \in Seq(Frame) /\ frames' \in Seq(Frame) /\ Len(frames') = m_nxtFrameID + 1
      /\ Len(frames) = m_nxtFrameID
  <2>1. m_oldFrameInfo' \in [0 .. m_nxtFrameID' - 1 -> Frame]
    BY FrameTurnKeys DEF GameInv
  <2> HIDE DEF Frame
  <2>2. \A n \in 1 .. m_nxtFrameID + 1 : m_oldFrameInfo'[n - 1] \in Frame
    BY <1>1, <2>1
  <2>3. frames' \in Seq(Frame) /\ Len(frames') = m_nxtFrameID + 1
    BY <1>1, <2>2 DEF frames
  <2> QED BY <2>3, FramesFacts DEF Frame, Abstract!NxtFrameID
<1>4. \A i \in 1 .. m_nxtFrameID : frames'[i] = frames[i]
  BY <1>1, <1>2 DEF frames
<1>5. frames'[m_nxtFrameID + 1] = m_curFrameInfo
  BY <1>1, <1>2 DEF frames
<1> HIDE DEF Frame
<1>6. /\ longer \in Seq(Frame) /\ Len(longer) = m_nxtFrameID + 1
      /\ \A i \in 1 .. m_nxtFrameID + 1 : longer[i] = frames'[i]
  BY <1>1, <1>3, <1>4, <1>5, AppendProperties
<1> HIDE DEF longer
<1>7. frames' = longer
  BY <1>3, <1>6, SeqEqual
<1> QED BY <1>1, <1>7 DEF longer, Abstract!Next, Abstract!CloseFrame, NoKeys, Abstract!NoKeys

LEMMA BroadcastStepAbstract ==
    ASSUME IInv, GameInv, StreamInv, BroadcastStep
    PROVE  Abstract!Next \/ UNCHANGED Abstract!vars
<1>1. UNCHANGED <<m_nxtFrameID, m_oldFrameInfo, m_curFrameInfo, m_UUID>>
  BY DEF BroadcastStep, logged
<1>2. CASE m_sessions[cursor] \notin Conns
  BY <1>1, <1>2, HiddenAbstract DEF BroadcastStep, Visit
<1>3. CASE m_sessions[cursor] \in Conns
  <2>1. PICK k \in Conns, m \in Messages :
           /\ sent' = [sent EXCEPT ![k] = @ \o <<m>>]
           /\ \/ \E p \in Abstract!Listings : m = Abstract!SCSight(p) /\ Listed(p)
              \/ /\ m = Abstract!SCFrame(m_curFrameID) /\ m_nxtFrameID > 0
                 /\ Says(sent[k], m_curFrameID)
    BY <1>3, BroadcastSends
  <2>2. Abstract!Send(k, <<m>>) /\ UNCHANGED <<frames, m_curFrameInfo, m_UUID>>
    BY <1>1, <2>1 DEF Abstract!Send, frames
  <2>3. ASSUME NEW p \in Abstract!Listings, m = Abstract!SCSight(p), Listed(p)
        PROVE  Abstract!Next
    <3>1. Abstract!Sight(k, p)
      BY <2>2, <2>3 DEF Abstract!Sight, Listed
    <3> QED BY <3>1 DEF Abstract!Next
  <2>4. ASSUME m = Abstract!SCFrame(m_curFrameID), m_nxtFrameID > 0, Says(sent[k], m_curFrameID)
        PROVE  Abstract!Next
    <3>1. frames # <<>> /\ Abstract!CurFrameID = m_curFrameID
      BY <2>4, FramesFacts
    <3>2. Abstract!Expects(k, m_curFrameID)
      BY <2>4 DEF Abstract!Expects, Says
    <3>3. Abstract!SendFrame(k)
      BY <2>2, <2>4, <3>1, <3>2 DEF Abstract!SendFrame
    <3> QED BY <3>3 DEF Abstract!Next
  <2> QED BY <2>1, <2>3, <2>4
<1> QED BY <1>2, <1>3

LEMMA OtherAbstract ==
    ASSUME \/ CellThread
           \/ NoMessage \/ FindHandler \/ FindUser \/ FetchUser \/ CallHandler \/ HandleReady
           \/ ParseFails \/ PopMsg \/ NoTurn \/ BroadcastDone
           \/ UNCHANGED vars
    PROVE  UNCHANGED Abstract!vars
<1>1. UNCHANGED <<m_nxtFrameID, m_oldFrameInfo, m_curFrameInfo, m_UUID, sent>>
  BY DEF CellThread, OnJoin, OnExit, OnMessage, SlotReused, NoMessage, FindHandler, FindUser,
         FetchUser, CallHandler, HandleReady, ParseFails, PopMsg, NoTurn, BroadcastDone, vars,
         logged, history
<1> QED BY <1>1, HiddenAbstract

LEMMA NextAbstract ==
    IInv /\ GameInv /\ StreamInv /\ [Next]_vars => [Abstract!Next]_(Abstract!vars)
<1> SUFFICES ASSUME IInv, GameInv, StreamInv, [Next]_vars
             PROVE  Abstract!Next \/ UNCHANGED Abstract!vars
  OBVIOUS
<1>1. CASE MainThread
  BY <1>1, HandleLoginAbstract, HandleFrameAbstract, FrameTurnAbstract, BroadcastStepAbstract,
     OtherAbstract DEF MainThread
<1>2. CASE CellThread \/ UNCHANGED vars
  BY <1>2, OtherAbstract
<1> QED BY <1>1, <1>2 DEF Next

\* What clients see of the server is one log of frames, sent to each in order,
\* each once and without a gap, and to each login a user id of its own.
THEOREM ImplementsFrameServerHolds == Spec => ImplementsFrameServer
<1>1. Spec => Abstract!Spec
  BY InitAbstract, NextAbstract, SpecIInv, SpecGame, SpecStream, PTL DEF Spec, Abstract!Spec
<1> QED BY <1>1 DEF ImplementsFrameServer
=============================================================================
