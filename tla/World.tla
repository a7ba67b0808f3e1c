-------------------------------- MODULE World --------------------------------
(***************************************************************************)
(* The lock-step server (LockStepDemo: World.cpp, Server.cpp, Player.cpp,  *)
(* LockStepServer.cpp).  Two threads share one World and no lock:          *)
(*                                                                         *)
(*   - the only cell's worker calls Server::OnJoin, OnMessage and OnExit,  *)
(*     which register a session, queue a message and delete the session;   *)
(*   - the main thread calls Tick for ever: it handles one queued message, *)
(*     then, every 100 ms of a running game, sends the next frame.         *)
(*                                                                         *)
(* A queued message is a client and a pointer to the MessageBody on the    *)
(* stack of Cell::Recv.  That is the same stack slot for every message, so *)
(* each time the main thread reads through the pointer it finds the last   *)
(* message received, or what other code left there.                        *)
(*                                                                         *)
(* Each lookup, insertion, removal and iterator step on the shared         *)
(* containers is one indivisible action; what an unlocked std::map or      *)
(* std::queue does when two of them overlap is not modelled.  The cell's    *)
(* own failing select, after which it handles nothing more, is NetServer's. *)
(***************************************************************************)
EXTENDS Integers, Sequences, FiniteSets, SequencesExt

CONSTANTS MaxConns,    \* bound on the connections ever accepted
          NumFds,      \* descriptors the system gives to accepted sockets
          MaxMsgs,     \* bound on the messages ever received
          MaxFrames,   \* bound on the frames ever sent
          Absent,      \* m_sessions has no entry
          Null         \* m_sessions has an entry with an empty PlayerPtr

Conns == 1 .. MaxConns
Fds   == 1 .. NumFds

UUIDs == 0 .. MaxConns

\* What is in the stack slot.  A frame message carries the uuid its client was
\* given, 0 before the login, and one key, a fresh number.
Junk     == [type |-> "junk"]
LoginMsg == [type |-> "ECSLogin"]
ReadyMsg == [type |-> "ECSReady"]
FrameMsg(uuid, key) == [type |-> "ECSFrame", uuid |-> uuid, key |-> key]

ASSUME WorldAssumption == /\ MaxConns \in Nat /\ NumFds \in Nat
                          /\ MaxMsgs \in Nat /\ MaxFrames \in Nat
                          /\ Absent \notin Conns /\ Null \notin Conns
                          /\ Absent # Null

VARIABLES
    accepted, fd,      \* connections so far, and the descriptor of each
    clients,           \* the cell's m_clients: joined and not exited
    m_sessions,        \* descriptor -> connection of the Player, Null or Absent
    m_UUID,            \* of each connection's Player
    m_msgQueue,        \* the clients of the queued messages
    slot,              \* the MessageBody every queued pointer points to
    received,          \* messages received
    pc, type, player,  \* main thread: place in Tick, handler's type, PlayerPtr
    bcast, cursor,     \* main thread: message and iterator of Broadcast
    m_gameState, m_readyCount, m_uuid_counter,
    m_curFrameID, m_nxtFrameID,
    m_curFrameInfo,    \* uuid -> keys, of the coming frame
    m_oldFrameInfo,    \* uuid -> keys, of each frame sent
    sent,              \* history: what was sent to each connection
    taken,             \* history: uuid -> the keys HandleFrame took, in order
    phantoms,          \* history: descriptors GetUser made an empty entry for
    crash              \* why the process ended, or "no"

net     == <<accepted, fd, clients>>
mailbox == <<m_msgQueue, slot, received>>
local   == <<type, player, bcast, cursor>>
game    == <<m_gameState, m_readyCount, m_uuid_counter>>
logged  == <<m_curFrameID, m_nxtFrameID, m_curFrameInfo, m_oldFrameInfo>>
history == <<sent, taken>>
vars == <<net, m_sessions, m_UUID, mailbox, pc, local, game, logged, history, phantoms, crash>>

\* The process has not died.
Alive == crash = "no"

\* Somebody holds a ClientSocketPtr to k, so its descriptor is open: the cell,
\* the Player in a session, or a queued message.  (The PlayerPtr and MsgNode
\* the main thread works with are those of the message still at the front.)
Referenced(k) == \/ k \in clients
                 \/ \E f \in Fds : m_sessions[f] = k
                 \/ k \in ToSet(m_msgQueue)

\* Bug: a queued message holds the descriptor and no ClientSocketPtr.
BugOpenFds == {fd[k] : k \in {c \in 1 .. accepted :
                    c \in clients \/ \E f \in Fds : m_sessions[f] = c}}

OpenFds == {fd[k] : k \in {c \in 1 .. accepted : Referenced(c)}}

TypeOK ==
    /\ accepted \in 0 .. MaxConns
    /\ fd \in [Conns -> Fds \cup {0}]
    /\ clients \subseteq 1 .. accepted
    /\ m_sessions \in [Fds -> Conns \cup {Absent, Null}]
    /\ m_UUID \in [Conns -> UUIDs]
    /\ m_msgQueue \in Seq(Conns)
    /\ slot.type \in {"junk", "ECSLogin", "ECSReady", "ECSFrame"}
    /\ received \in 0 .. MaxMsgs
    /\ pc \in {"tick", "find", "fetch", "call", "handle", "bcast", "pop", "turn"}
    /\ type \in {"junk", "ECSLogin", "ECSReady", "ECSFrame"}
    /\ player \in Conns \cup {Null}
    /\ cursor \in 1 .. NumFds + 1
    /\ m_gameState \in {"EGS_Ready", "EGS_RUNNING"}
    /\ m_readyCount \in 0 .. MaxMsgs
    /\ m_uuid_counter \in UUIDs
    /\ m_curFrameID \in 0 .. MaxFrames /\ m_nxtFrameID \in 0 .. MaxFrames
    /\ m_curFrameInfo \in [UUIDs -> Seq(1 .. MaxMsgs)]
    /\ crash \in {"no", "RegisterUser", "DeleteUser", "empty PlayerPtr", "empty handler"}

\* No user has pressed a key.
NoKeys == [u \in UUIDs |-> <<>>]

Init ==
    /\ accepted = 0 /\ fd = [k \in Conns |-> 0] /\ clients = {}
    /\ m_sessions = [f \in Fds |-> Absent]
    /\ m_UUID = [k \in Conns |-> 0]
    /\ m_msgQueue = <<>> /\ slot = Junk /\ received = 0
    /\ pc = "tick" /\ type = "junk" /\ player = Null /\ bcast = <<>> /\ cursor = 1
    /\ m_gameState = "EGS_Ready" /\ m_readyCount = 0 /\ m_uuid_counter = 0
    /\ m_curFrameID = 0 /\ m_nxtFrameID = 0
    /\ m_curFrameInfo = NoKeys /\ m_oldFrameInfo = <<>>
    /\ sent = [k \in Conns |-> <<>>] /\ taken = NoKeys
    /\ phantoms = {} /\ crash = "no"

-----------------------------------------------------------------------------
(***************************************************************************)
(* The cell's worker.                                                      *)
(***************************************************************************)

\* Bug: a session that is there already is kept.
BugRegisterUser(k) ==
    /\ m_sessions' = [m_sessions EXCEPT ![fd'[k]] = IF @ = Absent THEN k ELSE @]
    /\ UNCHANGED crash

\* RegisterUser asserts that m_sessions has no entry for the descriptor, and
\* makes one with a new Player.
RegisterUser(k) ==
    IF m_sessions[fd'[k]] = Absent
    THEN m_sessions' = [m_sessions EXCEPT ![fd'[k]] = k] /\ UNCHANGED crash
    ELSE crash' = "RegisterUser" /\ UNCHANGED m_sessions

\* A connection is accepted on a free descriptor, and OnJoin registers it.
OnJoin(f) ==
    /\ Alive
    /\ accepted < MaxConns
    /\ f \notin OpenFds
    /\ accepted' = accepted + 1
    /\ fd' = [fd EXCEPT ![accepted'] = f]
    /\ clients' = clients \cup {accepted'}
    /\ RegisterUser(accepted')
    /\ UNCHANGED <<m_UUID, mailbox, pc, local, game, logged, history, phantoms>>

\* OnExit: DeleteUser asserts that m_sessions has an entry and erases it; then
\* the cell forgets the client.
OnExit(k) ==
    /\ Alive /\ k \in clients
    /\ clients' = clients \ {k}
    /\ IF m_sessions[fd[k]] # Absent
       THEN m_sessions' = [m_sessions EXCEPT ![fd[k]] = Absent] /\ UNCHANGED crash
       ELSE crash' = "DeleteUser" /\ UNCHANGED m_sessions
    /\ UNCHANGED <<accepted, fd, m_UUID, mailbox, pc, local, game, logged, history, phantoms>>

\* Cell::Recv builds a message in its stack slot; OnMessage calls PushMsg.
OnMessage(k) ==
    /\ Alive /\ k \in clients
    /\ received < MaxMsgs
    /\ received' = received + 1
    /\ slot' \in {LoginMsg, ReadyMsg, FrameMsg(m_UUID[k], received + 1)}
    /\ m_msgQueue' = Append(m_msgQueue, k)
    /\ UNCHANGED <<net, m_sessions, m_UUID, pc, local, game, logged, history, phantoms, crash>>

\* The slot is cleared for the next message, or used by another stack frame.
SlotReused ==
    /\ Alive /\ slot # Junk
    /\ slot' = Junk
    /\ UNCHANGED <<net, m_sessions, m_UUID, m_msgQueue, received, pc, local, game, logged,
                   history, phantoms, crash>>

-----------------------------------------------------------------------------
(***************************************************************************)
(* The main thread: MessageProc, one message in a Tick.                    *)
(***************************************************************************)

\* The main thread is at a place of Tick, and goes from one to the next.
At(place) == Alive /\ pc = place
Goes(from, to) == At(from) /\ pc' = to

\* The connection of the message at the front.
Client == Head(m_msgQueue)

NoMessage == /\ m_msgQueue = <<>>
             /\ Goes("tick", "turn")
             /\ UNCHANGED <<net, m_sessions, m_UUID, mailbox, local, game, logged, history,
                            phantoms, crash>>

\* DispatchCommand looks msg->type up in m_command: the slot is read now, and
\* again in CallHandler.
FindHandler == /\ m_msgQueue # <<>>
               /\ Goes("tick", IF slot.type = "junk" THEN "pop" ELSE "find")
               /\ UNCHANGED <<net, m_sessions, m_UUID, mailbox, local, game, logged, history,
                              phantoms, crash>>

\* GetUser, first lookup: m_sessions.find.
FindUser == /\ At("find")
            /\ pc' = IF m_sessions[fd[Client]] = Absent THEN "pop" ELSE "fetch"
            /\ UNCHANGED <<net, m_sessions, m_UUID, mailbox, local, game, logged, history,
                           phantoms, crash>>

\* GetUser, second lookup: m_sessions[id], which makes an empty entry if the
\* session has been deleted since the first.  An empty PlayerPtr is no player.
FetchUser ==
    LET f == fd[Client]
        gone == m_sessions[f] = Absent
    IN  /\ At("fetch")
        /\ player' = IF gone THEN Null ELSE m_sessions[f]
        /\ m_sessions' = [m_sessions EXCEPT ![f] = IF gone THEN Null ELSE @]
        /\ phantoms' = IF gone THEN phantoms \cup {f} ELSE phantoms
        /\ pc' = IF player' = Null THEN "pop" ELSE "call"
        /\ UNCHANGED <<net, m_UUID, mailbox, type, bcast, cursor, game, logged, history, crash>>

\* Back in DispatchCommand, m_command[msg->type] calls the handler of the type that
\* the slot has now, whatever was looked up.  A type without a handler gets an
\* empty one, and calling that throws.
CallHandler == /\ At("call")
               /\ IF slot.type = "junk"
                  THEN crash' = "empty handler" /\ UNCHANGED <<pc, type>>
                  ELSE pc' = "handle" /\ type' = slot.type /\ UNCHANGED crash
               /\ UNCHANGED <<net, m_sessions, m_UUID, mailbox, player, bcast, cursor, game,
                              logged, history, phantoms>>

\* Player::SendImm to connection k.
Send(k, msgs) == sent' = [sent EXCEPT ![k] = @ \o msgs]

FirstLogin == m_UUID[player] = 0

\* The users of the sessions, in the order of their descriptors.
Players == FlattenSeq([f \in Fds |-> IF m_sessions[f] \in Conns THEN << m_UUID'[m_sessions[f]] >>
                                     ELSE <<>>])

\* SendLoginInfo reads every session, and dies of an empty PlayerPtr, or begins
\* to broadcast.  It is one step with its caller: only the main thread makes
\* empty entries, so none appears while the sessions are read.
SendLoginInfo ==
    IF \E f \in Fds : m_sessions[f] = Null
    THEN crash' = "empty PlayerPtr" /\ UNCHANGED <<pc, bcast, cursor>>
    ELSE /\ pc' = "bcast"
         /\ bcast' = <<[type |-> "SCSight", players |-> Players]>>
         /\ cursor' = 1
         /\ UNCHANGED crash

\* HandleLogin.  The first login of a player gives it a uuid, SCLogin and
\* SCFrameInit.
HandleLogin ==
    /\ At("handle") /\ type = "ECSLogin"
    /\ IF FirstLogin
       THEN /\ m_uuid_counter' = m_uuid_counter + 1
            /\ m_UUID' = [m_UUID EXCEPT ![player] = m_uuid_counter + 1]
            /\ Send(player, << [type |-> "SCLogin", uuid |-> m_uuid_counter + 1],
                               [type |-> "SCFrameInit", cur |-> m_curFrameID,
                                nxt |-> m_nxtFrameID] >>)
            /\ SendLoginInfo
       ELSE /\ pc' = "pop"
            /\ UNCHANGED <<m_uuid_counter, m_UUID, sent, crash, bcast, cursor>>
    /\ UNCHANGED <<net, m_sessions, mailbox, type, player, m_gameState, m_readyCount, logged,
                   taken, phantoms>>

\* GetUserSize: every entry of m_sessions counts.
GetUserSize == Cardinality({f \in Fds : m_sessions[f] # Absent})

\* HandleReady counts the messages of players that have logged in; the count
\* must meet the number of sessions exactly.
HandleReady ==
    /\ Goes("handle", "pop") /\ type = "ECSReady"
    /\ IF m_UUID[player] # 0
       THEN /\ m_readyCount' = m_readyCount + 1
            /\ m_gameState' = IF m_readyCount + 1 = GetUserSize THEN "EGS_RUNNING" ELSE m_gameState
       ELSE UNCHANGED <<m_readyCount, m_gameState>>
    /\ UNCHANGED <<net, m_sessions, m_UUID, mailbox, local, m_uuid_counter, logged, history,
                   phantoms, crash>>

\* HandleFrame parses the slot, which may hold another message by now, and
\* adds its keys to those of the uuid it names.  Only a frame message has any.
HandleFrame ==
    /\ Goes("handle", "pop") /\ type = "ECSFrame"
    /\ IF slot.type = "ECSFrame"
       THEN /\ m_curFrameInfo' = [m_curFrameInfo EXCEPT ![slot.uuid] = Append(@, slot.key)]
            /\ taken' = [taken EXCEPT ![slot.uuid] = Append(@, slot.key)]
       ELSE UNCHANGED <<m_curFrameInfo, taken>>
    /\ UNCHANGED <<net, m_sessions, m_UUID, mailbox, local, game, m_curFrameID, m_nxtFrameID,
                   m_oldFrameInfo, sent, phantoms, crash>>

\* Every handler returns early when it cannot parse the slot, which it may not
\* when the message is no longer the one whose type chose it.
ParseFails == /\ Goes("handle", "pop") /\ slot.type # type
              /\ UNCHANGED <<net, m_sessions, m_UUID, mailbox, local, game, logged, history,
                             phantoms, crash>>

\* m_msgQueue.pop(); the last reference to the client may go with it.
PopMsg == /\ Goes("pop", "turn")
          /\ m_msgQueue' = Tail(m_msgQueue)
          /\ UNCHANGED <<net, m_sessions, m_UUID, slot, received, local, game, logged, history,
                         phantoms, crash>>

-----------------------------------------------------------------------------
(***************************************************************************)
(* The main thread: Turn, and Broadcast.                                   *)
(***************************************************************************)

\* Not 100 ms yet, or no game: Tick returns.
NoTurn == /\ Goes("turn", "tick")
          /\ UNCHANGED <<net, m_sessions, m_UUID, mailbox, local, game, logged, history,
                         phantoms, crash>>

\* m_oldFrameInfo gets an entry for the next frame: the keys of the coming one.
KeepFrame == m_oldFrameInfo' =
    [n \in DOMAIN m_oldFrameInfo \cup {m_nxtFrameID} |->
        IF n = m_nxtFrameID THEN m_curFrameInfo ELSE m_oldFrameInfo[n]]

\* Bug: the keys of a frame stay for the next one.
BugFrameTurn ==
    /\ m_gameState = "EGS_RUNNING"
    /\ m_nxtFrameID < MaxFrames
    /\ Goes("turn", "bcast")
    /\ m_curFrameID' = m_nxtFrameID
    /\ m_nxtFrameID' = m_nxtFrameID + 1
    /\ KeepFrame
    /\ bcast' = <<[type |-> "SCFrame", id |-> m_nxtFrameID]>>
    /\ cursor' = 1
    /\ UNCHANGED <<net, m_sessions, m_UUID, mailbox, type, player, game, m_curFrameInfo,
                   history, phantoms, crash>>

\* FrameTurn: the next frame, with the keys taken since the last.
FrameTurn ==
    /\ m_gameState = "EGS_RUNNING"
    /\ m_nxtFrameID < MaxFrames
    /\ Goes("turn", "bcast")
    /\ m_curFrameID' = m_nxtFrameID
    /\ m_nxtFrameID' = m_nxtFrameID + 1
    /\ KeepFrame
    /\ m_curFrameInfo' = NoKeys
    /\ bcast' = <<[type |-> "SCFrame", id |-> m_nxtFrameID]>>
    /\ cursor' = 1
    /\ UNCHANGED <<net, m_sessions, m_UUID, mailbox, type, player, game, history, phantoms, crash>>

\* Bug: a session may be left out.
BugVisit(f) == /\ \/ UNCHANGED sent
                  \/ m_sessions[f] \in Conns /\ Send(m_sessions[f], bcast)
               /\ UNCHANGED crash

\* Bug: the sessions are looked up by descriptor, whether there is one or not.
BugVisitAll(f) == IF m_sessions[f] \in Conns
                  THEN Send(m_sessions[f], bcast) /\ UNCHANGED crash
                  ELSE crash' = "empty PlayerPtr" /\ UNCHANGED sent

\* What Broadcast does for the session of f, if there is one.
Visit(f) == \/ m_sessions[f] = Absent /\ UNCHANGED <<sent, crash>>
            \/ m_sessions[f] = Null /\ crash' = "empty PlayerPtr" /\ UNCHANGED sent
            \/ m_sessions[f] \in Conns /\ Send(m_sessions[f], bcast) /\ UNCHANGED crash

\* One step of Broadcast's iterator: descriptors in order, sessions as they
\* are when the iterator gets there.
BroadcastStep ==
    /\ At("bcast") /\ cursor \in Fds
    /\ Visit(cursor)
    /\ cursor' = cursor + 1
    /\ UNCHANGED <<net, m_sessions, m_UUID, mailbox, pc, type, player, bcast, game, logged,
                   taken, phantoms>>

\* Broadcast is done: back to MessageProc after a login, out of Tick after a
\* frame.
BroadcastDone ==
    /\ cursor \notin Fds
    /\ Goes("bcast", IF bcast[1].type = "SCSight" THEN "pop" ELSE "tick")
    /\ UNCHANGED <<net, m_sessions, m_UUID, mailbox, local, game, logged, history, phantoms, crash>>

MainThread == \/ NoMessage \/ FindHandler \/ FindUser \/ FetchUser \/ CallHandler
              \/ HandleLogin \/ HandleReady \/ HandleFrame \/ ParseFails \/ PopMsg
              \/ NoTurn \/ FrameTurn \/ BroadcastStep \/ BroadcastDone

CellThread == \/ \E f \in Fds : OnJoin(f)
              \/ \E k \in Conns : OnExit(k) \/ OnMessage(k)
              \/ SlotReused

Next == MainThread \/ CellThread

Spec == Init /\ [][Next]_vars

-----------------------------------------------------------------------------
(***************************************************************************)
(* Properties.                                                             *)
(***************************************************************************)

\* RegisterUser's assertion, World.cpp line 85: a client that joins has no
\* session yet.
RegisterAssertion == crash # "RegisterUser"

\* The sessions kill the process only through an empty one that GetUser made when
\* its two lookups had a DeleteUser between them: RegisterUser's assertion fails
\* for that descriptor, an empty PlayerPtr is in that entry, and DeleteUser's
\* assertion never fails.  (The process may also die in CallHandler.)
PhantomsKill == /\ crash = "RegisterUser" => fd[accepted] \in phantoms
                /\ crash = "empty PlayerPtr" => \E f \in phantoms : m_sessions[f] = Null
                /\ crash # "DeleteUser"

\* A client's session is its own: descriptors are reused, and still no session
\* is another connection's, for as long as the client is joined.
SessionOfClient == Alive => \A k \in clients : m_sessions[fd[k]] = k

\* A message is handled for the connection that it was queued for, although
\* the queue is read through the descriptor, long after it was pushed and
\* possibly after that connection has gone and others have come.
HandledForItsConnection == pc \in {"call", "handle"} => player = Client

\* Every key HandleFrame took for a user is in exactly one frame, and a user's
\* keys are in the frames in the order they were taken, or wait for the next.
KeysInOneFrame == \A u \in UUIDs :
    taken[u] = FlattenSeq([i \in 1 .. m_nxtFrameID |-> m_oldFrameInfo[i - 1][u]])
                   \o m_curFrameInfo[u]

\* What a client sees of the server is what FrameServer promises: each login
\* gives a user id that nobody else has had, and the frames sent to a connection
\* are those of one log, each once, in order and without a gap.
frames == [n \in 1 .. m_nxtFrameID |-> m_oldFrameInfo[n - 1]]
Abstract == INSTANCE FrameServer WITH coming <- m_curFrameInfo, uuid <- m_UUID, stream <- sent,
                                      Keys <- 1 .. MaxMsgs
ImplementsFrameServer == Abstract!Spec
=============================================================================
