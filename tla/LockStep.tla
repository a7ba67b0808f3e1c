------------------------------ MODULE LockStep ------------------------------
(***************************************************************************)
(* The lock-step game: the server as FrameServer describes it, composed    *)
(* with the Unity clients (Main.cs, Player.cs, PlayerManager.cs).          *)
(*                                                                         *)
(* A client's main thread handles the messages of its stream one after     *)
(* another in Main.Update; how many arrive in one Update is open, so an    *)
(* Update may end between any two of them.  Only then does Unity call      *)
(* Start of the Player objects made in it, which registers them for        *)
(* SCFrameInit and SCFrame.                                                *)
(*                                                                         *)
(* A Player object that runs a frame reports the keys it has gathered.     *)
(* The server reads a report from World's slot, so it may take one twice   *)
(* or never.  Positions are the keys a body has moved by.                  *)
(***************************************************************************)
EXTENDS Integers, Sequences, FiniteSets, SequencesExt

CONSTANTS MaxConns,    \* the clients
          MaxFrames,   \* bound on the frames
          MaxKeys,     \* bound on the keys ever pressed
          MaxTaken     \* bound on the reports the server ever takes

Conns == 1 .. MaxConns
UUIDs == 0 .. MaxConns

ASSUME LockStepAssumption == /\ MaxConns \in Nat /\ MaxFrames \in Nat
                             /\ MaxKeys \in Nat /\ MaxTaken \in Nat

VARIABLES
    frames, coming, uuid, stream,   \* FrameServer's
    sessions,    \* the connections that have joined
    bcast, todo, \* message of Broadcast, and the connections to visit yet
    taken,       \* reports taken
    handled,     \* client -> messages of its stream handled
    players,     \* client -> its Player objects in the order of their Start
    m_allPlayer, \* client -> uuid -> index of a Player object, or 0
    pressed,     \* keys pressed
    reports      \* the CSFrame messages sent that carry keys

server  == <<frames, coming, uuid, stream, sessions, bcast, todo, taken>>
clients == <<handled, players, m_allPlayer, pressed, reports>>
vars == <<server, clients>>

Server == INSTANCE FrameServer WITH Keys <- 1 .. MaxKeys

TypeOK ==
    /\ sessions \subseteq Conns
    /\ uuid \in [Conns -> UUIDs]
    /\ todo \subseteq Conns
    /\ taken \in 0 .. MaxTaken /\ pressed \in 0 .. MaxKeys
    /\ \A k \in Conns : /\ handled[k] \in 0 .. Len(stream[k])
                        /\ m_allPlayer[k] \in [UUIDs -> 0 .. Len(players[k])]

Init ==
    /\ Server!Init
    /\ sessions = {}
    /\ bcast = <<>> /\ todo = {} /\ taken = 0
    /\ handled = [k \in Conns |-> 0]
    /\ players = [k \in Conns |-> <<>>]
    /\ m_allPlayer = [k \in Conns |-> [u \in UUIDs |-> 0]]
    /\ pressed = 0 /\ reports = {}

-----------------------------------------------------------------------------
(***************************************************************************)
(* The server.  Its main thread broadcasts a message to one session after  *)
(* another, in the order of their descriptors, before it does anything     *)
(* else; meanwhile clients join.  What leaving does is checked in World.    *)
(***************************************************************************)
Join(k) == /\ k \notin sessions
           /\ sessions' = sessions \cup {k}
           /\ UNCHANGED <<frames, coming, uuid, stream, bcast, todo, taken, clients>>

Broadcast(m) == bcast' = m /\ todo' = Conns

\* The users of the sessions after a login.
Sighted == FlattenSeq([k \in Conns |-> IF k \in sessions THEN << uuid'[k] >> ELSE <<>>])

HandleLogin(k) == /\ todo = {} /\ k \in sessions
                  /\ Server!Login(k)
                  /\ Broadcast(Server!SCSight(Sighted))
                  /\ UNCHANGED <<sessions, taken, clients>>

\* A game begins when players that have logged in are ready.
FrameTurn == /\ todo = {} /\ Len(frames) < MaxFrames
             /\ frames = <<>> => \E k \in sessions : uuid[k] # 0
             /\ Server!CloseFrame
             /\ Broadcast(Server!SCFrame(Len(frames)))
             /\ UNCHANGED <<sessions, taken, clients>>

\* The iterator of Broadcast gets to a connection: it is told the message if it
\* has a session.
Visit(k) == /\ k \in todo /\ \A l \in todo : k <= l
            /\ todo' = todo \ {k}
            /\ IF k \notin sessions THEN UNCHANGED <<frames, coming, uuid, stream>>
               ELSE IF bcast.type = "SCSight" THEN Server!Sight(k, bcast.players)
                                              ELSE Server!SendFrame(k)
            /\ UNCHANGED <<sessions, bcast, taken, clients>>

HandleFrame(r) == /\ todo = {} /\ taken < MaxTaken
                  /\ taken' = taken + 1
                  /\ Server!Take(r.uuid, r.keys)
                  /\ UNCHANGED <<sessions, bcast, todo, clients>>

ServerNext == \/ \E k \in Conns : Join(k) \/ HandleLogin(k) \/ Visit(k)
              \/ FrameTurn
              \/ \E r \in reports : HandleFrame(r)

-----------------------------------------------------------------------------
(***************************************************************************)
(* A client.                                                               *)
(***************************************************************************)

\* A new Player object.  The histories are the frames that reached it since its
\* Start, and the frames it ran; of its body, the frames that any object of its
\* client ran since it was last placed, each with the users it stood for then,
\* and how many objects ran each.  missing says that it has heard no frame since
\* its Start or an SCFrameInit.
NewPlayer(u) == [UUID |-> u, CurFrameID |-> 0, started |-> FALSE, keys |-> <<>>, moves |-> <<>>,
                 heard |-> <<>>, ran |-> <<>>, since |-> <<>>, times |-> <<>>, missing |-> TRUE]

\* The next message of k, in an Update.
Receives(k, type) == /\ k \in sessions
                     /\ handled[k] < Len(stream[k])
                     /\ stream[k][handled[k] + 1].type = type
                     /\ handled' = [handled EXCEPT ![k] = @ + 1]
                     /\ UNCHANGED <<server, pressed>>

Message(k) == stream[k][handled[k] + 1]

\* Main::OnLogin makes a Player and gives it the uuid.
OnLogin(k) ==
    /\ Receives(k, "SCLogin")
    /\ players' = [players EXCEPT ![k] = Append(@, NewPlayer(Message(k).uuid))]
    /\ m_allPlayer' = [m_allPlayer EXCEPT ![k][Message(k).uuid] = Len(players'[k])]
    /\ UNCHANGED reports

\* Player::SetPlayerInfo: a uuid, and the place the server has for it, which is
\* always the origin.
SetPlayerInfo(p, u) == [p EXCEPT !.UUID = u, !.moves = <<>>, !.since = <<>>, !.times = <<>>]

\* Main::OnSight.  The Player of the first user listed, or a new one, becomes
\* the Player of every user listed, and keeps the uuid of the last; so the rest
\* of the list finds that Player and does the same again.
OnSight(k) ==
    LET listed == Message(k).players
        known  == m_allPlayer[k][listed[1]]
        target == IF known # 0 THEN known ELSE Len(players[k]) + 1
        all    == IF known # 0 THEN players[k] ELSE Append(players[k], NewPlayer(0))
    IN  /\ Receives(k, "SCSight")
        /\ IF listed = <<>> THEN UNCHANGED <<players, m_allPlayer>>
           ELSE /\ players' = [players EXCEPT ![k] =
                        [all EXCEPT ![target] = SetPlayerInfo(@, Last(listed))]]
                /\ m_allPlayer' = [m_allPlayer EXCEPT ![k] =
                        [u \in UUIDs |-> IF u \in ToSet(listed) THEN target ELSE @[u]]]
        /\ UNCHANGED reports

\* Player::OnFrameInit, of every Player that has started: it waits for the last
\* frame sent and not for the next.
OnFrameInit(k) ==
    /\ Receives(k, "SCFrameInit")
    /\ players' = [players EXCEPT ![k] = [i \in DOMAIN @ |->
            IF @[i].started THEN [@[i] EXCEPT !.CurFrameID = Message(k).cur, !.missing = TRUE]
                            ELSE @[i]]]
    /\ UNCHANGED <<m_allPlayer, reports>>

\* FrameTurn's test.
InTurn(p, n) == p.started /\ p.CurFrameID = n

\* The users that Player object i of client k stands for.
Users(k, i) == {u \in UUIDs : m_allPlayer[k][u] = i}

\* Player::RunKeyInfo: what frame n moves Player object i of client k by.
RunKeyInfo(k, i, n) ==
    FlattenSeq([v \in 1 .. MaxConns + 1 |->
                   IF v - 1 \in Users(k, i) THEN frames[n + 1][v - 1] ELSE <<>>])

\* Bug: an object also moves by its own keys, when it reports them.
BugRunFrame(k, i, n) == RunKeyInfo(k, i, n) \o players[k][i].keys

RunFrame(k, i, n) == RunKeyInfo(k, i, n)

\* Bug: a Player out of turn goes on waiting.
BugNextID(p, n) == IF InTurn(p, n) THEN n + 1 ELSE p.CurFrameID

NextID(p, n) == n + 1

\* Player::OnFrameTurn, of every Player that has started.  Each whose turn it
\* is reports its keys and moves the bodies of all; each waits for the next.
OnFrameTurn(k) ==
    LET n     == Message(k).id
        turns == {i \in DOMAIN players[k] : InTurn(players[k][i], n)}
        count == Cardinality(turns)
        Moved(i, p) == [p EXCEPT !.moves = @ \o FlattenSeq([j \in 1 .. count |-> RunFrame(k, i, n)]),
                                 !.since = Append(@, [id |-> n, users |-> Users(k, i)]),
                                 !.times = Append(@, count)]
        Turned(i, p) == [p EXCEPT !.CurFrameID = NextID(p, n), !.missing = FALSE,
                                  !.keys = IF i \in turns THEN <<>> ELSE @,
                                  !.heard = Append(@, n),
                                  !.ran = IF i \in turns THEN Append(@, n) ELSE @]
        Heard(i, p) == IF p.started THEN Turned(i, p) ELSE p
    IN  /\ Receives(k, "SCFrame")
        /\ players' = [players EXCEPT ![k] = [i \in DOMAIN @ |->
                IF turns = {} THEN Heard(i, @[i]) ELSE Moved(i, Heard(i, @[i]))]]
        /\ reports' = reports \cup
                {r \in {[uuid |-> players[k][i].UUID, keys |-> players[k][i].keys] : i \in turns} :
                    r.keys # <<>>}
        /\ UNCHANGED m_allPlayer

\* The Update is over: Unity calls Start of the objects made in it.
Start(k) ==
    /\ k \in sessions
    /\ \E i \in DOMAIN players[k] : ~players[k][i].started
    /\ players' = [players EXCEPT ![k] = [i \in DOMAIN @ |-> [@[i] EXCEPT !.started = TRUE]]]
    /\ UNCHANGED <<server, handled, m_allPlayer, pressed, reports>>

\* Player::KeyPressEvent, in a FixedUpdate: every Player of the client sees the
\* key.
KeyPressEvent(k) ==
    LET Pressed(p) == [p EXCEPT !.keys = Append(@, pressed + 1)]
    IN  /\ k \in sessions /\ pressed < MaxKeys
        /\ players[k] # <<>> /\ \A i \in DOMAIN players[k] : players[k][i].started
        /\ pressed' = pressed + 1
        /\ players' = [players EXCEPT ![k] = [i \in DOMAIN @ |-> Pressed(@[i])]]
        /\ UNCHANGED <<server, handled, m_allPlayer, reports>>

ClientNext(k) == \/ OnLogin(k) \/ OnSight(k) \/ OnFrameInit(k) \/ OnFrameTurn(k)
                 \/ Start(k) \/ KeyPressEvent(k)

Next == ServerNext \/ \E k \in Conns : ClientNext(k)

Spec == Init /\ [][Next]_vars

-----------------------------------------------------------------------------
(***************************************************************************)
(* Properties.                                                             *)
(***************************************************************************)

\* Before the jth message of its stream client k has no message about frames to
\* handle.
NoneBefore(k, j) == \A i \in handled[k] + 1 .. j - 1 : ~Server!IsFrameMsg(stream[k][i])

\* A Player that has heard a frame waits for exactly the frame that the stream
\* brings next, however late the client handles it; so no Player is ever stuck
\* waiting for a frame that has passed or is never sent.
InStep == \A k \in Conns : \A i \in DOMAIN players[k] :
    LET p == players[k][i]
    IN  p.started /\ ~p.missing =>
            /\ NoneBefore(k, Len(stream[k]) + 1) => Server!Expects(k, p.CurFrameID)
            /\ \A j \in handled[k] + 1 .. Len(stream[k]) :
                  NoneBefore(k, j) /\ stream[k][j].type = "SCFrame" => stream[k][j].id = p.CurFrameID

\* The frames that an SCFrameInit of client k announced.
Announced(k) == {m.nxt : m \in {n \in ToSet(stream[k]) : n.type = "SCFrameInit"}}

\* A Player that is there when the game starts, of a client that has logged in
\* by then, runs every frame from the first to the last its client has handled.
\* Another misses frames of the running game, but no other than the first it
\* hears and the one announced by its client's SCFrameInit.
MissedFrames == \A k \in Conns : \A i \in DOMAIN players[k] :
    LET p == players[k][i]
    IN  ToSet(p.heard) \ ToSet(p.ran) \subseteq
                ({p.heard[j] : j \in DOMAIN p.heard \cap {1}} \cup Announced(k)) \ {0}

\* Lock step: two bodies that the same frames have moved since the server last
\* placed them, standing for the same users in each, have moved by the same keys,
\* whatever their clients' own players pressed.  They are at the same place if as
\* many Player objects of the one client as of the other ran each frame.
SameBodies == \A k, l \in Conns : \A i \in DOMAIN players[k], j \in DOMAIN players[l] :
    LET p == players[k][i]
        q == players[l][j]
    IN  p.since = q.since => /\ ToSet(p.moves) = ToSet(q.moves)
                             /\ p.times = q.times => p.moves = q.moves
=============================================================================
