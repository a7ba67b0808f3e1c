----------------------------- MODULE FrameServer -----------------------------
(***************************************************************************)
(* What the lock-step server promises its clients, without its threads,    *)
(* queue, sessions and mailbox: one log of frames, and to each connection  *)
(* a stream of messages in which the frames of that log come in order and  *)
(* without a gap, from the one its SCFrameInit announces or, before a      *)
(* login, from the one that is new when its session begins.                *)
(*                                                                         *)
(* World implements this specification, and LockStep composes it with the  *)
(* clients.                                                                *)
(***************************************************************************)
EXTENDS Integers, Sequences, FiniteSets, SequencesExt

CONSTANTS Conns,     \* the connections
          UUIDs,     \* user ids, 0 among them: that of a player that has not logged in
          Keys       \* what users press

VARIABLES
    frames,    \* the log: frame n, counted from 0, is frames[n + 1]
    coming,    \* uuid -> keys, of the frame to come
    uuid,      \* connection -> its user, or 0
    stream     \* connection -> the messages sent to it

vars == <<frames, coming, uuid, stream>>

SCLogin(u)          == [type |-> "SCLogin", uuid |-> u]
SCFrameInit(c, n)   == [type |-> "SCFrameInit", cur |-> c, nxt |-> n]
SCSight(players)    == [type |-> "SCSight", players |-> players]
SCFrame(n)          == [type |-> "SCFrame", id |-> n]

\* No user has pressed a key.
NoKeys == [u \in UUIDs |-> <<>>]

\* The number of the frame to come, and of the last one: 0 when there is none.
NxtFrameID == Len(frames)
CurFrameID == IF frames = <<>> THEN 0 ELSE Len(frames) - 1

Init == /\ frames = <<>> /\ coming = NoKeys
        /\ uuid = [k \in Conns |-> 0]
        /\ stream = [k \in Conns |-> <<>>]

Send(k, msgs) == stream' = [stream EXCEPT ![k] = @ \o msgs]

\* A message that says which frame comes next.
IsFrameMsg(m) == m.type \in {"SCFrameInit", "SCFrame"}

\* The frame that has to come after such a message.
After(m) == IF m.type = "SCFrame" THEN m.id + 1 ELSE m.nxt

\* The frame a connection has to be sent next, which the last of its messages
\* about frames says: any, if it has heard of none.
Expects(k, n) == \A i \in DOMAIN stream[k] :
    IsFrameMsg(stream[k][i]) /\ (\A j \in i + 1 .. Len(stream[k]) : ~IsFrameMsg(stream[k][j]))
        => After(stream[k][i]) = n

\* A connection that has no user yet becomes one that nobody else is.
Login(k) == /\ uuid[k] = 0
            /\ \E u \in UUIDs \ ({0} \cup {uuid[l] : l \in Conns}) :
                  /\ uuid' = [uuid EXCEPT ![k] = u]
                  /\ Send(k, << SCLogin(u), SCFrameInit(CurFrameID, NxtFrameID) >>)
            /\ UNCHANGED <<frames, coming>>

\* A connection is told the users in sight, each once and at 0 those that are
\* not logged in; there may be none.
Sight(k, players) ==
    /\ Send(k, << SCSight(players) >>)
    /\ \A i \in DOMAIN players : players[i] = 0 \/ \E l \in Conns : players[i] = uuid[l]
    /\ \A i, j \in DOMAIN players : i # j /\ players[i] = players[j] => players[i] = 0
    /\ UNCHANGED <<frames, coming, uuid>>

\* Keys are taken for a user.
Take(u, keys) == /\ coming' = [coming EXCEPT ![u] = @ \o keys]
                 /\ UNCHANGED <<frames, uuid, stream>>

\* The frame to come is closed.
CloseFrame == /\ frames' = Append(frames, coming)
              /\ coming' = NoKeys
              /\ UNCHANGED <<uuid, stream>>

\* A connection is sent the last frame closed, if that is the one it expects.
SendFrame(k) == /\ frames # <<>>
                /\ Expects(k, CurFrameID)
                /\ Send(k, << SCFrame(CurFrameID) >>)
                /\ UNCHANGED <<frames, coming, uuid>>

\* What a sight may list.
Listings == UNION {[1 .. n -> UUIDs] : n \in 0 .. Cardinality(Conns)}

\* The server does something that no client sees.
Hidden == UNCHANGED vars

Next == \/ Hidden
        \/ \E k \in Conns : Login(k) \/ SendFrame(k)
        \/ \E k \in Conns, players \in Listings : Sight(k, players)
        \/ \E u \in UUIDs, key \in Keys : Take(u, <<key>>)
        \/ CloseFrame

Spec == Init /\ [][Next]_vars
=============================================================================
