--------------------------- MODULE LockStepProofs ---------------------------
(***************************************************************************)
(* LockStep, for any number of clients, frames, keys and reports.          *)
(*                                                                         *)
(* None of its three properties is inductive.  GameInv says of a stream    *)
(* that every SCFrame brings the frame due after the message about frames  *)
(* before it, and of a Player what the last such message that its client   *)
(* handled has told it: to begin at a frame, or the frame before the one   *)
(* it waits for.  So it never waits in vain (InStep); a frame it hears out *)
(* of turn is its first or the one an SCFrameInit announced, and never     *)
(* frame 0 (MissedFrames).  Where a body is, is a function of the frames   *)
(* that its client ran since it was placed, of the users it stood for in   *)
(* each, and of how many Player objects ran each; by which keys it moved   *)
(* does not depend on that number (SameBodies).                            *)
(*                                                                         *)
(* What GameInv says of a client is stated with operators of a stream, a   *)
(* log and Player objects, without variables: a step of the server only    *)
(* makes the streams and the log longer, and a step of a client changes    *)
(* nothing of another.                                                     *)
(***************************************************************************)
EXTENDS LockStep, InductionLemmas, FiniteSetTheorems

\* The messages a stream may hold.
Messages == {Server!SCLogin(u) : u \in UUIDs}
            \cup {Server!SCFrameInit(c, n) : c \in Nat, n \in Nat}
            \cup {Server!SCSight(p) : p \in Seq(UUIDs)}
            \cup {Server!SCFrame(n) : n \in Nat}

\* The fields of a message.
LEMMA MessageFacts ==
    ASSUME NEW m \in Messages
    PROVE  /\ m.type = "SCLogin" => m.uuid \in UUIDs
           /\ m.type = "SCFrameInit" => m.cur \in Nat /\ m.nxt \in Nat
           /\ m.type = "SCSight" => m.players \in Seq(UUIDs)
           /\ m.type = "SCFrame" => m.id \in Nat
<1>1. CASE m \in {Server!SCLogin(u) : u \in UUIDs}
  BY <1>1 DEF Server!SCLogin
<1>2. CASE m \in {Server!SCFrameInit(c, n) : c \in Nat, n \in Nat}
  BY <1>2 DEF Server!SCFrameInit
<1>3. CASE m \in {Server!SCSight(p) : p \in Seq(UUIDs)}
  BY <1>3 DEF Server!SCSight
<1>4. CASE m \in {Server!SCFrame(n) : n \in Nat}
  BY <1>4 DEF Server!SCFrame
<1> QED BY <1>1, <1>2, <1>3, <1>4 DEF Messages

\* A frame that moved a body, and the users the body stood for.
ARun == [id : Nat, users : SUBSET UUIDs]

\* A Player object.
Players == [UUID : UUIDs, CurFrameID : Nat, started : BOOLEAN, keys : Seq(Nat), moves : Seq(Nat),
            heard : Seq(Nat), ran : Seq(Nat), since : Seq(ARun), times : Seq(Nat), missing : BOOLEAN]

\* The keys of a frame.
AFrame == [UUIDs -> Seq(Nat)]

-----------------------------------------------------------------------------
(***************************************************************************)
(* What is always true of a stream s of messages, of a client that has     *)
(* handled h of them, and of its Player objects ps, when fs are the        *)
(* frames.                                                                 *)
(***************************************************************************)
\* No message about frames is between the ith and the jth.
Between(s, i, j) == \A l \in i + 1 .. j - 1 : ~Server!IsFrameMsg(s[l])

\* The jth message: an SCFrame brings the frame that is due after the message about
\* frames before it, which is one of n; an SCFrameInit that announces the first
\* frame has no other as its last.
Fits(s, j, n) ==
    /\ s[j].type = "SCFrame" =>
          /\ s[j].id \in 0 .. n - 1
          /\ \A i \in 1 .. j - 1 : Server!IsFrameMsg(s[i]) /\ Between(s, i, j)
                                      => s[j].id = Server!After(s[i])
    /\ s[j].type = "SCFrameInit" => (s[j].nxt = 0 => s[j].cur = 0)

\* A stream, when there are n frames.
StreamOK(s, n) == s \in Seq(Messages) /\ \A j \in DOMAIN s : Fits(s, j, n)

\* The ith message is the last about frames of the first h.
LastTold(s, h, i) == i \in 1 .. h /\ Server!IsFrameMsg(s[i]) /\ Between(s, i, h + 1)

\* A Player that has not started has heard nothing, one that misses no frame
\* waits for the one after the frame it was told last, and another has heard
\* nothing yet or was told to begin at a frame.
Told(s, h, p) ==
    /\ ~p.started => p.missing
    /\ ~p.missing => \E i \in 1 .. h : /\ LastTold(s, h, i) /\ s[i].type = "SCFrame"
                                       /\ p.CurFrameID = s[i].id + 1
    /\ p.missing => \/ p.heard = <<>> /\ p.CurFrameID = 0
                    \/ p.started /\ \E i \in 1 .. h : /\ LastTold(s, h, i) /\ s[i].type = "SCFrameInit"
                                                      /\ p.CurFrameID = s[i].cur

\* The frames that a Player has heard, and not run.
Missed(s, p) == \A j \in DOMAIN p.heard :
    \/ p.heard[j] \in ToSet(p.ran)
    \/ /\ p.heard[j] # 0
       /\ p.heard[j] = p.heard[1] \/ \E i \in DOMAIN s : s[i].type = "SCFrameInit"
                                                         /\ s[i].nxt = p.heard[j]

\* What frame n moves a body by that stands for some users.
Run(users, fs, n) ==
    FlattenSeq([v \in 1 .. MaxConns + 1 |-> IF v - 1 \in users THEN fs[n + 1][v - 1] ELSE <<>>])

\* The same keys c times.
Shift(c, keys) == FlattenSeq([j \in 1 .. c |-> keys])

\* What the runs of since move a body by, one after another, and their keys.
Runs(fs, since, times) ==
    [j \in 1 .. Len(since) |-> Shift(times[j], Run(since[j].users, fs, since[j].id))]
KeysOf(fs, since) == UNION {ToSet(Run(since[j].users, fs, since[j].id)) : j \in DOMAIN since}

\* A body has moved by its runs since it was placed.
BodyOK(fs, p) == /\ Len(p.times) = Len(p.since)
                 /\ \A j \in DOMAIN p.since : p.since[j].id \in 0 .. Len(fs) - 1
                 /\ p.moves = FlattenSeq(Runs(fs, p.since, p.times))
                 /\ ToSet(p.moves) = KeysOf(fs, p.since)

\* A Player of a client, when fs are the frames.
PlayerOK(s, h, fs, p) == Told(s, h, p) /\ Missed(s, p) /\ BodyOK(fs, p)

\* A client.
ClientOK(s, h, fs, ps, map) ==
    /\ h \in 0 .. Len(s) /\ ps \in Seq(Players) /\ map \in [UUIDs -> 0 .. Len(ps)]
    /\ \A i \in DOMAIN ps : PlayerOK(s, h, fs, ps[i])

-----------------------------------------------------------------------------
\* t is longer than s, or as long.
Extends(s, t) == Len(s) <= Len(t) /\ Begins(s, Len(s), t)

\* A longer log keeps what is true of a body.
LEMMA LongerBody ==
    ASSUME NEW fs \in Seq(AFrame), NEW gs \in Seq(AFrame), Extends(fs, gs),
           NEW p \in Players, BodyOK(fs, p)
    PROVE  BodyOK(gs, p)
<1>1. /\ Len(fs) \in Nat /\ Len(gs) \in Nat /\ Len(fs) <= Len(gs)
      /\ \A i \in 1 .. Len(fs) : fs[i] = gs[i]
  BY LenProperties DEF Extends, Begins
<1>2. p.since \in Seq(ARun) /\ DOMAIN p.since = 1 .. Len(p.since)
  BY LenProperties DEF Players
<1>3. ASSUME NEW j \in DOMAIN p.since
      PROVE  /\ p.since[j].id \in 0 .. Len(gs) - 1
             /\ Run(p.since[j].users, fs, p.since[j].id) = Run(p.since[j].users, gs, p.since[j].id)
  <2>1. p.since[j].id \in 0 .. Len(fs) - 1
    BY DEF BodyOK
  <2>2. p.since[j].id \in 0 .. Len(gs) - 1 /\ p.since[j].id + 1 \in 1 .. Len(fs)
    BY <1>1, <2>1
  <2> QED BY <1>1, <2>2 DEF Run
<1>4. Runs(fs, p.since, p.times) = Runs(gs, p.since, p.times)
  BY <1>2, <1>3 DEF Runs
<1>5. KeysOf(fs, p.since) = KeysOf(gs, p.since)
  BY <1>3 DEF KeysOf
<1> QED BY <1>3, <1>4, <1>5 DEF BodyOK

\* Longer streams and logs keep what is true of a client.
LEMMA LongerClient ==
    ASSUME NEW s \in Seq(Messages), NEW t \in Seq(Messages), Extends(s, t),
           NEW fs \in Seq(AFrame), NEW gs \in Seq(AFrame), Extends(fs, gs),
           NEW h, NEW ps, NEW map, ClientOK(s, h, fs, ps, map)
    PROVE  ClientOK(t, h, gs, ps, map)
<1>1. /\ Len(s) \in Nat /\ Len(t) \in Nat /\ Len(s) <= Len(t) /\ \A i \in 1 .. Len(s) : s[i] = t[i]
      /\ Len(fs) \in Nat /\ Len(gs) \in Nat /\ Len(fs) <= Len(gs) /\ \A i \in 1 .. Len(fs) : fs[i] = gs[i]
      /\ h \in 0 .. Len(s)
  BY LenProperties DEF Extends, Begins, ClientOK
<1>2. ASSUME NEW i, LastTold(s, h, i) PROVE LastTold(t, h, i) /\ s[i] = t[i]
  <2>1. i \in 1 .. h /\ h \in 0 .. Len(s)
    BY <1>1, <1>2 DEF LastTold
  <2>2. s[i] = t[i] /\ \A l \in i + 1 .. (h + 1) - 1 : s[l] = t[l]
    <3>1. i \in 1 .. Len(s) /\ \A l \in i + 1 .. (h + 1) - 1 : l \in 1 .. Len(s)
      BY <1>1, <2>1
    <3> QED BY <1>1, <3>1
  <2>3. Between(t, i, h + 1)
    BY <1>2, <2>2 DEF LastTold, Between
  <2> QED BY <1>2, <2>1, <2>2, <2>3 DEF LastTold
<1>3. ps \in Seq(Players) /\ map \in [UUIDs -> 0 .. Len(ps)] /\ \A i \in DOMAIN ps : ps[i] \in Players
  BY LenProperties DEF ClientOK
<1>4. ASSUME NEW i \in DOMAIN ps PROVE PlayerOK(t, h, gs, ps[i])
  <2> DEFINE p == ps[i]
  <2>1. Told(s, h, p) /\ Missed(s, p) /\ BodyOK(fs, p) /\ p \in Players
    BY <1>3 DEF ClientOK, PlayerOK
  <2> HIDE DEF p
  <2>2. Told(t, h, p)
    BY <1>2, <2>1 DEF Told
  <2>3. Missed(t, p)
    <3>1. DOMAIN s \subseteq DOMAIN t /\ \A j \in DOMAIN s : s[j] = t[j]
      <4>1. DOMAIN s = 1 .. Len(s) /\ DOMAIN t = 1 .. Len(t)
        BY LenProperties
      <4>2. 1 .. Len(s) \subseteq 1 .. Len(t)
        BY <1>1
      <4> QED BY <1>1, <4>1, <4>2
    <3> SUFFICES ASSUME NEW j \in DOMAIN p.heard, p.heard[j] \notin ToSet(p.ran)
                 PROVE  /\ p.heard[j] # 0
                        /\ p.heard[j] = p.heard[1] \/ \E l \in DOMAIN t : t[l].type = "SCFrameInit"
                                                                         /\ t[l].nxt = p.heard[j]
      BY Zenon DEF Missed
    <3>2. p.heard[j] # 0 /\ (p.heard[j] = p.heard[1] \/ \E l \in DOMAIN s : s[l].type = "SCFrameInit"
                                                                         /\ s[l].nxt = p.heard[j])
      BY Zenon, <2>1 DEF Missed
    <3> QED BY Zenon, <3>1, <3>2
  <2>4. BodyOK(gs, p)
    BY <2>1, LongerBody
  <2> QED BY <2>2, <2>3, <2>4 DEF PlayerOK, p
<1>5. h \in 0 .. Len(t)
  BY <1>1
<1> QED BY <1>4, <1>3, <1>5 DEF ClientOK

\* A stream is as it should be if what is behind it is.
LEMMA LongerStream ==
    ASSUME NEW s \in Seq(Messages), NEW t \in Seq(Messages), Extends(s, t),
           NEW n \in Nat, NEW m \in Nat, n <= m, StreamOK(s, n),
           \A j \in Len(s) + 1 .. Len(t) : Fits(t, j, m)
    PROVE  StreamOK(t, m)
<1>1. /\ Len(s) \in Nat /\ Len(t) \in Nat /\ Len(s) <= Len(t) /\ \A i \in 1 .. Len(s) : s[i] = t[i]
  BY LenProperties DEF Extends, Begins
<1>2. ASSUME NEW j \in 1 .. Len(s) PROVE Fits(t, j, m)
  <2>1. Fits(s, j, n) /\ s[j] = t[j]
    BY <1>1 DEF StreamOK
  <2>2. s[j].type = "SCFrame" => s[j].id \in 0 .. m - 1
    BY <2>1 DEF Fits
  <2>3. ASSUME NEW i \in 1 .. j - 1, Between(t, i, j) PROVE Between(s, i, j) /\ s[i] = t[i]
    <3>1. i \in 1 .. Len(s) /\ \A l \in i + 1 .. j - 1 : l \in 1 .. Len(s)
      BY <1>1
    <3>2. s[i] = t[i] /\ \A l \in i + 1 .. j - 1 : s[l] = t[l]
      BY <1>1, <3>1
    <3> QED BY <2>3, <3>2 DEF Between
  <2> QED BY <2>1, <2>2, <2>3 DEF Fits
<1>3. \A j \in DOMAIN t : j \in 1 .. Len(s) \/ j \in Len(s) + 1 .. Len(t)
  BY <1>1
<1> QED BY <1>2, <1>3 DEF StreamOK

-----------------------------------------------------------------------------
\* A CSFrame.
Report == [uuid : UUIDs, keys : Seq(Nat)]

\* The types, as far as what follows needs them.
Types == /\ frames \in Seq(AFrame) /\ coming \in AFrame
         /\ uuid \in [Conns -> UUIDs]
         /\ stream \in [Conns -> Seq(Messages)]
         /\ todo # {} => bcast \in Messages
         /\ handled \in [Conns -> Nat]
         /\ players \in [Conns -> Seq(Players)]
         /\ m_allPlayer \in [Conns -> [UUIDs -> Nat]]
         /\ pressed \in Nat
         /\ reports \subseteq Report

\* The inductive invariant.
GameInv == /\ Types
           /\ \A k \in Conns : /\ StreamOK(stream[k], Len(frames))
                               /\ ClientOK(stream[k], handled[k], frames, players[k], m_allPlayer[k])

\* At the start there are no frames and no messages.
LEMMA InitGame == Init => GameInv
<1> SUFFICES ASSUME Init PROVE GameInv
  OBVIOUS
<1>1. /\ frames = <<>> /\ coming = [u \in UUIDs |-> <<>>] /\ uuid = [k \in Conns |-> 0]
      /\ stream = [k \in Conns |-> <<>>] /\ todo = {} /\ handled = [k \in Conns |-> 0]
      /\ players = [k \in Conns |-> <<>>] /\ m_allPlayer = [k \in Conns |-> [u \in UUIDs |-> 0]]
      /\ pressed = 0 /\ reports = {}
  BY DEF Init, Server!Init, Server!NoKeys
<1>2. Types
  <2>1. 0 \in UUIDs /\ 0 \in Nat
    BY LockStepAssumption DEF UUIDs
  <2>2. \A S : <<>> \in Seq(S)
    OBVIOUS
  <2>3. coming \in AFrame
    BY <1>1, <2>2 DEF AFrame
  <2>4. frames \in Seq(AFrame)
    BY <1>1, <2>2
  <2>5. stream \in [Conns -> Seq(Messages)] /\ players \in [Conns -> Seq(Players)]
    BY <1>1, <2>2
  <2>6. m_allPlayer \in [Conns -> [UUIDs -> Nat]]
    BY <1>1, <2>1
  <2> QED BY <1>1, <2>1, <2>3, <2>4, <2>5, <2>6 DEF Types
<1>3. ASSUME NEW k \in Conns
      PROVE  /\ StreamOK(stream[k], Len(frames))
             /\ ClientOK(stream[k], handled[k], frames, players[k], m_allPlayer[k])
  <2>1. stream[k] = <<>> /\ handled[k] = 0 /\ players[k] = <<>> /\ m_allPlayer[k] = [u \in UUIDs |-> 0]
    BY <1>1
  <2>2. StreamOK(<<>>, Len(frames))
    BY DEF StreamOK
  <2>3. m_allPlayer[k] \in [UUIDs -> 0 .. Len(players[k])] /\ 0 \in 0 .. 0 /\ Len(<<>>) = 0
    BY <2>1
  <2>4. ClientOK(<<>>, 0, frames, <<>>, m_allPlayer[k])
    BY <2>1, <2>3 DEF ClientOK
  <2> QED BY <2>1, <2>2, <2>4
<1> QED BY <1>2, <1>3 DEF GameInv

\* A step of the server adds to the streams and to the log.
LEMMA ServerStep ==
    ASSUME GameInv, UNCHANGED clients,
           frames' \in Seq(AFrame), Extends(frames, frames'),
           coming' \in AFrame, uuid' \in [Conns -> UUIDs], todo' # {} => bcast' \in Messages,
           stream' \in [Conns -> Seq(Messages)],
           \A k \in Conns : /\ Extends(stream[k], stream'[k])
                            /\ \A j \in Len(stream[k]) + 1 .. Len(stream'[k]) :
                                  Fits(stream'[k], j, Len(frames'))
    PROVE  GameInv'
<1>1. Types'
  BY DEF GameInv, Types, clients
<1>2. ASSUME NEW k \in Conns
      PROVE  /\ StreamOK(stream'[k], Len(frames'))
             /\ ClientOK(stream'[k], handled'[k], frames', players'[k], m_allPlayer'[k])
  <2>1. /\ stream[k] \in Seq(Messages) /\ stream'[k] \in Seq(Messages) /\ frames \in Seq(AFrame)
        /\ Len(frames) \in Nat /\ Len(frames') \in Nat /\ Len(frames) <= Len(frames')
    BY LenProperties DEF GameInv, Types, Extends
  <2>2. /\ handled'[k] = handled[k] /\ players'[k] = players[k] /\ m_allPlayer'[k] = m_allPlayer[k]
        /\ StreamOK(stream[k], Len(frames))
        /\ ClientOK(stream[k], handled[k], frames, players[k], m_allPlayer[k])
    BY DEF clients, GameInv
  <2>3. StreamOK(stream'[k], Len(frames'))
    BY <2>1, <2>2, LongerStream
  <2>4. ClientOK(stream'[k], handled[k], frames', players[k], m_allPlayer[k])
    BY <2>1, <2>2, LongerClient
  <2> QED BY <2>2, <2>3, <2>4
<1> QED BY <1>1, <1>2 DEF GameInv

\* A step of one client changes nothing else.
LEMMA ClientStep ==
    ASSUME GameInv, NEW k \in Conns, UNCHANGED server, NEW h, NEW ps, NEW map,
           handled' = [handled EXCEPT ![k] = h], players' = [players EXCEPT ![k] = ps],
           m_allPlayer' = [m_allPlayer EXCEPT ![k] = map],
           ClientOK(stream[k], h, frames, ps, map),
           pressed' \in Nat, reports' \subseteq Report
    PROVE  GameInv'
<1>1. h \in Nat /\ ps \in Seq(Players) /\ map \in [UUIDs -> Nat]
  <2>1. Len(stream[k]) \in Nat
    BY LenProperties DEF GameInv, Types
  <2>2. ps \in Seq(Players) /\ Len(ps) \in Nat /\ map \in [UUIDs -> 0 .. Len(ps)] /\ h \in 0 .. Len(stream[k])
    BY LenProperties DEF ClientOK
  <2> QED BY <2>1, <2>2
<1>2. /\ handled' \in [Conns -> Nat] /\ players' \in [Conns -> Seq(Players)]
      /\ m_allPlayer' \in [Conns -> [UUIDs -> Nat]]
      /\ handled'[k] = h /\ players'[k] = ps /\ m_allPlayer'[k] = map
      /\ \A l \in Conns : l # k => /\ handled'[l] = handled[l] /\ players'[l] = players[l]
                                   /\ m_allPlayer'[l] = m_allPlayer[l]
  BY <1>1 DEF GameInv, Types
<1>3. Types'
  BY <1>2 DEF GameInv, Types, server
<1>4. ASSUME NEW l \in Conns
      PROVE  /\ StreamOK(stream'[l], Len(frames'))
             /\ ClientOK(stream'[l], handled'[l], frames', players'[l], m_allPlayer'[l])
  <2>1. stream' = stream /\ frames' = frames
    BY DEF server
  <2>2. CASE l = k
    BY <1>2, <2>1, <2>2 DEF GameInv
  <2>3. CASE l # k
    BY <1>2, <2>1, <2>3 DEF GameInv
  <2> QED BY <2>2, <2>3
<1> QED BY <1>3, <1>4 DEF GameInv

-----------------------------------------------------------------------------
(***************************************************************************)
(* The server's steps.                                                     *)
(***************************************************************************)
\* Append makes a sequence longer.
LEMMA ExtendsFacts ==
    ASSUME NEW S, NEW s \in Seq(S)
    PROVE  /\ Extends(s, s)
           /\ \A e \in S : Append(s, e) \in Seq(S) /\ Extends(s, Append(s, e))
<1>1. Len(s) \in Nat
  BY LenProperties
<1>2. Extends(s, s)
  BY <1>1 DEF Extends, Begins
<1>3. ASSUME NEW e \in S PROVE Append(s, e) \in Seq(S) /\ Extends(s, Append(s, e))
  <2>1. Append(s, e) \in Seq(S) /\ Len(Append(s, e)) = Len(s) + 1
        /\ \A i \in 1 .. Len(s) : Append(s, e)[i] = s[i]
    BY AppendProperties
  <2> QED BY <1>1, <2>1 DEF Extends, Begins
<1> QED BY <1>2, <1>3

\* A stream grows by what is sent on it.
LEMMA SendFacts ==
    ASSUME GameInv, NEW k \in Conns, NEW msgs \in Seq(Messages), Server!Send(k, msgs)
    PROVE  /\ stream' \in [Conns -> Seq(Messages)]
           /\ \A l \in Conns : Extends(stream[l], stream'[l]) /\ (l # k => stream'[l] = stream[l])
           /\ Len(stream'[k]) = Len(stream[k]) + Len(msgs)
           /\ \A i \in 1 .. Len(stream[k]) : stream'[k][i] = stream[k][i]
           /\ \A i \in 1 .. Len(msgs) : stream'[k][Len(stream[k]) + i] = msgs[i]
<1> DEFINE s == stream[k]
           t == s \o msgs
<1>1. stream \in [Conns -> Seq(Messages)] /\ s \in Seq(Messages) /\ Len(s) \in Nat /\ Len(msgs) \in Nat
  BY LenProperties DEF GameInv, Types
<1>2. /\ t \in Seq(Messages) /\ Len(t) = Len(s) + Len(msgs)
      /\ \A i \in 1 .. Len(s) + Len(msgs) : t[i] = IF i <= Len(s) THEN s[i] ELSE msgs[i - Len(s)]
  <2> HIDE DEF s
  <2> QED BY <1>1, ConcatProperties
<1>3. stream' = [stream EXCEPT ![k] = t]
  BY DEF Server!Send
<1> HIDE DEF t
<1>4. stream' \in [Conns -> Seq(Messages)] /\ stream'[k] = t
      /\ \A l \in Conns : l # k => stream'[l] = stream[l]
  BY <1>1, <1>2, <1>3
<1> HIDE DEF s
<1>5. \A i \in 1 .. Len(s) : t[i] = s[i]
  <2>1. \A i \in 1 .. Len(s) : i \in 1 .. Len(s) + Len(msgs) /\ i <= Len(s)
    BY <1>1
  <2> QED BY <1>2, <2>1
<1>6. \A i \in 1 .. Len(msgs) : t[Len(s) + i] = msgs[i]
  <2>1. \A i \in 1 .. Len(msgs) : /\ Len(s) + i \in 1 .. Len(s) + Len(msgs)
                                  /\ ~(Len(s) + i <= Len(s)) /\ Len(s) + i - Len(s) = i
    BY <1>1
  <2> QED BY <1>2, <2>1
<1>7. Extends(s, t)
  BY <1>1, <1>2, <1>5 DEF Extends, Begins
<1>8. \A l \in Conns : Extends(stream[l], stream[l])
  BY <1>1, ExtendsFacts
<1> QED BY <1>2, <1>4, <1>5, <1>6, <1>7, <1>8 DEF s

\* The same of two messages.
LEMMA SendTwo ==
    ASSUME GameInv, NEW k \in Conns, NEW a \in Messages, NEW b \in Messages,
           Server!Send(k, << a, b >>)
    PROVE  /\ stream' \in [Conns -> Seq(Messages)]
           /\ \A l \in Conns : Extends(stream[l], stream'[l]) /\ (l # k => stream'[l] = stream[l])
           /\ Len(stream'[k]) = Len(stream[k]) + 2
           /\ stream'[k][Len(stream[k]) + 1] = a /\ stream'[k][Len(stream[k]) + 2] = b
<1> DEFINE msgs == << a, b >>
<1>1. msgs \in Seq(Messages) /\ Len(msgs) = 2 /\ msgs[1] = a /\ msgs[2] = b
  OBVIOUS
<1>2. Server!Send(k, msgs)
  OBVIOUS
<1> HIDE DEF msgs
<1>3. /\ stream' \in [Conns -> Seq(Messages)]
      /\ \A l \in Conns : Extends(stream[l], stream'[l]) /\ (l # k => stream'[l] = stream[l])
      /\ Len(stream'[k]) = Len(stream[k]) + Len(msgs)
      /\ \A i \in 1 .. Len(msgs) : stream'[k][Len(stream[k]) + i] = msgs[i]
  BY <1>1, <1>2, SendFacts
<1>4. 1 \in 1 .. Len(msgs) /\ 2 \in 1 .. Len(msgs)
  BY <1>1
<1> QED BY <1>1, <1>3, <1>4

\* The streams that get nothing are as they should be.
LEMMA NothingSent ==
    ASSUME GameInv
    PROVE  /\ Extends(frames, frames) /\ frames \in Seq(AFrame) /\ Len(frames) \in Nat
           /\ \A l \in Conns : Extends(stream[l], stream[l]) /\ Len(stream[l]) \in Nat
                               /\ Len(stream[l]) + 1 .. Len(stream[l]) = {}
<1>1. frames \in Seq(AFrame) /\ stream \in [Conns -> Seq(Messages)]
  BY DEF GameInv, Types
<1>2. Len(frames) \in Nat /\ \A l \in Conns : Len(stream[l]) \in Nat
  BY <1>1, LenProperties
<1>3. \A l \in Conns : Len(stream[l]) + 1 .. Len(stream[l]) = {}
  BY <1>2
<1> QED BY <1>1, <1>2, <1>3, ExtendsFacts

\* A session, and nothing else.
LEMMA JoinGame == ASSUME GameInv, NEW k \in Conns, Join(k) PROVE GameInv'
<1>1. UNCHANGED <<frames, coming, uuid, stream, bcast, todo, clients>>
  BY DEF Join, clients
<1> QED BY <1>1, NothingSent, ServerStep DEF GameInv, Types

\* The users that a sight lists.
LEMMA SightedFacts == ASSUME uuid' \in [Conns -> UUIDs] PROVE Sighted \in Seq(UUIDs)
<1> DEFINE s == [k \in Conns |-> IF k \in sessions THEN << uuid'[k] >> ELSE <<>>]
<1>1. MaxConns \in Nat /\ Conns = 1 .. MaxConns
  BY LockStepAssumption DEF Conns
<1>2. s \in Seq(Seq(UUIDs))
  <2>1. \A k \in Conns : s[k] \in Seq(UUIDs)
    OBVIOUS
  <2>2. s \in [1 .. MaxConns -> Seq(UUIDs)]
    BY <1>1, <2>1
  <2> HIDE DEF s
  <2> QED BY <1>1, <2>2, SeqDef
<1>3. Sighted = FlattenSeq(s)
  BY DEF Sighted
<1>4. <<>> \in Seq(UUIDs)
  OBVIOUS
<1> HIDE DEF s
<1>5. FlattenSeq(s) \in Seq(UUIDs)
  BY <1>2, <1>4, FlattenAppend
<1> QED BY <1>3, <1>5

\* SCFrameInit announces the frame to come, and the last one sent.
LEMMA HandleLoginGame == ASSUME GameInv, NEW k \in Conns, HandleLogin(k) PROVE GameInv'
<1>1. Server!CurFrameID \in Nat /\ Server!NxtFrameID \in Nat
      /\ (Server!NxtFrameID = 0 => Server!CurFrameID = 0)
  <2>1. Len(frames) \in Nat /\ (frames # <<>> => Len(frames) # 0)
    BY LenProperties, EmptySeq DEF GameInv, Types
  <2> QED BY <2>1 DEF Server!CurFrameID, Server!NxtFrameID
<1>2. PICK c \in Nat, n \in Nat : c = Server!CurFrameID /\ n = Server!NxtFrameID /\ (n = 0 => c = 0)
  BY <1>1
<1>3. PICK u \in UUIDs : /\ uuid' = [uuid EXCEPT ![k] = u]
                         /\ Server!Send(k, << Server!SCLogin(u), Server!SCFrameInit(c, n) >>)
  BY <1>2 DEF HandleLogin, Server!Login
<1> DEFINE a == Server!SCLogin(u)
           b == Server!SCFrameInit(c, n)
           msgs == << a, b >>
           len == Len(stream[k])
<1>4. bcast' = Server!SCSight(Sighted) /\ UNCHANGED <<frames, coming, clients>> /\ len \in Nat
  BY NothingSent DEF HandleLogin, Broadcast, Server!Login
<1>5. uuid' \in [Conns -> UUIDs]
  BY <1>3 DEF GameInv, Types
<1>6. bcast' \in Messages
  BY <1>4, <1>5, SightedFacts DEF Messages
<1>7. /\ a \in Messages /\ b \in Messages /\ a.type = "SCLogin" /\ b.type = "SCFrameInit"
      /\ b.nxt = n /\ b.cur = c
  <2>1. a \in {Server!SCLogin(v) : v \in UUIDs} /\ b \in {Server!SCFrameInit(d, m) : d \in Nat, m \in Nat}
    OBVIOUS
  <2>2. a \in Messages /\ b \in Messages
    BY <2>1 DEF Messages
  <2>3. a.type = "SCLogin"
    BY DEF Server!SCLogin
  <2>4. b.type = "SCFrameInit" /\ b.nxt = n /\ b.cur = c
    BY DEF Server!SCFrameInit
  <2> QED BY <2>2, <2>3, <2>4
<1>8. Server!Send(k, msgs)
  BY <1>3
<1> HIDE DEF a, b
<1>10. /\ stream' \in [Conns -> Seq(Messages)] /\ Len(stream'[k]) = len + 2
       /\ \A l \in Conns : Extends(stream[l], stream'[l]) /\ (l # k => stream'[l] = stream[l])
       /\ stream'[k][len + 1] = a /\ stream'[k][len + 2] = b
  BY <1>7, <1>8, SendTwo
<1>11. ASSUME NEW l \in Conns, NEW j \in Len(stream[l]) + 1 .. Len(stream'[l])
       PROVE  Fits(stream'[l], j, Len(frames))
  <2>1. l = k
    BY <1>10, <1>11, NothingSent
  <2>2. j = len + 1 \/ j = len + 2
    BY <1>4, <1>10, <2>1
  <2> HIDE DEF len
  <2> QED BY <1>2, <1>7, <1>10, <2>1, <2>2 DEF Fits
<1> QED BY <1>4, <1>5, <1>6, <1>10, <1>11, NothingSent, ServerStep DEF GameInv, Types

\* The log grows by a frame.
LEMMA FrameTurnGame == ASSUME GameInv, FrameTurn PROVE GameInv'
<1>1. /\ frames' = Append(frames, coming) /\ coming' = [u \in UUIDs |-> <<>>]
      /\ bcast' = Server!SCFrame(Len(frames)) /\ UNCHANGED <<uuid, stream, clients>>
  BY DEF FrameTurn, Broadcast, Server!CloseFrame, Server!NoKeys
<1>2. frames' \in Seq(AFrame) /\ Extends(frames, frames')
  BY <1>1, ExtendsFacts DEF GameInv, Types
<1>3. coming' \in AFrame
  <2>1. <<>> \in Seq(Nat)
    OBVIOUS
  <2> QED BY <1>1, <2>1 DEF AFrame
<1>4. bcast' \in Messages
  BY <1>1, NothingSent DEF Messages
<1> QED BY <1>1, <1>2, <1>3, <1>4, NothingSent, ServerStep DEF GameInv, Types

\* Keys are added to the frame to come, which is in no log yet.
LEMMA HandleFrameGame == ASSUME GameInv, NEW r \in reports, HandleFrame(r) PROVE GameInv'
<1>1. coming' = [coming EXCEPT ![r.uuid] = @ \o r.keys]
      /\ UNCHANGED <<frames, uuid, stream, bcast, todo, clients>>
  BY DEF HandleFrame, Server!Take, clients
<1>2. r.uuid \in UUIDs /\ r.keys \in Seq(Nat) /\ coming \in [UUIDs -> Seq(Nat)]
  BY DEF GameInv, Types, Report, AFrame
<1>3. coming[r.uuid] \o r.keys \in Seq(Nat)
  <2>1. coming[r.uuid] \in Seq(Nat)
    BY <1>2
  <2> QED BY <1>2, <2>1, ConcatProperties
<1>4. coming' \in AFrame
  BY <1>1, <1>2, <1>3 DEF AFrame
<1> QED BY <1>1, <1>4, NothingSent, ServerStep DEF GameInv, Types

\* A frame is sent only to a connection that expects it.
LEMMA VisitGame == ASSUME GameInv, NEW k \in Conns, Visit(k) PROVE GameInv'
<1> DEFINE len == Len(stream[k])
<1>1. todo # {} /\ bcast' = bcast /\ bcast \in Messages /\ UNCHANGED clients
  BY DEF Visit, GameInv, Types
<1>2. ASSUME NEW m \in Messages, Server!Send(k, <<m>>), UNCHANGED <<frames, coming, uuid>>,
             m.type # "SCFrameInit",
             m.type = "SCFrame" => /\ m.id \in 0 .. Len(frames) - 1
                                   /\ \A i \in 1 .. len : /\ Server!IsFrameMsg(stream[k][i])
                                                          /\ Between(stream[k], i, len + 1)
                                                          => m.id = Server!After(stream[k][i])
      PROVE  GameInv'
  <2> DEFINE msgs == <<m>>
  <2>1. msgs \in Seq(Messages) /\ Len(msgs) = 1 /\ msgs[1] = m
    OBVIOUS
  <2>2. Server!Send(k, msgs)
    BY <1>2
  <2> HIDE DEF msgs
  <2>3. /\ stream' \in [Conns -> Seq(Messages)] /\ Len(stream'[k]) = len + 1
        /\ \A l \in Conns : Extends(stream[l], stream'[l]) /\ (l # k => stream'[l] = stream[l])
        /\ stream'[k][len + 1] = m /\ \A i \in 1 .. len : stream'[k][i] = stream[k][i]
    <3>1. \A i \in 1 .. 1 : stream'[k][len + i] = msgs[i]
      BY <2>1, <2>2, SendFacts
    <3>2. 1 \in 1 .. 1
      OBVIOUS
    <3> QED BY <2>1, <2>2, <3>1, <3>2, SendFacts
  <2>4. ASSUME NEW l \in Conns, NEW j \in Len(stream[l]) + 1 .. Len(stream'[l])
        PROVE  Fits(stream'[l], j, Len(frames))
    <3>1. l = k
      BY <2>3, <2>4, NothingSent
    <3>2. len \in Nat
      BY NothingSent
    <3>3. j = len + 1
      BY <2>3, <3>1, <3>2
    <3>4. ASSUME NEW i \in 1 .. len, Between(stream'[k], i, len + 1)
          PROVE  Between(stream[k], i, len + 1) /\ stream'[k][i] = stream[k][i]
      BY <2>3, <3>2, <3>4 DEF Between
    <3>5. \A i \in 1 .. j - 1 : i \in 1 .. len
      BY <3>2, <3>3
    <3> HIDE DEF len
    <3> QED BY <1>2, <2>3, <3>1, <3>3, <3>4, <3>5 DEF Fits
  <2> QED BY <1>1, <1>2, <2>3, <2>4, NothingSent, ServerStep DEF GameInv, Types
<1>3. CASE k \notin sessions
  <2>1. UNCHANGED <<frames, coming, uuid, stream>>
    BY <1>3 DEF Visit
  <2> QED BY <1>1, <2>1, NothingSent, ServerStep DEF GameInv, Types
<1>4. CASE k \in sessions /\ bcast.type = "SCSight"
  <2>1. Server!Send(k, << Server!SCSight(bcast.players) >>) /\ UNCHANGED <<frames, coming, uuid>>
    BY <1>4 DEF Visit, Server!Sight
  <2> DEFINE m == Server!SCSight(bcast.players)
  <2>2. m \in Messages /\ m.type = "SCSight"
    <3>1. bcast.players \in Seq(UUIDs)
      BY <1>1, <1>4, MessageFacts
    <3> QED BY <3>1 DEF Messages, Server!SCSight
  <2> HIDE DEF m
  <2> QED BY <1>2, <2>1, <2>2 DEF m
<1>5. CASE k \in sessions /\ bcast.type # "SCSight"
  <2>1. /\ Server!Send(k, << Server!SCFrame(Server!CurFrameID) >>) /\ UNCHANGED <<frames, coming, uuid>>
        /\ frames # <<>> /\ Server!Expects(k, Server!CurFrameID)
    BY <1>5 DEF Visit, Server!SendFrame
  <2> DEFINE m == Server!SCFrame(Server!CurFrameID)
  <2>2. Server!CurFrameID \in 0 .. Len(frames) - 1 /\ Server!CurFrameID \in Nat
    <3>1. Len(frames) \in Nat /\ Len(frames) # 0
      BY <2>1, LenProperties, EmptySeq DEF GameInv, Types
    <3> QED BY <2>1, <3>1 DEF Server!CurFrameID
  <2>3. m \in Messages /\ m.type = "SCFrame" /\ m.id = Server!CurFrameID
    BY <2>2 DEF Messages, Server!SCFrame
  <2>4. ASSUME NEW i \in 1 .. len, Server!IsFrameMsg(stream[k][i]), Between(stream[k], i, len + 1)
        PROVE  m.id = Server!After(stream[k][i])
    <3>1. i \in DOMAIN stream[k] /\ len \in Nat /\ len + 1 - 1 = len
      BY NothingSent, LenProperties DEF GameInv, Types
    <3>2. \A j \in i + 1 .. len : ~Server!IsFrameMsg(stream[k][j])
      BY <2>4, <3>1 DEF Between
    <3> QED BY <2>1, <2>3, <2>4, <3>1, <3>2 DEF Server!Expects
  <2> HIDE DEF m, len
  <2> QED BY <1>2, <2>1, <2>2, <2>3, <2>4 DEF m
<1> QED BY <1>3, <1>4, <1>5

-----------------------------------------------------------------------------
(***************************************************************************)
(* The clients' steps.                                                     *)
(***************************************************************************)
\* GameInv of one client.
LEMMA ClientFacts ==
    ASSUME GameInv, NEW k \in Conns
    PROVE  /\ stream[k] \in Seq(Messages) /\ Len(stream[k]) \in Nat
           /\ handled[k] \in 0 .. Len(stream[k]) /\ handled[k] \in Nat
           /\ frames \in Seq(AFrame) /\ Len(frames) \in Nat
           /\ players[k] \in Seq(Players) /\ Len(players[k]) \in Nat
           /\ DOMAIN players[k] = 1 .. Len(players[k])
           /\ \A i \in DOMAIN players[k] : players[k][i] \in Players
           /\ m_allPlayer[k] \in [UUIDs -> 0 .. Len(players[k])]
           /\ ClientOK(stream[k], handled[k], frames, players[k], m_allPlayer[k])
           /\ \A i \in DOMAIN players[k] :
                 PlayerOK(stream[k], handled[k], frames, players[k][i])
<1>1. /\ stream[k] \in Seq(Messages) /\ frames \in Seq(AFrame) /\ handled[k] \in Nat
      /\ players[k] \in Seq(Players)
      /\ ClientOK(stream[k], handled[k], frames, players[k], m_allPlayer[k])
  BY DEF GameInv, Types
<1>2. /\ Len(stream[k]) \in Nat /\ Len(frames) \in Nat /\ Len(players[k]) \in Nat
      /\ players[k] \in [1 .. Len(players[k]) -> Players] /\ DOMAIN players[k] = 1 .. Len(players[k])
  BY <1>1, LenProperties
<1>3. \A i \in DOMAIN players[k] : players[k][i] \in Players
  BY <1>2
<1> QED BY <1>1, <1>2, <1>3 DEF ClientOK

\* What a client that handles a message of a type gets.
LEMMA ReceivesFacts ==
    ASSUME GameInv, NEW k \in Conns, NEW type, Receives(k, type)
    PROVE  /\ handled[k] + 1 \in 1 .. Len(stream[k]) /\ handled[k] + 1 \in 0 .. Len(stream[k])
           /\ handled' = [handled EXCEPT ![k] = handled[k] + 1]
           /\ Message(k) \in Messages /\ Message(k).type = type
           /\ Message(k) = stream[k][handled[k] + 1]
           /\ Fits(stream[k], handled[k] + 1, Len(frames))
           /\ UNCHANGED server /\ pressed' \in Nat
<1>1. /\ handled[k] < Len(stream[k]) /\ stream[k][handled[k] + 1].type = type
      /\ handled' = [handled EXCEPT ![k] = handled[k] + 1] /\ UNCHANGED <<server, pressed>>
  BY DEF Receives
<1>2. handled[k] + 1 \in 1 .. Len(stream[k]) /\ handled[k] + 1 \in 0 .. Len(stream[k])
  BY <1>1, ClientFacts
<1>3. stream[k] \in [1 .. Len(stream[k]) -> Messages] /\ DOMAIN stream[k] = 1 .. Len(stream[k])
  BY ClientFacts, LenProperties
<1>4. stream[k][handled[k] + 1] \in Messages
  BY <1>2, <1>3
<1>5. Fits(stream[k], handled[k] + 1, Len(frames))
  BY <1>2, <1>3 DEF GameInv, StreamOK
<1> QED BY <1>1, <1>2, <1>4, <1>5 DEF Message, GameInv, Types

\* A message that is not about frames tells a Player nothing.
LEMMA ToldOn ==
    ASSUME NEW s, NEW h \in Nat, NEW p, Told(s, h, p), ~Server!IsFrameMsg(s[h + 1])
    PROVE  Told(s, h + 1, p)
<1>1. ASSUME NEW i, LastTold(s, h, i) PROVE i \in 1 .. h + 1 /\ LastTold(s, h + 1, i)
  <2>1. i \in 1 .. h /\ Server!IsFrameMsg(s[i]) /\ \A l \in i + 1 .. h : ~Server!IsFrameMsg(s[l])
    BY <1>1 DEF LastTold, Between
  <2>2. \A l \in i + 1 .. h + 1 + 1 - 1 : l \in i + 1 .. h \/ l = h + 1
    BY <2>1
  <2>3. Between(s, i, h + 1 + 1)
    BY <2>1, <2>2 DEF Between
  <2>4. i \in 1 .. h + 1
    BY <2>1
  <2> QED BY <2>1, <2>3, <2>4 DEF LastTold
<1> QED BY <1>1 DEF Told

\* A function on 1 .. n is a sequence.
LEMMA AsSeq ==
    ASSUME NEW S, NEW n \in Nat, NEW f \in [1 .. n -> S]
    PROVE  f \in Seq(S) /\ Len(f) = n /\ DOMAIN f = 1 .. n
BY SeqDef

\* The parts of ClientOK, for the sequences a client can have.
LEMMA ClientParts ==
    ASSUME NEW s, NEW h \in 0 .. Len(s), NEW fs, NEW n \in Nat, NEW ps \in [1 .. n -> Players],
           NEW map \in [UUIDs -> 0 .. n],
           \A i \in 1 .. n : PlayerOK(s, h, fs, ps[i])
    PROVE  ClientOK(s, h, fs, ps, map)
<1>1. ps \in Seq(Players) /\ Len(ps) = n /\ DOMAIN ps = 1 .. n
  BY SeqDef
<1> QED BY <1>1 DEF ClientOK

\* FlattenSeq of no sequences.
LEMMA FlattenNothing == FlattenSeq(<<>>) = <<>>
BY DEF FlattenSeq

\* A body that has just been placed has not moved.
LEMMA JustPlaced ==
    ASSUME NEW fs, NEW p, p.since = <<>>, p.times = <<>>, p.moves = <<>>
    PROVE  BodyOK(fs, p)
<1>1. Runs(fs, <<>>, <<>>) = <<>> /\ DOMAIN <<>> = {} /\ Len(<<>>) = 0
  BY DEF Runs
<1>2. KeysOf(fs, <<>>) = {} /\ ToSet(<<>>) = {}
  BY <1>1 DEF KeysOf, ToSet
<1> QED BY <1>1, <1>2, FlattenNothing DEF BodyOK

\* A Player that has not heard anything.
LEMMA NewPlayerOK ==
    ASSUME NEW s, NEW h, NEW fs, NEW u \in UUIDs
    PROVE  NewPlayer(u) \in Players /\ PlayerOK(s, h, fs, NewPlayer(u))
<1>1. NewPlayer(u) \in Players
  BY DEF NewPlayer, Players
<1>2. Told(s, h, NewPlayer(u)) /\ Missed(s, NewPlayer(u))
  BY DEF NewPlayer, Told, Missed
<1>3. BodyOK(fs, NewPlayer(u))
  BY JustPlaced DEF NewPlayer
<1> QED BY <1>1, <1>2, <1>3 DEF PlayerOK

\* The players of a client that has handled a message that is not about frames.
LEMMA OtherHandled ==
    ASSUME GameInv, NEW k \in Conns, NEW type \in {"SCLogin", "SCSight"}, Receives(k, type),
           NEW i \in DOMAIN players[k]
    PROVE  PlayerOK(stream[k], handled[k] + 1, frames, players[k][i])
<1>1. ~Server!IsFrameMsg(stream[k][handled[k] + 1])
  BY ReceivesFacts DEF Server!IsFrameMsg
<1>2. PlayerOK(stream[k], handled[k], frames, players[k][i]) /\ handled[k] \in Nat
  BY ClientFacts
<1>3. Told(stream[k], handled[k] + 1, players[k][i])
  BY <1>1, <1>2, ToldOn DEF PlayerOK
<1> QED BY <1>2, <1>3 DEF PlayerOK

\* One more Player, which has heard nothing.
LEMMA OnLoginGame == ASSUME GameInv, NEW k \in Conns, OnLogin(k) PROVE GameInv'
<1> DEFINE s == stream[k]
           h == handled[k]
           ps == players[k]
           map == m_allPlayer[k]
           n == Len(ps)
           u == Message(k).uuid
           p == NewPlayer(u)
           qs == [i \in 1 .. n + 1 |-> IF i = n + 1 THEN p ELSE ps[i]]
           new == [map EXCEPT ![u] = n + 1]
<1>1. Receives(k, "SCLogin") /\ UNCHANGED reports
  BY DEF OnLogin
<1>2. /\ u \in UUIDs /\ Message(k).type = "SCLogin" /\ Message(k) = s[h + 1]
      /\ h \in Nat /\ h + 1 \in 0 .. Len(s) /\ n \in Nat /\ n + 1 \in Nat /\ map \in [UUIDs -> 0 .. n]
      /\ ps \in [1 .. n -> Players] /\ handled' = [handled EXCEPT ![k] = h + 1]
      /\ UNCHANGED server /\ pressed' \in Nat
  <2>1. Message(k) \in Messages /\ Message(k).type = "SCLogin"
    BY <1>1, ReceivesFacts
  <2>2. u \in UUIDs
    BY <2>1, MessageFacts
  <2>3. ps \in [1 .. n -> Players]
    BY ClientFacts, LenProperties
  <2> QED BY <1>1, <2>1, <2>2, <2>3, ReceivesFacts, ClientFacts
<1>3. p \in Players /\ PlayerOK(s, h + 1, frames, p)
  BY <1>2, NewPlayerOK
<1>5. Append(ps, p) = qs
  <2>1. ps \in Seq(Players)
    BY ClientFacts
  <2> HIDE DEF p, ps
  <2>2. /\ Append(ps, p) \in Seq(Players) /\ Len(Append(ps, p)) = n + 1
        /\ \A i \in 1 .. n : Append(ps, p)[i] = ps[i]
        /\ Append(ps, p)[n + 1] = p
    BY <1>3, <2>1, AppendProperties
  <2>3. Append(ps, p) = [i \in 1 .. n + 1 |-> Append(ps, p)[i]]
    BY <2>2, LenProperties
  <2>4. \A i \in 1 .. n + 1 : Append(ps, p)[i] = IF i = n + 1 THEN p ELSE ps[i]
    <3>1. \A i \in 1 .. n + 1 : i = n + 1 \/ i \in 1 .. n
      BY <1>2
    <3> QED BY <2>2, <3>1
  <2> QED BY <2>3, <2>4
<1>6. players' = [players EXCEPT ![k] = qs]
  BY <1>5 DEF OnLogin
<1>7. qs \in [1 .. n + 1 -> Players]
  <2>1. \A i \in 1 .. n + 1 : i = n + 1 \/ i \in 1 .. n
    BY <1>2
  <2>2. \A i \in 1 .. n : ps[i] \in Players
    BY <1>2
  <2> HIDE DEF p, ps, n
  <2> QED BY <1>3, <2>1, <2>2
<1>8. m_allPlayer' = [m_allPlayer EXCEPT ![k] = new]
  <2>1. players'[k] = qs /\ Len(qs) = n + 1
    <3>1. players \in [Conns -> Seq(Players)]
      BY DEF GameInv, Types
    <3>2. players'[k] = qs
      BY <1>6, <3>1
    <3> QED BY <1>2, <1>7, <3>2, SeqDef
  <2>2. m_allPlayer' = [m_allPlayer EXCEPT ![k][u] = Len(players'[k])]
    BY DEF OnLogin
  <2>3. m_allPlayer \in [Conns -> [UUIDs -> Nat]]
    BY DEF GameInv, Types
  <2> QED BY <2>1, <2>2, <2>3
<1>9. new \in [UUIDs -> 0 .. n + 1]
  BY <1>2
<1>10. ASSUME NEW i \in 1 .. n + 1 PROVE PlayerOK(s, h + 1, frames, qs[i])
  <2>1. CASE i = n + 1
    BY <1>3, <2>1
  <2>2. CASE i # n + 1
    <3>1. i \in 1 .. n /\ qs[i] = ps[i]
      BY <1>2, <2>2
    <3> QED BY <1>1, <3>1, ClientFacts, OtherHandled
  <2> QED BY <2>1, <2>2
<1> HIDE DEF qs, new, p, u, s, h, map, n
<1>12. ClientOK(s, h + 1, frames, qs, new)
  BY <1>2, <1>7, <1>9, <1>10, ClientParts
<1>13. reports' \subseteq Report
  BY <1>1 DEF GameInv, Types
<1> QED BY <1>2, <1>6, <1>8, <1>12, <1>13, ClientStep DEF s

\* SetPlayerInfo leaves alone what the Player has been told.
LEMMA PlacedOK ==
    ASSUME NEW s, NEW h, NEW fs, NEW p \in Players, NEW u \in UUIDs, PlayerOK(s, h, fs, p)
    PROVE  SetPlayerInfo(p, u) \in Players /\ PlayerOK(s, h, fs, SetPlayerInfo(p, u))
<1> DEFINE q == SetPlayerInfo(p, u)
<1>1. /\ q.started = p.started /\ q.missing = p.missing /\ q.CurFrameID = p.CurFrameID
      /\ q.heard = p.heard /\ q.ran = p.ran
      /\ q.since = <<>> /\ q.times = <<>> /\ q.moves = <<>> /\ q \in Players
  <2>1. /\ q = [p EXCEPT !.UUID = u, !.moves = <<>>, !.since = <<>>, !.times = <<>>]
        /\ <<>> \in Seq(Nat) /\ <<>> \in Seq(ARun)
    BY DEF SetPlayerInfo
  <2>2. p \in [UUID : UUIDs, CurFrameID : Nat, started : BOOLEAN, keys : Seq(Nat), moves : Seq(Nat),
                heard : Seq(Nat), ran : Seq(Nat), since : Seq(ARun), times : Seq(Nat), missing : BOOLEAN]
    BY DEF Players
  <2> HIDE DEF q
  <2>3. /\ q.started = p.started /\ q.missing = p.missing /\ q.CurFrameID = p.CurFrameID
        /\ q.heard = p.heard /\ q.ran = p.ran /\ q.since = <<>> /\ q.times = <<>> /\ q.moves = <<>>
    BY <2>1, <2>2
  <2>4. q \in Players
    BY <2>1, <2>2 DEF Players
  <2> QED BY <2>3, <2>4
<1> HIDE DEF q
<1>2. Told(s, h, q)
  BY <1>1 DEF Told, PlayerOK
<1>3. Missed(s, q)
  BY <1>1 DEF Missed, PlayerOK
<1>4. BodyOK(fs, q)
  BY <1>1, JustPlaced
<1> QED BY <1>1, <1>2, <1>3, <1>4 DEF PlayerOK, q

\* One Player, known or new, is placed.
LEMMA OnSightGame == ASSUME GameInv, NEW k \in Conns, OnSight(k) PROVE GameInv'
<1> DEFINE s == stream[k]
           h == handled[k]
           ps == players[k]
           map == m_allPlayer[k]
           n == Len(ps)
           listed == Message(k).players
           known == map[listed[1]]
           target == IF known # 0 THEN known ELSE n + 1
           all == IF known # 0 THEN ps ELSE Append(ps, NewPlayer(0))
           qs == [all EXCEPT ![target] = SetPlayerInfo(@, Last(listed))]
           new == [u \in UUIDs |-> IF u \in ToSet(listed) THEN target ELSE map[u]]
<1>1. Receives(k, "SCSight") /\ UNCHANGED reports
  BY DEF OnSight
<1>2. /\ listed \in Seq(UUIDs)
      /\ h \in Nat /\ h + 1 \in 0 .. Len(s) /\ n \in Nat /\ map \in [UUIDs -> 0 .. n]
      /\ ps \in [1 .. n -> Players] /\ ps \in Seq(Players) /\ DOMAIN ps = 1 .. n
      /\ handled' = [handled EXCEPT ![k] = h + 1]
      /\ UNCHANGED server /\ pressed' \in Nat /\ reports' \subseteq Report
  <2>1. Message(k) \in Messages /\ Message(k).type = "SCSight"
    BY <1>1, ReceivesFacts
  <2>2. listed \in Seq(UUIDs)
    BY <2>1, MessageFacts
  <2>3. ps \in [1 .. n -> Players]
    BY ClientFacts, LenProperties
  <2>4. reports' \subseteq Report
    BY <1>1 DEF GameInv, Types
  <2> QED BY <1>1, <2>1, <2>2, <2>3, <2>4, ReceivesFacts, ClientFacts
<1>3. \A i \in 1 .. n : PlayerOK(s, h + 1, frames, ps[i])
  BY <1>1, <1>2, OtherHandled
<1>4. CASE listed = <<>>
  <2>1. players' = [players EXCEPT ![k] = ps] /\ m_allPlayer' = [m_allPlayer EXCEPT ![k] = map]
    <3>1. players' = players /\ m_allPlayer' = m_allPlayer
      BY <1>4 DEF OnSight
    <3>2. players \in [Conns -> Seq(Players)] /\ m_allPlayer \in [Conns -> [UUIDs -> Nat]]
      BY DEF GameInv, Types
    <3> QED BY <3>1, <3>2
  <2> HIDE DEF map, ps, n, h, s
  <2>3. ClientOK(s, h + 1, frames, ps, map)
    BY <1>2, <1>3, ClientParts
  <2> QED BY <1>2, <2>1, <2>3, ClientStep DEF s
<1>5. CASE listed # <<>>
  <2>1. listed[1] \in UUIDs /\ Last(listed) \in UUIDs
    <3>1. Len(listed) \in Nat \ {0} /\ listed \in [1 .. Len(listed) -> UUIDs]
      BY <1>2, <1>5, LenProperties, EmptySeq
    <3>2. 1 \in 1 .. Len(listed) /\ Len(listed) \in 1 .. Len(listed)
      BY <3>1
    <3> QED BY <3>1, <3>2 DEF Last
  <2>2. known \in 0 .. n /\ target \in Nat
    BY <1>2, <2>1
  <2> DEFINE m == IF known # 0 THEN n ELSE n + 1
             fresh == NewPlayer(0)
  <2>3. 0 \in UUIDs
    BY LockStepAssumption DEF UUIDs
  <2>4. fresh \in Players /\ PlayerOK(s, h + 1, frames, fresh)
    BY <2>3, NewPlayerOK
  <2> HIDE DEF fresh
  <2>5. /\ all \in [1 .. m -> Players] /\ m \in Nat /\ target \in 1 .. m /\ n <= m
        /\ \A i \in 1 .. m : PlayerOK(s, h + 1, frames, all[i])
    <3>1. CASE known # 0
      BY <1>2, <1>3, <2>2, <3>1
    <3>2. CASE known = 0
      <4>1. all = Append(ps, fresh) /\ m = n + 1 /\ target = n + 1
        BY <3>2 DEF fresh
      <4> HIDE DEF all, ps, m, target
      <4>2. /\ all \in Seq(Players) /\ Len(all) = n + 1 /\ all[n + 1] = fresh
            /\ \A i \in 1 .. n : all[i] = ps[i]
        BY <1>2, <2>4, <4>1, AppendProperties DEF ps
      <4>3. all \in [1 .. n + 1 -> Players]
        BY <4>2, LenProperties
      <4>4. \A i \in 1 .. n + 1 : i = n + 1 \/ i \in 1 .. n
        BY <1>2
      <4>5. \A i \in 1 .. n + 1 : PlayerOK(s, h + 1, frames, all[i])
        BY <1>3, <2>4, <4>2, <4>4 DEF ps
      <4> QED BY <1>2, <4>1, <4>3, <4>5
    <3> QED BY <3>1, <3>2
  <2> DEFINE q == SetPlayerInfo(all[target], Last(listed))
  <2>6. all[target] \in Players
    BY <2>5
  <2> HIDE DEF all, target, m
  <2>7. q \in Players /\ PlayerOK(s, h + 1, frames, q)
    BY <2>1, <2>5, <2>6, PlacedOK
  <2> HIDE DEF q
  <2>8. qs = [all EXCEPT ![target] = q]
    BY DEF q
  <2>9. players' = [players EXCEPT ![k] = qs]
    BY <1>5 DEF OnSight, q, all, target
  <2>10. m_allPlayer' = [m_allPlayer EXCEPT ![k] = new]
    BY <1>5 DEF OnSight, target
  <2> HIDE DEF qs
  <2>11. /\ qs \in [1 .. m -> Players]
         /\ \A i \in 1 .. m : qs[i] = IF i = target THEN q ELSE all[i]
    BY <2>5, <2>7, <2>8
  <2>12. \A i \in 1 .. m : PlayerOK(s, h + 1, frames, qs[i])
    BY <2>5, <2>7, <2>11
  <2>13. new \in [UUIDs -> 0 .. m]
    <3>1. \A u \in UUIDs : map[u] \in 0 .. m
      BY <1>2, <2>5
    <3>2. target \in 0 .. m
      BY <2>5
    <3> QED BY <3>1, <3>2
  <2> HIDE DEF new, map, ps, n, h, s
  <2>15. ClientOK(s, h + 1, frames, qs, new)
    BY <1>2, <2>5, <2>11, <2>12, <2>13, ClientParts
  <2> QED BY <1>2, <2>9, <2>10, <2>15, ClientStep DEF s
<1> QED BY <1>4, <1>5

\* The Player objects of client k become qs, in an action that leaves their
\* histories and their bodies alone.
LEMMA SameHistories ==
    ASSUME GameInv, NEW k \in Conns, NEW h \in 0 .. Len(stream[k]),
           NEW qs \in [DOMAIN players[k] -> Players],
           \A i \in DOMAIN players[k] :
              /\ Told(stream[k], h, qs[i])
              /\ qs[i].heard = players[k][i].heard /\ qs[i].ran = players[k][i].ran
              /\ qs[i].since = players[k][i].since /\ qs[i].times = players[k][i].times
              /\ qs[i].moves = players[k][i].moves
    PROVE  ClientOK(stream[k], h, frames, qs, m_allPlayer[k])
<1> DEFINE s == stream[k]
           ps == players[k]
           n == Len(ps)
           map == m_allPlayer[k]
<1>1. /\ n \in Nat /\ DOMAIN ps = 1 .. n /\ qs \in [1 .. n -> Players] /\ map \in [UUIDs -> 0 .. n]
  BY ClientFacts
<1>2. ASSUME NEW i \in 1 .. n PROVE PlayerOK(s, h, frames, qs[i])
  <2>1. PlayerOK(s, handled[k], frames, ps[i])
    BY <1>1, ClientFacts
  <2>2. /\ Told(s, h, qs[i]) /\ qs[i].heard = ps[i].heard /\ qs[i].ran = ps[i].ran
        /\ qs[i].since = ps[i].since /\ qs[i].times = ps[i].times /\ qs[i].moves = ps[i].moves
    BY <1>1
  <2> HIDE DEF s, ps
  <2>3. Missed(s, qs[i])
    BY <2>1, <2>2 DEF PlayerOK, Missed
  <2>4. BodyOK(frames, qs[i])
    BY <2>1, <2>2 DEF PlayerOK, BodyOK
  <2> QED BY <2>2, <2>3, <2>4 DEF PlayerOK
<1> HIDE DEF s, ps, n, map
<1> QED BY <1>1, <1>2, ClientParts DEF s, map

\* Every Player that has started is told where to begin.
LEMMA OnFrameInitGame == ASSUME GameInv, NEW k \in Conns, OnFrameInit(k) PROVE GameInv'
<1> DEFINE s == stream[k]
           h == handled[k]
           ps == players[k]
           map == m_allPlayer[k]
           m == Message(k)
           waiting(p) == [p EXCEPT !.CurFrameID = m.cur, !.missing = TRUE]
           qs == [i \in DOMAIN ps |-> IF ps[i].started THEN waiting(ps[i]) ELSE ps[i]]
<1>1. Receives(k, "SCFrameInit") /\ UNCHANGED <<m_allPlayer, reports>>
  BY DEF OnFrameInit
<1>2. /\ m.type = "SCFrameInit" /\ m = s[h + 1] /\ m.cur \in Nat
      /\ h \in Nat /\ h + 1 \in 1 .. Len(s) /\ h + 1 \in 0 .. Len(s)
      /\ \A i \in DOMAIN ps : ps[i] \in Players
      /\ handled' = [handled EXCEPT ![k] = h + 1]
      /\ UNCHANGED server /\ pressed' \in Nat /\ reports' \subseteq Report
  <2>1. Message(k) \in Messages /\ Message(k).type = "SCFrameInit"
    BY <1>1, ReceivesFacts
  <2>2. m.cur \in Nat
    BY <2>1, MessageFacts
  <2>3. reports' \subseteq Report
    BY <1>1 DEF GameInv, Types
  <2> QED BY <1>1, <2>1, <2>2, <2>3, ReceivesFacts, ClientFacts
<1>3. players' = [players EXCEPT ![k] = qs] /\ m_allPlayer' = [m_allPlayer EXCEPT ![k] = map]
  <2>1. m_allPlayer \in [Conns -> [UUIDs -> Nat]]
    BY DEF GameInv, Types
  <2> QED BY <1>1, <2>1 DEF OnFrameInit
<1>4. ASSUME NEW i \in DOMAIN ps
      PROVE  /\ qs[i] \in Players /\ Told(s, h + 1, qs[i])
             /\ qs[i].heard = ps[i].heard /\ qs[i].ran = ps[i].ran
             /\ qs[i].since = ps[i].since /\ qs[i].times = ps[i].times /\ qs[i].moves = ps[i].moves
  <2> DEFINE p == ps[i]
             q == waiting(p)
  <2>1. p \in Players /\ Told(s, h, p)
    BY <1>2, ClientFacts DEF PlayerOK
  <2>2. CASE ~p.started
    <3>1. Told(s, h + 1, p)
      BY <2>1, <2>2 DEF Told
    <3> QED BY <2>1, <2>2, <3>1
  <2>3. CASE p.started
    <3> HIDE DEF p, m, s, h
    <3>1. /\ q \in Players /\ q.CurFrameID = m.cur /\ q.missing = TRUE /\ q.started = p.started
          /\ q.heard = p.heard /\ q.ran = p.ran
          /\ q.since = p.since /\ q.times = p.times /\ q.moves = p.moves
      BY <1>2, <2>1 DEF Players
    <3>2. LastTold(s, h + 1, h + 1)
      BY <1>2 DEF LastTold, Between, Server!IsFrameMsg
    <3> HIDE DEF q
    <3>3. h + 1 \in 1 .. h + 1
      BY <1>2
    <3>4. Told(s, h + 1, q)
      BY <1>2, <2>3, <3>1, <3>2, <3>3 DEF Told
    <3>5. qs[i] = q
      BY <2>3 DEF q, p
    <3> QED BY <3>1, <3>4, <3>5 DEF p
  <2> QED BY <2>2, <2>3
<1>5. qs \in [DOMAIN ps -> Players]
  <2>1. \A i \in DOMAIN ps : qs[i] \in Players
    BY <1>4
  <2> QED BY <2>1
<1> HIDE DEF qs
<1>6. ClientOK(s, h + 1, frames, qs, map)
  BY <1>2, <1>4, <1>5, SameHistories
<1> HIDE DEF map, s, h
<1> QED BY <1>2, <1>3, <1>6, ClientStep DEF s

\* A Player that starts has heard nothing.
LEMMA StartGame == ASSUME GameInv, NEW k \in Conns, Start(k) PROVE GameInv'
<1> DEFINE ps == players[k]
           running(p) == [p EXCEPT !.started = TRUE]
           qs == [i \in DOMAIN ps |-> running(ps[i])]
<1>1. /\ players' = [players EXCEPT ![k] = qs]
      /\ handled' = [handled EXCEPT ![k] = handled[k]]
      /\ m_allPlayer' = [m_allPlayer EXCEPT ![k] = m_allPlayer[k]]
      /\ UNCHANGED server /\ pressed' \in Nat /\ reports' \subseteq Report
  BY DEF Start, GameInv, Types
<1>2. ASSUME NEW i \in DOMAIN ps
      PROVE  /\ qs[i] \in Players /\ Told(stream[k], handled[k], qs[i])
             /\ qs[i].heard = ps[i].heard /\ qs[i].ran = ps[i].ran
             /\ qs[i].since = ps[i].since /\ qs[i].times = ps[i].times /\ qs[i].moves = ps[i].moves
  <2> DEFINE p == ps[i]
             q == running(p)
  <2>1. p \in Players /\ Told(stream[k], handled[k], p)
    BY ClientFacts DEF PlayerOK
  <2> HIDE DEF p
  <2>2. /\ q \in Players /\ q.CurFrameID = p.CurFrameID /\ q.missing = p.missing /\ q.started = TRUE
        /\ q.heard = p.heard /\ q.ran = p.ran
        /\ q.since = p.since /\ q.times = p.times /\ q.moves = p.moves
    BY <2>1 DEF Players
  <2> HIDE DEF q
  <2>3. Told(stream[k], handled[k], q)
    BY <2>1, <2>2 DEF Told
  <2>4. qs[i] = q
    BY DEF q, p
  <2> QED BY <2>2, <2>3, <2>4 DEF p
<1>3. qs \in [DOMAIN ps -> Players]
  <2>1. \A i \in DOMAIN ps : qs[i] \in Players
    BY <1>2
  <2> QED BY <2>1
<1> HIDE DEF qs
<1>4. ClientOK(stream[k], handled[k], frames, qs, m_allPlayer[k])
  BY <1>2, <1>3, ClientFacts, SameHistories
<1> QED BY <1>1, <1>4, ClientStep

\* Keys to report tell a Player nothing.
LEMMA KeyPressEventGame == ASSUME GameInv, NEW k \in Conns, KeyPressEvent(k) PROVE GameInv'
<1> DEFINE ps == players[k]
           told(p) == [p EXCEPT !.keys = Append(@, pressed + 1)]
           qs == [i \in DOMAIN ps |-> told(ps[i])]
<1>1. /\ players' = [players EXCEPT ![k] = qs]
      /\ handled' = [handled EXCEPT ![k] = handled[k]]
      /\ m_allPlayer' = [m_allPlayer EXCEPT ![k] = m_allPlayer[k]]
      /\ UNCHANGED server /\ pressed' \in Nat /\ reports' \subseteq Report /\ pressed + 1 \in Nat
  <2>1. players' = [players EXCEPT ![k] = qs] /\ UNCHANGED <<server, handled, m_allPlayer, reports>>
    BY DEF KeyPressEvent
  <2>2. pressed' = pressed + 1
    BY DEF KeyPressEvent
  <2>3. /\ handled \in [Conns -> Nat] /\ m_allPlayer \in [Conns -> [UUIDs -> Nat]]
        /\ pressed \in Nat /\ reports \subseteq Report
    BY DEF GameInv, Types
  <2> HIDE DEF qs
  <2> QED BY <2>1, <2>2, <2>3
<1>2. ASSUME NEW i \in DOMAIN ps
      PROVE  /\ qs[i] \in Players /\ Told(stream[k], handled[k], qs[i])
             /\ qs[i].heard = ps[i].heard /\ qs[i].ran = ps[i].ran
             /\ qs[i].since = ps[i].since /\ qs[i].times = ps[i].times /\ qs[i].moves = ps[i].moves
  <2> DEFINE p == ps[i]
             more == Append(p.keys, pressed + 1)
             q == [p EXCEPT !.keys = more]
  <2>1. p \in Players /\ Told(stream[k], handled[k], p)
    BY ClientFacts DEF PlayerOK
  <2> HIDE DEF p
  <2>2. more \in Seq(Nat)
    <3>1. p.keys \in Seq(Nat)
      BY <2>1 DEF Players
    <3> QED BY <1>1, <3>1, AppendProperties
  <2> HIDE DEF more
  <2>3. /\ q \in Players /\ q.CurFrameID = p.CurFrameID /\ q.missing = p.missing /\ q.started = p.started
        /\ q.heard = p.heard /\ q.ran = p.ran
        /\ q.since = p.since /\ q.times = p.times /\ q.moves = p.moves
    BY <2>1, <2>2 DEF Players
  <2>4. qs[i] = q
    BY DEF p, more
  <2> HIDE DEF q
  <2>5. Told(stream[k], handled[k], q)
    BY <2>1, <2>3 DEF Told
  <2> QED BY <2>3, <2>4, <2>5 DEF p
<1>3. qs \in [DOMAIN ps -> Players]
  <2>1. \A i \in DOMAIN ps : qs[i] \in Players
    BY <1>2
  <2> QED BY <2>1
<1> HIDE DEF qs
<1>4. ClientOK(stream[k], handled[k], frames, qs, m_allPlayer[k])
  BY <1>2, <1>3, ClientFacts, SameHistories
<1> QED BY <1>1, <1>4, ClientStep

-----------------------------------------------------------------------------
(***************************************************************************)
(* A client that handles a frame.                                          *)
(***************************************************************************)
\* What frame n moves any body by.
LEMMA RunFacts ==
    ASSUME NEW users, NEW fs \in Seq(AFrame), NEW n \in 0 .. Len(fs) - 1
    PROVE  Run(users, fs, n) \in Seq(Nat)
<1> DEFINE each == [v \in 1 .. MaxConns + 1 |-> IF v - 1 \in users THEN fs[n + 1][v - 1] ELSE <<>>]
<1>1. MaxConns \in Nat /\ MaxConns + 1 \in Nat /\ UUIDs = 0 .. MaxConns
  BY LockStepAssumption DEF UUIDs
<1>2. fs[n + 1] \in AFrame
  <2>1. Len(fs) \in Nat /\ fs \in [1 .. Len(fs) -> AFrame]
    BY LenProperties
  <2>2. n + 1 \in 1 .. Len(fs)
    BY <2>1
  <2> QED BY <2>1, <2>2
<1>3. ASSUME NEW v \in 1 .. MaxConns + 1 PROVE each[v] \in Seq(Nat)
  <2>1. v - 1 \in UUIDs
    BY <1>1
  <2>2. fs[n + 1][v - 1] \in Seq(Nat) /\ <<>> \in Seq(Nat)
    BY <1>2, <2>1 DEF AFrame
  <2> QED BY <2>2
<1>4. each \in [1 .. MaxConns + 1 -> Seq(Nat)]
  BY <1>3
<1> HIDE DEF each
<1>5. each \in Seq(Seq(Nat)) /\ <<>> \in Seq(Nat)
  BY <1>1, <1>4, SeqDef
<1>6. FlattenSeq(each) \in Seq(Nat)
  BY <1>5, FlattenAppend
<1> QED BY <1>6 DEF each, Run

\* The elements of a sequence with one more.
LEMMA AppendFacts ==
    ASSUME NEW S, NEW s \in Seq(S), NEW e \in S, NEW t, t = Append(s, e)
    PROVE  /\ t \in Seq(S) /\ Len(s) \in Nat /\ Len(t) = Len(s) + 1
           /\ DOMAIN s = 1 .. Len(s) /\ DOMAIN t = 1 .. Len(s) + 1
           /\ t[Len(s) + 1] = e /\ \A j \in 1 .. Len(s) : t[j] = s[j]
<1>1. /\ t \in Seq(S) /\ Len(t) = Len(s) + 1 /\ t[Len(s) + 1] = e
      /\ \A j \in 1 .. Len(s) : t[j] = s[j]
  BY AppendProperties
<1> QED BY <1>1, LenProperties

\* The keys of two sequences of keys, one behind the other.
LEMMA ConcatKeys ==
    ASSUME NEW a \in Seq(Nat), NEW b \in Seq(Nat), NEW c, c = a \o b
    PROVE  c \in Seq(Nat) /\ ToSet(c) = ToSet(a) \cup ToSet(b)
<1>1. /\ c \in Seq(Nat) /\ Len(a) \in Nat /\ Len(b) \in Nat /\ Len(c) = Len(a) + Len(b)
      /\ \A i \in 1 .. Len(a) + Len(b) : c[i] = IF i <= Len(a) THEN a[i] ELSE b[i - Len(a)]
  BY ConcatProperties, LenProperties
<1>2. DOMAIN a = 1 .. Len(a) /\ DOMAIN b = 1 .. Len(b) /\ DOMAIN c = 1 .. Len(a) + Len(b)
  BY <1>1, LenProperties
<1>3. \A i \in DOMAIN a : i \in DOMAIN c /\ c[i] = a[i]
  BY <1>1, <1>2
<1>4. \A i \in DOMAIN b : Len(a) + i \in DOMAIN c /\ c[Len(a) + i] = b[i]
  <2> SUFFICES ASSUME NEW i \in DOMAIN b PROVE Len(a) + i \in DOMAIN c /\ c[Len(a) + i] = b[i]
    OBVIOUS
  <2>1. Len(a) + i \in 1 .. Len(a) + Len(b) /\ ~(Len(a) + i <= Len(a)) /\ Len(a) + i - Len(a) = i
    BY <1>1, <1>2
  <2> QED BY <1>1, <1>2, <2>1
<1>5. \A i \in DOMAIN c : \/ i \in DOMAIN a /\ c[i] = a[i]
                          \/ i - Len(a) \in DOMAIN b /\ c[i] = b[i - Len(a)]
  BY <1>1, <1>2
<1>6. ASSUME NEW x \in ToSet(c) PROVE x \in ToSet(a) \cup ToSet(b)
  <2>1. PICK i \in DOMAIN c : x = c[i]
    BY DEF ToSet
  <2> QED BY <1>5, <2>1 DEF ToSet
<1>7. ASSUME NEW x \in ToSet(a) PROVE x \in ToSet(c)
  BY <1>3 DEF ToSet
<1>8. ASSUME NEW x \in ToSet(b) PROVE x \in ToSet(c)
  BY <1>4 DEF ToSet
<1> QED BY <1>1, <1>6, <1>7, <1>8

\* What a body moves by when c Player objects run a frame that moves it by e: by
\* the keys of e, if any runs it.
LEMMA ShiftFacts ==
    ASSUME NEW c \in Nat, NEW e \in Seq(Nat)
    PROVE  Shift(c, e) \in Seq(Nat) /\ (c # 0 => ToSet(Shift(c, e)) = ToSet(e))
<1> DEFINE Copies(m) == [j \in 1 .. m |-> e]
           Fine == {m \in Nat : m = 0 \/ ToSet(Shift(m, e)) = ToSet(e)}
<1>1. ASSUME NEW m \in Nat PROVE Copies(m) \in Seq(Seq(Nat)) /\ Len(Copies(m)) = m
  <2>1. Copies(m) \in [1 .. m -> Seq(Nat)]
    OBVIOUS
  <2> HIDE DEF Copies
  <2> QED BY <2>1, AsSeq
<1>2. ASSUME NEW m \in Nat PROVE Shift(m, e) \in Seq(Nat)
  <2> HIDE DEF Copies
  <2>1. FlattenSeq(Copies(m)) \in Seq(Nat)
    BY <1>1, FlattenAppend
  <2> QED BY <2>1 DEF Shift, Copies
<1>3. ASSUME NEW m \in Nat PROVE Shift(m + 1, e) = Shift(m, e) \o e
  <2> DEFINE more == Append(Copies(m), e)
  <2>1. more = Copies(m + 1)
    <3>1. \A j \in 1 .. m : Copies(m)[j] = e
      OBVIOUS
    <3> HIDE DEF Copies
    <3>2. /\ more \in Seq(Seq(Nat)) /\ Len(more) = m + 1 /\ more[m + 1] = e
          /\ \A j \in 1 .. m : more[j] = Copies(m)[j]
      BY SMTT(30), <1>1, AppendProperties
    <3>3. \A j \in 1 .. m + 1 : more[j] = e
      <4>1. \A j \in 1 .. m + 1 : j = m + 1 \/ j \in 1 .. m
        OBVIOUS
      <4> QED BY <3>1, <3>2, <4>1
    <3>4. more = [j \in 1 .. m + 1 |-> more[j]]
      BY <3>2, LenProperties
    <3> HIDE DEF more
    <3> QED BY <3>3, <3>4 DEF Copies
  <2>2. FlattenSeq(more) = FlattenSeq(Copies(m)) \o e
    <3> HIDE DEF Copies
    <3> QED BY <1>1, FlattenAppend
  <2> HIDE DEF more
  <2> QED BY <2>1, <2>2 DEF Shift, Copies
<1>4. ToSet(Shift(0, e)) = {}
  <2>1. Copies(0) = <<>>
    OBVIOUS
  <2> HIDE DEF Copies
  <2>2. Shift(0, e) = <<>>
    BY <2>1, FlattenNothing DEF Shift, Copies
  <2> QED BY <2>2 DEF ToSet
<1>5. ASSUME NEW m \in Nat, m \in Fine PROVE m + 1 \in Fine
  <2>1. ToSet(Shift(m + 1, e)) = ToSet(Shift(m, e)) \cup ToSet(e)
    BY <1>2, <1>3, ConcatKeys
  <2>2. ToSet(Shift(m, e)) \subseteq ToSet(e)
    BY <1>4, <1>5
  <2>3. ToSet(Shift(m + 1, e)) = ToSet(e)
    BY <2>1, <2>2
  <2> QED BY <2>3
<1>6. \A m \in 0 .. c : m \in Fine
  <2>1. 0 \in Fine
    OBVIOUS
  <2>2. \A m \in 0 .. c - 1 : m \in Nat
    OBVIOUS
  <2> HIDE DEF Fine
  <2>3. \A m \in 0 .. c - 1 : m \in Fine => m + 1 \in Fine
    BY <1>5, <2>2
  <2> QED BY <2>1, <2>3, UpTo
<1>7. c \in Fine
  <2>1. c \in 0 .. c
    OBVIOUS
  <2> QED BY <1>6, <2>1
<1> QED BY <1>2, <1>7

\* The runs of a body are of frames of fs, each made by as many Player objects as
\* times says.
RunsFit(fs, since, times) == /\ Len(times) = Len(since)
                             /\ \A j \in DOMAIN since : since[j].id \in 0 .. Len(fs) - 1

\* A body that has made the runs of since1 has moved by one run more than one
\* with those of since.
OneMore(fs, since, times, r, c, since1, times1) ==
    /\ FlattenSeq(Runs(fs, since1, times1))
          = FlattenSeq(Runs(fs, since, times)) \o Shift(c, Run(r.users, fs, r.id))
    /\ KeysOf(fs, since1) = KeysOf(fs, since) \cup ToSet(Run(r.users, fs, r.id))

LEMMA RunsAppend ==
    ASSUME NEW fs \in Seq(AFrame), NEW since \in Seq(ARun), NEW times \in Seq(Nat),
           RunsFit(fs, since, times), NEW r \in ARun, r.id \in 0 .. Len(fs) - 1, NEW c \in Nat,
           NEW since1, since1 = Append(since, r), NEW times1, times1 = Append(times, c)
    PROVE  OneMore(fs, since, times, r, c, since1, times1)
<1> DEFINE n == Len(since)
           one(s, ts, j) == Shift(ts[j], Run(s[j].users, fs, s[j].id))
           all == Runs(fs, since, times)
           e == Shift(c, Run(r.users, fs, r.id))
           longer == Append(all, e)
<1>0. Len(times) = n /\ \A j \in DOMAIN since : since[j].id \in 0 .. Len(fs) - 1
  BY DEF RunsFit
<1>1. /\ n \in Nat /\ DOMAIN since = 1 .. n /\ DOMAIN since1 = 1 .. n + 1
      /\ Len(since1) = n + 1 /\ since1[n + 1] = r /\ \A j \in 1 .. n : since1[j] = since[j]
  BY AppendFacts
<1>2. /\ times1[n + 1] = c /\ \A j \in 1 .. n : times1[j] = times[j]
      /\ \A j \in 1 .. n : times[j] \in Nat
  <2>1. times1[Len(times) + 1] = c /\ \A j \in 1 .. Len(times) : times1[j] = times[j]
    BY AppendFacts
  <2>2. times \in [1 .. Len(times) -> Nat]
    BY LenProperties
  <2> QED BY <1>0, <2>1, <2>2
<1>3. e \in Seq(Nat)
  BY RunFacts, ShiftFacts
<1>4. ASSUME NEW j \in 1 .. n PROVE one(since, times, j) \in Seq(Nat)
  <2>1. times[j] \in Nat /\ since[j].id \in 0 .. Len(fs) - 1
    BY <1>1, <1>2, <1>0
  <2> QED BY <2>1, RunFacts, ShiftFacts
<1>5. all \in Seq(Seq(Nat)) /\ Len(all) = n /\ \A j \in 1 .. n : all[j] = one(since, times, j)
  <2>1. all = [j \in 1 .. n |-> one(since, times, j)]
    BY DEF Runs
  <2> HIDE DEF one, all, n
  <2>2. all \in [1 .. n -> Seq(Nat)] /\ \A j \in 1 .. n : all[j] = one(since, times, j)
    BY <1>4, <2>1
  <2> QED BY <1>1, <2>2, AsSeq
<1> HIDE DEF all, e
<1>6. /\ longer \in Seq(Seq(Nat)) /\ Len(longer) = n + 1 /\ longer[n + 1] = e
      /\ \A j \in 1 .. n : longer[j] = all[j]
  BY <1>3, <1>5, AppendProperties
<1>7. ASSUME NEW j \in 1 .. n + 1 PROVE longer[j] = one(since1, times1, j)
  <2>1. CASE j = n + 1
    BY <1>1, <1>2, <1>6, <2>1 DEF e
  <2>2. CASE j # n + 1
    <3>1. j \in 1 .. n
      BY <1>1, <2>2
    <3> QED BY <1>1, <1>2, <1>5, <1>6, <3>1
  <2> QED BY <2>1, <2>2
<1>8. Runs(fs, since1, times1) = longer
  <2>1. longer = [j \in 1 .. n + 1 |-> longer[j]]
    BY <1>6, LenProperties
  <2>2. Runs(fs, since1, times1) = [j \in 1 .. n + 1 |-> one(since1, times1, j)]
    BY <1>1 DEF Runs
  <2> HIDE DEF longer, one, n
  <2> QED BY <1>7, <2>1, <2>2
<1>9. FlattenSeq(longer) = FlattenSeq(all) \o e
  BY <1>3, <1>5, FlattenAppend
<1>10. KeysOf(fs, since1) = KeysOf(fs, since) \cup ToSet(Run(r.users, fs, r.id))
  <2> DEFINE K(s, j) == ToSet(Run(s[j].users, fs, s[j].id))
  <2>1. K(since1, n + 1) = ToSet(Run(r.users, fs, r.id)) /\ \A j \in 1 .. n : K(since1, j) = K(since, j)
    BY <1>1
  <2>2. /\ KeysOf(fs, since) = UNION {K(since, j) : j \in 1 .. n}
        /\ KeysOf(fs, since1) = UNION {K(since1, j) : j \in 1 .. n + 1}
    BY <1>1 DEF KeysOf
  <2>3. 1 .. n + 1 = (1 .. n) \cup {n + 1}
    BY <1>1
  <2> HIDE DEF K, n
  <2> QED BY <2>1, <2>2, <2>3
<1> QED BY <1>8, <1>9, <1>10 DEF all, e, OneMore

\* A body that c Player objects move by a frame.
LEMMA BodyMoves ==
    ASSUME NEW fs \in Seq(AFrame), NEW p \in Players, BodyOK(fs, p),
           NEW r \in ARun, r.id \in 0 .. Len(fs) - 1, NEW c \in Nat \ {0},
           NEW q \in Players, q.moves = p.moves \o Shift(c, Run(r.users, fs, r.id)),
           q.since = Append(p.since, r), q.times = Append(p.times, c)
    PROVE  BodyOK(fs, q)
<1> DEFINE keys == Run(r.users, fs, r.id)
<1>1. p.since \in Seq(ARun) /\ p.times \in Seq(Nat) /\ p.moves \in Seq(Nat)
  BY DEF Players
<1>2. /\ Len(p.times) = Len(p.since) /\ \A j \in DOMAIN p.since : p.since[j].id \in 0 .. Len(fs) - 1
      /\ p.moves = FlattenSeq(Runs(fs, p.since, p.times)) /\ ToSet(p.moves) = KeysOf(fs, p.since)
  BY DEF BodyOK
<1>3. keys \in Seq(Nat)
  BY RunFacts
<1> HIDE DEF keys
<1>4. Shift(c, keys) \in Seq(Nat) /\ ToSet(Shift(c, keys)) = ToSet(keys)
  BY <1>3, ShiftFacts
<1>5. ToSet(q.moves) = ToSet(p.moves) \cup ToSet(keys)
  <2>1. q.moves = p.moves \o Shift(c, keys)
    BY DEF keys
  <2>2. ToSet(q.moves) = ToSet(p.moves) \cup ToSet(Shift(c, keys))
    BY <1>1, <1>4, <2>1, ConcatKeys
  <2> QED BY <1>4, <2>2
<1>6. /\ FlattenSeq(Runs(fs, q.since, q.times))
            = FlattenSeq(Runs(fs, p.since, p.times)) \o Shift(c, keys)
      /\ KeysOf(fs, q.since) = KeysOf(fs, p.since) \cup ToSet(keys)
  <2> DEFINE since == p.since
             times == p.times
             since1 == q.since
             times1 == q.times
  <2>1. since \in Seq(ARun) /\ times \in Seq(Nat)
    BY <1>1
  <2>2. RunsFit(fs, since, times)
    BY <1>2 DEF RunsFit
  <2>3. since1 = Append(since, r) /\ times1 = Append(times, c)
    OBVIOUS
  <2>4. r \in ARun /\ r.id \in 0 .. Len(fs) - 1 /\ c \in Nat
    OBVIOUS
  <2> HIDE DEF since, times, since1, times1
  <2>5. OneMore(fs, since, times, r, c, since1, times1)
    BY Zenon, <2>1, <2>2, <2>3, <2>4, RunsAppend
  <2> QED BY <2>5 DEF OneMore, since, times, since1, times1, keys
<1> DEFINE n == Len(p.since)
<1>7. /\ n \in Nat /\ DOMAIN p.since = 1 .. n /\ DOMAIN q.since = 1 .. n + 1
      /\ Len(q.since) = n + 1 /\ q.since[n + 1] = r /\ \A j \in 1 .. n : q.since[j] = p.since[j]
  BY <1>1, AppendFacts
<1>8. Len(q.times) = n + 1
  BY <1>1, <1>2, AppendFacts
<1> HIDE DEF n
<1>9. \A j \in DOMAIN q.since : q.since[j].id \in 0 .. Len(fs) - 1
  <2>1. \A j \in 1 .. n + 1 : j = n + 1 \/ j \in 1 .. n
    BY <1>7
  <2> QED BY <1>2, <1>7, <2>1
<1>10. q.moves = FlattenSeq(Runs(fs, q.since, q.times))
  BY <1>2, <1>6 DEF keys
<1> QED BY <1>2, <1>5, <1>6, <1>7, <1>8, <1>9, <1>10 DEF BodyOK

\* A Player that hears a frame.
LEMMA HeardFrame ==
    ASSUME NEW s \in Seq(Messages), NEW h \in Nat, h + 1 \in 1 .. Len(s), NEW n \in Nat,
           NEW id \in Nat, s[h + 1].type = "SCFrame", s[h + 1].id = id, StreamOK(s, n),
           NEW p \in Players, p.started, Told(s, h, p), Missed(s, p),
           NEW q \in Players, ~q.missing, q.started, q.CurFrameID = id + 1, q.heard = Append(p.heard, id),
           q.ran = IF p.CurFrameID = id THEN Append(p.ran, id) ELSE p.ran
    PROVE  Told(s, h + 1, q) /\ Missed(s, q)
<1>1. /\ Told(s, h, p) /\ Missed(s, p)
      /\ p.CurFrameID \in Nat /\ p.missing \in BOOLEAN
      /\ p.heard \in Seq(Nat) /\ p.ran \in Seq(Nat)
  BY DEF Players
<1>2. DOMAIN s = 1 .. Len(s) /\ 1 .. h \subseteq DOMAIN s
  <2>1. DOMAIN s = 1 .. Len(s) /\ Len(s) \in Nat
    BY LenProperties
  <2> QED BY <2>1
<1>3. id \in 0 .. n - 1 /\ \A i \in 1 .. h : LastTold(s, h, i) => id = Server!After(s[i])
  <2>1. Fits(s, h + 1, n)
    BY <1>2 DEF StreamOK
  <2> QED BY <2>1 DEF Fits, LastTold
<1>4. Told(s, h + 1, q)
  <2>1. LastTold(s, h + 1, h + 1) /\ h + 1 \in 1 .. h + 1
    BY DEF LastTold, Between, Server!IsFrameMsg
  <2> QED BY <2>1 DEF Told
<1>5. ASSUME p.CurFrameID # id
      PROVE  id # 0 /\ (p.heard = <<>> \/ \E i \in DOMAIN s : s[i].type = "SCFrameInit" /\ s[i].nxt = id)
  <2>1. p.missing
    <3> SUFFICES ASSUME ~p.missing PROVE FALSE
      OBVIOUS
    <3>1. PICK i \in 1 .. h : LastTold(s, h, i) /\ s[i].type = "SCFrame" /\ p.CurFrameID = s[i].id + 1
      BY <1>1 DEF Told
    <3> QED BY <1>3, <1>5, <3>1 DEF Server!After
  <2>2. CASE p.heard = <<>> /\ p.CurFrameID = 0
    BY <1>5, <2>2
  <2>3. CASE \E i \in 1 .. h : /\ LastTold(s, h, i) /\ s[i].type = "SCFrameInit"
                               /\ p.CurFrameID = s[i].cur
    <3>1. PICK i \in 1 .. h : LastTold(s, h, i) /\ s[i].type = "SCFrameInit" /\ p.CurFrameID = s[i].cur
      BY <2>3
    <3>2. id = s[i].nxt
      BY <1>3, <3>1 DEF Server!After
    <3>3. id = 0 => s[i].cur = 0
      BY <1>2, <3>1, <3>2 DEF StreamOK, Fits
    <3> QED BY <1>2, <1>5, <3>1, <3>2, <3>3
  <2> QED BY <1>1, <2>1, <2>2, <2>3 DEF Told
<1> DEFINE m == Len(p.heard)
<1>6. /\ m \in Nat /\ DOMAIN p.heard = 1 .. m /\ DOMAIN q.heard = 1 .. m + 1 /\ q.heard[m + 1] = id
      /\ \A j \in 1 .. m : q.heard[j] = p.heard[j]
      /\ (p.heard = <<>> => m = 0)
  <2>1. p.heard = <<>> => m = 0
    OBVIOUS
  <2>2. q.heard = Append(p.heard, id) /\ p.heard \in Seq(Nat)
    BY <1>1
  <2>3. /\ m \in Nat /\ DOMAIN p.heard = 1 .. m /\ DOMAIN q.heard = 1 .. m + 1
        /\ q.heard[m + 1] = id /\ \A j \in 1 .. m : q.heard[j] = p.heard[j]
    BY SMTT(30), <2>2, AppendFacts
  <2> QED BY <2>1, <2>3
<1> HIDE DEF m
<1>7. ToSet(p.ran) \subseteq ToSet(q.ran) /\ (p.CurFrameID = id => id \in ToSet(q.ran))
  <2>1. CASE p.CurFrameID = id
    <3> DEFINE l == Len(p.ran)
    <3>1. q.ran = Append(p.ran, id) /\ p.ran \in Seq(Nat)
      BY <1>1, <2>1
    <3>2. /\ l \in Nat /\ DOMAIN p.ran = 1 .. l /\ DOMAIN q.ran = 1 .. l + 1
          /\ q.ran[l + 1] = id /\ \A j \in 1 .. l : q.ran[j] = p.ran[j]
      BY SMTT(30), <3>1, AppendFacts
    <3> HIDE DEF l
    <3>3. l + 1 \in 1 .. l + 1 /\ 1 .. l \subseteq 1 .. l + 1
      BY <3>2
    <3> QED BY <3>2, <3>3 DEF ToSet
  <2>2. CASE p.CurFrameID # id
    BY <2>2
  <2> QED BY <2>1, <2>2
<1>8. Missed(s, q)
  <2> SUFFICES ASSUME NEW j \in 1 .. m + 1, q.heard[j] \notin ToSet(q.ran)
               PROVE  /\ q.heard[j] # 0
                      /\ q.heard[j] = q.heard[1] \/ \E i \in DOMAIN s : s[i].type = "SCFrameInit"
                                                                   /\ s[i].nxt = q.heard[j]
    BY <1>6 DEF Missed
  <2>1. CASE j \in 1 .. m
    <3>1. 1 \in 1 .. m /\ q.heard[1] = p.heard[1] /\ q.heard[j] = p.heard[j] /\ p.heard[j] \notin ToSet(p.ran)
      BY <1>6, <1>7, <2>1
    <3>2. /\ p.heard[j] # 0
          /\ p.heard[j] = p.heard[1] \/ \E i \in DOMAIN s : s[i].type = "SCFrameInit"
                                                               /\ s[i].nxt = p.heard[j]
      BY <1>1, <1>6, <2>1, <3>1 DEF Missed
    <3> QED BY <3>1, <3>2
  <2>2. CASE j = m + 1
    <3>1. q.heard[j] = id /\ p.CurFrameID # id
      BY <1>6, <1>7, <2>2
    <3>2. p.heard = <<>> => q.heard[1] = id
      BY <1>6
    <3> QED BY <1>5, <3>1, <3>2
  <2> QED BY <1>6, <2>1, <2>2
<1> QED BY <1>4, <1>8

\* A Player whose body c Player objects move by keys, in the run r.
MovedBy(p, keys, r, c) ==
    [p EXCEPT !.moves = @ \o keys, !.since = Append(@, r), !.times = Append(@, c)]

\* q is that Player: the rest of it is as it was.
Moved(p, keys, r, c, q) ==
    /\ q.moves = p.moves \o keys /\ q.since = Append(p.since, r) /\ q.times = Append(p.times, c)
    /\ q.CurFrameID = p.CurFrameID /\ q.missing = p.missing /\ q.started = p.started
    /\ q.heard = p.heard /\ q.ran = p.ran

LEMMA MovesFacts ==
    ASSUME NEW p \in Players, NEW keys \in Seq(Nat), NEW r \in ARun, NEW c \in Nat,
           NEW q, q = MovedBy(p, keys, r, c)
    PROVE  q \in Players /\ Moved(p, keys, r, c, q)
<1> DEFINE more == p.moves \o keys
           since == Append(p.since, r)
           times == Append(p.times, c)
<1>1. more \in Seq(Nat) /\ since \in Seq(ARun) /\ times \in Seq(Nat)
  <2>1. p.moves \in Seq(Nat) /\ p.since \in Seq(ARun) /\ p.times \in Seq(Nat)
    BY DEF Players
  <2> QED BY <2>1, ConcatProperties, AppendProperties
<1>2. q = [p EXCEPT !.moves = more, !.since = since, !.times = times]
  BY DEF MovedBy
<1> HIDE DEF more, since, times
<1>3. p \in [UUID : UUIDs, CurFrameID : Nat, started : BOOLEAN, keys : Seq(Nat), moves : Seq(Nat),
             heard : Seq(Nat), ran : Seq(Nat), since : Seq(ARun), times : Seq(Nat), missing : BOOLEAN]
  BY DEF Players
<1>4. q \in Players
  BY <1>1, <1>2, <1>3 DEF Players
<1>5. /\ q.moves = more /\ q.since = since /\ q.times = times
      /\ q.CurFrameID = p.CurFrameID /\ q.missing = p.missing /\ q.started = p.started
      /\ q.heard = p.heard /\ q.ran = p.ran
  BY <1>2, <1>3
<1> QED BY <1>4, <1>5 DEF more, since, times, Moved

\* A Player that hears frame id, when it is the turn of those of turns.
TurnedBy(p, id, i, turns) ==
    [p EXCEPT !.CurFrameID = id + 1, !.missing = FALSE,
              !.keys = IF i \in turns THEN <<>> ELSE @,
              !.heard = Append(@, id),
              !.ran = IF i \in turns THEN Append(@, id) ELSE @]

LEMMA TurnedFacts ==
    ASSUME NEW p \in Players, NEW id \in Nat, NEW i, NEW turns, NEW q,
           q = TurnedBy(p, id, i, turns)
    PROVE  /\ q \in Players /\ q.CurFrameID = id + 1 /\ ~q.missing
           /\ q.moves = p.moves /\ q.since = p.since /\ q.times = p.times
           /\ q.started = p.started /\ q.heard = Append(p.heard, id)
           /\ q.ran = IF i \in turns THEN Append(p.ran, id) ELSE p.ran
<1> DEFINE keys == IF i \in turns THEN <<>> ELSE p.keys
           heard == Append(p.heard, id)
           ran == IF i \in turns THEN Append(p.ran, id) ELSE p.ran
<1>1. p \in [UUID : UUIDs, CurFrameID : Nat, started : BOOLEAN, keys : Seq(Nat), moves : Seq(Nat),
             heard : Seq(Nat), ran : Seq(Nat), since : Seq(ARun), times : Seq(Nat), missing : BOOLEAN]
  BY DEF Players
<1>2. p.keys \in Seq(Nat) /\ p.heard \in Seq(Nat) /\ p.ran \in Seq(Nat)
  BY <1>1
<1>3. keys \in Seq(Nat) /\ heard \in Seq(Nat) /\ ran \in Seq(Nat)
  <2>1. \A t \in Seq(Nat) : Append(t, id) \in Seq(Nat)
    BY AppendProperties
  <2> QED BY <1>2, <2>1
<1>4. q = [p EXCEPT !.CurFrameID = id + 1, !.missing = FALSE, !.keys = keys, !.heard = heard,
                    !.ran = ran]
  BY DEF TurnedBy
<1> HIDE DEF keys, heard, ran
<1>5. id + 1 \in Nat
  OBVIOUS
<1>6. q \in Players
  BY <1>1, <1>3, <1>4, <1>5 DEF Players
<1>7. /\ q.CurFrameID = id + 1 /\ ~q.missing
      /\ q.moves = p.moves /\ q.since = p.since /\ q.times = p.times
      /\ q.started = p.started /\ q.heard = heard /\ q.ran = ran
  BY <1>1, <1>4
<1> QED BY <1>6, <1>7 DEF heard, ran

\* Every Player that has started hears the frame, and every body moves by the
\* runs of those whose turn it is.
LEMMA OnFrameTurnGame == ASSUME GameInv, NEW k \in Conns, OnFrameTurn(k) PROVE GameInv'
<1> DEFINE s == stream[k]
           h == handled[k]
           ps == players[k]
           map == m_allPlayer[k]
           len == Len(ps)
           id == Message(k).id
           turns == {i \in DOMAIN ps : InTurn(ps[i], id)}
           count == Cardinality(turns)
           shift(i) == FlattenSeq([j \in 1 .. count |-> RunFrame(k, i, id)])
           run(i) == [id |-> id, users |-> Users(k, i)]
           heard(i, p) == IF p.started THEN TurnedBy(p, id, i, turns) ELSE p
           moved(i, p) == MovedBy(p, shift(i), run(i), count)
           qs == [i \in DOMAIN ps |-> IF turns = {} THEN heard(i, ps[i]) ELSE moved(i, heard(i, ps[i]))]
           sent == {r \in {[uuid |-> ps[i].UUID, keys |-> ps[i].keys] : i \in turns} : r.keys # <<>>}
<1>1. /\ Receives(k, "SCFrame") /\ players' = [players EXCEPT ![k] = qs]
      /\ reports' = reports \cup sent /\ UNCHANGED m_allPlayer
  BY DEF OnFrameTurn, NextID, TurnedBy, MovedBy
<1>2. /\ id \in Nat /\ s[h + 1].type = "SCFrame" /\ s[h + 1].id = id /\ id \in 0 .. Len(frames) - 1
      /\ s \in Seq(Messages) /\ frames \in Seq(AFrame) /\ Len(frames) \in Nat
      /\ h \in Nat /\ h + 1 \in 1 .. Len(s) /\ h + 1 \in 0 .. Len(s)
      /\ len \in Nat /\ DOMAIN ps = 1 .. len /\ map \in [UUIDs -> 0 .. len]
      /\ handled' = [handled EXCEPT ![k] = h + 1]
      /\ UNCHANGED server /\ pressed' \in Nat
  <2>1. Message(k) \in Messages /\ Message(k).type = "SCFrame"
    BY <1>1, ReceivesFacts
  <2>2. id \in Nat
    BY <2>1, MessageFacts
  <2>3. id \in 0 .. Len(frames) - 1
    BY <1>1, ReceivesFacts DEF Fits
  <2> QED BY <1>1, <2>1, <2>2, <2>3, ReceivesFacts, ClientFacts
<1>3. \A i \in 1 .. len : ps[i] \in Players /\ PlayerOK(s, h, frames, ps[i])
  BY <1>2, ClientFacts
<1>4. StreamOK(s, Len(frames))
  BY DEF GameInv
<1>5. m_allPlayer' = [m_allPlayer EXCEPT ![k] = map]
  BY <1>1 DEF GameInv, Types
<1>6. reports' \subseteq Report
  <2>1. \A i \in turns : i \in 1 .. len
    BY <1>2
  <2> HIDE DEF turns
  <2>2. \A i \in turns : ps[i].UUID \in UUIDs /\ ps[i].keys \in Seq(Nat)
    BY <1>3, <2>1 DEF Players
  <2>3. sent \subseteq Report
    BY <2>2 DEF Report
  <2> QED BY <1>1, <2>3 DEF GameInv, Types
<1>7. turns \subseteq 1 .. len /\ count \in Nat /\ (turns # {} => count # 0)
  <2>1. turns \subseteq 1 .. len
    BY <1>2
  <2>2. IsFiniteSet(1 .. len)
    <3>1. len \in Int /\ 1 \in Int
      BY <1>2
    <3> HIDE DEF len
    <3> QED BY <3>1, FS_Interval
  <2> HIDE DEF turns
  <2>3. IsFiniteSet(turns)
    BY <2>1, <2>2, FS_Subset
  <2> QED BY <2>1, <2>3, FS_CardinalityType, FS_EmptySet
<1>8. \A i \in 1 .. len : i \in turns <=> ps[i].started /\ ps[i].CurFrameID = id
  BY <1>2 DEF InTurn
<1>9. ASSUME NEW i \in 1 .. len
      PROVE  /\ run(i) \in ARun /\ run(i).id = id
             /\ shift(i) = Shift(count, Run(run(i).users, frames, id)) /\ shift(i) \in Seq(Nat)
  <2>1. RunFrame(k, i, id) = Run(Users(k, i), frames, id)
    BY DEF RunFrame, RunKeyInfo, Run
  <2>2. Run(Users(k, i), frames, id) \in Seq(Nat) /\ Users(k, i) \subseteq UUIDs
    BY <1>2, RunFacts DEF Users
  <2> HIDE DEF turns, id, count
  <2>3. run(i) \in ARun /\ run(i).id = id /\ run(i).users = Users(k, i)
    BY <1>2, <2>2 DEF ARun
  <2>4. shift(i) = Shift(count, Run(Users(k, i), frames, id))
    BY <2>1 DEF Shift
  <2>5. Shift(count, Run(Users(k, i), frames, id)) \in Seq(Nat)
    BY <1>7, <2>2, ShiftFacts
  <2> QED BY <2>3, <2>4, <2>5
<1> HIDE DEF shift, run
<1>10. ASSUME NEW i \in 1 .. len
       PROVE  qs[i] \in Players /\ PlayerOK(s, h + 1, frames, qs[i])
  <2> DEFINE p == ps[i]
             r == heard(i, p)
             q == IF turns = {} THEN r ELSE moved(i, r)
  <2>1. /\ p \in Players /\ Told(s, h, p) /\ Missed(s, p) /\ BodyOK(frames, p)
        /\ p.started \in BOOLEAN /\ (i \in turns <=> p.started /\ p.CurFrameID = id)
    <3>1. p \in Players /\ PlayerOK(s, h, frames, p)
      BY <1>3
    <3>2. p.started \in BOOLEAN
      BY <3>1 DEF Players
    <3> QED BY <1>8, <3>1, <3>2 DEF PlayerOK
  <2>2. qs[i] = q
    BY <1>2
  <2> HIDE DEF p, id, turns, count, s, h, qs
  <2>3. /\ r \in Players /\ Told(s, h + 1, r) /\ Missed(s, r)
        /\ r.moves = p.moves /\ r.since = p.since /\ r.times = p.times
    <3>1. CASE p.started
      <4>1. r = TurnedBy(p, id, i, turns) /\ id \in Nat
        BY <1>2, <3>1
      <4> HIDE DEF r
      <4>2. /\ r \in Players /\ r.CurFrameID = id + 1 /\ ~r.missing
            /\ r.moves = p.moves /\ r.since = p.since /\ r.times = p.times
            /\ r.started = p.started /\ r.heard = Append(p.heard, id)
            /\ r.ran = IF i \in turns THEN Append(p.ran, id) ELSE p.ran
        BY <2>1, <4>1, TurnedFacts
      <4>3. r.ran = IF p.CurFrameID = id THEN Append(p.ran, id) ELSE p.ran
        BY <2>1, <3>1, <4>2
      <4>4. Told(s, h + 1, r) /\ Missed(s, r)
        BY <1>2, <1>4, <2>1, <3>1, <4>2, <4>3, HeardFrame
      <4> QED BY <4>2, <4>4
    <3>2. CASE ~p.started
      <4>1. r = p
        BY <3>2
      <4>2. Told(s, h + 1, p)
        BY <2>1, <3>2 DEF Told
      <4> QED BY <2>1, <4>1, <4>2
    <3> QED BY <2>1, <3>1, <3>2
  <2> HIDE DEF r
  <2>4. BodyOK(frames, r)
    BY <2>1, <2>3 DEF BodyOK
  <2>5. CASE turns = {}
    BY <2>2, <2>3, <2>4, <2>5 DEF PlayerOK
  <2>6. CASE turns # {}
    <3>1. q = MovedBy(r, shift(i), run(i), count) /\ count \in Nat \ {0}
      BY <1>7, <2>6
    <3> HIDE DEF q
    <3>2. shift(i) \in Seq(Nat) /\ run(i) \in ARun /\ count \in Nat /\ r \in Players
      BY <1>9, <2>3, <3>1
    <3>3. /\ run(i).id \in 0 .. Len(frames) - 1
          /\ shift(i) = Shift(count, Run(run(i).users, frames, run(i).id))
      BY <1>2, <1>9
    <3>4. /\ q \in Players /\ q.moves = r.moves \o shift(i)
          /\ q.since = Append(r.since, run(i)) /\ q.times = Append(r.times, count)
          /\ q.CurFrameID = r.CurFrameID /\ q.missing = r.missing /\ q.started = r.started
          /\ q.heard = r.heard /\ q.ran = r.ran
      <4>1. q \in Players /\ Moved(r, shift(i), run(i), count, q)
        BY Zenon, <3>1, <3>2, MovesFacts
      <4> QED BY <4>1 DEF Moved
    <3>5. Told(s, h + 1, q)
      BY <2>3, <3>4 DEF Told
    <3>6. Missed(s, q)
      BY <2>3, <3>4 DEF Missed
    <3>7. BodyOK(frames, q)
      <4>1. q.moves = r.moves \o Shift(count, Run(run(i).users, frames, run(i).id))
        BY <3>4, <3>3
      <4>2. /\ frames \in Seq(AFrame) /\ r \in Players /\ BodyOK(frames, r) /\ run(i) \in ARun
            /\ run(i).id \in 0 .. Len(frames) - 1 /\ count \in Nat \ {0} /\ q \in Players
            /\ q.since = Append(r.since, run(i)) /\ q.times = Append(r.times, count)
        BY <1>2, <2>4, <3>1, <3>4, <3>2, <3>3
      <4> QED BY ZenonT(30), <4>1, <4>2, BodyMoves
    <3> QED BY <2>2, <3>4, <3>5, <3>6, <3>7 DEF PlayerOK
  <2> QED BY <2>5, <2>6
<1>11. qs \in [1 .. len -> Players]
  <2>1. \A i \in 1 .. len : qs[i] \in Players
    BY <1>10
  <2>2. DOMAIN qs = DOMAIN ps /\ qs = [i \in DOMAIN ps |-> qs[i]]
    OBVIOUS
  <2> HIDE DEF qs
  <2> QED BY <1>2, <2>1, <2>2
<1>12. \A i \in 1 .. len : PlayerOK(s, h + 1, frames, qs[i])
  BY <1>10
<1> HIDE DEF qs, sent, turns, count, id, map, ps, len, h, s
<1>13. ClientOK(s, h + 1, frames, qs, map)
  BY <1>2, <1>11, <1>12, ClientParts
<1> QED BY <1>1, <1>2, <1>5, <1>6, <1>13, ClientStep DEF s

-----------------------------------------------------------------------------
(***************************************************************************)
(* The game, and what follows for its properties.                          *)
(***************************************************************************)
\* GameInv is inductive.
LEMMA NextGame == GameInv /\ [Next]_vars => GameInv'
<1> SUFFICES ASSUME GameInv, [Next]_vars PROVE GameInv'
  OBVIOUS
<1>1. CASE ServerNext
  <2>1. CASE \E k \in Conns : Join(k) \/ HandleLogin(k) \/ Visit(k)
    BY <2>1, JoinGame, HandleLoginGame, VisitGame
  <2>2. CASE FrameTurn
    BY <2>2, FrameTurnGame
  <2>3. CASE \E r \in reports : HandleFrame(r)
    BY <2>3, HandleFrameGame
  <2> QED BY <1>1, <2>1, <2>2, <2>3 DEF ServerNext
<1>2. CASE \E k \in Conns : ClientNext(k)
  BY <1>2, OnLoginGame, OnSightGame, OnFrameInitGame, OnFrameTurnGame, StartGame, KeyPressEventGame
     DEF ClientNext
<1>3. CASE UNCHANGED vars
  <2>1. UNCHANGED <<frames, coming, uuid, stream, bcast, todo, clients>>
    BY <1>3 DEF vars, server
  <2> QED BY <2>1, NothingSent, ServerStep DEF GameInv, Types
<1> QED BY <1>1, <1>2, <1>3 DEF Next

\* GameInv holds always.
LEMMA SpecGame == Spec => []GameInv
BY InitGame, NextGame, PTL DEF Spec

\* What the last message handled said is the frame that the next brings, or the
\* one the server will send.
LEMMA GameInStep == GameInv => InStep
<1> SUFFICES ASSUME GameInv, NEW k \in Conns, NEW m \in DOMAIN players[k],
                    players[k][m].started, ~players[k][m].missing
             PROVE  /\ NoneBefore(k, Len(stream[k]) + 1) => Server!Expects(k, players[k][m].CurFrameID)
                    /\ \A j \in handled[k] + 1 .. Len(stream[k]) :
                          NoneBefore(k, j) /\ stream[k][j].type = "SCFrame"
                             => stream[k][j].id = players[k][m].CurFrameID
  BY DEF InStep
<1> DEFINE s == stream[k]
           h == handled[k]
           p == players[k][m]
           len == Len(s)
<1>1. /\ len \in Nat /\ h \in 0 .. len /\ h \in Nat /\ DOMAIN s = 1 .. len
      /\ StreamOK(s, Len(frames)) /\ Told(s, h, p)
  BY ClientFacts, LenProperties DEF GameInv, PlayerOK
<1>2. PICK i \in 1 .. h : LastTold(s, h, i) /\ s[i].type = "SCFrame" /\ p.CurFrameID = s[i].id + 1
  BY <1>1 DEF Told
<1>3. Server!IsFrameMsg(s[i]) /\ Server!After(s[i]) = p.CurFrameID
      /\ \A l \in i + 1 .. h : ~Server!IsFrameMsg(s[l])
  BY <1>1, <1>2 DEF LastTold, Between, Server!After
<1>4. ASSUME NEW j \in h + 1 .. len + 1, NoneBefore(k, j)
      PROVE  \A l \in i + 1 .. j - 1 : ~Server!IsFrameMsg(s[l])
  <2>1. \A l \in h + 1 .. j - 1 : ~Server!IsFrameMsg(s[l])
    BY <1>4 DEF NoneBefore
  <2>2. \A l \in i + 1 .. j - 1 : l \in i + 1 .. h \/ l \in h + 1 .. j - 1
    BY <1>1
  <2> QED BY <1>3, <2>1, <2>2
<1>5. ASSUME NoneBefore(k, len + 1) PROVE Server!Expects(k, p.CurFrameID)
  <2>1. \A l \in i + 1 .. len : ~Server!IsFrameMsg(s[l])
    <3>1. len + 1 \in h + 1 .. len + 1 /\ len + 1 - 1 = len
      BY <1>1
    <3> QED BY <1>4, <1>5, <3>1
  <2>2. ASSUME NEW l \in 1 .. len, Server!IsFrameMsg(s[l]),
               \A j \in l + 1 .. len : ~Server!IsFrameMsg(s[j])
        PROVE  l = i
    <3>1. ~(l < i)
      BY <1>1, <1>3, <2>2
    <3>2. ~(l > i)
      BY <1>1, <2>1, <2>2
    <3> QED BY <1>1, <3>1, <3>2
  <2> HIDE DEF len
  <2> QED BY <1>1, <1>3, <2>2 DEF Server!Expects, len
<1>6. ASSUME NEW j \in h + 1 .. len, NoneBefore(k, j), s[j].type = "SCFrame"
      PROVE  s[j].id = p.CurFrameID
  <2>1. j \in 1 .. len /\ i \in 1 .. j - 1 /\ j \in h + 1 .. len + 1
    BY <1>1
  <2>2. Between(s, i, j)
    BY <1>4, <1>6, <2>1 DEF Between
  <2>3. Fits(s, j, Len(frames))
    BY <1>1, <2>1 DEF StreamOK
  <2> QED BY <1>3, <1>6, <2>1, <2>2, <2>3 DEF Fits
<1> QED BY <1>5, <1>6

\* A frame that was heard and not run is one that Missed allows.
LEMMA GameMissedFrames == GameInv => MissedFrames
<1> SUFFICES ASSUME GameInv, NEW k \in Conns, NEW i \in DOMAIN players[k],
                    NEW f \in ToSet(players[k][i].heard) \ ToSet(players[k][i].ran)
             PROVE  f \in ({players[k][i].heard[j] : j \in DOMAIN players[k][i].heard \cap {1}}
                              \cup Announced(k)) \ {0}
  BY DEF MissedFrames
<1> DEFINE p == players[k][i]
<1>1. PICK j \in DOMAIN p.heard : f = p.heard[j]
  BY DEF ToSet
<1>2. p \in Players /\ Missed(stream[k], p)
  BY ClientFacts DEF PlayerOK
<1>3. f # 0 /\ (f = p.heard[1] \/ \E l \in DOMAIN stream[k] : stream[k][l].type = "SCFrameInit"
                                                               /\ stream[k][l].nxt = f)
  BY <1>1, <1>2 DEF Missed
<1>4. CASE f = p.heard[1]
  <2>1. 1 \in DOMAIN p.heard
    <3>1. p.heard \in Seq(Nat)
      BY <1>2 DEF Players
    <3>2. DOMAIN p.heard = 1 .. Len(p.heard) /\ Len(p.heard) \in Nat
      BY <3>1, LenProperties
    <3> QED BY <1>1, <3>2
  <2> QED BY <1>3, <1>4, <2>1
<1>5. CASE \E l \in DOMAIN stream[k] : stream[k][l].type = "SCFrameInit" /\ stream[k][l].nxt = f
  BY <1>3, <1>5 DEF Announced, ToSet
<1> QED BY <1>3, <1>4, <1>5

\* Both bodies have moved by the same runs.
LEMMA GameSameBodies == GameInv => SameBodies
<1> SUFFICES ASSUME GameInv, NEW k \in Conns, NEW l \in Conns,
                    NEW i \in DOMAIN players[k], NEW j \in DOMAIN players[l],
                    players[k][i].since = players[l][j].since
             PROVE  /\ ToSet(players[k][i].moves) = ToSet(players[l][j].moves)
                    /\ players[k][i].times = players[l][j].times
                          => players[k][i].moves = players[l][j].moves
  BY DEF SameBodies
<1>1. BodyOK(frames, players[k][i]) /\ BodyOK(frames, players[l][j])
  BY ClientFacts DEF PlayerOK
<1> QED BY <1>1 DEF BodyOK

\* For any number of clients and frames, and however late a client handles its
\* stream, a Player that has heard a frame waits for exactly the frame that comes
\* next: the test of Player::OnFrameTurn never leaves it stuck.
THEOREM InStepHolds == Spec => []InStep
BY SpecGame, GameInStep, PTL

\* The only frames a Player hears and does not run are its first and those that
\* SCFrameInit announced, and frame 0 is never one of them: Player::OnFrameInit
\* waits for the last frame sent, and World sends the next.
THEOREM MissedFramesHolds == Spec => []MissedFrames
BY SpecGame, GameMissedFrames, PTL

\* Two bodies that the same frames have moved, standing for the same users in each,
\* have moved by the same keys, and are at the same place if as many Player objects
\* ran each frame: Player::RunKeyInfo depends on nothing else, on no client's own
\* keys, and on no order in which the clients handle their streams.
THEOREM SameBodiesHolds == Spec => []SameBodies
BY SpecGame, GameSameBodies, PTL

\* What TypeOK says of the variables that GameInv does not mention.
Bounds == /\ sessions \subseteq Conns /\ todo \subseteq Conns
          /\ taken \in 0 .. MaxTaken /\ pressed \in 0 .. MaxKeys

LEMMA SpecBounds == Spec => []Bounds
<1>1. Init => Bounds
  BY LockStepAssumption DEF Init, Bounds
<1>2. Bounds /\ [Next]_vars => Bounds'
  <2> SUFFICES ASSUME Bounds, [Next]_vars PROVE Bounds'
    OBVIOUS
  <2> USE LockStepAssumption DEF Bounds
  <2>1. ASSUME NEW k \in Conns, Join(k) \/ HandleLogin(k) \/ Visit(k) PROVE Bounds'
    BY <2>1 DEF Join, HandleLogin, Visit, Broadcast, clients
  <2>2. CASE FrameTurn
    BY <2>2 DEF FrameTurn, Broadcast, clients
  <2>3. ASSUME NEW r \in reports, HandleFrame(r) PROVE Bounds'
    BY <2>3 DEF HandleFrame, clients
  <2>4. ASSUME NEW k \in Conns, OnLogin(k) \/ OnSight(k) \/ OnFrameInit(k) \/ OnFrameTurn(k)
        PROVE  Bounds'
    <3>1. UNCHANGED <<server, pressed>>
      BY <2>4 DEF OnLogin, OnSight, OnFrameInit, OnFrameTurn, Receives
    <3> QED BY <3>1 DEF server
  <2>5. ASSUME NEW k \in Conns, Start(k) PROVE Bounds'
    BY <2>5 DEF Start, server
  <2>6. ASSUME NEW k \in Conns, KeyPressEvent(k) PROVE Bounds'
    <3>1. UNCHANGED server /\ pressed < MaxKeys /\ pressed' = pressed + 1
      BY <2>6 DEF KeyPressEvent
    <3> QED BY <3>1 DEF server
  <2>7. CASE UNCHANGED vars
    BY <2>7 DEF vars, server, clients
  <2> QED BY <2>1, <2>2, <2>3, <2>4, <2>5, <2>6, <2>7 DEF Next, ServerNext, ClientNext
<1> QED BY <1>1, <1>2, PTL DEF Spec

\* The types of the game: a client never handles more than its stream holds, and
\* m_allPlayer never points behind the Player objects there are.
THEOREM GameTypes == Spec => []TypeOK
<1>1. GameInv /\ Bounds => TypeOK
  <2> SUFFICES ASSUME GameInv, Bounds PROVE TypeOK
    OBVIOUS
  <2> QED BY ClientFacts DEF GameInv, Types, Bounds, TypeOK
<1> QED BY <1>1, SpecGame, SpecBounds, PTL
=============================================================================
