---------------------------- MODULE StreamsProofs ----------------------------
(***************************************************************************)
(* The properties of the ends of the byte streams, for every number and    *)
(* size of messages, every size of the buffers and every way to cut the    *)
(* stream: Cell::Recv (Framing), the Unity client's GetMsg (ClientStream)  *)
(* and ClientSocket's Send and SendImm (SendBuffer).                       *)
(*                                                                         *)
(* The stream is one long sequence; the proofs know it by StreamFacts:     *)
(* where each message ends (End), and that its bytes and no others are     *)
(* before that.  The invariants then say where in the stream the bytes in  *)
(* a buffer are from.  CellInv and ClientInv are inductive one by one, as  *)
(* is SocketInv: the ends share no state that changes.                     *)
(***************************************************************************)
EXTENDS MCStreams, InductionLemmas

Bytes(m) == [i \in 1 .. GetSize(m) |-> <<m, i>>]
Pieces   == [m \in Msgs |-> Bytes(m)]
Byte     == Msgs \X Nat

\* Where message m ends in the stream.
End(m) == Bound(Pieces, m)

SizesOK == sizes \in [Msgs -> Sizes]

\* A message is at least a header long, and more than the length in it.
LEMMA SizeFacts ==
    ASSUME SizesOK
    PROVE  \A m \in Msgs : /\ sizes[m] \in Nat /\ sizes[m] >= 1 /\ GetSize(m) \in Nat
                           /\ GetSize(m) >= HEADER_SIZE /\ GetSize(m) > HEADER_LEN_BYTES
                           /\ HEADER_SIZE > HEADER_LEN_BYTES /\ HEADER_LEN_BYTES >= 1
                           /\ HEADER_SIZE \in Nat
<1> SUFFICES ASSUME NEW m \in Msgs
             PROVE  /\ sizes[m] \in Nat /\ sizes[m] >= 1 /\ GetSize(m) \in Nat
                    /\ GetSize(m) >= HEADER_SIZE /\ GetSize(m) > HEADER_LEN_BYTES
                    /\ HEADER_SIZE > HEADER_LEN_BYTES /\ HEADER_LEN_BYTES >= 1
                    /\ HEADER_SIZE \in Nat
  OBVIOUS
<1>1. sizes[m] \in Sizes
  BY DEF SizesOK
<1>2. sizes[m] \in Nat /\ sizes[m] >= HEADER_TYPE_BYTES
  BY <1>1, FramingAssumption
<1> QED BY <1>2, FramingAssumption DEF GetSize, HEADER_SIZE

LEMMA PieceFacts ==
    ASSUME SizesOK
    PROVE  /\ Pieces \in [Msgs -> Seq(Byte)]
           /\ \A m \in Msgs : Bytes(m) \in Seq(Byte) /\ Pieces[m] = Bytes(m) /\ Len(Bytes(m)) = GetSize(m)
                              /\ \A i \in 1 .. GetSize(m) : Bytes(m)[i] = <<m, i>>
<1>1. ASSUME NEW m \in Msgs
      PROVE  /\ Bytes(m) \in Seq(Byte) /\ Pieces[m] = Bytes(m) /\ Len(Bytes(m)) = GetSize(m)
             /\ \A i \in 1 .. GetSize(m) : Bytes(m)[i] = <<m, i>>
  <2>1. GetSize(m) \in Nat
    BY SizeFacts
  <2>2. \A i \in 1 .. GetSize(m) : <<m, i>> \in Byte
    BY <2>1 DEF Byte
  <2> QED BY <2>1, <2>2 DEF Bytes, Pieces
<1> QED BY <1>1 DEF Pieces

\* The stream is the messages one behind the other.
LEMMA StreamFacts ==
    ASSUME SizesOK
    PROVE  /\ Stream \in Seq(Byte) /\ Len(Stream) = End(MaxMsgs) /\ Len(Stream) \in Nat
           /\ End(0) = 0
           /\ \A m \in 0 .. MaxMsgs : End(m) \in Nat /\ End(m) <= Len(Stream)
           /\ \A m \in 0 .. MaxMsgs - 1 :
                  /\ m + 1 \in Msgs /\ End(m + 1) = End(m) + GetSize(m + 1)
                  /\ \A i \in 1 .. GetSize(m + 1) : Stream[End(m) + i] = <<m + 1, i>>
           /\ \A k \in 0 .. MaxMsgs : \A m \in 0 .. k - 1 : End(m + 1) <= End(k)
           /\ \A p \in 1 .. Len(Stream) : \E m \in 0 .. MaxMsgs - 1 :
                  \E i \in 1 .. GetSize(m + 1) : p = End(m) + i
<1>1. MaxMsgs \in Nat /\ Msgs = 1 .. MaxMsgs /\ MaxMsgs \in 0 .. MaxMsgs
  BY FramingAssumption DEF Msgs
<1>2. Stream = FlattenSeq(Pieces)
  BY DEF Stream, Pieces, Bytes
<1>3. Pieces \in [1 .. MaxMsgs -> Seq(Byte)]
  BY <1>1, PieceFacts
<1>4. /\ Stream \in Seq(Byte) /\ Len(Stream) = End(MaxMsgs) /\ End(0) = 0
      /\ \A n \in 0 .. MaxMsgs : End(n) \in Nat /\ Places(FlattenSeq(Firsts(Pieces, n)), Pieces, n)
      /\ \A n \in 0 .. MaxMsgs - 1 : End(n + 1) = End(n) + Len(Pieces[n + 1])
      /\ Places(Stream, Pieces, MaxMsgs) /\ Covers(Pieces, MaxMsgs)
  <2> HIDE DEF Pieces, Byte
  <2> QED BY <1>1, <1>2, <1>3, FlattenPlaces DEF End
<1>5. \A m \in 0 .. MaxMsgs - 1 : m + 1 \in Msgs /\ Len(Pieces[m + 1]) = GetSize(m + 1)
                                  /\ \A i \in 1 .. GetSize(m + 1) : Pieces[m + 1][i] = <<m + 1, i>>
  <2>1. \A m \in 0 .. MaxMsgs - 1 : m + 1 \in Msgs
    BY <1>1
  <2> QED BY <2>1, PieceFacts
<1> HIDE DEF Stream
<1>6. \A k \in 0 .. MaxMsgs : \A m \in 0 .. k - 1 : End(m) \in Nat /\ End(m + 1) <= End(k)
  <2>1. \A k \in 0 .. MaxMsgs : \A m \in 0 .. k - 1 : m \in 0 .. MaxMsgs - 1
    BY <1>1
  <2>2. \A k \in 0 .. MaxMsgs : \A m \in 0 .. k - 1 : End(m) + Len(Pieces[m + 1]) <= End(k)
    BY <1>4 DEF Places, End
  <2>3. \A m \in 0 .. MaxMsgs - 1 : End(m) \in Nat /\ End(m + 1) = End(m) + Len(Pieces[m + 1])
    <3>1. \A m \in 0 .. MaxMsgs - 1 : m \in 0 .. MaxMsgs
      BY <1>1
    <3> QED BY <1>4, <3>1
  <2> QED BY <2>1, <2>2, <2>3
<1>7. \A m \in 0 .. MaxMsgs : End(m) <= Len(Stream)
  <2> SUFFICES ASSUME NEW m \in 0 .. MaxMsgs PROVE End(m) <= Len(Stream)
    OBVIOUS
  <2>1. CASE m = MaxMsgs
    BY <1>1, <1>4, <2>1
  <2>2. CASE m # MaxMsgs
    <3>1. m \in 0 .. MaxMsgs - 1 /\ m + 1 \in Msgs
      BY <1>1, <2>2
    <3>2. End(m + 1) <= Len(Stream) /\ End(m + 1) = End(m) + GetSize(m + 1) /\ GetSize(m + 1) \in Nat
      BY <1>1, <1>4, <1>5, <1>6, <3>1, SizeFacts
    <3> QED BY <1>1, <1>4, <3>1, <3>2
  <2> QED BY <2>1, <2>2
<1>8. \A m \in 0 .. MaxMsgs - 1 :
          /\ End(m + 1) = End(m) + GetSize(m + 1)
          /\ \A i \in 1 .. GetSize(m + 1) : Stream[End(m) + i] = <<m + 1, i>>
  BY <1>4, <1>5 DEF Places, End
<1>9. \A p \in 1 .. Len(Stream) : \E m \in 0 .. MaxMsgs - 1 :
          \E i \in 1 .. GetSize(m + 1) : p = End(m) + i
  BY <1>4, <1>5 DEF Covers, End
<1>10. Len(Stream) \in Nat
  BY <1>1, <1>4
<1> QED BY <1>4, <1>5, <1>6, <1>7, <1>8, <1>9, <1>10

-----------------------------------------------------------------------------
(***************************************************************************)
(* The server's receiving end.                                             *)
(***************************************************************************)
Done == Len(delivered)

CellTypes == /\ SizesOK
             /\ m_lastPos \in 0 .. RECV_BUFFER_SIZE /\ received \in 0 .. Len(Stream)
             /\ pc \in {"recv", "loop", "exit"} /\ cut \in BOOLEAN

\* The messages delivered are the first ones, and the buffer holds what has been
\* received behind them; before a recv that is less than a message.
Pending == ~cut =>
    /\ Done \in 0 .. MaxMsgs /\ delivered = [i \in 1 .. Done |-> i]
    /\ received = End(Done) + m_lastPos
    /\ \A p \in 0 .. m_lastPos - 1 : m_buffer_msg[p] = Stream[End(Done) + 1 + p]
    /\ pc = "recv" /\ Done < MaxMsgs => m_lastPos < GetSize(Done + 1)

CellInv == CellTypes /\ Pending /\ ExitJustified

\* A header at the front of the buffer is that of the next message.
LEMMA HeaderFacts ==
    ASSUME CellTypes, Pending, ~cut, m_lastPos >= HEADER_SIZE
    PROVE  /\ Done \in 0 .. MaxMsgs - 1 /\ Done + 1 \in Msgs
           /\ Lengths = {sizes[Done + 1]}
<1>1. Done \in 0 .. MaxMsgs /\ End(Done) \in Nat /\ received = End(Done) + m_lastPos
      /\ Len(Stream) = End(MaxMsgs) /\ Len(Stream) \in Nat /\ received <= Len(Stream)
      /\ MaxMsgs \in Nat /\ m_lastPos \in Nat /\ HEADER_LEN_BYTES \in Nat \ {0}
      /\ HEADER_TYPE_BYTES \in Nat \ {0} /\ RECV_BUFFER_SIZE \in Nat
  BY StreamFacts, FramingAssumption DEF CellTypes, Pending
<1>2. m_lastPos > HEADER_LEN_BYTES
  BY <1>1 DEF HEADER_SIZE
<1>3. Done # MaxMsgs
  BY <1>1, <1>2
<1>4. Done \in 0 .. MaxMsgs - 1 /\ Done + 1 \in Msgs
  BY <1>1, <1>3 DEF Msgs
<1>5. GetSize(Done + 1) \in Nat /\ GetSize(Done + 1) > HEADER_LEN_BYTES
  BY <1>4, SizeFacts DEF CellTypes
<1>6. \A i \in 1 .. HEADER_LEN_BYTES : m_buffer_msg[i - 1] = <<Done + 1, i>>
  <2> SUFFICES ASSUME NEW i \in 1 .. HEADER_LEN_BYTES PROVE m_buffer_msg[i - 1] = <<Done + 1, i>>
    OBVIOUS
  <2>1. i - 1 \in 0 .. m_lastPos - 1 /\ End(Done) + 1 + (i - 1) = End(Done) + i
        /\ i \in 1 .. GetSize(Done + 1)
    BY <1>1, <1>2, <1>5
  <2>2. m_buffer_msg[i - 1] = Stream[End(Done) + 1 + (i - 1)]
    BY <2>1 DEF Pending
  <2>3. Stream[End(Done) + i] = <<Done + 1, i>>
    BY <1>4, <2>1, StreamFacts DEF CellTypes
  <2> QED BY <2>1, <2>2, <2>3
<1> DEFINE sizesOf == {m \in Msgs : \A i \in 1 .. HEADER_LEN_BYTES : m_buffer_msg[i - 1] = <<m, i>>}
<1>7. sizesOf = {Done + 1}
  <2>1. Done + 1 \in sizesOf
    BY <1>4, <1>6
  <2>2. \A m \in sizesOf : m = Done + 1
    <3>1. 1 \in 1 .. HEADER_LEN_BYTES
      BY <1>1
    <3> QED BY <1>6, <3>1
  <2> HIDE DEF sizesOf
  <2> QED BY <2>1, <2>2
<1>8. Lengths = IF sizesOf # {} THEN {sizes[m] : m \in sizesOf} ELSE -1 .. RECV_BUFFER_SIZE
  BY DEF Lengths
<1> HIDE DEF sizesOf
<1> QED BY <1>4, <1>7, <1>8

\* The message that is then at the front is that one.
LEMMA BodyFacts ==
    ASSUME CellTypes, Pending, ~cut, Done \in 0 .. MaxMsgs - 1, m_lastPos >= GetSize(Done + 1)
    PROVE  Body(GetSize(Done + 1)) = Done + 1
<1> DEFINE d == Done + 1
           n == GetSize(d)
           Is(m) == n = GetSize(m) /\ \A i \in 1 .. n : m_buffer_msg[i - 1] = <<m, i>>
           Good(m) == \/ m # 0 /\ Is(m)
                      \/ m = 0 /\ ~\E k \in Msgs : Is(k)
<1>1. d \in Msgs /\ d # 0 /\ n \in Nat /\ n >= 1 /\ End(Done) \in Nat /\ m_lastPos \in Nat
  <2>1. d \in Msgs /\ d # 0 /\ Done \in 0 .. MaxMsgs
    BY FramingAssumption DEF Msgs
  <2>2. End(Done) \in Nat
    BY <2>1, StreamFacts DEF CellTypes
  <2>3. m_lastPos \in Nat
    BY FramingAssumption DEF CellTypes
  <2>4. n \in Nat /\ n > HEADER_LEN_BYTES /\ HEADER_LEN_BYTES >= 1 /\ HEADER_LEN_BYTES \in Nat
    BY <2>1, SizeFacts, FramingAssumption DEF CellTypes
  <2> HIDE DEF n
  <2>5. n >= 1
    BY <2>4
  <2> QED BY <2>1, <2>2, <2>3, <2>4, <2>5
<1>2. ASSUME NEW i \in 1 .. n PROVE m_buffer_msg[i - 1] = <<d, i>>
  <2>1. i - 1 \in 0 .. m_lastPos - 1 /\ End(Done) + 1 + (i - 1) = End(Done) + i
    BY <1>1
  <2>2. m_buffer_msg[i - 1] = Stream[End(Done) + 1 + (i - 1)]
    BY <2>1 DEF Pending
  <2>3. Stream[End(Done) + i] = <<d, i>>
    BY StreamFacts DEF CellTypes
  <2> QED BY <2>1, <2>2, <2>3
<1>3. Is(d)
  BY <1>2
<1>4. \A m \in Msgs \cup {0} : Good(m) => m = d
  <2>1. \A m : Is(m) => m = d
    BY <1>1, <1>2
  <2> HIDE DEF Is, d, n
  <2> QED BY <1>1, <1>3, <2>1
<1>5. Good(d) /\ d \in Msgs \cup {0}
  <2> HIDE DEF Is
  <2> QED BY <1>1, <1>3
<1>6. Body(n) = CHOOSE m \in Msgs \cup {0} : Good(m)
  BY DEF Body
<1> HIDE DEF Good, d, n
<1>7. Body(n) = d
  BY <1>4, <1>5, <1>6
<1> QED BY <1>7 DEF n, d

-----------------------------------------------------------------------------
LEMMA InitCell == Init => CellInv
<1> SUFFICES ASSUME Init PROVE CellInv
  OBVIOUS
<1>1. SizesOK
  BY DEF Init, SizesOK
<1>2. CellTypes
  <2>1. Len(Stream) \in Nat
    BY <1>1, StreamFacts
  <2>2. m_lastPos \in 0 .. RECV_BUFFER_SIZE /\ received \in 0 .. Len(Stream)
    BY <2>1, FramingAssumption DEF Init
  <2>3. pc \in {"recv", "loop", "exit"} /\ cut \in BOOLEAN
    BY DEF Init
  <2> QED BY <1>1, <2>2, <2>3 DEF CellTypes
<1>3. Pending
  <2>1. Done = 0 /\ delivered = <<>>
    BY DEF Init, Done
  <2>2. End(Done) = 0 /\ received = 0 /\ m_lastPos = 0 /\ MaxMsgs \in Nat
    BY <1>1, <2>1, StreamFacts, FramingAssumption DEF Init
  <2>3. delivered = [i \in 1 .. Done |-> i]
    BY <2>1
  <2>4. Done < MaxMsgs => m_lastPos < GetSize(Done + 1)
    <3> SUFFICES ASSUME 0 < MaxMsgs PROVE 0 < GetSize(1)
      BY <2>1, <2>2
    <3>1. 1 \in Msgs
      BY <2>2 DEF Msgs
    <3> QED BY <1>1, <3>1, SizeFacts, FramingAssumption
  <2> QED BY <2>1, <2>2, <2>3, <2>4 DEF Pending
<1> QED BY <1>2, <1>3 DEF CellInv, ExitJustified, Init

LEMMA RecvCell == ASSUME CellInv, NEW n \in 1 .. RECV_BUFFER_SIZE, Recv(n) PROVE CellInv'
<1>1. /\ m_lastPos \in Nat /\ received \in Nat /\ Len(Stream) \in Nat /\ RECV_BUFFER_SIZE \in Nat
      /\ n \in Nat /\ n >= 1 /\ m_lastPos + n <= RECV_BUFFER_SIZE /\ received + n <= Len(Stream)
      /\ m_lastPos' = m_lastPos + n /\ received' = received + n /\ pc = "recv" /\ pc' = "loop"
      /\ UNCHANGED <<sizes, hungup, delivered, cut>>
  BY StreamFacts, FramingAssumption DEF CellInv, CellTypes, Recv
<1>2. UNCHANGED <<Stream, SizesOK>> /\ \A m : End(m)' = End(m)
  BY <1>1 DEF Stream, SizesOK, End, Pieces, Bytes, GetSize
<1>3. CellTypes'
  BY <1>1, <1>2 DEF CellInv, CellTypes
<1>4. ASSUME ~cut PROVE \A p \in 0 .. m_lastPos' - 1 : m_buffer_msg'[p] = Stream[End(Done) + 1 + p]
  <2> SUFFICES ASSUME NEW p \in 0 .. m_lastPos' - 1 PROVE m_buffer_msg'[p] = Stream[End(Done) + 1 + p]
    OBVIOUS
  <2>1. p \in Positions
    BY <1>1 DEF Positions
  <2>2. m_buffer_msg'[p] = IF p \in m_lastPos .. m_lastPos + n - 1
                           THEN Stream[received + 1 + p - m_lastPos] ELSE m_buffer_msg[p]
    BY <2>1 DEF Recv
  <2>3. received = End(Done) + m_lastPos /\ End(Done) \in Nat
    BY <1>4, StreamFacts DEF CellInv, CellTypes, Pending
  <2>4. CASE p \in m_lastPos .. m_lastPos + n - 1
    <3>1. received + 1 + p - m_lastPos = End(Done) + 1 + p
      BY <1>1, <2>3
    <3> QED BY <2>2, <2>4, <3>1
  <2>5. CASE p \notin m_lastPos .. m_lastPos + n - 1
    <3>1. p \in 0 .. m_lastPos - 1
      BY <1>1, <2>5
    <3> QED BY <1>4, <2>2, <2>5, <3>1 DEF CellInv, Pending
  <2> QED BY <2>4, <2>5
<1>5. Pending'
  <2> SUFFICES ASSUME ~cut
               PROVE  /\ Done \in 0 .. MaxMsgs /\ delivered = [i \in 1 .. Done |-> i]
                      /\ received' = End(Done) + m_lastPos'
                      /\ \A p \in 0 .. m_lastPos' - 1 : m_buffer_msg'[p] = Stream[End(Done) + 1 + p]
    BY <1>1, <1>2 DEF Pending, Done
  <2>1. Done \in 0 .. MaxMsgs /\ delivered = [i \in 1 .. Done |-> i] /\ received = End(Done) + m_lastPos
        /\ End(Done) \in Nat
    BY StreamFacts DEF CellInv, CellTypes, Pending
  <2>2. received' = End(Done) + m_lastPos'
    BY <1>1, <2>1
  <2> QED BY <1>4, <2>1, <2>2
<1>6. ExitJustified'
  BY <1>1 DEF ExitJustified
<1> QED BY <1>3, <1>5, <1>6 DEF CellInv

\* Nothing the invariant is about changes but pc and hungup.
LEMMA KeptCell ==
    ASSUME CellInv, UNCHANGED <<sizes, received, m_buffer_msg, m_lastPos, delivered, cut>>,
           pc' \in {"recv", "loop", "exit"},
           ~cut /\ pc' = "recv" /\ Done < MaxMsgs => m_lastPos < GetSize(Done + 1),
           ExitJustified'
    PROVE  CellInv'
<1>1. UNCHANGED <<Stream, SizesOK>> /\ \A m : End(m)' = End(m) /\ GetSize(m)' = GetSize(m)
  BY DEF Stream, SizesOK, End, Pieces, Bytes, GetSize
<1>2. CellTypes'
  BY <1>1 DEF CellInv, CellTypes
<1>3. Pending'
  BY <1>1 DEF CellInv, Pending, Done
<1> QED BY <1>2, <1>3 DEF CellInv

LEMMA RecvNothingCell == ASSUME CellInv, RecvNothing PROVE CellInv'
<1>1. ExitJustified'
  <2> SUFFICES ASSUME ~hungup, ~cut PROVE \E m \in Msgs : GetSize(m) > RECV_BUFFER_SIZE
    BY DEF ExitJustified, RecvNothing, GetSize
  <2>1. pc = "recv" /\ m_lastPos = RECV_BUFFER_SIZE /\ received < Len(Stream)
    BY DEF RecvNothing
  <2>2. /\ Done \in 0 .. MaxMsgs /\ received = End(Done) + m_lastPos
        /\ End(Done) \in Nat /\ Len(Stream) = End(MaxMsgs) /\ MaxMsgs \in Nat /\ RECV_BUFFER_SIZE \in Nat
        /\ (Done < MaxMsgs => m_lastPos < GetSize(Done + 1))
    BY <2>1, StreamFacts, FramingAssumption DEF CellInv, CellTypes, Pending
  <2>3. Done # MaxMsgs
    BY <2>1, <2>2
  <2>4. Done + 1 \in Msgs /\ Done < MaxMsgs
    BY <2>2, <2>3 DEF Msgs
  <2>5. GetSize(Done + 1) \in Nat
    BY <2>4, SizeFacts DEF CellInv, CellTypes
  <2>6. GetSize(Done + 1) > RECV_BUFFER_SIZE
    BY <2>1, <2>2, <2>4, <2>5
  <2> QED BY <2>4, <2>6
<1> QED BY <1>1, KeptCell DEF RecvNothing

LEMMA HangUpCell == ASSUME CellInv, HangUp PROVE CellInv'
<1>1. ExitJustified'
  BY DEF ExitJustified, HangUp
<1>2. ~cut /\ pc' = "recv" /\ Done < MaxMsgs => m_lastPos < GetSize(Done + 1)
  BY DEF CellInv, Pending, HangUp
<1> QED BY <1>1, <1>2, KeptCell DEF HangUp, CellInv, CellTypes

LEMMA IncompleteCell == ASSUME CellInv, Incomplete PROVE CellInv'
<1>1. ExitJustified'
  BY DEF ExitJustified, Incomplete
<1>2. ASSUME ~cut, Done < MaxMsgs PROVE m_lastPos < GetSize(Done + 1)
  <2>1. Done \in 0 .. MaxMsgs /\ MaxMsgs \in Nat /\ m_lastPos \in Nat
    BY <1>2, FramingAssumption DEF CellInv, CellTypes, Pending
  <2>2. Done + 1 \in Msgs
    BY <1>2, <2>1 DEF Msgs
  <2>3. GetSize(Done + 1) \in Nat /\ GetSize(Done + 1) >= HEADER_SIZE /\ HEADER_SIZE \in Nat
        /\ sizes[Done + 1] \in Nat /\ HEADER_LEN_BYTES \in Nat
    BY <2>2, SizeFacts, FramingAssumption DEF CellInv, CellTypes
  <2>4. CASE m_lastPos < HEADER_SIZE
    BY <2>1, <2>3, <2>4
  <2>5. CASE ~(m_lastPos < HEADER_SIZE)
    <3>1. m_lastPos >= HEADER_SIZE
      BY <2>1, <2>3, <2>5
    <3>2. Lengths = {sizes[Done + 1]}
      BY <1>2, <3>1, HeaderFacts DEF CellInv
    <3>3. GetPackageLength(sizes[Done + 1]) < 0
      BY <2>5, <3>2 DEF Incomplete
    <3>4. ~(m_lastPos >= sizes[Done + 1] + HEADER_LEN_BYTES)
      BY <2>3, <3>3 DEF GetPackageLength
    <3> QED BY <2>1, <2>3, <3>4 DEF GetSize
  <2> QED BY <2>4, <2>5
<1> QED BY <1>1, <1>2, KeptCell DEF Incomplete

LEMMA MessageCell == ASSUME CellInv, Message PROVE CellInv'
<1> DEFINE d == Done + 1
<1>1. PICK len \in Lengths :
          /\ GetPackageLength(len) >= 0
          /\ m_buffer_msg' = Memmove(len + HEADER_LEN_BYTES)
          /\ m_lastPos' = m_lastPos - (len + HEADER_LEN_BYTES)
          /\ delivered' = Append(delivered, Body(len + HEADER_LEN_BYTES))
          /\ cut' = (cut \/ m_lastPos - (len + HEADER_LEN_BYTES) > len + HEADER_LEN_BYTES)
          /\ pc' = IF IsFinish(m_lastPos - (len + HEADER_LEN_BYTES)) THEN "recv" ELSE "loop"
  BY DEF Message
<1> DEFINE n == len + HEADER_LEN_BYTES
<1>2. UNCHANGED <<sizes, received, hungup>> /\ m_lastPos >= HEADER_SIZE
  BY DEF Message
<1>3. UNCHANGED <<Stream, SizesOK>> /\ \A m : End(m)' = End(m) /\ GetSize(m)' = GetSize(m)
  BY <1>2 DEF Stream, SizesOK, End, Pieces, Bytes, GetSize
<1>4. /\ len \in Int /\ len >= 0 /\ m_lastPos >= len + HEADER_LEN_BYTES
      /\ m_lastPos \in Nat /\ m_lastPos <= RECV_BUFFER_SIZE /\ RECV_BUFFER_SIZE \in Nat
      /\ HEADER_LEN_BYTES \in Nat
  <2>1. m_lastPos \in Nat /\ m_lastPos <= RECV_BUFFER_SIZE /\ RECV_BUFFER_SIZE \in Nat
        /\ HEADER_LEN_BYTES \in Nat
    BY FramingAssumption DEF CellInv, CellTypes
  <2>2. len \in Int
    <3>1. \A m \in Msgs : sizes[m] \in Int
      BY SizeFacts DEF CellInv, CellTypes
    <3> DEFINE sizesOf == {m \in Msgs : \A i \in 1 .. HEADER_LEN_BYTES : m_buffer_msg[i - 1] = <<m, i>>}
    <3>2. len \in IF sizesOf # {} THEN {sizes[m] : m \in sizesOf} ELSE -1 .. RECV_BUFFER_SIZE
      BY <1>1 DEF Lengths
    <3>3. sizesOf \subseteq Msgs
      OBVIOUS
    <3> HIDE DEF sizesOf
    <3> QED BY <2>1, <3>1, <3>2, <3>3
  <2> QED BY <1>1, <2>1, <2>2 DEF GetPackageLength
<1>5. CellTypes'
  <2>1. m_lastPos' \in 0 .. RECV_BUFFER_SIZE
    BY <1>1, <1>4
  <2>2. pc' \in {"recv", "loop", "exit"}
    BY <1>1
  <2>3. cut' \in BOOLEAN
    BY <1>1 DEF CellInv, CellTypes
  <2> QED BY <1>2, <1>3, <2>1, <2>2, <2>3 DEF CellInv, CellTypes
<1>6. ExitJustified'
  BY <1>1 DEF ExitJustified
<1>7. ASSUME ~cut' PROVE Pending'
  <2>1. ~cut /\ ~(m_lastPos - n > n)
    BY <1>1, <1>7
  <2>2. /\ Done \in 0 .. MaxMsgs - 1 /\ d \in Msgs /\ Lengths = {sizes[d]}
        /\ Done \in 0 .. MaxMsgs /\ MaxMsgs \in Nat
        /\ received = End(Done) + m_lastPos /\ delivered = [i \in 1 .. Done |-> i]
        /\ \A p \in 0 .. m_lastPos - 1 : m_buffer_msg[p] = Stream[End(Done) + 1 + p]
    BY <1>2, <2>1, HeaderFacts, FramingAssumption DEF CellInv, Pending
  <2>3. n = GetSize(d) /\ n \in Nat /\ n > 0 /\ m_lastPos >= n /\ n + n >= m_lastPos
    BY <1>1, <1>4, <2>1, <2>2, SizeFacts DEF GetSize, CellInv, CellTypes
  <2>4. Body(n) = d
    BY <2>1, <2>2, <2>3, BodyFacts DEF CellInv
  <2>5. End(d) = End(Done) + n /\ End(Done) \in Nat
    BY <2>2, <2>3, StreamFacts DEF CellInv, CellTypes
  <2>6. Done' = d /\ delivered' = [i \in 1 .. d |-> i]
    <3>1. delivered' = Append(delivered, d)
      BY <1>1, <2>4
    <3>2. delivered \in Seq(Nat) /\ Len(delivered) = Done /\ d \in Nat /\ Done \in Nat
      BY <2>2 DEF Done
    <3>3. /\ Append(delivered, d) \in Seq(Nat) /\ Len(Append(delivered, d)) = d
          /\ \A i \in 1 .. d : Append(delivered, d)[i] = i
      BY <2>2, <3>2, AppendProperties
    <3> DEFINE s == [i \in 1 .. d |-> i]
    <3>4. s \in Seq(Nat) /\ Len(s) = d /\ \A i \in 1 .. d : s[i] = i
      BY <3>2
    <3> HIDE DEF s
    <3>5. Append(delivered, d) = s
      BY <3>3, <3>4, SeqEqual
    <3> QED BY <3>1, <3>3, <3>5 DEF s, Done
  <2>7. End(Done)' = End(d)
    BY <1>3, <2>6 DEF End
  <2>8. \A p \in 0 .. m_lastPos' - 1 : m_buffer_msg'[p] = Stream[End(d) + 1 + p]
    <3> SUFFICES ASSUME NEW p \in 0 .. m_lastPos' - 1 PROVE m_buffer_msg'[p] = Stream[End(d) + 1 + p]
      OBVIOUS
    <3>1. /\ p \in Positions /\ p < n /\ p + n \in Positions /\ p + n \in 0 .. m_lastPos - 1 /\ ~(p >= n)
          /\ End(Done) + 1 + (p + n) = End(d) + 1 + p
      BY <1>1, <1>4, <2>3, <2>5 DEF Positions
    <3>2. m_buffer_msg' = Memmove(n)
      BY <1>1
    <3> HIDE DEF n
    <3>3. m_buffer_msg'[p] = m_buffer_msg[p + n]
      BY <3>1, <3>2 DEF Memmove
    <3> QED BY <2>2, <3>1, <3>3
  <2>9. received' = End(d) + m_lastPos'
    BY <1>1, <1>2, <1>4, <2>2, <2>3, <2>5
  <2>10. pc' = "recv" /\ d < MaxMsgs => m_lastPos' < GetSize(d + 1)
    <3> SUFFICES ASSUME pc' = "recv", d < MaxMsgs PROVE m_lastPos' < GetSize(d + 1)
      OBVIOUS
    <3>1. m_lastPos' = m_lastPos - n /\ m_lastPos - n <= 0
      <4>1. IsFinish(m_lastPos - n)
        BY <1>1
      <4> QED BY <1>1, <4>1 DEF IsFinish
    <3>2. d + 1 \in Msgs
      BY <2>2 DEF Msgs
    <3>3. GetSize(d + 1) \in Nat /\ GetSize(d + 1) > HEADER_LEN_BYTES
      BY <3>2, SizeFacts DEF CellInv, CellTypes
    <3> QED BY <1>4, <2>3, <3>1, <3>3
  <2>11. d \in 0 .. MaxMsgs
    BY <2>2
  <2> HIDE DEF d
  <2> QED BY <1>3, <2>6, <2>7, <2>8, <2>9, <2>10, <2>11 DEF Pending
<1>8. Pending'
  BY <1>7 DEF Pending
<1> QED BY <1>5, <1>6, <1>8 DEF CellInv

LEMMA NextCell == CellInv /\ [Next]_vars => CellInv'
<1> SUFFICES ASSUME CellInv, [Next]_vars PROVE CellInv'
  OBVIOUS
<1>1. ASSUME UNCHANGED vars PROVE CellInv'
  <2>1. ExitJustified'
    BY <1>1 DEF CellInv, ExitJustified, vars, GetSize
  <2>2. ~cut /\ pc' = "recv" /\ Done < MaxMsgs => m_lastPos < GetSize(Done + 1)
    BY <1>1 DEF CellInv, Pending, vars
  <2> QED BY <1>1, <2>1, <2>2, KeptCell DEF vars, CellInv, CellTypes
<1> QED BY <1>1, RecvCell, RecvNothingCell, HangUpCell, IncompleteCell, MessageCell DEF Next

\* What the invariant says of the properties.
LEMMA CellProperties == ASSUME CellInv PROVE Framed /\ Prompt /\ ExitJustified
<1>1. Framed
  BY DEF CellInv, Pending, Framed
<1>2. Prompt
  <2> SUFFICES ASSUME ~cut, pc = "recv", NEW m \in Msgs, NEW p \in 1 .. received,
                      Stream[p] = <<m, GetSize(m)>>
               PROVE  m \in ToSet(delivered)
    BY DEF Prompt
  <2>1. /\ Done \in 0 .. MaxMsgs /\ delivered = [i \in 1 .. Done |-> i]
        /\ received = End(Done) + m_lastPos /\ End(Done) \in Nat /\ m_lastPos \in Nat /\ MaxMsgs \in Nat
        /\ (Done < MaxMsgs => m_lastPos < GetSize(Done + 1))
        /\ received \in Nat /\ received <= Len(Stream) /\ Len(Stream) \in Nat
    BY StreamFacts, FramingAssumption DEF CellInv, CellTypes, Pending
  <2>2. p \in 1 .. Len(Stream)
    BY <2>1
  <2>3. PICK k \in 0 .. MaxMsgs - 1 : \E i \in 1 .. GetSize(k + 1) : p = End(k) + i
    BY <2>2, StreamFacts DEF CellInv, CellTypes
  <2>4. PICK i \in 1 .. GetSize(k + 1) : p = End(k) + i
    BY <2>3
  <2>5. Stream[p] = <<k + 1, i>>
    BY <2>4, StreamFacts DEF CellInv, CellTypes
  <2>6. m = k + 1 /\ i = GetSize(m)
    BY <2>5
  <2>7. p = End(m) /\ m \in Nat
    <3>1. End(k + 1) = End(k) + GetSize(k + 1)
      BY StreamFacts DEF CellInv, CellTypes
    <3> QED BY <2>1, <2>4, <2>6, <3>1
  <2>8. m <= Done
    <3> SUFFICES ASSUME ~(m <= Done) PROVE FALSE
      OBVIOUS
    <3>1. Done \in 0 .. m - 1 /\ Done < MaxMsgs /\ m \in 0 .. MaxMsgs /\ Done \in 0 .. MaxMsgs - 1
      BY <2>1, <2>6, <2>7
    <3>2. End(Done + 1) <= End(m) /\ End(Done + 1) = End(Done) + GetSize(Done + 1)
          /\ End(m) \in Nat
      BY <3>1, StreamFacts DEF CellInv, CellTypes
    <3>3. GetSize(Done + 1) \in Nat
      <4>1. Done + 1 \in Msgs
        BY <2>1, <3>1 DEF Msgs
      <4> QED BY <4>1, SizeFacts DEF CellInv, CellTypes
    <3> QED BY <2>1, <2>7, <3>1, <3>2, <3>3
  <2>9. m \in DOMAIN delivered /\ delivered[m] = m
    BY <2>1, <2>6, <2>8
  <2> QED BY <2>9 DEF ToSet
<1> QED BY <1>1, <1>2 DEF CellInv

-----------------------------------------------------------------------------
(***************************************************************************)
(* The Unity client's receiving end.                                       *)
(***************************************************************************)
\* Its sizes and its stream are the server's.
LEMMA ClientSame ==
    /\ Client!Msgs = Msgs
    /\ \A m : Client!GetSize(m) = GetSize(m)
    /\ Client!Stream = Stream
<1>1. \A s : Client!FlattenSeq(s) = FlattenSeq(s)
  BY Zenon DEF Client!FlattenSeq, FlattenSeq
<1>2. Client!Msgs = Msgs /\ \A m : Client!GetSize(m) = GetSize(m)
  BY DEF Client!Msgs, Msgs, Client!GetSize, GetSize
<1> QED BY <1>1, <1>2 DEF Client!Stream, Stream

Taken == Len(m_recievedMsgs)

ClientTypes == /\ SizesOK
               /\ returned \in 0 .. Len(Stream)
               /\ got \in [Callbacks -> Nat]
               /\ torn \in BOOLEAN /\ overlap \in BOOLEAN

\* The messages taken out are the first ones.
InOrder == Taken \in 0 .. MaxMsgs /\ m_recievedMsgs = [i \in 1 .. Taken |-> i]

\* One callback is between Receive and the end of its turn, and none when the
\* stream is torn.
OneTurn == ~overlap =>
    /\ \A c, d \in Callbacks : got[c] # 0 /\ got[d] # 0 => c = d
    /\ torn => \A c \in Callbacks : got[c] = 0

\* The buffer holds what has been received behind the messages taken out, but
\* for what a callback is about to put there.
ClientPending == ~torn /\ ~overlap =>
    /\ limit = RECV_BUFFER_SIZE /\ position \in 0 .. limit
    /\ (\A c \in Callbacks : got[c] = 0) => returned = End(Taken) + position
    /\ \A c \in Callbacks : got[c] # 0 => returned = End(Taken) + position + got[c]
    /\ \A p \in 0 .. position - 1 : m_readBuffer[p] = Stream[End(Taken) + 1 + p]

ClientInv == ClientTypes /\ InOrder /\ OneTurn /\ ClientPending

LEMMA InitClient == ASSUME Init, Client!Init PROVE ClientInv
<1>1. SizesOK /\ Len(Stream) \in Nat /\ End(0) = 0 /\ RECV_BUFFER_SIZE \in Nat /\ MaxMsgs \in Nat
  BY StreamFacts, FramingAssumption DEF Init, SizesOK
<1>2. /\ returned = 0 /\ m_recievedMsgs = <<>> /\ position = 0 /\ limit = RECV_BUFFER_SIZE
      /\ got = [c \in Callbacks |-> 0] /\ torn = FALSE /\ overlap = FALSE
  BY DEF Client!Init
<1>3. Taken = 0 /\ m_recievedMsgs = [i \in 1 .. 0 |-> i]
  BY <1>2 DEF Taken
<1>4. ClientTypes
  <2>1. returned \in 0 .. Len(Stream) /\ got \in [Callbacks -> Nat]
    BY <1>1, <1>2
  <2> QED BY <1>1, <1>2, <2>1 DEF ClientTypes
<1>5. InOrder
  BY <1>1, <1>3 DEF InOrder
<1>6. OneTurn
  BY <1>2 DEF OneTurn
<1>7. ClientPending
  BY <1>1, <1>2, <1>3 DEF ClientPending
<1> QED BY <1>4, <1>5, <1>6, <1>7 DEF ClientInv

LEMMA ReceiveClient ==
    ASSUME ClientInv, NEW c \in Callbacks, NEW n \in 1 .. RECV_BUFFER_SIZE, Client!Receive(c, n)
    PROVE  ClientInv'
<1>1. /\ ~torn /\ ~overlap /\ got[c] = 0 /\ returned + n <= Len(Stream) /\ returned' = returned + n
      /\ got' = [got EXCEPT ![c] = n]
      /\ overlap' = \E d \in Callbacks \ {c} : got[d] # 0
      /\ UNCHANGED <<sizes, m_recievedMsgs, m_readBuffer, position, limit, torn>>
  BY ClientSame DEF Client!Receive, Client!buffer
<1>2. UNCHANGED <<Stream, SizesOK, Taken>> /\ \A m : End(m)' = End(m)
  BY <1>1 DEF Stream, SizesOK, End, Pieces, Bytes, GetSize, Taken
<1>3. got \in [Callbacks -> Nat] /\ Len(Stream) \in Nat /\ returned \in Nat /\ RECV_BUFFER_SIZE \in Nat
      /\ n \in Nat /\ n # 0 /\ Taken \in 0 .. MaxMsgs /\ End(Taken) \in Nat
  BY StreamFacts, FramingAssumption DEF ClientInv, ClientTypes, InOrder
<1>4. ClientTypes'
  <2>1. returned' \in 0 .. Len(Stream)
    BY <1>1, <1>3
  <2>2. got' \in [Callbacks -> Nat]
    BY <1>1, <1>3
  <2>3. overlap' \in BOOLEAN
    BY <1>1
  <2> QED BY <1>1, <1>2, <2>1, <2>2, <2>3 DEF ClientInv, ClientTypes
<1>5. InOrder'
  BY <1>1, <1>2 DEF ClientInv, InOrder
<1>6. ASSUME ~overlap' PROVE \A d \in Callbacks : got[d] = 0 /\ got'[d] = IF d = c THEN n ELSE 0
  BY <1>1, <1>3, <1>6
<1>7. OneTurn'
  BY <1>1, <1>6 DEF OneTurn
<1>8. ClientPending'
  <2> SUFFICES ASSUME ~torn', ~overlap'
               PROVE  /\ limit = RECV_BUFFER_SIZE /\ position \in 0 .. limit
                      /\ (\A d \in Callbacks : got'[d] = 0) => returned' = End(Taken) + position
                      /\ \A d \in Callbacks : got'[d] # 0 => returned' = End(Taken) + position + got'[d]
                      /\ \A p \in 0 .. position - 1 : m_readBuffer[p] = Stream[End(Taken) + 1 + p]
    BY <1>1, <1>2 DEF ClientPending
  <2>1. /\ limit = RECV_BUFFER_SIZE /\ position \in 0 .. limit /\ returned = End(Taken) + position
        /\ \A p \in 0 .. position - 1 : m_readBuffer[p] = Stream[End(Taken) + 1 + p]
    BY <1>1, <1>6 DEF ClientInv, ClientPending
  <2>2. got'[c] = n
    BY <1>6
  <2>3. returned' = End(Taken) + position + n
    BY <1>1, <1>3, <2>1
  <2> QED BY <1>3, <1>6, <2>1, <2>2, <2>3
<1> QED BY <1>4, <1>5, <1>7, <1>8 DEF ClientInv

\* Put brings the buffer up to date.
LEMMA PutFacts ==
    ASSUME ClientInv, ~overlap, NEW c \in Callbacks, got[c] # 0, position + got[c] <= limit
    PROVE  /\ ~torn /\ position \in Nat /\ got[c] \in Nat /\ limit = RECV_BUFFER_SIZE
           /\ position + got[c] <= RECV_BUFFER_SIZE
           /\ End(Taken) \in Nat /\ returned = End(Taken) + (position + got[c]) /\ returned <= Len(Stream)
           /\ \A p \in 0 .. position + got[c] - 1 :
                  Client!Put(got[c])[p] = Stream[End(Taken) + 1 + p]
<1>1. ~torn
  BY DEF ClientInv, OneTurn
<1>2. /\ limit = RECV_BUFFER_SIZE /\ position \in 0 .. limit
      /\ returned = End(Taken) + position + got[c]
      /\ RECV_BUFFER_SIZE \in Nat /\ got[c] \in Nat /\ End(Taken) \in Nat
      /\ returned \in 0 .. Len(Stream) /\ Len(Stream) \in Nat
      /\ \A p \in 0 .. position - 1 : m_readBuffer[p] = Stream[End(Taken) + 1 + p]
  BY <1>1, StreamFacts, FramingAssumption DEF ClientInv, ClientTypes, InOrder, ClientPending
<1>3. position \in Nat /\ position + got[c] <= RECV_BUFFER_SIZE
      /\ returned = End(Taken) + (position + got[c]) /\ returned <= Len(Stream)
  BY <1>2
<1>4. ASSUME NEW p \in 0 .. position + got[c] - 1
      PROVE  Client!Put(got[c])[p] = Stream[End(Taken) + 1 + p]
  <2>1. p \in Client!Cells
    BY <1>2, <1>3 DEF Client!Cells
  <2>2. Client!Put(got[c])[p] = IF p \in position .. position + got[c] - 1
                                THEN Stream[returned - got[c] + 1 + p - position] ELSE m_readBuffer[p]
    BY <2>1, ClientSame DEF Client!Put
  <2>3. CASE p \in position .. position + got[c] - 1
    <3>1. returned - got[c] + 1 + p - position = End(Taken) + 1 + p
      BY <1>2, <1>3
    <3> QED BY <2>2, <2>3, <3>1
  <2>4. CASE p \notin position .. position + got[c] - 1
    <3>1. p \in 0 .. position - 1
      BY <1>2, <1>3, <2>4
    <3> QED BY <1>2, <2>2, <2>4, <3>1
  <2> QED BY <2>3, <2>4
<1> QED BY <1>1, <1>2, <1>3, <1>4

\* The buffer b holds the next bytes of the stream, up to end.
Holds(b, upto) == \A p \in 0 .. upto - 1 : b[p] = Stream[End(Taken) + 1 + p]

LEMMA ClientHeader ==
    ASSUME ClientInv, NEW b, NEW upto \in Nat, Holds(b, upto), upto >= HEADER_LEN_BYTES,
           End(Taken) + upto <= Len(Stream)
    PROVE  /\ Taken \in 0 .. MaxMsgs - 1 /\ Taken + 1 \in Msgs
           /\ Client!Lengths(b) = {sizes[Taken + 1]}
<1>1. /\ Taken \in 0 .. MaxMsgs /\ End(Taken) \in Nat /\ Len(Stream) = End(MaxMsgs)
      /\ Len(Stream) \in Nat /\ MaxMsgs \in Nat /\ HEADER_LEN_BYTES \in Nat \ {0}
  BY StreamFacts, FramingAssumption DEF ClientInv, ClientTypes, InOrder
<1>2. Taken # MaxMsgs
  BY <1>1
<1>3. Taken \in 0 .. MaxMsgs - 1 /\ Taken + 1 \in Msgs
  BY <1>1, <1>2 DEF Msgs
<1>4. GetSize(Taken + 1) \in Nat /\ GetSize(Taken + 1) > HEADER_LEN_BYTES
  BY <1>3, SizeFacts DEF ClientInv, ClientTypes
<1>5. ASSUME NEW i \in 1 .. HEADER_LEN_BYTES PROVE b[i - 1] = <<Taken + 1, i>>
  <2>1. i - 1 \in 0 .. upto - 1 /\ End(Taken) + 1 + (i - 1) = End(Taken) + i
        /\ i \in 1 .. GetSize(Taken + 1)
    BY <1>1, <1>4
  <2>2. b[i - 1] = Stream[End(Taken) + 1 + (i - 1)]
    BY <2>1 DEF Holds
  <2>3. Stream[End(Taken) + i] = <<Taken + 1, i>>
    BY <1>3, <2>1, StreamFacts DEF ClientInv, ClientTypes
  <2> QED BY <2>1, <2>2, <2>3
<1> DEFINE sizesOf == {m \in Msgs : \A i \in 1 .. HEADER_LEN_BYTES : b[i - 1] = <<m, i>>}
<1>6. sizesOf = {Taken + 1}
  <2>1. Taken + 1 \in sizesOf
    BY <1>3, <1>5
  <2>2. \A m \in sizesOf : m = Taken + 1
    <3>1. 1 \in 1 .. HEADER_LEN_BYTES
      BY <1>1
    <3> QED BY <1>5, <3>1
  <2> HIDE DEF sizesOf
  <2> QED BY <2>1, <2>2
<1>7. Client!Lengths(b) = IF sizesOf # {} THEN {sizes[m] : m \in sizesOf} ELSE -1 .. RECV_BUFFER_SIZE
  BY ClientSame DEF Client!Lengths
<1> HIDE DEF sizesOf
<1> QED BY <1>3, <1>6, <1>7

LEMMA ClientBody ==
    ASSUME ClientInv, NEW b, NEW upto \in Nat, Holds(b, upto), Taken \in 0 .. MaxMsgs - 1,
           upto >= GetSize(Taken + 1)
    PROVE  Client!Body(b, GetSize(Taken + 1)) = Taken + 1
<1> DEFINE d == Taken + 1
           n == GetSize(d)
           is == {m \in Msgs : n = GetSize(m) /\ \A i \in 1 .. n : b[i - 1] = <<m, i>>}
<1>1. d \in Msgs /\ n \in Nat /\ n >= 1 /\ End(Taken) \in Nat
  <2>1. d \in Msgs /\ Taken \in 0 .. MaxMsgs
    BY FramingAssumption DEF Msgs
  <2>2. End(Taken) \in Nat
    BY <2>1, StreamFacts DEF ClientInv, ClientTypes
  <2>3. n \in Nat /\ n > HEADER_LEN_BYTES /\ HEADER_LEN_BYTES >= 1 /\ HEADER_LEN_BYTES \in Nat
    BY <2>1, SizeFacts, FramingAssumption DEF ClientInv, ClientTypes
  <2> HIDE DEF n
  <2>4. n >= 1
    BY <2>3
  <2> QED BY <2>1, <2>2, <2>3, <2>4
<1>2. ASSUME NEW i \in 1 .. n PROVE b[i - 1] = <<d, i>>
  <2>1. i - 1 \in 0 .. upto - 1 /\ End(Taken) + 1 + (i - 1) = End(Taken) + i
    BY <1>1
  <2>2. b[i - 1] = Stream[End(Taken) + 1 + (i - 1)]
    BY <2>1 DEF Holds
  <2>3. Stream[End(Taken) + i] = <<d, i>>
    BY StreamFacts DEF ClientInv, ClientTypes
  <2> QED BY <2>1, <2>2, <2>3
<1>3. is = {d}
  <2>1. d \in is
    BY <1>1, <1>2
  <2>2. \A m \in is : m = d
    BY <1>1, <1>2
  <2> HIDE DEF is
  <2> QED BY <2>1, <2>2
<1>4. Client!Body(b, n) = IF is = {} THEN 0 ELSE CHOOSE m \in is : TRUE
  <2> DEFINE theirs == {m \in Client!Msgs : /\ n = Client!GetSize(m)
                                           /\ \A i \in 1 .. n : b[i - 1] = <<m, i>>}
  <2>1. Client!Body(b, n) = IF theirs = {} THEN 0 ELSE CHOOSE m \in theirs : TRUE
    BY DEF Client!Body
  <2>2. theirs = is
    BY ClientSame
  <2> QED BY <2>1, <2>2
<1> HIDE DEF is
<1> QED BY <1>3, <1>4

LEMMA TakeMessageClient ==
    ASSUME ClientInv, NEW c \in Callbacks, Client!TakeMessage(c)
    PROVE  ClientInv'
<1> DEFINE b == Client!Put(got[c])
           upto == position + got[c]
           d == Taken + 1
<1>1. /\ ~overlap /\ got[c] # 0 /\ upto <= limit /\ upto >= HEADER_LEN_BYTES
      /\ limit' = RECV_BUFFER_SIZE /\ got' = [got EXCEPT ![c] = 0]
      /\ UNCHANGED <<sizes, returned, torn, overlap>>
  BY DEF Client!TakeMessage
<1>0. \E len \in Client!Lengths(b) :
         /\ upto >= len + HEADER_LEN_BYTES
         /\ m_recievedMsgs' = Append(m_recievedMsgs, Client!Body(b, len + HEADER_LEN_BYTES))
         /\ m_readBuffer' = Client!Compact(b, len + HEADER_LEN_BYTES, upto)
         /\ position' = upto - (len + HEADER_LEN_BYTES)
  BY DEF Client!TakeMessage
<1>2. /\ ~torn /\ position \in Nat /\ got[c] \in Nat /\ limit = RECV_BUFFER_SIZE
      /\ upto <= RECV_BUFFER_SIZE /\ upto \in Nat
      /\ End(Taken) \in Nat /\ returned = End(Taken) + upto /\ returned <= Len(Stream)
      /\ Holds(b, upto)
  <2>1. ~overlap /\ got[c] # 0 /\ position + got[c] <= limit
    BY <1>1
  <2>2. /\ ~torn /\ position \in Nat /\ got[c] \in Nat /\ limit = RECV_BUFFER_SIZE
        /\ position + got[c] <= RECV_BUFFER_SIZE
        /\ End(Taken) \in Nat /\ returned = End(Taken) + (position + got[c])
        /\ returned <= Len(Stream)
        /\ \A p \in 0 .. position + got[c] - 1 :
               Client!Put(got[c])[p] = Stream[End(Taken) + 1 + p]
    BY Zenon, <2>1, PutFacts
  <2>3. upto \in Nat
    BY <2>2
  <2>4. Holds(b, upto)
    BY <2>2 DEF Holds
  <2> QED BY <2>2, <2>3, <2>4
<1>3. Taken \in 0 .. MaxMsgs - 1 /\ d \in Msgs /\ Client!Lengths(b) = {sizes[d]}
      /\ Taken \in 0 .. MaxMsgs /\ d \in 0 .. MaxMsgs /\ d \in Nat /\ Taken \in Nat
  <2> HIDE DEF b, upto
  <2>1. End(Taken) + upto <= Len(Stream)
    BY <1>2
  <2>2. Taken \in 0 .. MaxMsgs - 1 /\ d \in Msgs /\ Client!Lengths(b) = {sizes[d]}
    BY <1>1, <1>2, <2>1, ClientHeader
  <2> QED BY <2>2, FramingAssumption
<1> DEFINE n == sizes[d] + HEADER_LEN_BYTES
<1>4. /\ upto >= n /\ m_recievedMsgs' = Append(m_recievedMsgs, Client!Body(b, n))
      /\ m_readBuffer' = Client!Compact(b, n, upto) /\ position' = upto - n
  <2> HIDE DEF b, upto
  <2> QED BY <1>0, <1>3
<1>5. n = GetSize(d) /\ n \in Nat
  BY <1>3, SizeFacts DEF ClientInv, ClientTypes, GetSize
<1>6. Client!Body(b, n) = d
  <2> HIDE DEF b, upto, n
  <2> QED BY <1>2, <1>3, <1>4, <1>5, ClientBody
<1>7. End(d) = End(Taken) + n /\ UNCHANGED <<Stream, SizesOK>> /\ \A m : End(m)' = End(m)
  <2>1. End(d) = End(Taken) + n
    BY <1>3, <1>5, StreamFacts DEF ClientInv, ClientTypes
  <2>2. UNCHANGED <<Stream, SizesOK>> /\ \A m : End(m)' = End(m)
    BY <1>1 DEF Stream, SizesOK, End, Pieces, Bytes, GetSize
  <2> QED BY <2>1, <2>2
<1> HIDE DEF b, upto, n
<1>8. Taken' = d /\ m_recievedMsgs' = [i \in 1 .. d |-> i]
  <2>1. m_recievedMsgs' = Append(m_recievedMsgs, d) /\ m_recievedMsgs = [i \in 1 .. Taken |-> i]
    BY <1>4, <1>6 DEF ClientInv, InOrder
  <2>2. m_recievedMsgs \in Seq(Nat) /\ Len(m_recievedMsgs) = Taken
    BY <1>3, <2>1 DEF Taken
  <2>3. /\ Append(m_recievedMsgs, d) \in Seq(Nat) /\ Len(Append(m_recievedMsgs, d)) = d
        /\ \A i \in 1 .. d : Append(m_recievedMsgs, d)[i] = i
    BY <1>3, <2>1, <2>2, AppendProperties
  <2> DEFINE s == [i \in 1 .. d |-> i]
  <2>4. s \in Seq(Nat) /\ Len(s) = d /\ \A i \in 1 .. d : s[i] = i
    BY <1>3
  <2> HIDE DEF s
  <2>5. Append(m_recievedMsgs, d) = s
    BY <2>3, <2>4, SeqEqual
  <2> QED BY <2>1, <2>3, <2>5 DEF s, Taken
<1>9. got \in [Callbacks -> Nat] /\ \A e \in Callbacks : got'[e] = 0
  <2>1. got \in [Callbacks -> Nat] /\ \A e \in Callbacks : e # c => got[e] = 0
    BY <1>1 DEF ClientInv, ClientTypes, OneTurn
  <2> QED BY <1>1, <2>1
<1>10. ClientTypes'
  <2>1. got' \in [Callbacks -> Nat]
    BY <1>1, <1>9
  <2> QED BY <1>1, <1>7, <2>1 DEF ClientInv, ClientTypes
<1>11. InOrder'
  BY <1>3, <1>8 DEF InOrder
<1>12. OneTurn'
  BY <1>9 DEF OneTurn
<1>13. ClientPending'
  <2>1. End(Taken)' = End(d)
    BY <1>7, <1>8 DEF End
  <2>2. limit' = RECV_BUFFER_SIZE /\ position' \in 0 .. limit' /\ returned' = End(d) + position'
    <3>1. position' = upto - n /\ limit' = RECV_BUFFER_SIZE /\ returned' = End(Taken) + upto
      BY <1>1, <1>2, <1>4
    <3>2. upto \in Nat /\ n \in Nat /\ n <= upto /\ upto <= RECV_BUFFER_SIZE /\ RECV_BUFFER_SIZE \in Nat
      BY <1>2, <1>4, <1>5, FramingAssumption
    <3> HIDE DEF d
    <3>3. End(d) = End(Taken) + n /\ End(Taken) \in Nat
      BY <1>2, <1>7
    <3> QED BY <3>1, <3>2, <3>3
  <2>3. ASSUME NEW p \in 0 .. position' - 1 PROVE m_readBuffer'[p] = Stream[End(d) + 1 + p]
    <3>1. p \in Client!Cells /\ p < upto - n /\ p + n \in 0 .. upto - 1 /\ p \in Nat
      BY <1>2, <1>4, <1>5, FramingAssumption DEF Client!Cells
    <3> HIDE DEF d
    <3>4. End(Taken) + 1 + (p + n) = End(d) + 1 + p
      BY <1>2, <1>5, <1>7, <3>1
    <3>2. m_readBuffer'[p] = b[p + n]
      BY <1>4, <3>1 DEF Client!Compact
    <3>3. b[p + n] = Stream[End(Taken) + 1 + (p + n)]
      BY <1>2, <3>1 DEF Holds
    <3> QED BY <3>2, <3>3, <3>4
  <2> HIDE DEF d
  <2> QED BY <1>7, <1>9, <2>1, <2>2, <2>3 DEF ClientPending
<1> QED BY <1>10, <1>11, <1>12, <1>13 DEF ClientInv

LEMMA TearClient == ASSUME ClientInv, NEW c \in Callbacks, Client!Tear(c) PROVE ClientInv'
<1>1. /\ ~overlap /\ got[c] # 0 /\ torn' = TRUE /\ got' = [got EXCEPT ![c] = 0]
      /\ UNCHANGED <<sizes, returned, m_recievedMsgs, overlap>>
  BY DEF Client!Tear
<1>2. UNCHANGED <<Stream, SizesOK, Taken>>
  BY <1>1 DEF Stream, SizesOK, GetSize, Taken
<1>3. got \in [Callbacks -> Nat] /\ \A e \in Callbacks : got'[e] = 0
  <2>1. got \in [Callbacks -> Nat] /\ \A e \in Callbacks : e # c => got[e] = 0
    BY <1>1 DEF ClientInv, ClientTypes, OneTurn
  <2> QED BY <1>1, <2>1
<1>4. ClientTypes'
  <2>1. got' \in [Callbacks -> Nat]
    BY <1>1, <1>3
  <2> QED BY <1>1, <1>2, <2>1 DEF ClientInv, ClientTypes
<1>5. InOrder' /\ OneTurn' /\ ClientPending'
  BY <1>1, <1>2, <1>3 DEF ClientInv, InOrder, OneTurn, ClientPending
<1> QED BY <1>4, <1>5 DEF ClientInv

\* Nothing that the invariant is about changes.
LEMMA KeptClient == ASSUME ClientInv, UNCHANGED <<sizes, clientVars>> PROVE ClientInv'
<1>1. UNCHANGED <<Stream, SizesOK, Taken>> /\ \A m : End(m)' = End(m)
  BY DEF Stream, SizesOK, End, Pieces, Bytes, GetSize, Taken, clientVars
<1> QED BY <1>1 DEF ClientInv, ClientTypes, InOrder, OneTurn, ClientPending, clientVars

LEMMA NextClient == ASSUME ClientInv, Client!Next PROVE ClientInv'
  BY ReceiveClient, TakeMessageClient, TearClient DEF Client!Next

LEMMA ClientProperty == ASSUME ClientInv PROVE Unbroken
<1> DEFINE first == [m \in 1 .. Taken |-> [i \in 1 .. GetSize(m) |-> <<m, i>>]]
           taken == FlattenSeq(first)
<1>1. Len(taken) = End(Taken)
  <2>1. \A m \in 1 .. Taken : m \in Msgs
    BY FramingAssumption DEF ClientInv, InOrder, Msgs
  <2>2. first = Firsts(Pieces, Taken)
    BY <2>1 DEF Firsts, Pieces, Bytes
  <2> QED BY <2>2 DEF End, Bound
<1>2. m_recievedMsgs = [i \in DOMAIN m_recievedMsgs |-> i]
  BY DEF ClientInv, InOrder
<1>3. ASSUME ~torn, ~overlap, \A c \in Callbacks : got[c] = 0
      PROVE  /\ position = returned - Len(taken)
             /\ \A p \in 0 .. position - 1 : m_readBuffer[p] = Stream[Len(taken) + 1 + p]
  <2>1. /\ returned = End(Taken) + position /\ position \in Nat /\ End(Taken) \in Nat
        /\ \A p \in 0 .. position - 1 : m_readBuffer[p] = Stream[End(Taken) + 1 + p]
    BY <1>3, StreamFacts, FramingAssumption DEF ClientInv, ClientTypes, InOrder, ClientPending
  <2> HIDE DEF taken
  <2> QED BY <1>1, <2>1
<1>4. Unbroken <=> /\ m_recievedMsgs = [i \in DOMAIN m_recievedMsgs |-> i]
                   /\ ~torn /\ ~overlap /\ (\A c \in Callbacks : got[c] = 0) =>
                         /\ position = returned - Len(taken)
                         /\ \A p \in 0 .. position - 1 : m_readBuffer[p] = Stream[Len(taken) + 1 + p]
  <2>1. \A s : Client!FlattenSeq(s) = FlattenSeq(s)
    BY Zenon DEF Client!FlattenSeq, FlattenSeq
  <2> QED BY <2>1, ClientSame DEF Unbroken, Client!Unbroken, Taken
<1> HIDE DEF taken
<1> QED BY <1>2, <1>3, <1>4

-----------------------------------------------------------------------------
(***************************************************************************)
(* The server's sending end.                                               *)
(***************************************************************************)
\* The messages that Send has put into the buffer, and their bytes.
Parts    == [i \in DOMAIN buffered |-> Bytes(buffered[i])]
Promised == FlattenSeq(Parts)
Lost     == 1 .. asked \ ToSet(buffered)

LEMMA SocketSame ==
    /\ \A m : Socket!GetSize(m) = GetSize(m) /\ Socket!Bytes(m) = Bytes(m)
    /\ Socket!SentWhole <=>
        /\ ~short => wire \o m_send_buffer = Promised
        /\ \A i, j \in DOMAIN buffered : i < j => buffered[i] < buffered[j]
        /\ server = "World" => /\ m_send_buffer = <<>>
                               /\ \A m \in Lost : GetSize(m) > SEND_BUFFER_SIZE
        /\ server = "MyServer" => \A m \in Lost : Len(Promised) + GetSize(m) > SEND_BUFFER_SIZE
<1>1. \A m : Socket!GetSize(m) = GetSize(m)
  BY DEF Socket!GetSize, GetSize
<1>2. \A m : Socket!Bytes(m) = Bytes(m)
  BY <1>1 DEF Socket!Bytes, Bytes
<1>3. \A s : Socket!FlattenSeq(s) = FlattenSeq(s)
  BY Zenon DEF Socket!FlattenSeq, FlattenSeq
<1>4. \A s : Socket!ToSet(s) = ToSet(s)
  BY Zenon DEF Socket!ToSet, ToSet
<1>5. [i \in DOMAIN buffered |-> Socket!Bytes(buffered[i])] = Parts
  BY <1>2 DEF Parts
<1> QED BY <1>1, <1>2, <1>3, <1>4, <1>5 DEF Socket!SentWhole, Promised, Lost

SocketTypes == /\ SizesOK /\ server \in {"World", "MyServer"} /\ asked \in 0 .. MaxMsgs
               /\ buffered \in Seq(1 .. asked) /\ wire \in Seq(Byte) /\ m_send_buffer \in Seq(Byte)

Increasing == \A i, j \in DOMAIN buffered : i < j => buffered[i] < buffered[j]

\* What is on the wire and in the buffer; only the World ever gives the buffer
\* to send, and gives all of it.
WhereBytesAre == /\ ~short => wire \o m_send_buffer = Promised
                 /\ server = "World" => m_send_buffer = <<>>
                 /\ server = "MyServer" => ~short /\ wire = <<>>

\* The messages that did not fit.
WhyLost == /\ server = "World" => \A m \in Lost : GetSize(m) > SEND_BUFFER_SIZE
           /\ server = "MyServer" => \A m \in Lost : Len(Promised) + GetSize(m) > SEND_BUFFER_SIZE

SocketInv == SocketTypes /\ Increasing /\ WhereBytesAre /\ WhyLost

LEMMA PromisedFacts == ASSUME SocketTypes
                       PROVE  Parts \in Seq(Seq(Byte)) /\ Promised \in Seq(Byte) /\ Len(Promised) \in Nat
<1>1. \A i \in DOMAIN buffered : Bytes(buffered[i]) \in Seq(Byte)
  <2>1. \A m \in 1 .. asked : m \in Msgs
    BY FramingAssumption DEF SocketTypes, Msgs
  <2>2. \A i \in DOMAIN buffered : buffered[i] \in 1 .. asked
    BY DEF SocketTypes
  <2> QED BY <2>1, <2>2, PieceFacts DEF SocketTypes
<1>2. Parts \in Seq(Seq(Byte))
  <2>1. DOMAIN buffered = 1 .. Len(buffered) /\ Len(buffered) \in Nat
    BY DEF SocketTypes
  <2> QED BY <1>1, <2>1 DEF Parts
<1>3. <<>> \in Seq(Byte)
  OBVIOUS
<1>4. Promised \in Seq(Byte)
  BY <1>2, <1>3, FlattenAppend DEF Promised
<1> QED BY <1>2, <1>4, LenProperties

\* A sequence over a set is one over a larger set.
LEMMA SeqWiden == ASSUME NEW S, NEW T, S \subseteq T, NEW s \in Seq(S) PROVE s \in Seq(T)
<1>1. Len(s) \in Nat /\ s \in [1 .. Len(s) -> S]
  BY LenProperties
<1>2. s \in [1 .. Len(s) -> T]
  BY <1>1
<1> QED BY <1>1, <1>2, SeqDef

LEMMA InitSocket == ASSUME Init, Socket!Init PROVE SocketInv
<1>1. /\ server \in {"World", "MyServer"} /\ asked = 0 /\ m_send_buffer = <<>> /\ wire = <<>>
      /\ buffered = <<>> /\ short = FALSE
  BY DEF Socket!Init
<1>2. SocketTypes
  <2>1. SizesOK /\ MaxMsgs \in Nat /\ <<>> \in Seq(Byte) /\ <<>> \in Seq(1 .. 0)
    BY FramingAssumption DEF Init, SizesOK
  <2> QED BY <1>1, <2>1 DEF SocketTypes
<1>3. Parts = <<>>
  BY <1>1 DEF Parts
<1>4. Promised = <<>>
  BY <1>3 DEF Promised, FlattenSeq
<1>5. WhereBytesAre
  <2>1. wire \o m_send_buffer = <<>>
    BY <1>1
  <2> QED BY <1>1, <1>4, <2>1 DEF WhereBytesAre
<1>6. Increasing /\ WhyLost
  BY <1>1 DEF Increasing, WhyLost, Lost
<1> QED BY <1>2, <1>5, <1>6 DEF SocketInv

\* A message is given to Send: what becomes of the messages buffered, in
\* whichever of its callers.
LEMMA GiveFacts ==
    ASSUME SocketInv, NEW m, Socket!Give(m)
    PROVE  /\ m = asked + 1 /\ asked' = m /\ m \in Msgs /\ asked' \in 0 .. MaxMsgs
           /\ UNCHANGED <<sizes, server, SizesOK>>
           /\ GetSize(m) \in Nat /\ Bytes(m) \in Seq(Byte) /\ Len(Bytes(m)) = GetSize(m)
           /\ buffered' \in Seq(1 .. asked') /\ Increasing'
           /\ Socket!Fits(m) => /\ Socket!Send(m) = m_send_buffer \o Bytes(m)
                                /\ Promised' = Promised \o Bytes(m) /\ Lost' \subseteq Lost
           /\ ~Socket!Fits(m) => /\ Socket!Send(m) = m_send_buffer
                                 /\ Promised' = Promised /\ Lost' \subseteq Lost \cup {m}
                                 /\ Len(m_send_buffer) + GetSize(m) > SEND_BUFFER_SIZE
<1>1. /\ m = asked + 1 /\ asked' = m /\ asked < MaxMsgs /\ UNCHANGED <<sizes, server>>
      /\ buffered' = IF Socket!Fits(m) THEN Append(buffered, m) ELSE buffered
  BY DEF Socket!Give
<1>2. asked \in Nat /\ MaxMsgs \in Nat /\ asked <= MaxMsgs /\ buffered \in Seq(1 .. asked)
      /\ SEND_BUFFER_SIZE \in Nat /\ m_send_buffer \in Seq(Byte) /\ Len(m_send_buffer) \in Nat
  BY FramingAssumption, StreamsAssumption DEF SocketInv, SocketTypes
<1>3. m \in Msgs /\ asked' \in 0 .. MaxMsgs /\ m \in Nat
  BY <1>1, <1>2 DEF Msgs
<1>4. GetSize(m) \in Nat /\ Bytes(m) \in Seq(Byte) /\ Len(Bytes(m)) = GetSize(m)
  BY <1>3, SizeFacts, PieceFacts DEF SocketInv, SocketTypes
<1>5. SizesOK' = SizesOK /\ \A k : Bytes(k)' = Bytes(k)
  BY <1>1 DEF SizesOK, Bytes, GetSize
<1>6. CASE Socket!Fits(m)
  <2>1. buffered' = Append(buffered, m) /\ Socket!Send(m) = m_send_buffer \o Bytes(m)
    BY <1>1, <1>6, SocketSame DEF Socket!Send
  <2>2. /\ Append(buffered, m) \in Seq(1 .. asked') /\ Len(Append(buffered, m)) = Len(buffered) + 1
        /\ \A i \in 1 .. Len(buffered) : Append(buffered, m)[i] = buffered[i]
        /\ Append(buffered, m)[Len(buffered) + 1] = m /\ Len(buffered) \in Nat
    <3>1. buffered \in Seq(1 .. asked') /\ m \in 1 .. asked'
      <4>1. 1 .. asked \subseteq 1 .. asked' /\ m \in 1 .. asked'
        BY <1>1, <1>2
      <4> QED BY <1>2, <4>1, SeqWiden
    <3> QED BY <3>1, AppendProperties, LenProperties
  <2> DEFINE len == Len(buffered)
  <2>3. /\ buffered' \in Seq(1 .. asked') /\ DOMAIN buffered' = 1 .. len + 1 /\ DOMAIN buffered = 1 .. len
        /\ len \in Nat /\ \A i \in 1 .. len : buffered'[i] = buffered[i] /\ buffered[i] \in 1 .. asked
        /\ buffered'[len + 1] = m
    BY <1>2, <2>1, <2>2
  <2> HIDE DEF len
  <2>4. Increasing'
    <3> SUFFICES ASSUME NEW i \in 1 .. len + 1, NEW j \in 1 .. len + 1, i < j
                 PROVE  buffered'[i] < buffered'[j]
      BY <2>3 DEF Increasing
    <3>1. i \in 1 .. len /\ buffered'[i] = buffered[i] /\ buffered[i] \in 1 .. asked
      BY <2>3
    <3>2. CASE j = len + 1
      <4>1. buffered'[j] = asked + 1
        BY <1>1, <2>3, <3>2
      <4> QED BY <1>2, <3>1, <4>1
    <3>3. CASE j # len + 1
      BY <2>3, <3>1, <3>3 DEF SocketInv, Increasing
    <3> QED BY <3>2, <3>3
  <2>5. Parts' = Append(Parts, Bytes(m))
    <3>1. Parts \in Seq(Seq(Byte)) /\ Len(Parts) = len /\ \A i \in 1 .. len : Parts[i] = Bytes(buffered[i])
      BY <2>3, PromisedFacts DEF Parts, SocketInv
    <3>2. /\ Append(Parts, Bytes(m)) \in Seq(Seq(Byte)) /\ Len(Append(Parts, Bytes(m))) = len + 1
          /\ \A i \in 1 .. len : Append(Parts, Bytes(m))[i] = Bytes(buffered[i])
          /\ Append(Parts, Bytes(m))[len + 1] = Bytes(m)
      <4> DEFINE e == Bytes(m)
      <4>1. e \in Seq(Byte)
        BY <1>4
      <4> HIDE DEF e
      <4>2. /\ Append(Parts, e) \in Seq(Seq(Byte)) /\ Len(Append(Parts, e)) = len + 1
            /\ \A i \in 1 .. len : Append(Parts, e)[i] = Parts[i]
            /\ Append(Parts, e)[len + 1] = e
        BY <3>1, <4>1, AppendProperties
      <4> QED BY <3>1, <4>2 DEF e
    <3>3. Parts' = [i \in 1 .. len + 1 |-> Bytes(buffered'[i])]
      BY <1>5, <2>3 DEF Parts
    <3> DEFINE s == [i \in 1 .. len + 1 |-> Bytes(buffered'[i])]
    <3>4. \A i \in 1 .. len + 1 : s[i] = Append(Parts, Bytes(m))[i] /\ s[i] \in Seq(Byte)
      <4>1. \A i \in 1 .. len + 1 : i # len + 1 => i \in 1 .. len
        BY <2>3
      <4>2. \A i \in 1 .. len : Bytes(buffered[i]) \in Seq(Byte)
        BY <3>1
      <4> QED BY <1>4, <2>3, <3>2, <4>1, <4>2
    <3>5. s \in Seq(Seq(Byte)) /\ Len(s) = len + 1
      BY <2>3, <3>4
    <3> HIDE DEF s
    <3>6. s = Append(Parts, Bytes(m))
      BY <3>2, <3>4, <3>5, SeqEqual
    <3> QED BY <3>3, <3>6 DEF s
  <2>6. Promised' = Promised \o Bytes(m)
    <3>1. Parts \in Seq(Seq(Byte))
      BY PromisedFacts DEF SocketInv
    <3>2. FlattenSeq(Append(Parts, Bytes(m))) = FlattenSeq(Parts) \o Bytes(m)
      BY <1>4, <3>1, FlattenAppend
    <3>3. Promised' = FlattenSeq(Parts')
      BY Zenon DEF Promised, FlattenSeq
    <3> QED BY <2>5, <3>2, <3>3 DEF Promised
  <2>7. Lost' \subseteq Lost
    <3>1. \A x \in ToSet(buffered) : x \in ToSet(buffered)'
      BY <2>3 DEF ToSet
    <3>2. m \in ToSet(buffered)'
      BY <2>3 DEF ToSet
    <3>3. \A x \in 1 .. asked' : x # m => x \in 1 .. asked
      BY <1>1, <1>2
    <3> QED BY <3>1, <3>2, <3>3 DEF Lost
  <2> QED BY <1>1, <1>3, <1>4, <1>5, <1>6, <2>1, <2>3, <2>4, <2>6, <2>7
<1>7. CASE ~Socket!Fits(m)
  <2>1. buffered' = buffered /\ Socket!Send(m) = m_send_buffer
    BY <1>1, <1>7 DEF Socket!Send
  <2>2. Promised' = Promised
    BY <1>5, <2>1 DEF Promised, Parts
  <2>3. Lost' \subseteq Lost \cup {m}
    BY <1>1, <1>2, <2>1 DEF Lost
  <2>4. Len(m_send_buffer) + GetSize(m) > SEND_BUFFER_SIZE
    <3>1. ~(Len(m_send_buffer) + GetSize(m) <= SEND_BUFFER_SIZE)
      BY <1>7, SocketSame DEF Socket!Fits, Socket!m_lastSendPos
    <3> QED BY <1>2, <1>4, <3>1
  <2>5. buffered' \in Seq(1 .. asked') /\ Increasing'
    <3>1. 1 .. asked \subseteq 1 .. asked'
      BY <1>1, <1>2
    <3>2. buffered' \in Seq(1 .. asked')
      BY <1>2, <2>1, <3>1, SeqWiden
    <3> QED BY <2>1, <3>2 DEF SocketInv, Increasing
  <2> QED BY <1>1, <1>3, <1>4, <1>5, <1>7, <2>1, <2>2, <2>3, <2>4, <2>5
<1> QED BY <1>6, <1>7

LEMMA OnMessageSocket == ASSUME SocketInv, NEW m, Socket!OnMessage(m) PROVE SocketInv'
<1>1. /\ server = "MyServer" /\ Socket!Give(m) /\ m_send_buffer' = Socket!Send(m)
      /\ UNCHANGED <<wire, short>>
  BY DEF Socket!OnMessage
<1>2. /\ m \in Msgs /\ asked' \in 0 .. MaxMsgs /\ UNCHANGED <<sizes, server, SizesOK>>
      /\ GetSize(m) \in Nat /\ Bytes(m) \in Seq(Byte) /\ Len(Bytes(m)) = GetSize(m)
      /\ buffered' \in Seq(1 .. asked') /\ Increasing'
  BY <1>1, GiveFacts
<1>3. ~short /\ wire = <<>> /\ wire \o m_send_buffer = Promised /\ m_send_buffer \in Seq(Byte)
      /\ SEND_BUFFER_SIZE \in Nat /\ \A k \in Lost : Len(Promised) + GetSize(k) > SEND_BUFFER_SIZE
  BY <1>1, StreamsAssumption DEF SocketInv, SocketTypes, WhereBytesAre, WhyLost
<1>4. m_send_buffer = Promised
  BY <1>3
<1>5. Promised \in Seq(Byte) /\ Len(Promised) \in Nat
  BY PromisedFacts DEF SocketInv
<1>6. m_send_buffer' = Promised' /\ m_send_buffer' \in Seq(Byte)
      /\ \A k \in Lost' : Len(Promised') + GetSize(k) > SEND_BUFFER_SIZE
  <2>1. CASE Socket!Fits(m)
    <3>1. m_send_buffer' = Promised \o Bytes(m) /\ Promised' = Promised \o Bytes(m) /\ Lost' \subseteq Lost
      BY <1>1, <1>4, <2>1, GiveFacts
    <3>2. Promised \o Bytes(m) \in Seq(Byte) /\ Len(Promised \o Bytes(m)) = Len(Promised) + GetSize(m)
      BY <1>2, <1>5, ConcatProperties
    <3>3. ASSUME NEW k \in Lost' PROVE Len(Promised') + GetSize(k) > SEND_BUFFER_SIZE
      <4>1. Len(Promised) + GetSize(k) > SEND_BUFFER_SIZE
        BY <1>3, <3>1
      <4>2. GetSize(k) \in Nat
        <5>1. k \in Msgs
          BY <1>2, FramingAssumption DEF Lost, Msgs
        <5> QED BY <5>1, SizeFacts DEF SocketInv, SocketTypes
      <4>3. Len(Promised') = Len(Promised) + GetSize(m)
        BY <3>1, <3>2
      <4> QED BY <1>2, <1>3, <1>5, <4>1, <4>2, <4>3
    <3> QED BY <3>1, <3>2, <3>3
  <2>2. CASE ~Socket!Fits(m)
    BY <1>1, <1>3, <1>4, <1>5, <2>2, GiveFacts
  <2> QED BY <2>1, <2>2
<1>7. SocketTypes'
  BY <1>1, <1>2, <1>6 DEF SocketInv, SocketTypes
<1>8. WhereBytesAre'
  <2>1. <<>> \o m_send_buffer' = m_send_buffer'
    BY <1>6, ConcatEmptySeq
  <2> QED BY <1>1, <1>2, <1>3, <1>6, <2>1 DEF WhereBytesAre
<1>9. WhyLost'
  <2>1. \A k : GetSize(k)' = GetSize(k)
    BY <1>2 DEF GetSize
  <2> QED BY <1>1, <1>2, <1>6, <2>1 DEF WhyLost
<1> QED BY <1>2, <1>7, <1>8, <1>9 DEF SocketInv

LEMMA SendImmSocket == ASSUME SocketInv, NEW m, Socket!SendImm(m) PROVE SocketInv'
<1> DEFINE sent == Socket!Send(m)
<1>1. PICK n \in 0 .. Len(sent) :
          /\ wire' = wire \o SubSeq(sent, 1, n)
          /\ short' = (short \/ n < Len(sent))
  BY DEF Socket!SendImm
<1>2. server = "World" /\ Socket!Give(m) /\ m_send_buffer' = <<>>
  BY DEF Socket!SendImm, Socket!AfterSend
<1>3. /\ m \in Msgs /\ asked' \in 0 .. MaxMsgs /\ UNCHANGED <<sizes, server, SizesOK>>
      /\ GetSize(m) \in Nat /\ Bytes(m) \in Seq(Byte) /\ Len(Bytes(m)) = GetSize(m)
      /\ buffered' \in Seq(1 .. asked') /\ Increasing'
  BY <1>2, GiveFacts
<1>4. m_send_buffer = <<>> /\ SEND_BUFFER_SIZE \in Nat /\ wire \in Seq(Byte)
      /\ \A k \in Lost : GetSize(k) > SEND_BUFFER_SIZE
  BY <1>2, StreamsAssumption DEF SocketInv, SocketTypes, WhereBytesAre, WhyLost
<1>5. /\ sent \in Seq(Byte) /\ \A k \in Lost' : GetSize(k) > SEND_BUFFER_SIZE
      /\ Promised = wire => Promised' = wire \o sent
  <2>1. CASE Socket!Fits(m)
    <3>1. sent = <<>> \o Bytes(m) /\ Promised' = Promised \o Bytes(m) /\ Lost' \subseteq Lost
      BY <1>2, <1>4, <2>1, GiveFacts
    <3>2. sent = Bytes(m)
      BY <1>3, <3>1, ConcatEmptySeq
    <3> QED BY <1>3, <1>4, <3>1, <3>2
  <2>2. CASE ~Socket!Fits(m)
    <3>1. sent = <<>> /\ Promised' = Promised /\ Lost' \subseteq Lost \cup {m}
          /\ 0 + GetSize(m) > SEND_BUFFER_SIZE
      BY <1>2, <1>4, <2>2, GiveFacts
    <3>2. wire \o <<>> = wire /\ <<>> \in Seq(Byte)
      BY <1>4, ConcatEmptySeq
    <3> QED BY <1>3, <1>4, <3>1, <3>2
  <2> QED BY <2>1, <2>2
<1> HIDE DEF sent
<1>6. Len(sent) \in Nat /\ n \in Nat /\ n <= Len(sent) /\ SubSeq(sent, 1, n) \in Seq(Byte)
      /\ (n = Len(sent) => SubSeq(sent, 1, n) = sent)
  <2>1. Len(sent) \in Nat /\ n \in Nat /\ n <= Len(sent)
    BY <1>5, LenProperties
  <2>2. SubSeq(sent, 1, n) \in Seq(Byte)
    <3>1. \A i \in 1 .. n : sent[i] \in Byte
      BY <1>5, <2>1
    <3> QED BY <1>5, <2>1, <3>1, SubSeqProperties
  <2>3. SubSeq(sent, 1, Len(sent)) = sent
    BY <1>5, <2>1
  <2> QED BY <2>1, <2>2, <2>3
<1>7. wire' \in Seq(Byte)
  BY <1>1, <1>4, <1>6, ConcatProperties
<1>8. SocketTypes'
  <2>1. <<>> \in Seq(Byte)
    OBVIOUS
  <2> QED BY <1>2, <1>3, <1>7, <2>1 DEF SocketInv, SocketTypes
<1>9. ~short' => wire' \o m_send_buffer' = Promised'
  <2> SUFFICES ASSUME ~short' PROVE wire' \o <<>> = Promised'
    BY <1>2
  <2>1. ~short /\ n = Len(sent)
    <3>1. ~(short \/ n < Len(sent))
      BY Zenon, <1>1
    <3>2. ~short /\ ~(n < Len(sent))
      BY Zenon, <3>1
    <3> QED BY <1>6, <3>2
  <2>2. wire \o <<>> = Promised
    BY <1>4, <2>1 DEF SocketInv, WhereBytesAre
  <2>3. wire \o <<>> = wire /\ wire' \o <<>> = wire'
    BY <1>4, <1>7, ConcatEmptySeq
  <2> QED BY <1>1, <1>5, <1>6, <2>1, <2>2, <2>3
<1>10. WhereBytesAre'
  BY <1>2, <1>3, <1>9 DEF WhereBytesAre
<1>11. WhyLost'
  <2>1. \A k : GetSize(k)' = GetSize(k)
    BY <1>3 DEF GetSize
  <2> QED BY <1>2, <1>3, <1>5, <2>1 DEF WhyLost
<1> QED BY <1>3, <1>8, <1>10, <1>11 DEF SocketInv

\* Nothing that the invariant is about changes.
LEMMA KeptSocket == ASSUME SocketInv, UNCHANGED <<sizes, socketVars>> PROVE SocketInv'
<1>1. UNCHANGED <<SizesOK, Parts, Promised, Lost>> /\ \A m : GetSize(m)' = GetSize(m)
  BY DEF SizesOK, Parts, Promised, Lost, Bytes, GetSize, socketVars
<1> QED BY <1>1 DEF SocketInv, SocketTypes, Increasing, WhereBytesAre, WhyLost, socketVars

LEMMA NextSocket == ASSUME SocketInv, Socket!Next PROVE SocketInv'
  BY OnMessageSocket, SendImmSocket DEF Socket!Next

LEMMA SocketProperty == ASSUME SocketInv PROVE SentWhole
  BY SocketSame DEF SocketInv, Increasing, WhereBytesAre, WhyLost, SentWhole

-----------------------------------------------------------------------------
StreamsInv == CellInv /\ ClientInv /\ SocketInv

LEMMA InitStreams == StreamsInit => StreamsInv
  BY InitCell, InitClient, InitSocket DEF StreamsInit, StreamsInv

LEMMA NextStreams == StreamsInv /\ [StreamsNext]_<<vars, end, clientVars, socketVars>> => StreamsInv'
<1> SUFFICES ASSUME StreamsInv, [StreamsNext]_<<vars, end, clientVars, socketVars>> PROVE StreamsInv'
  OBVIOUS
<1>1. ASSUME Next, UNCHANGED <<clientVars, socketVars>> PROVE StreamsInv'
  <2>1. UNCHANGED sizes
    BY <1>1 DEF Next, Recv, RecvNothing, HangUp, Incomplete, Message
  <2> QED BY <1>1, <2>1, NextCell, KeptClient, KeptSocket DEF StreamsInv
<1>2. ASSUME Socket!Next, UNCHANGED <<cellVars, clientVars>> PROVE StreamsInv'
  <2>1. UNCHANGED sizes
    BY <1>2 DEF Socket!Next, Socket!OnMessage, Socket!SendImm, Socket!Give
  <2>2. UNCHANGED vars
    BY <1>2, <2>1 DEF vars, cellVars
  <2> QED BY <1>2, <2>1, <2>2, NextSocket, NextCell, KeptClient DEF StreamsInv
<1>3. ASSUME Client!Next, UNCHANGED <<cellVars, socketVars>> PROVE StreamsInv'
  <2>1. UNCHANGED sizes
    BY <1>3 DEF Client!Next, Client!Receive, Client!TakeMessage, Client!Tear
  <2>2. UNCHANGED vars
    BY <1>3, <2>1 DEF vars, cellVars
  <2> QED BY <1>3, <2>1, <2>2, NextClient, NextCell, KeptSocket DEF StreamsInv
<1>4. ASSUME UNCHANGED <<vars, end, clientVars, socketVars>> PROVE StreamsInv'
  <2>1. UNCHANGED sizes /\ UNCHANGED vars /\ UNCHANGED clientVars /\ UNCHANGED socketVars
    BY <1>4 DEF vars
  <2> QED BY <2>1, NextCell, KeptClient, KeptSocket DEF StreamsInv
<1> QED BY <1>1, <1>2, <1>3, <1>4 DEF StreamsNext

LEMMA SpecStreams == StreamsSpec => []StreamsInv
  BY InitStreams, NextStreams, PTL DEF StreamsSpec

\* Cell::Recv: however recv cuts the stream, the messages given to OnMessageProc
\* are the peer's, whole, in order and once, until a memmove leaves bytes behind.
THEOREM FramedHolds == StreamsSpec => []Framed
<1>1. StreamsInv => Framed
  BY CellProperties DEF StreamsInv
<1> QED BY <1>1, SpecStreams, PTL

\* Cell::Recv: a message received to its last byte has been delivered before the
\* next recv.
THEOREM PromptHolds == StreamsSpec => []Prompt
<1>1. StreamsInv => Prompt
  BY CellProperties DEF StreamsInv
<1> QED BY <1>1, SpecStreams, PTL

\* Cell::Recv: a connection is given up only when the peer closed it, or one of
\* its messages is longer than the receive buffer.
THEOREM ExitJustifiedHolds == StreamsSpec => []ExitJustified
<1>1. StreamsInv => ExitJustified
  BY CellProperties DEF StreamsInv
<1> QED BY <1>1, SpecStreams, PTL

\* C_TcpClient.GetMsg: the messages taken out are the server's, in order and
\* once, and as long as every turn found a whole one and no two turns overlapped,
\* the buffer is exactly what has been received and not yet taken out.
THEOREM UnbrokenHolds == StreamsSpec => []Unbroken
<1>1. StreamsInv => Unbroken
  BY ClientProperty DEF StreamsInv
<1> QED BY <1>1, SpecStreams, PTL

\* ClientSocket::Send and SendImm: as long as send takes all it is given, wire
\* and buffer are whole messages, in order and once, and only those are missing
\* that did not fit.
THEOREM SentWholeHolds == StreamsSpec => []SentWhole
<1>1. StreamsInv => SentWhole
  BY SocketProperty DEF StreamsInv
<1> QED BY <1>1, SpecStreams, PTL
===============================================================================
