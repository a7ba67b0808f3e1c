-------------------------------- MODULE Framing --------------------------------
(***************************************************************************)
(* Cell::Recv and the receive buffer of ClientSocket (cell.cpp,            *)
(* client_socket.cpp): the byte stream of a connection is cut back into    *)
(* the messages the peer sent.                                             *)
(*                                                                         *)
(* A byte is <<m, i>>, the i-th byte of message m.  On the wire a message  *)
(* is its size in HEADER_LEN_BYTES, its type, and its data; size counts    *)
(* the last two.  recv returns any part of the stream that fits, so the    *)
(* stream may be cut anywhere.                                             *)
(***************************************************************************)
EXTENDS Integers, Sequences, SequencesExt

CONSTANTS RECV_BUFFER_SIZE, HEADER_LEN_BYTES, HEADER_TYPE_BYTES,
          Sizes,      \* values of size in the messages the peer sends
          MaxMsgs,    \* bound on the messages of one connection
          Other       \* a byte that is not from the stream

HEADER_SIZE == HEADER_LEN_BYTES + HEADER_TYPE_BYTES

ASSUME FramingAssumption == /\ RECV_BUFFER_SIZE \in Nat /\ MaxMsgs \in Nat
                            /\ HEADER_LEN_BYTES \in Nat \ {0}
                            /\ HEADER_TYPE_BYTES \in Nat \ {0}
                            /\ HEADER_SIZE <= RECV_BUFFER_SIZE
                            /\ \A s \in Sizes : s \in Nat /\ s >= HEADER_TYPE_BYTES

Msgs      == 1 .. MaxMsgs
Positions == 0 .. RECV_BUFFER_SIZE - 1

VARIABLES sizes,         \* of the messages of this connection
          received,      \* bytes of the stream recv has returned
          hungup,        \* the peer has closed the connection
          m_buffer_msg, m_lastPos,
          pc,            \* before recv, in Recv's loop, or left with -1
          delivered,     \* history: messages given to OnMessageProc, 0 for bytes
                         \* that are not one message
          cut            \* history: a memmove left bytes behind

vars == <<sizes, received, hungup, m_buffer_msg, m_lastPos, pc, delivered, cut>>

\* Bytes of message m on the wire: MessageBody::GetSize.
GetSize(m) == sizes[m] + HEADER_LEN_BYTES

Stream == FlattenSeq([m \in Msgs |-> [i \in 1 .. GetSize(m) |-> <<m, i>>]])

TypeOK == /\ sizes \in [Msgs -> Sizes]
          /\ received \in Nat /\ hungup \in BOOLEAN /\ cut \in BOOLEAN
          /\ m_buffer_msg \in [Positions -> (Msgs \X Nat) \cup {Other}]
          /\ m_lastPos \in 0 .. RECV_BUFFER_SIZE
          /\ pc \in {"recv", "loop", "exit"}
          /\ delivered \in Seq(Msgs \cup {0})

Init == /\ sizes \in [Msgs -> Sizes]
        /\ received = 0 /\ hungup = FALSE
        /\ m_buffer_msg = [p \in Positions |-> Other]
        /\ m_lastPos = 0
        /\ pc = "recv" /\ delivered = <<>> /\ cut = FALSE

-----------------------------------------------------------------------------
\* recv returns n bytes, behind those that are in the buffer already.
Recv(n) ==
    /\ pc = "recv" /\ ~hungup
    /\ n <= RECV_BUFFER_SIZE - m_lastPos
    /\ received + n <= Len(Stream)
    /\ m_buffer_msg' = [p \in Positions |->
                           IF p \in m_lastPos .. m_lastPos + n - 1
                           THEN Stream[received + 1 + p - m_lastPos]
                           ELSE m_buffer_msg[p]]
    /\ m_lastPos' = m_lastPos + n
    /\ received' = received + n
    /\ pc' = "loop"
    /\ UNCHANGED <<sizes, hungup, delivered, cut>>

\* recv returns 0, because the peer has closed the connection, or because it
\* was asked for 0 bytes.  Either way Recv returns -1.
RecvNothing ==
    /\ pc = "recv"
    /\ \/ hungup
       \/ m_lastPos = RECV_BUFFER_SIZE /\ received < Len(Stream)
    /\ pc' = "exit"
    /\ UNCHANGED <<sizes, received, hungup, m_buffer_msg, m_lastPos, delivered, cut>>

\* The peer closes the connection, in the middle of a message perhaps.
HangUp == /\ ~hungup
          /\ hungup' = TRUE
          /\ UNCHANGED <<sizes, received, m_buffer_msg, m_lastPos, pc, delivered, cut>>

\* The values the first HEADER_LEN_BYTES of the buffer may have as a number:
\* the size of a message, or, when they are not a size, anything.
Lengths ==
    LET sizesOf == {m \in Msgs : \A i \in 1 .. HEADER_LEN_BYTES : m_buffer_msg[i - 1] = <<m, i>>}
    IN  IF sizesOf # {} THEN {sizes[m] : m \in sizesOf} ELSE -1 .. RECV_BUFFER_SIZE

\* Bug: the last byte is waited for, and one more.
BugGetPackageLength(len) == IF m_lastPos > len + HEADER_LEN_BYTES THEN len ELSE -1

GetPackageLength(len) == IF m_lastPos >= len + HEADER_LEN_BYTES THEN len ELSE -1

\* Not a header yet, or not a whole message: Recv returns.
Incomplete ==
    /\ pc = "loop"
    /\ \/ m_lastPos < HEADER_SIZE
       \/ \E len \in Lengths : GetPackageLength(len) < 0
    /\ pc' = "recv"
    /\ UNCHANGED <<sizes, received, hungup, m_buffer_msg, m_lastPos, delivered, cut>>

\* The message that the first n bytes of the buffer are.
Body(n) == CHOOSE m \in Msgs \cup {0} :
               \/ /\ m # 0 /\ n = GetSize(m)
                  /\ \A i \in 1 .. n : m_buffer_msg[i - 1] = <<m, i>>
               \/ /\ m = 0
                  /\ ~\E k \in Msgs : /\ n = GetSize(k)
                                      /\ \A i \in 1 .. n : m_buffer_msg[i - 1] = <<k, i>>

\* Bug: the first byte of the next message is overwritten.
BugMemmove(n) == [p \in Positions |-> IF p < n /\ p + n + 1 \in Positions
                                      THEN m_buffer_msg[p + n + 1] ELSE m_buffer_msg[p]]

\* memmove(buffer, buffer + n, n): n bytes and no more come to the front.
\* Behind the end of the buffer it reads what is not from the stream.
Memmove(n) == [p \in Positions |-> IF p >= n THEN m_buffer_msg[p]
                                   ELSE IF p + n \in Positions THEN m_buffer_msg[p + n]
                                   ELSE Other]

\* Bug: one message for every recv.
BugIsFinish(rest) == TRUE

IsFinish(rest) == rest <= 0

\* The message at the front goes to OnMessageProc and out of the buffer.
Message ==
    /\ pc = "loop" /\ m_lastPos >= HEADER_SIZE
    /\ \E len \in Lengths :
          LET body_size == len + HEADER_LEN_BYTES
              rest      == m_lastPos - body_size
          IN  /\ GetPackageLength(len) >= 0
              /\ m_buffer_msg' = Memmove(body_size)
              /\ m_lastPos' = rest
              /\ delivered' = Append(delivered, Body(body_size))
              /\ cut' = (cut \/ rest > body_size)
              /\ pc' = IF IsFinish(rest) THEN "recv" ELSE "loop"
    /\ UNCHANGED <<sizes, received, hungup>>

Next == \/ \E n \in 1 .. RECV_BUFFER_SIZE : Recv(n)
        \/ RecvNothing \/ HangUp \/ Incomplete \/ Message

Spec == Init /\ [][Next]_vars

-----------------------------------------------------------------------------
(***************************************************************************)
(* Properties.                                                             *)
(***************************************************************************)

\* What the comment on m_lastPos says: the buffer up to its tail is what has
\* been received and not yet delivered.
TailIsPending ==
    [i \in 1 .. m_lastPos |-> m_buffer_msg[i - 1]]
        = SubSeq(Stream, received - m_lastPos + 1, received)

\* Wherever the stream is cut, the messages are delivered whole, in order and
\* once, until a memmove leaves bytes behind: that is, until more bytes follow
\* a message in the buffer than the message has itself.
Framed == ~cut => delivered = [i \in DOMAIN delivered |-> i]

\* No message that has been received to its last byte waits for another recv.
Prompt == ~cut /\ pc = "recv" =>
    \A m \in Msgs : (\E p \in 1 .. received : Stream[p] = <<m, GetSize(m)>>)
                        => m \in ToSet(delivered)

\* A connection is given up only when the peer closed it, or sent a message
\* that does not fit into the buffer; one that fills it to the last byte does.
ExitJustified == pc = "exit" =>
    hungup \/ cut \/ \E m \in Msgs : GetSize(m) > RECV_BUFFER_SIZE
=============================================================================
