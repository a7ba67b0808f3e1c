---------------------------- MODULE ClientStream ----------------------------
(***************************************************************************)
(* The Unity client's end of the byte stream: C_TcpClient.GetMsg over      *)
(* IoBuffer (Net/C_TcpClient.cs, Net/CPacket.cs, Net/Buffer).              *)
(*                                                                         *)
(* GetMsg is a timer's callback, started every millisecond whether the     *)
(* last one has returned or not.  One turn of its loop receives into       *)
(* m_getData, puts that into m_readBuffer behind what is there, flips the  *)
(* buffer and takes one message out, if one is whole.                      *)
(*                                                                         *)
(* Two things end the story this module tells.  When a turn finds no whole *)
(* message it leaves the buffer flipped, so that the next Put overwrites   *)
(* what was pending; or it throws, and the bytes received are lost: the    *)
(* stream is torn.  And two callbacks between Receive and the end of their *)
(* turn overlap on m_getData and m_readBuffer, which have no lock.         *)
(*                                                                         *)
(* Bytes and messages are those of Framing.                                *)
(***************************************************************************)
EXTENDS Integers, Sequences, SequencesExt

CONSTANTS READ_SOCKET_BUFFER_SIZE, HEADER_LENGTH_BYTES, HEADER_TYPE_BYTES,
          MAX_MESSAGE_LENGTH,
          MaxMsgs,     \* bound on the messages of one connection
          Callbacks,   \* callbacks that may run at a time
          Other        \* a byte that is not from the stream

Msgs  == 1 .. MaxMsgs
Cells == 0 .. READ_SOCKET_BUFFER_SIZE - 1

VARIABLES sizes,             \* of the messages the server sends
          received,          \* bytes that Receive has returned
          m_recievedMsgs,    \* messages taken out, 0 for what is none
          m_readBuffer, position, limit,
          got,               \* callback -> bytes in m_getData in its turn, or 0
          torn, overlap      \* history, see above

buffer == <<m_readBuffer, position, limit>>
vars == <<sizes, received, m_recievedMsgs, buffer, got, torn, overlap>>

GetSize(m) == sizes[m] + HEADER_LENGTH_BYTES

Stream == FlattenSeq([m \in Msgs |-> [i \in 1 .. GetSize(m) |-> <<m, i>>]])

\* All but sizes, which the server chooses.
Init == /\ received = 0 /\ m_recievedMsgs = <<>>
        /\ m_readBuffer = [p \in Cells |-> Other]
        /\ position = 0 /\ limit = READ_SOCKET_BUFFER_SIZE
        /\ got = [c \in Callbacks |-> 0]
        /\ torn = FALSE /\ overlap = FALSE

-----------------------------------------------------------------------------
\* Available > 0: Receive returns n bytes.  When nothing is available the
\* callback sleeps and returns, and touches nothing.
Receive(c, n) ==
    /\ ~torn /\ ~overlap /\ got[c] = 0
    /\ received + n <= Len(Stream)
    /\ received' = received + n
    /\ got' = [got EXCEPT ![c] = n]
    /\ overlap' = \E d \in Callbacks \ {c} : got[d] # 0
    /\ UNCHANGED <<sizes, m_recievedMsgs, buffer, torn>>

\* m_readBuffer after Put: the n bytes last received are at its position.
Put(n) == [p \in Cells |-> IF p \in position .. position + n - 1
                           THEN Stream[received - n + 1 + p - position]
                           ELSE m_readBuffer[p]]

\* The numbers the first bytes of the buffer b may be: the size of a message,
\* or, when they are not a size, anything.
Lengths(b) ==
    LET sizesOf == {m \in Msgs : \A i \in 1 .. HEADER_LENGTH_BYTES : b[i - 1] = <<m, i>>}
    IN  IF sizesOf # {} THEN {sizes[m] : m \in sizesOf} ELSE -1 .. READ_SOCKET_BUFFER_SIZE

\* The message that the first n bytes of b are, or 0.
Body(b, n) == LET is == {m \in Msgs : /\ n = GetSize(m)
                                      /\ \A i \in 1 .. n : b[i - 1] = <<m, i>>}
              IN  IF is = {} THEN 0 ELSE CHOOSE m \in is : TRUE

\* Bug: what remains is not moved to the front.
BugCompact(b, n, end) == b

\* Compact, after n bytes have been read: the rest of the end bytes in the
\* buffer comes to the front.
Compact(b, n, end) == [p \in Cells |-> IF p < end - n THEN b[p + n] ELSE b[p]]

\* The lengths that CPacket does not throw for.  MIN_MESSAGE_LENGTH is the size of
\* a type.
Allowed(len) == len \in HEADER_TYPE_BYTES .. MAX_MESSAGE_LENGTH

\* A whole message is at the front: it is taken out, and the buffer is made
\* ready for the next Put, behind what remains.
TakeMessage(c) ==
    LET b   == Put(got[c])
        end == position + got[c]
    IN  /\ ~overlap /\ got[c] # 0
        /\ end <= limit
        /\ end >= HEADER_LENGTH_BYTES
        /\ \E len \in Lengths(b) :
              LET n == len + HEADER_LENGTH_BYTES
              IN  /\ Allowed(len) /\ end >= n
                  /\ m_recievedMsgs' = Append(m_recievedMsgs, Body(b, n))
                  /\ m_readBuffer' = Compact(b, n, end)
                  /\ position' = end - n
        /\ limit' = READ_SOCKET_BUFFER_SIZE
        /\ got' = [got EXCEPT ![c] = 0]
        /\ UNCHANGED <<sizes, received, torn, overlap>>

\* The turn ends without a message.  Put throws when the bytes do not fit; the
\* length cannot be read from fewer bytes than it has, which throws too, as
\* HEADER_TOTAL_BYTES is 0, and CPacket throws for a length it does not allow; or
\* the message is not whole.
Tear(c) ==
    /\ ~overlap /\ got[c] # 0
    /\ LET b   == Put(got[c])
           end == position + got[c]
       IN  \/ end > limit /\ UNCHANGED buffer
           \/ /\ end <= limit
              /\ \/ end < HEADER_LENGTH_BYTES
                 \/ \E len \in Lengths(b) : ~Allowed(len) \/ end < len + HEADER_LENGTH_BYTES
              /\ m_readBuffer' = b /\ position' = 0 /\ limit' = end
    /\ torn' = TRUE
    /\ got' = [got EXCEPT ![c] = 0]
    /\ UNCHANGED <<sizes, received, m_recievedMsgs, overlap>>

Next == \E c \in Callbacks : \/ \E n \in 1 .. READ_SOCKET_BUFFER_SIZE : Receive(c, n)
                             \/ TakeMessage(c) \/ Tear(c)

-----------------------------------------------------------------------------
\* As long as every turn found a whole message, the messages taken out are the
\* server's, whole, in order and once, and the bytes before the position of the
\* buffer are exactly those received and not yet taken out: none is lost when
\* several messages, or the beginning of one, came with another.
Unbroken ==
    LET taken == FlattenSeq([m \in 1 .. Len(m_recievedMsgs) |->
                                [i \in 1 .. GetSize(m) |-> <<m, i>>]])
    IN  /\ m_recievedMsgs = [i \in DOMAIN m_recievedMsgs |-> i]
        /\ ~torn /\ ~overlap /\ (\A c \in Callbacks : got[c] = 0) =>
               /\ position = received - Len(taken)
               /\ \A p \in 0 .. position - 1 : m_readBuffer[p] = Stream[Len(taken) + 1 + p]
=============================================================================
