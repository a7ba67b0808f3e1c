------------------------------ MODULE SendBuffer ------------------------------
(***************************************************************************)
(* The sending side of ClientSocket (client_socket.cpp): Send puts a       *)
(* message into m_send_buffer, SendImm hands the buffer to send.           *)
(*                                                                         *)
(* One thread sends on a socket.  The lock-step World's main thread calls  *)
(* SendImm for every message; MyServer's cell calls Send for its reply to  *)
(* every message, and nothing calls SendImm, as WriteData and CheckSend    *)
(* have no caller.  Bytes and messages are those of Framing.               *)
(***************************************************************************)
EXTENDS Integers, Sequences, SequencesExt

CONSTANTS SEND_BUFFER_SIZE, HEADER_LEN_BYTES,
          MaxMsgs      \* bound on the messages of one connection

VARIABLES sizes,            \* of the messages, in the order of the calls
          server,           \* World or MyServer
          asked,            \* messages given to Send so far
          m_send_buffer,    \* its first m_lastSendPos bytes
          wire,             \* bytes that send has taken
          buffered,         \* history: messages that Send has put into the buffer
          short             \* history: send took less than it was given

vars == <<sizes, server, asked, m_send_buffer, wire, buffered, short>>

m_lastSendPos == Len(m_send_buffer)

GetSize(m) == sizes[m] + HEADER_LEN_BYTES
Bytes(m)   == [i \in 1 .. GetSize(m) |-> <<m, i>>]

\* All but sizes, which the callers choose.
Init == /\ server \in {"World", "MyServer"}
        /\ asked = 0 /\ m_send_buffer = <<>> /\ wire = <<>>
        /\ buffered = <<>> /\ short = FALSE

Fits(m) == m_lastSendPos + GetSize(m) <= SEND_BUFFER_SIZE

\* ClientSocket::Send: a message that does not fit is refused as a whole.
Send(m) == IF Fits(m) THEN m_send_buffer \o Bytes(m) ELSE m_send_buffer

\* The next message is given to Send, whose result nobody looks at.
Give(m) == /\ asked < MaxMsgs /\ m = asked + 1
           /\ asked' = m
           /\ buffered' = IF Fits(m) THEN Append(buffered, m) ELSE buffered
           /\ UNCHANGED <<sizes, server>>

\* MyServer::OnMessage leaves its reply in the buffer.
OnMessage(m) == /\ server = "MyServer" /\ Give(m)
                /\ m_send_buffer' = Send(m)
                /\ UNCHANGED <<wire, short>>

\* Bug: m_lastSendPos is not reset.
BugAfterSend(buffer, n) == buffer

\* What m_lastSendPos says is left of buffer when send has taken n bytes of it.
AfterSend(buffer, n) == <<>>

\* ClientSocket::SendImm of a message: send takes some of the buffer, or fails
\* and takes nothing.
SendImm(m) == /\ server = "World" /\ Give(m)
              /\ \E n \in 0 .. Len(Send(m)) :
                    /\ wire' = wire \o SubSeq(Send(m), 1, n)
                    /\ m_send_buffer' = AfterSend(Send(m), n)
                    /\ short' = (short \/ n < Len(Send(m)))

Next == \E m \in 1 .. MaxMsgs : OnMessage(m) \/ SendImm(m)

-----------------------------------------------------------------------------
\* As long as send takes what it is given, the stream is whole messages, in
\* order and once, also when one fills the buffer to the last byte.  The World's
\* clients miss no message but those longer than the buffer; MyServer's replies
\* pile up in it until the next does not fit.
SentWhole ==
    LET promised == FlattenSeq([i \in DOMAIN buffered |-> Bytes(buffered[i])])
        lost     == 1 .. asked \ ToSet(buffered)
    IN  /\ ~short => wire \o m_send_buffer = promised
        /\ \A i, j \in DOMAIN buffered : i < j => buffered[i] < buffered[j]
        /\ server = "World" => /\ m_send_buffer = <<>>
                               /\ \A m \in lost : GetSize(m) > SEND_BUFFER_SIZE
        /\ server = "MyServer" => \A m \in lost : Len(promised) + GetSize(m) > SEND_BUFFER_SIZE
=============================================================================
