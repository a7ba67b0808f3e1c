------------------------------ MODULE MCStreams ------------------------------
(***************************************************************************)
(* The ends of a connection's byte streams, for TLC.  A behaviour is about *)
(* one of them: the server's receiving end, where Cell::Recv cuts the      *)
(* stream (Framing), its sending end, ClientSocket (SendBuffer), or the    *)
(* Unity client's receiving end, GetMsg (ClientStream).  They share no     *)
(* state but the sizes of the messages, which never change, so nothing is  *)
(* lost by not interleaving them.                                          *)
(***************************************************************************)
EXTENDS Framing

CONSTANTS Callbacks, SEND_BUFFER_SIZE, MAX_MESSAGE_LENGTH

ASSUME StreamsAssumption == SEND_BUFFER_SIZE \in Nat /\ MAX_MESSAGE_LENGTH \in Nat

VARIABLES end,   \* one of Ends
          returned, m_recievedMsgs, m_readBuffer, position, limit, got, torn, overlap,
          server, asked, m_send_buffer, wire, buffered, short

clientVars == <<returned, m_recievedMsgs, m_readBuffer, position, limit, got, torn, overlap>>
cellVars   == <<received, hungup, m_buffer_msg, m_lastPos, pc, delivered, cut>>
socketVars == <<server, asked, m_send_buffer, wire, buffered, short>>

Client == INSTANCE ClientStream WITH received <- returned,
              READ_SOCKET_BUFFER_SIZE <- RECV_BUFFER_SIZE,
              HEADER_LENGTH_BYTES <- HEADER_LEN_BYTES
Socket == INSTANCE SendBuffer

Ends == {"Cell", "ClientSocket", "C_TcpClient"}

StreamsInit == Init /\ Client!Init /\ Socket!Init /\ end \in Ends

StreamsNext ==
    \/ end = "Cell" /\ Next /\ UNCHANGED <<end, clientVars, socketVars>>
    \/ end = "ClientSocket" /\ Socket!Next /\ UNCHANGED <<end, cellVars, clientVars>>
    \/ end = "C_TcpClient" /\ Client!Next /\ UNCHANGED <<end, cellVars, socketVars>>

StreamsSpec == StreamsInit /\ [][StreamsNext]_<<vars, end, clientVars, socketVars>>

\* ClientStream's property: the Unity client takes the server's messages out of
\* the stream whole, in order and once, as long as every turn of GetMsg found a
\* whole message.
Unbroken == Client!Unbroken

\* SendBuffer's property: what ClientSocket sends is whole messages in order, as
\* long as send takes all it is given, and none is missing that fits.
SentWhole == Socket!SentWhole
=============================================================================
