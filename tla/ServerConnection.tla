-------------------------- MODULE ServerConnection --------------------------
(***************************************************************************)
(* samples/CppServer/main.cpp: one Connection, on its own thread, with the *)
(* PacketFrameParser it feeds and a client that frames its requests with   *)
(* WritePacket.                                                            *)
(*                                                                         *)
(* The bytes are received in pieces of any size; each complete frame is    *)
(* answered from the parser's callback, by a send that may take any number *)
(* of steps and waits while the client's window is full.  Connections      *)
(* share nothing but the log, so one of them stands for all.  Nothing that *)
(* the handlers answer with can make the writer fail.                      *)
(***************************************************************************)
EXTENDS PacketWriter, SequencesExt

CONSTANTS
    Refused(_),     \* HandlePacket(id, body) returns false and sends nothing
    Reply(_),       \* the packet with which HandlePacket(id, body) answers
    RecvSize,       \* the size of recvBuffer
    Window          \* bytes that the stream takes before the client reads

ASSUME ReplyAssumption ==
    \A packet \in Packets : ~ Refused(packet) => Reply(packet) \in Byte \X Seq(Byte)

VARIABLES
    conn,           \* Run is in its loop, or the socket is closed
    alive_,
    sendBuffer_,
    sending,        \* the callback is in SendAll
    sent,           \* SendAll's local
    unread,         \* bytes on their way to the client
    answered        \* history: every byte that send accepted

sender     == <<sendBuffer_, sending, sent>>
connection == <<conn, alive_, sender, unread, answered>>
connVars   == <<vars, client, connection>>

ConnInit ==
    /\ Init
    /\ ClientInit
    /\ conn = "running"
    /\ alive_ = TRUE
    /\ sendBuffer_ = <<>>
    /\ sending = FALSE
    /\ sent = 0
    /\ unread = 0
    /\ answered = <<>>

-----------------------------------------------------------------------------
\* The packet of the given size at an offset of s.
PacketAt(s, at, size) == <<s[at + 1], SubSeq(s, at + HeaderSize + 1, at + size)>>

\* What the callback was given.
Offer == PacketAt(buffer_, consumed_, frameSize)

InRecv == conn = "running" /\ pc = "idle" /\ alive_

\* recv returns n bytes, and Feed is called with them.
Recv(n) ==
    /\ InRecv
    /\ n \in 1 .. Len(toServer)
    /\ n <= RecvSize
    /\ FeedInsert(SubSeq(toServer, 1, n))
    /\ toServer' = SubSeq(toServer, n + 1, Len(toServer))
    /\ UNCHANGED <<out, peer, attempts, written, connection>>

\* recv returns 0 or an error.
RecvEnds ==
    /\ InRecv
    /\ ~ peer
    /\ toServer = <<>>
    /\ conn' = "closed"
    /\ UNCHANGED <<vars, client, alive_, sender, unread, answered>>

\* Feed returns false: Run leaves its loop.
Rejected ==
    /\ FeedReject
    /\ conn' = "closed"
    /\ UNCHANGED <<client, alive_, sender, unread, answered>>

Offered ==
    /\ FeedOffer
    /\ UNCHANGED <<client, connection>>

InCallback == pc = "callback" /\ ~ sending

\* The frames behind a refused one, in the same Feed.
Ignore ==
    /\ InCallback
    /\ ~ alive_
    /\ CallbackReturns
    /\ UNCHANGED <<client, connection>>

Refuse ==
    /\ InCallback
    /\ alive_
    /\ Refused(Offer)
    /\ CallbackReturns
    /\ alive_' = FALSE
    /\ UNCHANGED <<client, conn, sender, unread, answered>>

\* Mutant of StartReply: alive_ is not looked at.
StartReplyAlways ==
    /\ InCallback
    /\ ~ Refused(Offer)
    /\ sendBuffer_' = WritePacket(<<>>, Reply(Offer)[1], Reply(Offer)[2])
    /\ sending' = TRUE
    /\ sent' = 0
    /\ UNCHANGED <<vars, client, conn, alive_, unread, answered>>

\* SendPacket: the buffer is rewound and filled with a whole frame.
StartReply ==
    /\ InCallback
    /\ alive_
    /\ ~ Refused(Offer)
    /\ sendBuffer_' = WritePacket(<<>>, Reply(Offer)[1], Reply(Offer)[2])
    /\ sending' = TRUE
    /\ sent' = 0
    /\ UNCHANGED <<vars, client, conn, alive_, unread, answered>>

\* One send of SendAll: it takes some of the bytes, once there is room for them
\* in the window of a client that is there.
SendPart(n) ==
    /\ sending
    /\ n \in 1 .. Len(sendBuffer_) - sent
    /\ peer => unread + n <= Window
    /\ sent' = sent + n
    /\ answered' = answered \o SubSeq(sendBuffer_, sent + 1, sent + n)
    /\ unread' = IF peer THEN unread + n ELSE unread
    /\ UNCHANGED <<vars, client, conn, alive_, sendBuffer_, sending>>

\* send fails, SendAll returns false.
SendFails ==
    /\ sending
    /\ sent < Len(sendBuffer_)
    /\ ~ peer
    /\ CallbackReturns
    /\ sending' = FALSE
    /\ alive_' = FALSE
    /\ UNCHANGED <<client, conn, sendBuffer_, sent, unread, answered>>

\* SendAll returns true, and with it the callback.
SendEnds ==
    /\ sending
    /\ sent = Len(sendBuffer_)
    /\ CallbackReturns
    /\ sending' = FALSE
    /\ UNCHANGED <<client, conn, alive_, sendBuffer_, sent, unread, answered>>

\* Mutant of FeedReturns: Run ends after one chunk.
FeedReturnsOnce ==
    /\ FeedWait
    /\ conn' = "closed"
    /\ UNCHANGED <<client, alive_, sender, unread, answered>>

\* Feed returns true.
FeedReturns ==
    /\ FeedWait
    /\ UNCHANGED <<client, connection>>

\* Mutant of LoopEnds: the loop goes on whatever alive_ says.
LoopGoesOn == FALSE /\ UNCHANGED connVars

\* while (alive_) ends, and the destructor closes the socket.
LoopEnds ==
    /\ conn = "running"
    /\ pc = "idle"
    /\ ~ alive_
    /\ conn' = "closed"
    /\ UNCHANGED <<vars, client, alive_, sender, unread, answered>>

-----------------------------------------------------------------------------
(* The client, as far as the server sees it. *)

ClientReads ==
    /\ peer
    /\ unread > 0
    /\ unread' = 0
    /\ UNCHANGED <<vars, client, conn, alive_, sender, answered>>

ClientStep ==
    /\ ClientNext
    /\ unread' = IF peer' THEN unread ELSE 0
    /\ UNCHANGED <<vars, conn, alive_, sender, answered>>

Server ==
    \/ \E n \in 1 .. RecvSize : Recv(n)
    \/ RecvEnds
    \/ Rejected
    \/ Offered
    \/ Ignore
    \/ Refuse
    \/ StartReply
    \/ \E n \in 1 .. Window : SendPart(n)
    \/ SendFails
    \/ SendEnds
    \/ FeedReturns
    \/ LoopEnds

ConnNext ==
    \/ Server
    \/ ClientReads
    \/ ClientStep

\* The thread runs, the network delivers, and a client that is there reads what
\* it is sent, as CsClient does.  Nobody has to send or to disconnect.
ConnFairness == WF_connVars(Server) /\ WF_connVars(ClientReads)

ConnSpec == ConnInit /\ [][ConnNext]_connVars /\ ConnFairness

-----------------------------------------------------------------------------
\* The packets whose callbacks returned.
Delivered ==
    [i \in DOMAIN handled |->
        PacketAt(received, handled[i],
                 (IF i = Len(handled) THEN dropped + consumed_ ELSE handled[i + 1]) - handled[i])]

\* However the stream is cut, whichever bodies threw before and wherever the
\* connection breaks: what Feed's callback is given is what WritePacket was, id
\* and body, in order, each packet once.
DeliveredAsWritten == IsPrefix(Delivered, written)

\* The first i packets are all within the limit and not refused.
Granted(i) ==
    \A k \in 1 .. i : Len(written[k][2]) <= maxBodyLength_ /\ ~ Refused(written[k])

\* The answer to the packets that were sent: the replies, in order, up to the
\* first packet that is refused or too long; owed[i] answers the first i.
Owed ==
    LET owed[i \in 0 .. Len(written)] ==
            IF i = 0 THEN <<>>
            ELSE owed[i - 1] \o
                 (IF Granted(i)
                  THEN WritePacket(<<>>, Reply(written[i])[1], Reply(written[i])[2]) ELSE <<>>)
    IN  owed[Len(written)]

\* However the requests are cut into chunks and the replies into sends, and
\* whenever the client goes away: what was sent is a prefix of what is owed.
\* In particular nothing behind a refused frame is answered, no reply is torn,
\* repeated or sent out of order, and none contains bytes of an earlier one.
AnswersOwed == IsPrefix(answered, Owed)

\* A client that stays is sent everything it is owed.
AllAnswered == []<>(answered = Owed \/ ~ peer)

\* A frame that breaks a limit, a refused frame and a failed send close the
\* connection, and so does a client that is gone.
BadPeerClosed == (~ alive_ \/ outcome = "false" \/ ~ peer) ~> conn = "closed"
=============================================================================
