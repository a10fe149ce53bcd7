---------------------------- MODULE PacketWriter ----------------------------
(***************************************************************************)
(* WritePacket of include/memorypack/packet.hpp, as a client uses it that  *)
(* keeps one buffer, cleared before each packet, and sends it whole        *)
(* (ChatClient::Send of samples/ChatClientConsole).  A body may throw      *)
(* while it is serialized; in the build without exceptions a body that     *)
(* fails is a shorter body, framed and sent.  At the other end of the      *)
(* stream is a PacketFrameParser.                                          *)
(*                                                                         *)
(* The default header is two little-endian integers; here each of them is  *)
(* one byte of radix Radix, the second one signed.                         *)
(***************************************************************************)
EXTENDS PacketFrameParser

CONSTANTS
    Radix,
    Packets,        \* the packets <<id, body>> that clients send
    MaxPackets      \* bound: calls of WritePacket

\* The header holds an id and a length; a body is shorter than the radix of the
\* length (2^32 in the code), so that only the sign of a length can be lost.
ASSUME HeaderAssumption ==
    /\ HeaderSize = 2
    /\ Radix \in Nat
    /\ Byte = 0 .. Radix - 1

ASSUME PacketsAssumption ==
    \A packet \in Packets : packet \in Byte \X Seq(Byte) /\ Len(packet[2]) < Radix

VARIABLES
    out,            \* the client's buffer
    toServer,       \* bytes on their way to the server
    peer,           \* the client's socket is open
    attempts,       \* history: calls of WritePacket
    written         \* history: the packets that were framed and sent

client == <<out, toServer, peer, attempts, written>>

ClientInit ==
    /\ out = <<>>
    /\ toServer = <<>>
    /\ peer = TRUE
    /\ attempts = 0
    /\ written = <<>>

-----------------------------------------------------------------------------
\* DefaultPacketHeaderPolicy::Write; the length keeps its low bits.
WriteHeader(id, bodyLength) == <<id, bodyLength % Radix>>

\* DefaultPacketHeaderPolicy::Read, the length.
ReadHeaderLength(h) == IF h[2] < Radix \div 2 THEN h[2] ELSE h[2] - Radix

ASSUME PolicyAssumption ==
    \A h \in [1 .. HeaderSize -> Byte] : ReadBodyLength(h) = ReadHeaderLength(h)

\* Space for the header is reserved, the body appended, the header patched.
WritePacket(buffer, id, body) ==
    LET headerAt == Len(buffer)
        filled   == buffer \o [i \in 1 .. HeaderSize |-> 0] \o body
        header   == WriteHeader(id, Len(filled) - headerAt - HeaderSize)
    IN  [i \in DOMAIN filled |->
            IF i \in headerAt + 1 .. headerAt + HeaderSize THEN header[i - headerAt] ELSE filled[i]]

Attempt ==
    /\ peer
    /\ attempts < MaxPackets
    /\ attempts' = attempts + 1

\* Mutant of Send: the buffer keeps what it holds.
SendAppends(packet) ==
    /\ Attempt
    /\ out' = WritePacket(out, packet[1], packet[2])
    /\ toServer' = toServer \o out'
    /\ written' = Append(written, packet)
    /\ UNCHANGED peer

\* The buffer is cleared, filled and sent.
Send(packet) ==
    /\ Attempt
    /\ out' = WritePacket(<<>>, packet[1], packet[2])
    /\ toServer' = toServer \o out'
    /\ written' = Append(written, packet)
    /\ UNCHANGED peer

\* The body throws after n bytes: a zero header and half a body stay in out.
BodyThrows(packet, n) ==
    /\ Attempt
    /\ n \in 0 .. Len(packet[2])
    /\ out' = [i \in 1 .. HeaderSize |-> 0] \o SubSeq(packet[2], 1, n)
    /\ UNCHANGED <<toServer, peer, written>>

\* The client goes away, or its connection breaks in the middle of a frame; what
\* is on its way is lost from some point on.
ClientCloses(n) ==
    /\ peer
    /\ n \in 0 .. Len(toServer)
    /\ peer' = FALSE
    /\ toServer' = SubSeq(toServer, 1, n)
    /\ UNCHANGED <<out, attempts, written>>

ClientNext ==
    \/ \E packet \in Packets :
          \/ Send(packet)
          \/ \E n \in 0 .. MaxStream : BodyThrows(packet, n)
    \/ \E n \in 0 .. MaxStream : ClientCloses(n)
=============================================================================
