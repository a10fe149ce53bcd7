------------------------ MODULE MCPacketFrameParser ------------------------
(* Small instance: two-byte headers [id][length] over three byte values. *)
EXTENDS PacketFrameParser

MCByte == 0 .. 2

\* 0 declares an empty body, 1 a body of two bytes, 2 is a negative length.
MCReadBodyLength(h) == CASE h[2] = 0 -> 0 [] h[2] = 1 -> 2 [] h[2] = 2 -> -1

MCChunks == UNION {[1 .. n -> MCByte] : n \in 0 .. 3}
=============================================================================
