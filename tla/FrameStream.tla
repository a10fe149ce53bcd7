---------------------------- MODULE FrameStream ----------------------------
(***************************************************************************)
(* What BasicPacketFrameParser promises, with no buffer in it.  A stream   *)
(* of bytes arrives; it is cut, from its first byte on, into frames of a   *)
(* fixed-size header and the body whose length the header declares; the    *)
(* frames are handed to the caller's callback in stream order, each one    *)
(* only when it is complete; a frame whose callback returned is never      *)
(* handed out again, and one whose callback threw is the next one to be    *)
(* handed out.                                                             *)
(***************************************************************************)
EXTENDS Integers, Sequences

CONSTANTS
    Byte,               \* the bytes of the stream
    HeaderSize,         \* Policy::HeaderSize
    ReadBodyLength(_)   \* the length that Policy::Read finds in a header

(***************************************************************************)
(* The layout of one frame that starts after the first at bytes of s.      *)
(***************************************************************************)
Header(s, at) == SubSeq(s, at + 1, at + HeaderSize)

BodyLength(s, at) == ReadBodyLength(Header(s, at))

FrameSize(s, at) == HeaderSize + BodyLength(s, at)

HasHeader(s, at) == at + HeaderSize <= Len(s)

\* The header at offset at is there and declares a length no frame may have.
Malformed(s, at, limit) ==
    HasHeader(s, at) /\ (BodyLength(s, at) < 0 \/ BodyLength(s, at) > limit)

\* The whole frame is there.
Complete(s, at, limit) ==
    /\ HasHeader(s, at)
    /\ ~ Malformed(s, at, limit)
    /\ at + FrameSize(s, at) <= Len(s)

-----------------------------------------------------------------------------
VARIABLES
    stream,     \* every byte that arrived since the parser was last reset
    handled,    \* where in stream the frames start whose callback returned
    next,       \* where the first frame starts that is not handled yet
    offered,    \* the frame at next is in the hands of the callback
    limit       \* the longest body accepted

vars == <<stream, handled, next, offered, limit>>

Init ==
    /\ stream = <<>>
    /\ handled = <<>>
    /\ next = 0
    /\ offered = FALSE
    /\ limit \in Nat

Arrive ==
    /\ ~ offered
    /\ stream' \in Seq(Byte)
    /\ Len(stream') >= Len(stream)
    /\ SubSeq(stream', 1, Len(stream)) = stream
    /\ UNCHANGED <<handled, next, offered, limit>>

Offer ==
    /\ ~ offered
    /\ Complete(stream, next, limit)
    /\ offered' = TRUE
    /\ UNCHANGED <<stream, handled, next, limit>>

\* The callback returned: the frame is done with.
Handle ==
    /\ offered
    /\ handled' = Append(handled, next)
    /\ next' = next + FrameSize(stream, next)
    /\ offered' = FALSE
    /\ UNCHANGED <<stream, limit>>

\* The callback threw: the frame stays the next one.
Refuse ==
    /\ offered
    /\ offered' = FALSE
    /\ UNCHANGED <<stream, handled, next, limit>>

\* The stream is given up, and whatever arrives next begins a new one.
Abandon ==
    /\ ~ offered
    /\ stream' = <<>>
    /\ handled' = <<>>
    /\ next' = 0
    /\ UNCHANGED <<offered, limit>>

SetLimit ==
    /\ limit' \in Nat
    /\ UNCHANGED <<stream, handled, next, offered>>

Next == Arrive \/ Offer \/ Handle \/ Refuse \/ Abandon \/ SetLimit

Spec == Init /\ [][Next]_vars
=============================================================================
