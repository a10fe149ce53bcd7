------------------------- MODULE PacketFrameParser -------------------------
(***************************************************************************)
(* BasicPacketFrameParser of include/memorypack/packet.hpp: reassembly of  *)
(* length-prefixed packets from the chunks in which a TCP stream arrives.  *)
(*                                                                         *)
(* Feed is split where the caller's code runs: the bytes are inserted, the *)
(* loop looks at the next frame, the callback returns or throws, and the   *)
(* loop is left with a Compact.  Between two calls, and inside a callback, *)
(* the caller may change the length limit; between two calls it may Reset. *)
(*                                                                         *)
(* received, dropped and handled are history variables: they tell what the *)
(* buffer stands for and the code has no such state.                       *)
(***************************************************************************)
EXTENDS Integers, Sequences

CONSTANTS
    Byte,
    HeaderSize,         \* Policy::HeaderSize
    ReadBodyLength(_),  \* the length that Policy::Read finds in a header
    CompactThreshold,   \* the 4096 of Compact
    BodyLimits,         \* the values the caller gives to maxBodyLength_
    Chunks,             \* the byte strings one call of Feed may be given
    MaxStream           \* bound: bytes fed between two resets

ASSUME HeaderSizeAssumption == HeaderSize \in Nat \ {0}

ASSUME BodyLengthAssumption ==
    \A h \in [1 .. HeaderSize -> Byte] : ReadBodyLength(h) \in Int

ASSUME ThresholdAssumption == CompactThreshold \in Nat

ASSUME LimitsAssumption == BodyLimits \subseteq Nat

ASSUME ChunksAssumption == \A c \in Chunks : c \in Seq(Byte)

VARIABLES
    buffer_, consumed_, maxBodyLength_,  \* the members of the class
    pc,         \* where the current Feed is; "idle" when there is none
    frameSize,  \* Feed's local, live across the callback and 0 outside it
    outcome,    \* how the last Feed ended
    received,   \* history: every byte fed since the buffer was last reset
    dropped,    \* history: how many of them were erased from the buffer
    handled     \* history: where in received the frames start whose callback
                \* returned

parser  == <<buffer_, consumed_, maxBodyLength_>>
history == <<received, dropped, handled>>
vars    == <<parser, pc, frameSize, outcome, history>>

-----------------------------------------------------------------------------
\* buffer_.size() - consumed_, which is also what Buffered() returns.
Buffered == Len(buffer_) - consumed_

\* Policy::Read at the read position.
DeclaredLength ==
    ReadBodyLength(SubSeq(buffer_, consumed_ + 1, consumed_ + HeaderSize))

HasHeader == Buffered >= HeaderSize

BadLength == DeclaredLength < 0 \/ DeclaredLength > maxBodyLength_

HasFrame == Buffered >= HeaderSize + DeclaredLength

\* Reset(): everything held is forgotten, and a new stream begins.
ClearAll ==
    /\ buffer_' = <<>>
    /\ consumed_' = 0
    /\ received' = <<>>
    /\ dropped' = 0
    /\ handled' = <<>>

\* Mutant of Erases: only a buffer that is consumed whole is compacted.
ErasesOnlyWhole == consumed_ # 0 /\ consumed_ = Len(buffer_)

\* Compact erases the consumed prefix in these two cases and keeps it otherwise.
Erases ==
    /\ consumed_ # 0
    /\ \/ consumed_ = Len(buffer_)
       \/ consumed_ > CompactThreshold
       \/ consumed_ * 2 >= Len(buffer_)

\* Mutant of Compact: the prefix is erased and consumed_ keeps its value.
CompactKeepsPosition ==
    IF Erases
    THEN /\ buffer_' = SubSeq(buffer_, consumed_ + 1, Len(buffer_))
         /\ dropped' = dropped + consumed_
         /\ UNCHANGED consumed_
    ELSE UNCHANGED <<buffer_, consumed_, dropped>>

\* Mutant of Compact: one byte too many is erased.
CompactLosesByte ==
    IF Erases
    THEN /\ buffer_' = SubSeq(buffer_, consumed_ + 2, Len(buffer_))
         /\ consumed_' = 0
         /\ dropped' = dropped + consumed_
    ELSE UNCHANGED <<buffer_, consumed_, dropped>>

Compact ==
    IF Erases
    THEN /\ buffer_' = SubSeq(buffer_, consumed_ + 1, Len(buffer_))
         /\ consumed_' = 0
         /\ dropped' = dropped + consumed_
    ELSE UNCHANGED <<buffer_, consumed_, dropped>>

-----------------------------------------------------------------------------
Init ==
    /\ buffer_ = <<>>
    /\ consumed_ = 0
    /\ maxBodyLength_ \in BodyLimits
    /\ pc = "idle"
    /\ frameSize = 0
    /\ outcome = "none"
    /\ received = <<>>
    /\ dropped = 0
    /\ handled = <<>>

\* Feed is called: the bytes are appended and the loop is entered.
FeedInsert(bytes) ==
    /\ pc = "idle"
    /\ Len(received) + Len(bytes) <= MaxStream
    /\ buffer_' = buffer_ \o bytes
    /\ received' = received \o bytes
    /\ pc' = "loop"
    /\ UNCHANGED <<consumed_, maxBodyLength_, frameSize, outcome, dropped, handled>>

\* The declared length is out of range: the buffer is cleared, false returned.
FeedReject ==
    /\ pc = "loop"
    /\ HasHeader
    /\ BadLength
    /\ ClearAll
    /\ pc' = "idle"
    /\ outcome' = "false"
    /\ UNCHANGED <<maxBodyLength_, frameSize>>

\* Mutant of FeedOffer: the limit is not looked at.
FeedOfferUnchecked ==
    /\ pc = "loop"
    /\ HasHeader
    /\ HasFrame
    /\ frameSize' = HeaderSize + DeclaredLength
    /\ pc' = "callback"
    /\ UNCHANGED <<parser, outcome, history>>

\* The whole frame is there: onPacket is called with a view into the buffer.
FeedOffer ==
    /\ pc = "loop"
    /\ HasHeader
    /\ ~ BadLength
    /\ HasFrame
    /\ frameSize' = HeaderSize + DeclaredLength
    /\ pc' = "callback"
    /\ UNCHANGED <<parser, outcome, history>>

\* Mutant of CallbackReturns: the header is not counted into the frame.
CallbackReturnsBody ==
    /\ pc = "callback"
    /\ consumed_' = consumed_ + DeclaredLength
    /\ handled' = Append(handled, dropped + consumed_)
    /\ pc' = "loop"
    /\ frameSize' = 0
    /\ UNCHANGED <<buffer_, maxBodyLength_, outcome, received, dropped>>

\* onPacket returned.
CallbackReturns ==
    /\ pc = "callback"
    /\ consumed_' = consumed_ + frameSize
    /\ handled' = Append(handled, dropped + consumed_)
    /\ pc' = "loop"
    /\ frameSize' = 0
    /\ UNCHANGED <<buffer_, maxBodyLength_, outcome, received, dropped>>

\* Mutant of CallbackThrows: the frame is tried again at once.
CallbackRetried ==
    /\ pc = "callback"
    /\ pc' = "loop"
    /\ outcome' = "threw"
    /\ frameSize' = 0
    /\ UNCHANGED <<parser, history>>

\* onPacket threw: Feed is left with consumed_ where it was and no Compact.
CallbackThrows ==
    /\ pc = "callback"
    /\ pc' = "idle"
    /\ outcome' = "threw"
    /\ frameSize' = 0
    /\ UNCHANGED <<parser, history>>

\* Mutant of FeedWait: the loop may be left while a frame is complete.
FeedWaitEarly ==
    /\ pc = "loop"
    /\ HasHeader => ~ BadLength
    /\ Compact
    /\ pc' = "idle"
    /\ outcome' = "true"
    /\ UNCHANGED <<maxBodyLength_, frameSize, received, handled>>

\* The next header or frame is incomplete: the loop is left, true returned.
FeedWait ==
    /\ pc = "loop"
    /\ HasHeader => ~ BadLength /\ ~ HasFrame
    /\ Compact
    /\ pc' = "idle"
    /\ outcome' = "true"
    /\ UNCHANGED <<maxBodyLength_, frameSize, received, handled>>

SetMaxBodyLength(value) ==
    /\ pc \in {"idle", "callback"}
    /\ maxBodyLength_' = value
    /\ UNCHANGED <<buffer_, consumed_, pc, frameSize, outcome, history>>

Reset ==
    /\ pc = "idle"
    /\ ClearAll
    /\ outcome' = "none"
    /\ UNCHANGED <<maxBodyLength_, pc, frameSize>>

Next ==
    \/ \E bytes \in Chunks : FeedInsert(bytes)
    \/ FeedReject
    \/ FeedOffer
    \/ CallbackReturns
    \/ CallbackThrows
    \/ FeedWait
    \/ \E value \in BodyLimits : SetMaxBodyLength(value)
    \/ Reset

\* Feed runs on the caller's thread and every callback ends one way or the
\* other; nothing obliges the caller to feed, to reset or to set the limit.
Fairness ==
    /\ WF_vars(FeedReject)
    /\ WF_vars(FeedOffer)
    /\ WF_vars(CallbackReturns \/ CallbackThrows)
    /\ WF_vars(FeedWait)

Spec == Init /\ [][Next]_vars /\ Fairness

-----------------------------------------------------------------------------
\* Every variable has its type, and the read position is inside the buffer.
TypeOK ==
    /\ buffer_ \in Seq(Byte)
    /\ consumed_ \in 0 .. Len(buffer_)
    /\ maxBodyLength_ \in BodyLimits
    /\ pc \in {"idle", "loop", "callback"}
    /\ frameSize \in Nat
    /\ outcome \in {"none", "true", "false", "threw"}
    /\ received \in Seq(Byte)
    /\ dropped \in Nat
    /\ handled \in Seq(Nat)

\* Compaction and the two early exits of Feed lose no byte and repeat none:
\* the buffer is exactly what was received and not erased.
BufferIsSuffix ==
    /\ dropped + Len(buffer_) = Len(received)
    /\ \A i \in 1 .. Len(buffer_) : buffer_[i] = received[dropped + i]

\* The frames whose callbacks returned tile the stream from its first byte to
\* the read position, each as long as its own header in the stream declares:
\* however the stream was cut into chunks, and whatever callbacks threw, no
\* frame is handled twice, skipped, or read from the wrong offset.
FrameEnd(at) ==
    at + HeaderSize + ReadBodyLength(SubSeq(received, at + 1, at + HeaderSize))

HandledFramesTile ==
    LET next == dropped + consumed_
    IN  /\ handled = <<>> => next = 0
        /\ handled # <<>> => handled[1] = 0
        /\ \A i \in 1 .. Len(handled) :
              FrameEnd(handled[i]) = IF i = Len(handled) THEN next ELSE handled[i + 1]

\* A Feed that returned true has handed out every complete frame it holds.
DrainedAtReturn ==
    pc = "idle" /\ outcome = "true" /\ HasHeader => ~ HasFrame

\* A Feed that returned true keeps less than twice the largest legal frame:
\* the consumed prefix that Compact leaves behind is the smaller part.
BufferBounded ==
    pc = "idle" /\ outcome = "true" =>
        \E limit \in BodyLimits : Len(buffer_) < 2 * (HeaderSize + limit)

\* Every call of Feed ends.
FeedEnds == pc # "idle" ~> pc = "idle"

\* The parser implements the promise of FrameStream.
Abstract == INSTANCE FrameStream WITH
    stream  <- received,
    handled <- handled,
    next    <- dropped + consumed_,
    offered <- pc = "callback",
    limit   <- maxBodyLength_

ImplementsFrameStream == Abstract!Spec
=============================================================================
