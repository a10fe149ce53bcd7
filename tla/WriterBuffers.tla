--------------------------- MODULE WriterBuffers ---------------------------
(***************************************************************************)
(* The calls of a program that serializes into one MemoryPackWriter and    *)
(* reuses it: Write calls, Reserve, Clear, GetBuffer, TakeBuffer and       *)
(* moves, in each buffer mode and in each build.                           *)
(***************************************************************************)
EXTENDS MemoryPackWriter

CONSTANTS
    Calls,      \* the Write calls, each the sequence of its appends
    Capacities, \* the arguments of Reserve
    FixedCap,   \* the capacity of the fixed buffer
    Prefix,     \* what the caller's vector holds before the writer is made
    Builds,     \* the builds looked at, as values of throws
    MaxBytes    \* bound: bytes in the buffer and requested by one call

ASSUME CallsAssumption ==
    /\ Calls \subseteq Seq(Seq(0 .. 255))
    /\ Prefix \in Seq(0 .. 255)
    /\ Capacities \subseteq Nat
    /\ FixedCap \in Nat
    /\ Builds \subseteq BOOLEAN

VARIABLES
    w,          \* the writer
    intended    \* history: the bytes that the buffer should hold; kept
                \* while the writer reports no error

Fresh(mode) ==
    NewWriter(mode, CASE mode = "owned" -> <<>>
                      [] mode = "vec"   -> Prefix
                      [] mode = "fixed" -> Zeros(FixedCap))

Flatten(pieces) ==
    LET joined[i \in 0 .. Len(pieces)] ==
            IF i = 0 THEN <<>> ELSE joined[i - 1] \o pieces[i]
    IN  joined[Len(pieces)]

BuffersInit ==
    /\ throws \in Builds
    /\ w \in {Fresh(mode) : mode \in {"owned", "vec", "fixed"}}
    /\ intended = GetSpan(w)

\* The caller catches what the call threw and may use the writer again, which
\* should now hold the bytes `expected'.
Returns(writer, expected) ==
    /\ w' = [writer EXCEPT !.threw = FALSE]
    /\ intended' = IF WriterFailed(writer) THEN <<>> ELSE expected

Fits(n) == Size(w) + n <= MaxBytes

Write(pieces) ==
    /\ Fits(Len(Flatten(pieces)))
    /\ Returns(WritePieces(w, pieces), intended \o Flatten(pieces))
    /\ UNCHANGED throws

\* A member count above 249, or a container above 2^31 - 1 elements: the error
\* is recorded and the call appends nothing.
WriteRefused(code) ==
    /\ Returns(WriterFail(w, code), intended)
    /\ UNCHANGED throws

CallClear ==
    /\ Returns(Clear(w), <<>>)
    /\ UNCHANGED throws

CallReserve(capacity) ==
    /\ Returns(Reserve(w, capacity), intended)
    /\ UNCHANGED throws

CallGetBuffer ==
    /\ Returns(GetBuffer(w), intended)
    /\ UNCHANGED throws

CallTakeBuffer ==
    /\ Returns(TakeBuffer(w), IF w.mode = "owned" THEN <<>> ELSE intended)
    /\ UNCHANGED throws

\* The writer was moved from and is written to again: Reset() has made it an
\* empty writer of the owned mode.
MovedFrom ==
    /\ w' = Fresh("owned")
    /\ intended' = <<>>
    /\ UNCHANGED throws

BufferCall ==
    \/ \E pieces \in Calls : Write(pieces)
    \/ \E code \in {"InvalidHeader", "LengthLimit"} : WriteRefused(code)
    \/ CallClear
    \/ \E capacity \in Capacities : CallReserve(capacity)
    \/ CallGetBuffer
    \/ CallTakeBuffer
    \/ MovedFrom

-----------------------------------------------------------------------------
\* The writer has its type; the write position never leaves the buffer.
WriterTypeOK ==
    /\ throws \in Builds
    /\ w.mode \in {"owned", "vec", "fixed"}
    /\ w.pos \in 0 .. Len(w.buf)
    /\ w.mode = "fixed" => Len(w.buf) = FixedCap
    /\ w.error \in WriterErrors
    /\ w.threw = FALSE
=============================================================================
