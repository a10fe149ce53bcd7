-------------------------- MODULE MemoryPackReader --------------------------
(***************************************************************************)
(* MemoryPackReader of include/memorypack/core.hpp: the members that every *)
(* decoder is written with, as operators from a reader to the reader after *)
(* the call and the value returned.                                        *)
(*                                                                         *)
(* A reader is a record: pos, depth and error are pos_, depth_ and error_, *)
(* and threw is TRUE from the moment a MemoryPackException left the call.  *)
(* Both builds share everything but Fail: with throws = FALSE (the build   *)
(* without exceptions) a failing call returns a default value and the code *)
(* after it goes on.                                                       *)
(***************************************************************************)
EXTENDS Integers, Sequences, Build

CONSTANTS
    IntSize,        \* sizeof(int32_t), in bytes
    MaxCollection,  \* ReaderOptions::maxCollectionLength
    MaxString,      \* ReaderOptions::maxStringLength
    MaxDepth        \* ReaderOptions::maxDepth

\* The code's int32_t has 4 bytes; an instance may be narrower.
ASSUME ReaderAssumption ==
    IntSize \in {1, 2, 4} /\ MaxCollection \in Nat /\ MaxString \in Nat /\ MaxDepth \in Nat

VARIABLE data_      \* the input

NULL_OBJECT      == 255
MAX_MEMBER_COUNT == 249
NULL_COLLECTION  == -1

VARINT_MAX_SINGLE == 127
VARINT_UINT16_TAG == 132
VARINT_UINT32_TAG == 130

Errors == {"None", "BufferUnderflow", "InvalidHeader", "LengthLimit", "TrailingBytes"}

Readers ==
    [pos : 0 .. Len(data_), depth : Nat, error : Errors, threw : BOOLEAN]

\* A fresh reader, and what Reset() makes of an old one.
NewReader == [pos |-> 0, depth |-> 0, error |-> "None", threw |-> FALSE]

Failed(r) == r.error # "None"

Remaining(r) == Len(data_) - r.pos

IsEnd(r) == r.pos >= Len(data_)

\* Mutant of Fail: the last error is kept.
FailOverwrites(r, code) == [r EXCEPT !.error = code, !.threw = throws]

\* The first error is the one that is kept.
Fail(r, code) ==
    [r EXCEPT !.error = IF @ = "None" THEN code ELSE @, !.threw = throws]

-----------------------------------------------------------------------------
(***************************************************************************)
(* Primitives.  EnsureBytes(r, n) holds when n bytes may be read;          *)
(* Take(r, n) is the reader after a call that checks for n bytes and steps *)
(* over them (Advance, ReadRaw, ReadByte).                                 *)
(***************************************************************************)
EnsureBytes(r, n) == ~ Failed(r) /\ n <= Remaining(r)

\* Mutant of Take: the position moves before the check.
TakeAdvancesFirst(r, n) ==
    LET moved == [r EXCEPT !.pos = @ + n]
    IN  CASE Failed(r)         -> r
          [] EnsureBytes(r, n) -> moved
          [] OTHER             -> Fail(moved, "BufferUnderflow")

\* Mutant of Take: a reader that has failed goes on.
TakeAfterFailure(r, n) ==
    IF n <= Remaining(r) THEN [r EXCEPT !.pos = @ + n] ELSE Fail(r, "BufferUnderflow")

Take(r, n) ==
    CASE Failed(r)         -> r
      [] EnsureBytes(r, n) -> [r EXCEPT !.pos = @ + n]
      [] OTHER             -> Fail(r, "BufferUnderflow")

\* n bytes at the read position as a little-endian integer, unsigned or two's
\* complement.
LittleEndian(r, n) ==
    LET prefix[i \in 0 .. n] ==
            IF i = 0 THEN 0 ELSE prefix[i - 1] + data_[r.pos + i] * 256 ^ (i - 1)
    IN  prefix[n]

Signed(value, n) == IF value >= 256 ^ n \div 2 THEN value - 256 ^ n ELSE value

ReadUnsigned(r, n) ==
    [to  |-> Take(r, n),
     val |-> IF EnsureBytes(r, n) THEN LittleEndian(r, n) ELSE 0]

ReadInt(r) ==
    LET raw == ReadUnsigned(r, IntSize)
    IN  [raw EXCEPT !.val = Signed(@, IntSize)]

ReadByte(r) == ReadUnsigned(r, 1)

\* Mutant of Seek: no check.
SeekAnywhere(r, position) == [r EXCEPT !.pos = position]

\* Seek looks at the input's size and not at the error state.
Seek(r, position) ==
    IF position > Len(data_) THEN Fail(r, "BufferUnderflow")
    ELSE [r EXCEPT !.pos = position]

-----------------------------------------------------------------------------
(***************************************************************************)
(* Headers.                                                                *)
(***************************************************************************)
NullHeader == [count |-> 0, isNull |-> TRUE]

ReadObjectHeader(r) ==
    LET b == ReadByte(r)
    IN  CASE b.val = NULL_OBJECT      -> [to |-> b.to, val |-> NullHeader]
          [] b.val \in MAX_MEMBER_COUNT + 1 .. NULL_OBJECT - 1 ->
                [to |-> Fail(b.to, "InvalidHeader"), val |-> NullHeader]
          [] b.val <= MAX_MEMBER_COUNT ->
                [to |-> b.to, val |-> [count |-> b.val, isNull |-> FALSE]]

\* Mutant of ReadCollectionLength: the bytes remaining are not looked at.
ReadCollectionLengthTrusting(r, minElementSize) ==
    LET len == ReadInt(r)
        bad == \/ len.val < 0 /\ len.val # NULL_COLLECTION
               \/ len.val > MaxCollection
    IN  IF bad THEN [to |-> Fail(len.to, "LengthLimit"), val |-> -1] ELSE len

\* -1 stands for a null collection and for a rejected length alike.
ReadCollectionLength(r, minElementSize) ==
    LET len == ReadInt(r)
        bad == \/ len.val < 0 /\ len.val # NULL_COLLECTION
               \/ len.val > MaxCollection
               \/ minElementSize > 0 /\ len.val > Remaining(len.to) \div minElementSize
    IN  IF bad THEN [to |-> Fail(len.to, "LengthLimit"), val |-> -1] ELSE len

\* The byte length of a VersionTolerant member.
ReadVarIntLength(r) ==
    LET b == ReadByte(r)
    IN  CASE b.val <= VARINT_MAX_SINGLE -> b
          [] b.val = VARINT_UINT16_TAG  -> ReadUnsigned(b.to, 2)
          [] b.val = VARINT_UINT32_TAG  -> ReadUnsigned(b.to, 4)
          [] OTHER -> [to |-> Fail(b.to, "InvalidHeader"), val |-> 0]

CheckStringLength(r, count, unitSize) ==
    /\ count <= MaxString
    /\ unitSize > 0 => count <= Remaining(r) \div unitSize

\* The bytes of a string, count units of unitSize bytes each.
TakeString(r, count, unitSize) ==
    IF CheckStringLength(r, count, unitSize) THEN Take(r, count * unitSize)
    ELSE Fail(r, "LengthLimit")

\* The reader after ReadString: -1 null, 0 empty, positive UTF-16, else UTF-8
\* of ~header bytes behind an integer that is read and not used.
ReadString(r) ==
    LET header == ReadInt(r)
        utf16Length == Take(header.to, IntSize)
    IN  IF Failed(header.to) \/ header.val \in {-1, 0} THEN header.to
        ELSE IF header.val > 0 THEN TakeString(header.to, header.val, 2)
        ELSE IF utf16Length.threw THEN utf16Length
        ELSE TakeString(utf16Length, -header.val - 1, 1)

-----------------------------------------------------------------------------
(***************************************************************************)
(* Depth tracking and the final check.                                     *)
(***************************************************************************)
\* Mutant of EnterObject: off by one.
EnterObjectLate(r) ==
    LET deeper == [r EXCEPT !.depth = @ + 1]
    IN  IF deeper.depth > MaxDepth + 1
        THEN [to |-> Fail(deeper, "LengthLimit"), val |-> FALSE]
        ELSE [to |-> deeper, val |-> TRUE]

EnterObject(r) ==
    LET deeper == [r EXCEPT !.depth = @ + 1]
    IN  IF deeper.depth > MaxDepth
        THEN [to |-> Fail(deeper, "LengthLimit"), val |-> FALSE]
        ELSE [to |-> deeper, val |-> TRUE]

LeaveObject(r) == [r EXCEPT !.depth = IF @ > 0 THEN @ - 1 ELSE @]

RequireEnd(r) == IF IsEnd(r) THEN r ELSE Fail(r, "TrailingBytes")
=============================================================================
