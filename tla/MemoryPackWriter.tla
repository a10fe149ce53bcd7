-------------------------- MODULE MemoryPackWriter --------------------------
(***************************************************************************)
(* MemoryPackWriter of include/memorypack/core.hpp: its three buffer modes *)
(* and the calls that append to them, as operators from a writer to the    *)
(* writer after the call.                                                  *)
(*                                                                         *)
(* A writer is a record: mode says which of owned_, *vec_ and fixedBuf_    *)
(* buf stands for, pos is ownedPos_ or fixedPos_ (an external vector has   *)
(* none), error is error_, and threw is TRUE while the exception of the    *)
(* last call is on its way to the caller.                                  *)
(***************************************************************************)
EXTENDS Integers, Sequences, Build

CONSTANT InitialOwned   \* the 64 of GrowOwned

ASSUME InitialOwnedAssumption == InitialOwned \in Nat \ {0}

Zeros(n) == [i \in 1 .. n |-> 0]

WriterErrors == {"None", "BufferOverflow", "InvalidHeader", "LengthLimit", "NotSupported"}

\* The constructors.  A fixed buffer is as long as its capacity.
NewWriter(mode, buf) ==
    [mode |-> mode, buf |-> buf, pos |-> 0, error |-> "None", threw |-> FALSE]

WriterFailed(w) == w.error # "None"

Size(w) == IF w.mode = "vec" THEN Len(w.buf) ELSE w.pos

GetSpan(w) == SubSeq(w.buf, 1, Size(w))

WriterFail(w, code) ==
    [w EXCEPT !.error = IF @ = "None" THEN code ELSE @, !.threw = throws]

\* memcpy of s to the write position.
Overwrite(buf, pos, s) ==
    [i \in 1 .. Len(buf) |-> IF i \in pos + 1 .. pos + Len(s) THEN s[i - pos] ELSE buf[i]]

\* The size GrowOwned resizes to: doubled until needed more bytes fit.
GrownSize(size, pos, needed) ==
    LET first   == IF size > 0 THEN 2 * size ELSE InitialOwned
        next[k \in 0 .. pos + needed] == IF k = 0 THEN first ELSE 2 * next[k - 1]
        enough  == {k \in 0 .. pos + needed : next[k] >= pos + needed}
    IN  next[CHOOSE k \in enough : \A j \in enough : k <= j]

GrowOwned(w, needed) ==
    [w EXCEPT !.buf = @ \o Zeros(GrownSize(Len(@), w.pos, needed) - Len(@))]

\* Mutant of AppendBytes: a fixed buffer takes one byte more than it has.
AppendPastEnd(w, s) ==
    LET room  == Len(w.buf) - w.pos
        grown == IF Len(s) > room THEN GrowOwned(w, Len(s)) ELSE w
    IN  IF s = <<>> THEN w ELSE
        CASE w.mode = "vec"   -> [w EXCEPT !.buf = @ \o s]
          [] w.mode = "fixed" ->
                IF Len(s) > room + 1 THEN WriterFail(w, "BufferOverflow")
                ELSE [w EXCEPT !.buf = Overwrite(@, w.pos, s), !.pos = @ + Len(s)]
          [] w.mode = "owned" ->
                [grown EXCEPT !.buf = Overwrite(@, w.pos, s), !.pos = @ + Len(s)]

\* AppendByte and AppendBytes.
AppendBytes(w, s) ==
    LET room  == Len(w.buf) - w.pos
        grown == IF Len(s) > room THEN GrowOwned(w, Len(s)) ELSE w
    IN  IF s = <<>> THEN w ELSE
        CASE w.mode = "vec"   -> [w EXCEPT !.buf = @ \o s]
          [] w.mode = "fixed" ->
                IF Len(s) > room THEN WriterFail(w, "BufferOverflow")
                ELSE [w EXCEPT !.buf = Overwrite(@, w.pos, s), !.pos = @ + Len(s)]
          [] w.mode = "owned" ->
                [grown EXCEPT !.buf = Overwrite(@, w.pos, s), !.pos = @ + Len(s)]

(***************************************************************************)
(* One public Write call is a sequence of appends (a string is its length, *)
(* its UTF-16 length and its bytes; an object its header and its members). *)
(* Where one of them fails, an exception skips the rest, and the build     *)
(* without exceptions tries the rest.                                      *)
(***************************************************************************)
WritePieces(w, pieces) ==
    LET after[i \in 0 .. Len(pieces)] ==
            IF i = 0 THEN w
            ELSE IF after[i - 1].threw THEN after[i - 1]
            ELSE AppendBytes(after[i - 1], pieces[i])
    IN  after[Len(pieces)]

\* WriteObjectHeader: 250 and above are reserved.
WriteObjectHeader(w, memberCount, maxCount) ==
    IF memberCount > maxCount THEN WriterFail(w, "InvalidHeader")
    ELSE AppendBytes(w, <<memberCount>>)

\* The appends of WriteVarIntLength: the marker, then the little-endian value.
VarIntLength(value) ==
    LET byte(unit) == (value \div unit) % 256
    IN  IF value <= 127 THEN << <<value>> >>
        ELSE IF value <= 65535 THEN << <<132>>, <<byte(1), byte(256)>> >>
        ELSE << <<130>>, <<byte(1), byte(256), byte(65536), byte(16777216)>> >>

Clear(w) ==
    [w EXCEPT !.buf = IF w.mode = "vec" THEN <<>> ELSE @, !.pos = 0, !.error = "None"]

Reserve(w, capacity) ==
    IF w.mode = "owned" /\ capacity > Len(w.buf)
    THEN [w EXCEPT !.buf = @ \o Zeros(capacity - Len(@))] ELSE w

\* GetBuffer trims the owned vector to what was written.
GetBuffer(w) ==
    CASE w.mode = "vec"   -> w
      [] w.mode = "fixed" -> WriterFail(w, "NotSupported")
      [] w.mode = "owned" -> [w EXCEPT !.buf = GetSpan(w)]

\* TakeBuffer moves it out, and the next write starts from an empty vector.
TakeBuffer(w) ==
    IF w.mode # "owned" THEN WriterFail(w, "NotSupported")
    ELSE [w EXCEPT !.buf = <<>>, !.pos = 0]
=============================================================================
