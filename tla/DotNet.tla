------------------------------- MODULE DotNet -------------------------------
(***************************************************************************)
(* The .NET value types of include/memorypack/dotnet.hpp: their layouts on *)
(* the wire, as types of Codec, and the conversions between them and what  *)
(* a C++ program has (text, time points, durations, floats).               *)
(*                                                                         *)
(* A 64-bit integer is LongSize bytes, and the constants of the calendar   *)
(* are scaled with it.  Half and float keep their real widths.             *)
(***************************************************************************)
EXTENDS Codec

CONSTANTS
    EpochTicks,     \* TICKS_AT_UNIX_EPOCH
    NsPerTick       \* nanoseconds in a tick: 100

\* What system_clock can tell lies within the ticks that a DateTime can hold.
ASSUME EpochAssumption ==
    EpochTicks \in 256 ^ LongSize \div (2 * NsPerTick) + 1 .. 256 ^ LongSize \div 8

Num(size, isSigned) == [k |-> "num", n |-> size, signed |-> isSigned, init |-> 0]

\* Values one behind the other.  Bytes that the code appends in one piece are
\* appended one by one here: a buffer they do not fit into refuses either.
Row(types) == [k |-> "inline", of |-> types]

U8       == Num(1, FALSE)
Long     == Num(LongSize, TRUE)
ULong    == Num(LongSize, FALSE)

Guid           == Row(<<Num(IntSize, FALSE), Num(2, FALSE), Num(2, FALSE)>> \o [i \in 1 .. 8 |-> U8])
DateTime       == ULong
TimeSpan       == Long
DateTimeOffset == Row(<<Num(2, TRUE), [k |-> "pad", n |-> 6], DateTime>>)
Decimal        == Row([i \in 1 .. 16 |-> U8])
Half           == Num(2, FALSE)
Int128         == Row(<<ULong, Long>>)
UInt128        == Row(<<ULong, ULong>>)

\* Vector2, Vector3, Vector4 and Quaternion: floats in a row, copied.
Vector(floats) == [k |-> "unmanaged", n |-> 4 * floats, align |-> 4]

-----------------------------------------------------------------------------
(***************************************************************************)
(* Guid.  Text is a sequence of characters; data1 has two digits per byte. *)
(***************************************************************************)
LowerDigits == <<"0", "1", "2", "3", "4", "5", "6", "7", "8", "9", "a", "b", "c", "d", "e", "f">>
UpperDigits == <<"0", "1", "2", "3", "4", "5", "6", "7", "8", "9", "A", "B", "C", "D", "E", "F">>

Data1Digits == 2 * IntSize

\* Where the groups of digits start, and how many digits each has.
GuidFields ==
    LET d == Data1Digits
    IN  <<[at |-> 0, digits |-> d], [at |-> d + 1, digits |-> 4], [at |-> d + 6, digits |-> 4],
          [at |-> d + 11, digits |-> 2], [at |-> d + 13, digits |-> 2]>>
        \o [i \in 1 .. 6 |-> [at |-> d + 16 + 2 * (i - 1), digits |-> 2]]

GuidDashes == {Data1Digits, Data1Digits + 5, Data1Digits + 10, Data1Digits + 15}

GuidLength == Data1Digits + 28

\* The digits that a character may stand for: one or none.
hex(c) == {d \in 0 .. 15 : c \in {LowerDigits[d + 1], UpperDigits[d + 1]}}

readHex(text, field) ==
    LET value[i \in 0 .. field.digits] ==
            IF i = 0 THEN 0 ELSE value[i - 1] * 16 + CHOOSE d \in hex(text[field.at + i]) : TRUE
    IN  value[field.digits]

\* Nothing for a text that is not well formed.
Parse(text) ==
    IF /\ Len(text) = GuidLength
       /\ \A i \in GuidDashes : text[i + 1] = "-"
       /\ \A f \in ToSet(GuidFields) : \A i \in 1 .. f.digits : hex(text[f.at + i]) # {}
    THEN << [i \in DOMAIN GuidFields |-> readHex(text, GuidFields[i])] >>
    ELSE <<>>

GuidToString(guid) ==
    LET digits(i) == [j \in 1 .. GuidFields[i].digits |->
                        LowerDigits[1 + ((guid[i] \div (16 ^ (GuidFields[i].digits - j))) % 16)]]
        group(i)  == IF i \in 1 .. 3 \/ i = 5 THEN digits(i) \o <<"-">> ELSE digits(i)
    IN  FlattenSeq([i \in DOMAIN GuidFields |-> group(i)])

\* The memcpy of each field out of the bytes of a Guid.
FromBytes(bytes) ==
    LET at(i) == IF i = 1 THEN 0 ELSE IF i <= 3 THEN IntSize + 2 * (i - 2) ELSE IntSize + i
        size(i) == IF i = 1 THEN IntSize ELSE IF i <= 3 THEN 2 ELSE 1
        value(i) == LET prefix[k \in 0 .. size(i)] ==
                            IF k = 0 THEN 0 ELSE prefix[k - 1] + bytes[at(i) + k] * (256 ^ (k - 1))
                    IN  prefix[size(i)]
    IN  [i \in 1 .. 11 |-> value(i)]

-----------------------------------------------------------------------------
(***************************************************************************)
(* DateTime and TimeSpan.  A time point and a duration are nanoseconds; a  *)
(* duration_cast to ticks rounds towards zero.                             *)
(***************************************************************************)
TickRange == 256 ^ LongSize \div 4          \* the two top bits are the kind

Wrapped(value) == Signed(value % 256 ^ LongSize, LongSize)

duration_cast(ns) == IF ns >= 0 THEN ns \div NsPerTick ELSE -((-ns) \div NsPerTick)

GetTicks(dateData) == dateData % TickRange
GetKind(dateData)  == dateData \div TickRange

FromTicks(ticks, kind) == (ticks % TickRange) + kind * TickRange

Utc == 1

FromTimePoint(ns) == FromTicks(duration_cast(ns) + EpochTicks, Utc)

\* A date further from the epoch than the clock counts wraps around.
ToTimePoint(dateData) == Wrapped((GetTicks(dateData) - EpochTicks) * NsPerTick)

FromDuration(ns) == duration_cast(ns)

ToDuration(ticks) == Wrapped(ticks * NsPerTick)

-----------------------------------------------------------------------------
(***************************************************************************)
(* Half.  A float is its three fields, and mag is its bits without sign.   *)
(***************************************************************************)
Float(sign, mag) == [sign |-> sign, exp |-> mag \div (2 ^ 23), mant |-> mag % 2 ^ 23]

Mag(f) == f.exp * (2 ^ 23) + f.mant

Infinity == 31 * 1024

\* Mutant of FromFloat: the bits below a half's are cut off.
FromFloatTruncates(f) ==
    LET e == f.exp - 112
    IN  32768 * f.sign + (CASE f.exp = 255 -> Infinity + (IF f.mant # 0 THEN 512 ELSE 0)
                            [] f.exp # 255 /\ e >= 31 -> Infinity
                            [] e \in 1 .. 30 -> e * 1024 + f.mant \div (2 ^ 13)
                            [] e \in -10 .. 0 -> (f.mant + 2 ^ 23) \div (2 ^ (14 - e))
                            [] e < -10 -> 0)

\* To the nearest half; a tie rounds up.
FromFloat(f) ==
    LET e          == f.exp - 112
        rounded(m, shift) == m \div (2 ^ shift) + ((m \div (2 ^ (shift - 1))) % 2)
    IN  32768 * f.sign + (CASE f.exp = 255 -> Infinity + (IF f.mant # 0 THEN 512 ELSE 0)
                            [] f.exp # 255 /\ e >= 31 -> Infinity
                            [] e \in 1 .. 30 -> e * 1024 + rounded(f.mant, 13)
                            [] e \in -10 .. 0 -> rounded(f.mant + 2 ^ 23, 14 - e)
                            [] e < -10 -> 0)

\* A subnormal half is shifted until its first bit is the one of a normal float.
ToFloat(bits) ==
    LET exp   == (bits \div 1024) % 32
        mant  == bits % 1024
        shift == CHOOSE s \in 1 .. 10 : mant * (2 ^ s) \in 1024 .. 2047
        mag   == CASE exp = 0 /\ mant = 0 -> 0
                   [] exp = 0 /\ mant # 0 -> (113 - shift) * (2 ^ 23) + (mant * (2 ^ shift) - 1024) * (2 ^ 13)
                   [] exp = 31            -> 255 * (2 ^ 23) + mant * (2 ^ 13)
                   [] exp \in 1 .. 30     -> (exp + 112) * (2 ^ 23) + mant * (2 ^ 13)
    IN  Float(bits \div 32768, mag)
=============================================================================
