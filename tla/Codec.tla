------------------------------- MODULE Codec -------------------------------
(***************************************************************************)
(* What is written for a value and read back: the typed members of         *)
(* MemoryPackWriter and MemoryPackReader and the formatters of             *)
(* include/memorypack/core.hpp and containers.hpp, for a build without     *)
(* exceptions.                                                             *)
(*                                                                         *)
(* A type is a record whose k names the formatter:                         *)
(*   bool, num, enum      n bytes, signed or not, and the initial value    *)
(*   string, u16string    bytes, 16-bit units                              *)
(*   vector, seq, set     of elements (seq: std::deque and std::list)      *)
(*   array                the first n of the elements                      *)
(*   map                  from keys to values                              *)
(*   inline               several values in a row (std::pair, Guid, ...)   *)
(*   pad                  n bytes that carry nothing                       *)
(*   tuple, object        several values behind a header; object counts    *)
(*                        towards the depth                                *)
(*   optional, ptr, nullableObject                                         *)
(*   variant              of alternatives with tags                        *)
(*   unmanaged, scrubbed  a struct of n bytes, copied; its padding         *)
(*   unmanagedCollection                                                   *)
(* A value is what the type holds: an optional and a pointer are sequences *)
(* of at most one element.                                                 *)
(* A bool is read as its byte compared with zero; std::optional<bool> and  *)
(* std::array<bool> copy the byte instead, which is the same for the bytes *)
(* that are written, 0 and 1.                                              *)
(***************************************************************************)
EXTENDS MemoryPackReader, MemoryPackWriter, Utf, SequencesExt

CONSTANT LongSize       \* sizeof(int64_t), in bytes

WIDE_TAG == 250

IsArithmetic(t) == t.k \in {"bool", "num"}
IsScalar(t)     == t.k \in {"bool", "num", "enum"}
IsUnmanaged(t)  == t.k \in {"unmanaged", "scrubbed"}

SizeOf(t)  == IF t.k = "bool" THEN 1 ELSE t.n
AlignOf(t) == IF IsUnmanaged(t) THEN t.align ELSE SizeOf(t)

\* WireNullEncoding
NullEncoding(t) ==
    CASE IsScalar(t) \/ IsUnmanaged(t)                  -> "NullableValue"
      [] t.k \in {"string", "u16string"}                -> "String"
      [] t.k \in {"vector", "seq", "set", "map"}        -> "Collection"
      [] OTHER                                          -> "Object"

\* NullableLayout::Size, a multiple of the alignment that has room for the flag.
NullableSize(t) ==
    ((AlignOf(t) + SizeOf(t) + AlignOf(t) - 1) \div AlignOf(t)) * AlignOf(t)

RECURSIVE Default(_)

\* T{}
Default(t) ==
    CASE t.k = "bool"                                   -> FALSE
      [] t.k \in {"num", "enum"}                        -> t.init
      [] t.k = "set"                                    -> {}
      [] t.k = "array"                                  -> [i \in 1 .. t.n |-> Default(t.of)]
      [] t.k \in {"inline", "tuple", "object"}          -> [i \in DOMAIN t.of |-> Default(t.of[i])]
      [] t.k = "variant"                                -> [tag |-> t.of[1].tag, val |-> Default(t.of[1].of)]
      [] IsUnmanaged(t)                                 -> Zeros(t.n)
      [] OTHER                                          -> <<>>

-----------------------------------------------------------------------------
(***************************************************************************)
(* Writing: the appends that Write(value) makes, in order.                 *)
(***************************************************************************)
ToBytes(value, n) == [i \in 1 .. n |-> (value \div (256 ^ (i - 1))) % 256]

IntBytes(value) == << ToBytes(value, IntSize) >>

\* The object representation of a scalar or of an unmanaged struct.
Bytes(t, v) ==
    CASE t.k = "bool"             -> <<IF v THEN 1 ELSE 0>>
      [] t.k \in {"num", "enum"}  -> ToBytes(v, t.n)
      [] IsUnmanaged(t)           -> v

WriteString(s) ==
    IF s = <<>> THEN IntBytes(0)
    ELSE IntBytes(-Len(s) - 1) \o IntBytes(utf16_length_from_utf8(s)) \o << s >>

WriteStringUtf16(s) ==
    IF s = <<>> THEN IntBytes(0)
    ELSE IntBytes(Len(s)) \o [i \in DOMAIN s |-> ToBytes(s[i], 2)]

WriteUnionHeader(tag) ==
    IF tag < WIDE_TAG THEN << <<tag>> >> ELSE << <<WIDE_TAG>>, ToBytes(tag, 2) >>

\* A copy of C# Nullable<T>: the flag, padding, and the value at its alignment.
WriteNullable(t, v) ==
    LET value == IF v = <<>> THEN Zeros(SizeOf(t)) ELSE Bytes(t, v[1])
        flag  == <<Len(v)>> \o Zeros(AlignOf(t) - 1)
    IN  << flag \o value \o Zeros(NullableSize(t) - AlignOf(t) - SizeOf(t)) >>

WriteUnmanaged(v) == << v >>

\* memcpy of each listed member into a zeroed buffer: the padding is not copied.
ScrubbedBytes(t, v) == [i \in 1 .. t.n |-> IF i \in t.padding THEN 0 ELSE v[i]]

RECURSIVE Pieces(_, _)

WriteEach(t, s) == FlattenSeq([i \in DOMAIN s |-> Pieces(t, s[i])])

\* The members of a tuple or an object, or values in a row.
WriteMembers(types, v) == FlattenSeq([i \in DOMAIN types |-> Pieces(types[i], v[i])])

WriteTuple(types, v) == << <<Len(types)>> >> \o WriteMembers(types, v)

\* WriteCollection, WriteVector, WriteArray: arithmetic elements in one piece.
WriteCollection(t, s) ==
    IntBytes(Len(s)) \o (IF IsArithmetic(t) /\ t.k # "bool"
                    THEN << FlattenSeq([i \in DOMAIN s |-> Bytes(t, s[i])]) >>
                    ELSE WriteEach(t, s))

WriteUnmanagedCollection(s) == IntBytes(Len(s)) \o << FlattenSeq(s) >>

\* Containers are iterated in the order of their keys.
Sorted(S) == SetToSortSeq(S, <)

WriteMap(t, f) ==
    LET keys == Sorted(DOMAIN f)
    IN  IntBytes(Len(keys))
          \o FlattenSeq([i \in DOMAIN keys |-> Pieces(t.key, keys[i]) \o Pieces(t.of, f[keys[i]])])

WriteOptional(t, v) ==
    CASE NullEncoding(t) = "NullableValue"                          -> WriteNullable(t, v)
      [] NullEncoding(t) # "NullableValue" /\ v # <<>>              -> Pieces(t, v[1])
      [] NullEncoding(t) \in {"String", "Collection"} /\ v = <<>>   -> IntBytes(NULL_COLLECTION)
      [] NullEncoding(t) = "Object" /\ v = <<>>                     -> << <<NULL_OBJECT>> >>

WritePointer(t, v) == IF v = <<>> THEN << <<NULL_OBJECT>> >> ELSE Pieces(t, v[1])

WriteNullableObject(t, v) ==
    IF v = <<>> THEN << <<NULL_OBJECT>> >> ELSE << <<1>> >> \o Pieces(t, v[1])

WriteVariant(t, v) ==
    LET alternative == t.of[CHOOSE i \in DOMAIN t.of : t.of[i].tag = v.tag]
    IN  WriteUnionHeader(v.tag) \o Pieces(alternative.of, v.val)

\* Write(value)
Pieces(t, v) ==
    CASE IsScalar(t)                     -> << Bytes(t, v) >>
      [] t.k = "string"                  -> WriteString(v)
      [] t.k = "u16string"               -> WriteStringUtf16(v)
      [] t.k \in {"vector", "array"}     -> WriteCollection(t.of, v)
      [] t.k = "seq"                     -> IntBytes(Len(v)) \o WriteEach(t.of, v)
      [] t.k = "set"                     -> IntBytes(Cardinality(v)) \o WriteEach(t.of, Sorted(v))
      [] t.k = "map"                     -> WriteMap(t, v)
      [] t.k = "inline"                  -> WriteMembers(t.of, v)
      [] t.k = "pad"                     -> [i \in 1 .. t.n |-> <<0>>]
      [] t.k \in {"tuple", "object"}     -> WriteTuple(t.of, v)
      [] t.k = "optional"                -> WriteOptional(t.of, v)
      [] t.k = "ptr"                     -> WritePointer(t.of, v)
      [] t.k = "nullableObject"          -> WriteNullableObject(t.of, v)
      [] t.k = "variant"                 -> WriteVariant(t, v)
      [] t.k = "unmanaged"               -> WriteUnmanaged(v)
      [] t.k = "scrubbed"                -> << ScrubbedBytes(t, v) >>
      [] t.k = "unmanagedCollection"     -> WriteUnmanagedCollection(v)

-----------------------------------------------------------------------------
(***************************************************************************)
(* Reading: each operator takes a reader and gives the reader after the    *)
(* call and the value.  old is what the variable held before; a reader     *)
(* that has failed goes through the same code and reads nothing.           *)
(***************************************************************************)
Advance(r, n) == Take(r, n)

PeekIsNull(r) == ~ IsEnd(r) /\ data_[r.pos + 1] = NULL_OBJECT

\* Mutant of ValueAt: every number is taken for an unsigned one.
ValueAtUnsigned(t, pos) ==
    CASE t.k = "bool"             -> data_[pos + 1] # 0
      [] t.k \in {"num", "enum"}  -> LittleEndian([pos |-> pos], t.n)
      [] IsUnmanaged(t)           -> SubSeq(data_, pos + 1, pos + t.n)

\* One scalar or unmanaged struct out of the input, at a position.
ValueAt(t, pos) ==
    LET raw == LittleEndian([pos |-> pos], t.n)
    IN  CASE t.k = "bool" -> data_[pos + 1] # 0
          [] t.k \in {"num", "enum"} -> IF t.signed THEN Signed(raw, t.n) ELSE raw
          [] IsUnmanaged(t) -> SubSeq(data_, pos + 1, pos + t.n)

\* ReadBool, ReadInt32, ..., ReadEnum, ReadUnmanaged.
ReadValue(t, r) ==
    [to  |-> Take(r, SizeOf(t)),
     val |-> IF EnsureBytes(r, SizeOf(t)) THEN ValueAt(t, r.pos)
             ELSE IF t.k \in {"num", "enum"} THEN 0 ELSE Default(t)]

\* ReadString(): nothing for null.
ReadText(r) ==
    LET header == ReadInt(r).val
        to     == ReadString(r)
        units  == [i \in 1 .. header |-> LittleEndian([pos |-> r.pos + IntSize + 2 * (i - 1)], 2)]
    IN  [to  |-> to,
         val |-> CASE Failed(to) \/ header = 0    -> << <<>> >>
                   [] ~ Failed(to) /\ header = -1 -> <<>>
                   [] ~ Failed(to) /\ header > 0  -> << Utf8FromUtf16(units) >>
                   [] ~ Failed(to) /\ header < -1 -> << SubSeq(data_, to.pos + header + 2, to.pos) >>]

\* ReadStringView(): a UTF-16 payload is left where it is.
ReadStringView(r) ==
    LET header == ReadInt(r).val
        text   == ReadText(r)
    IN  CASE Failed(ReadInt(r).to)                      -> [to |-> ReadInt(r).to, val |-> <<>>]
          [] ~ Failed(ReadInt(r).to) /\ header > 0      -> [to |-> r, val |-> <<>>]
          [] ~ Failed(ReadInt(r).to) /\ header <= 0     ->
                [to |-> text.to, val |-> IF Failed(text.to) THEN <<>> ELSE text.val]

\* ReadUnionHeader(): nothing for null.
ReadUnionHeader(r) ==
    LET b    == ReadByte(r)
        wide == ReadUnsigned(b.to, 2)
    IN  CASE b.val < WIDE_TAG                      -> [to |-> b.to, val |-> <<b.val>>]
          [] b.val = WIDE_TAG                      -> [to |-> wide.to, val |-> <<wide.val>>]
          [] b.val \in WIDE_TAG + 1 .. NULL_OBJECT - 1 -> [to |-> Fail(b.to, "InvalidHeader"), val |-> <<>>]
          [] b.val = NULL_OBJECT                   -> [to |-> b.to, val |-> <<>>]

ReadNullable(t, r) ==
    IF ~ EnsureBytes(r, NullableSize(t)) \/ data_[r.pos + 1] = 0
    THEN [to |-> Take(r, NullableSize(t)), val |-> <<>>]
    ELSE [to |-> Take(r, NullableSize(t)), val |-> << ValueAt(t, r.pos + AlignOf(t)) >>]

\* Mutant of ReadBulk: as many elements as there are.
ReadBulkClamped(t, r) ==
    LET len   == ReadInt(r)
        most  == Remaining(len.to) \div SizeOf(t)
        count == IF len.val <= 0 \/ Failed(len.to) THEN 0 ELSE IF len.val < most THEN len.val ELSE most
    IN  [to  |-> Take(len.to, count * SizeOf(t)),
         val |-> [i \in 1 .. count |-> ValueAt(t, len.to.pos + (i - 1) * SizeOf(t))]]

\* ReadVector, ReadArray: a length and that many elements in one copy.
ReadBulk(t, r) ==
    LET len   == ReadCollectionLength(r, SizeOf(t))
        count == IF len.val <= 0 \/ ~ EnsureBytes(len.to, len.val * SizeOf(t)) THEN 0 ELSE len.val
    IN  [to  |-> IF len.val <= 0 THEN len.to ELSE Take(len.to, len.val * SizeOf(t)),
         val |-> [i \in 1 .. count |-> ValueAt(t, len.to.pos + (i - 1) * SizeOf(t))]]

ReadUnmanagedCollection(t, r) == ReadBulk(t, r)

\* What a collection of t needs at least for an element: MinEncodedSize, and
\* without strings the estimate of containers.hpp.
MinEncodedSize(t) == IF IsScalar(t) THEN SizeOf(t) ELSE IF t.k = "string" THEN IntSize ELSE 1
MinElementSize(t) == IF IsScalar(t) THEN SizeOf(t) ELSE 1

RECURSIVE Read(_, _, _)

\* Values into the variables olds; the first count of them are on the wire.
ReadMembers(types, count, r, olds) ==
    LET after[i \in 0 .. Len(types)] ==
            IF i = 0 THEN [to |-> r, val |-> <<>>]
            ELSE LET before == after[i - 1]
                     member == Read(types[i], before.to, olds[i])
                 IN  IF i > count THEN [before EXCEPT !.val = Append(@, olds[i])]
                     ELSE [to |-> member.to, val |-> Append(before.val, member.val)]
    IN  after[Len(types)]

\* Elements of one type until there are n or the reader has failed.
ReadElements(t, n, r) ==
    LET after[i \in 0 .. n] ==
            IF i = 0 THEN [to |-> r, val |-> <<>>]
            ELSE LET before  == after[i - 1]
                     element == Read(t, before.to, Default(t))
                 IN  IF Failed(before.to) THEN before
                     ELSE [to |-> element.to, val |-> Append(before.val, element.val)]
    IN  IF n <= 0 THEN after[0] ELSE after[n]

ReadCollection(t, minSize, r) ==
    LET len == ReadCollectionLength(r, minSize)
    IN  IF len.val <= 0 THEN [to |-> len.to, val |-> <<>>] ELSE ReadElements(t, len.val, len.to)

\* The first n elements; those that are missing stay T{}.
ReadArray(t, r) ==
    LET all == IF IsArithmetic(t.of) THEN ReadBulk(t.of, r) ELSE ReadCollection(t.of, 1, r)
    IN  [all EXCEPT !.val = [i \in 1 .. t.n |-> IF i <= Len(@) THEN @[i] ELSE Default(t.of)]]

\* emplace: the first entry of a key is the one that is kept.
ReadMap(t, r) ==
    LET pair == [k |-> "inline", of |-> <<t.key, t.of>>]
        all  == ReadCollection(pair, MinElementSize(t.key) + MinElementSize(t.of), r)
        first(key) == CHOOSE i \in DOMAIN all.val :
                         /\ all.val[i][1] = key
                         /\ \A j \in 1 .. i - 1 : all.val[j][1] # key
    IN  [all EXCEPT !.val = [key \in {@[i][1] : i \in DOMAIN @} |-> all.val[first(key)][2]]]

ReadTuple(t, r) ==
    LET header == ReadObjectHeader(r)
    IN  IF header.val.isNull THEN [to |-> header.to, val |-> Default(t)]
        ELSE ReadMembers(t.of, header.val.count, header.to, Default(t))

\* The Deserialize that MEMORYPACK_DEFINE generates; without members it is the
\* one of MEMORYPACK_DEFINE_EMPTY, which does not enter.
ReadObject(t, r, old) ==
    LET header  == ReadObjectHeader(r)
        inside  == IF t.of = <<>> THEN [to |-> header.to, val |-> TRUE] ELSE EnterObject(header.to)
        members == ReadMembers(t.of, header.val.count, inside.to, old)
    IN  CASE header.val.isNull                 -> [to |-> header.to, val |-> Default(t)]
          [] ~ header.val.isNull /\ ~ inside.val -> [to |-> inside.to, val |-> old]
          [] ~ header.val.isNull /\ inside.val   ->
                IF t.of = <<>> THEN members ELSE [members EXCEPT !.to = LeaveObject(@)]

\* A value where the null object header may stand.
ReadNullOr(t, r) ==
    LET value == Read(t, r, Default(t))
    IN  IF PeekIsNull(r) THEN [to |-> ReadByte(r).to, val |-> <<>>]
        ELSE [value EXCEPT !.val = << @ >>]

\* A string or a collection where the header -1 may stand: a copy of the reader
\* looks at the header first.
ReadLengthOr(t, r) ==
    LET value == Read(t, r, Default(t))
    IN  IF Remaining(r) >= IntSize /\ ReadInt(r).val = NULL_COLLECTION
        THEN [to |-> Advance(r, IntSize), val |-> <<>>]
        ELSE [value EXCEPT !.val = << @ >>]

\* Mutant of ReadOptional: an optional string is read like an object.
ReadOptionalByByte(t, r) ==
    IF NullEncoding(t) = "NullableValue" THEN ReadNullable(t, r) ELSE ReadNullOr(t, r)

ReadOptional(t, r) ==
    CASE NullEncoding(t) = "NullableValue"                            -> ReadNullable(t, r)
      [] t.k = "string"                                               -> ReadText(r)
      [] NullEncoding(t) = "Collection" \/ t.k = "u16string"          -> ReadLengthOr(t, r)
      [] NullEncoding(t) = "Object"                                   -> ReadNullOr(t, r)

ReadNullableObject(t, r) ==
    LET b     == ReadByte(r)
        value == Read(t, b.to, Default(t))
    IN  IF b.val = NULL_OBJECT THEN [to |-> b.to, val |-> <<>>] ELSE [value EXCEPT !.val = << @ >>]

\* A tag that no alternative has leaves the variable alone and takes the rest of
\* the input, since its end is not known.
ReadVariant(t, r, old) ==
    LET tag   == ReadUnionHeader(r)
        known == {i \in DOMAIN t.of : t.of[i].tag = tag.val[1]}
        alternative == t.of[CHOOSE i \in known : TRUE]
        value == Read(alternative.of, tag.to, Default(alternative.of))
    IN  CASE tag.val = <<>>                 -> [to |-> tag.to, val |-> Default(t)]
          [] tag.val # <<>> /\ known # {}   -> [value EXCEPT !.val = [tag |-> tag.val[1], val |-> @]]
          [] tag.val # <<>> /\ known = {}   -> [to |-> Advance(tag.to, Remaining(tag.to)), val |-> old]

\* Read(value)
Read(t, r, old) ==
    CASE IsScalar(t) \/ IsUnmanaged(t) -> ReadValue(t, r)
      [] t.k = "string"                -> LET s == ReadText(r)
                                          IN  [s EXCEPT !.val = IF @ = <<>> THEN <<>> ELSE @[1]]
      [] t.k = "u16string"             -> LET s == ReadText(r)
                                          IN  [s EXCEPT !.val = IF @ = <<>> THEN <<>> ELSE Utf16FromUtf8(@[1])]
      [] t.k = "vector"                -> IF IsArithmetic(t.of) THEN ReadBulk(t.of, r)
                                          ELSE ReadCollection(t.of, MinEncodedSize(t.of), r)
      [] t.k = "unmanagedCollection"   -> ReadUnmanagedCollection(t.of, r)
      [] t.k = "array"                 -> ReadArray(t, r)
      [] t.k = "seq"                   -> ReadCollection(t.of, MinElementSize(t.of), r)
      [] t.k = "set"                   -> LET all == ReadCollection(t.of, MinElementSize(t.of), r)
                                          IN  [all EXCEPT !.val = ToSet(@)]
      [] t.k = "map"                   -> ReadMap(t, r)
      [] t.k = "inline"                -> ReadMembers(t.of, Len(t.of), r, old)
      [] t.k = "pad"                   -> [to |-> Advance(r, t.n), val |-> <<>>]
      [] t.k = "tuple"                 -> ReadTuple(t, r)
      [] t.k = "object"                -> ReadObject(t, r, old)
      [] t.k = "optional"              -> ReadOptional(t.of, r)
      [] t.k = "ptr"                   -> ReadNullOr(t.of, r)
      [] t.k = "nullableObject"        -> ReadNullableObject(t.of, r)
      [] t.k = "variant"               -> ReadVariant(t, r, old)
=============================================================================
