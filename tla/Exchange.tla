------------------------------ MODULE Exchange ------------------------------
(***************************************************************************)
(* One value on its way from a sender to a receiver: made (or converted    *)
(* from text, a time point, a duration or a float), written by Serialize   *)
(* or SerializeTo, delivered whole, cut short or with a byte changed, and  *)
(* read by Deserialize into a fresh variable or into one that already      *)
(* holds a value.  What a receiver made of a changed message it may write  *)
(* again and send on.  Sender and receiver may know different versions of  *)
(* the type.                                                               *)
(***************************************************************************)
EXTENDS DotNet

CONSTANTS
    Catalog,        \* a sequence of [wt, rt, values, old]: the type of the
                    \* sender, that of the receiver, what is sent, what the
                    \* receiver's variable may hold before
    Floats, GuidTexts, TimePoints, Durations, TickCounts,   \* what is converted
    FixedSizes,     \* sizes of the buffers given to SerializeTo
    DamageBytes     \* what a byte may be changed to

VARIABLES
    entry,          \* which exchange of the catalog, 0 for a conversion
    source,         \* what was converted
    value,          \* the value that is sent
    reader,         \* the receiver's reader, when it is done
    out,            \* the receiver's variable
    phase,          \* idle, made, encoded, arrived, decoded, viewed, refused
    fault,          \* none, cut, changed, relayed
    reused          \* the variable held a value before

vars == <<throws, data_, entry, source, value, reader, out, phase, fault, reused>>

NoSource == [kind |-> "none"]

ConvertedType ==
    [float |-> Half, text |-> Guid, time |-> DateTime, ticks |-> DateTime, span |-> TimeSpan]

ReadType ==
    IF source.kind # "none" THEN ConvertedType[source.kind] ELSE Catalog[entry].rt
SentType ==
    IF source.kind # "none" THEN ConvertedType[source.kind]
    ELSE IF fault = "relayed" THEN Catalog[entry].rt ELSE Catalog[entry].wt

Init ==
    /\ throws = FALSE
    /\ data_ = <<>>
    /\ entry = 0 /\ source = NoSource /\ value = <<>>
    /\ reader = NewReader /\ out = <<>>
    /\ phase = "idle" /\ fault = "none" /\ reused = FALSE

-----------------------------------------------------------------------------
(***************************************************************************)
(* The sender.                                                             *)
(***************************************************************************)
Make(i, v) ==
    /\ phase = "idle"
    /\ entry' = i /\ value' = v /\ phase' = "made"
    /\ UNCHANGED <<throws, data_, source, reader, out, fault, reused>>

\* v is a converted value, or nothing when the conversion was refused.
Convert(from, v) ==
    /\ phase = "idle"
    /\ source' = from
    /\ IF v = <<>> THEN phase' = "refused" /\ value' = <<>>
                   ELSE phase' = "made" /\ value' = v[1]
    /\ UNCHANGED <<throws, data_, entry, reader, out, fault, reused>>

ConvertAny ==
    \/ \E f \in Floats      : Convert([kind |-> "float", x |-> f], << FromFloat(f) >>)
    \/ \E s \in GuidTexts   : Convert([kind |-> "text", x |-> s], Parse(s))
    \/ \E t \in TimePoints  : Convert([kind |-> "time", x |-> t], << FromTimePoint(t) >>)
    \/ \E t \in TickCounts, k \in 0 .. 2 :
            Convert([kind |-> "ticks", x |-> t, of |-> k], << FromTicks(t, k) >>)
    \/ \E d \in Durations   : Convert([kind |-> "span", x |-> d], << FromDuration(d) >>)

Encoded(t, v, writer) == WritePieces(writer, Pieces(t, v))

\* Serialize into a new buffer or into the caller's vector.
Serialize ==
    /\ phase = "made"
    /\ \E mode \in {"owned", "vec"} :
            data_' = GetSpan(Encoded(SentType, value, NewWriter(mode, <<>>)))
    /\ phase' = "encoded"
    /\ UNCHANGED <<throws, entry, source, value, reader, out, fault, reused>>

\* SerializeTo and TrySerializeTo: what did not fit is not sent.
SerializeTo(size) ==
    LET writer == Encoded(SentType, value, NewWriter("fixed", Zeros(size)))
    IN  /\ phase = "made"
        /\ IF WriterFailed(writer) THEN phase' = "refused" /\ data_' = <<>>
                                   ELSE phase' = "encoded" /\ data_' = GetSpan(writer)
        /\ UNCHANGED <<throws, entry, source, value, reader, out, fault, reused>>

-----------------------------------------------------------------------------
(***************************************************************************)
(* The way, and the receiver.                                              *)
(***************************************************************************)
Arrive(bytes, how) ==
    /\ phase = "encoded"
    /\ data_' = bytes /\ fault' = how /\ phase' = "arrived"
    /\ UNCHANGED <<throws, entry, source, value, reader, out, reused>>

Deliver     == Arrive(data_, "none")
Cut(n)      == n < Len(data_) /\ Arrive(SubSeq(data_, 1, n), "cut")
Change(i, b) ==
    /\ source = NoSource
    /\ i <= Len(data_) /\ data_[i] # b
    /\ Arrive([data_ EXCEPT ![i] = b], "changed")

Deserialize(isReused) ==
    LET old    == IF isReused THEN Catalog[entry].old ELSE Default(ReadType)
        result == Read(ReadType, NewReader, old)
    IN  /\ phase = "arrived"
        /\ isReused => source = NoSource /\ fault = "none"
        /\ reader' = result.to /\ out' = result.val
        /\ phase' = "decoded" /\ reused' = isReused
        /\ UNCHANGED <<throws, data_, entry, source, value, fault>>

\* A text read in place instead.
View ==
    LET result == ReadStringView(NewReader)
    IN  /\ phase = "arrived" /\ fault # "changed"
        /\ ReadType.k = "string"
        /\ reader' = result.to /\ out' = result.val /\ phase' = "viewed"
        /\ UNCHANGED <<throws, data_, entry, source, value, fault, reused>>

\* The receiver writes what it has read and the next one reads that.
Relay ==
    /\ phase = "decoded" /\ fault = "changed" /\ ~ Failed(reader)
    /\ value' = out /\ fault' = "relayed" /\ phase' = "arrived"
    /\ data_' = GetSpan(Encoded(ReadType, out, NewWriter("owned", <<>>)))
    /\ reader' = NewReader
    /\ UNCHANGED <<throws, entry, source, out, reused>>

\* The next value; writer and reader are new for each.
Again ==
    /\ phase \in {"decoded", "viewed", "refused"}
    /\ data_' = <<>>
    /\ entry' = 0 /\ source' = NoSource /\ value' = <<>>
    /\ reader' = NewReader /\ out' = <<>>
    /\ phase' = "idle" /\ fault' = "none" /\ reused' = FALSE
    /\ UNCHANGED throws

Next ==
    \/ \E i \in DOMAIN Catalog : \E v \in Catalog[i].values : Make(i, v)
    \/ ConvertAny
    \/ Serialize
    \/ \E size \in FixedSizes : SerializeTo(size)
    \/ Deliver
    \/ \E n \in 0 .. Len(data_) : Cut(n)
    \/ \E i \in 1 .. Len(data_), b \in DamageBytes : Change(i, b)
    \/ \E isReused \in BOOLEAN : Deserialize(isReused)
    \/ View
    \/ Relay
    \/ Again

Spec == Init /\ [][Next]_vars

-----------------------------------------------------------------------------
(***************************************************************************)
(* What a type promises, without its encoding.                             *)
(***************************************************************************)
RECURSIVE HasType(_, _)

\* v is a value of type t.
HasType(t, v) ==
    CASE t.k = "bool"                            -> v \in BOOLEAN
      [] t.k \in {"num", "enum"} /\ t.signed     -> v \in -(256 ^ t.n \div 2) .. 256 ^ t.n \div 2 - 1
      [] t.k \in {"num", "enum"} /\ ~ t.signed   -> v \in 0 .. 256 ^ t.n - 1
      [] t.k = "string"                          -> \A i \in DOMAIN v : v[i] \in 0 .. 255
      [] t.k = "u16string"                       -> \A i \in DOMAIN v : v[i] \in 0 .. 65535
      [] t.k \in {"vector", "seq", "unmanagedCollection"} ->
            Len(v) <= MaxCollection /\ \A i \in DOMAIN v : HasType(t.of, v[i])
      [] t.k = "set"                             -> \A x \in v : HasType(t.of, x)
      [] t.k = "array"                           -> Len(v) = t.n /\ \A i \in DOMAIN v : HasType(t.of, v[i])
      [] t.k = "map"                             -> \A x \in DOMAIN v : HasType(t.key, x) /\ HasType(t.of, v[x])
      [] t.k = "pad"                             -> v = <<>>
      [] t.k \in {"inline", "tuple", "object"}   ->
            Len(v) = Len(t.of) /\ \A i \in DOMAIN v : HasType(t.of[i], v[i])
      [] t.k \in {"optional", "ptr", "nullableObject"} ->
            Len(v) <= 1 /\ \A i \in DOMAIN v : HasType(t.of, v[i])
      [] t.k = "variant"                         ->
            \E i \in DOMAIN t.of : t.of[i].tag = v.tag /\ HasType(t.of[i].of, v.val)
      [] IsUnmanaged(t)                          -> Len(v) = t.n /\ \A i \in DOMAIN v : v[i] \in 0 .. 255

RECURSIVE Admissible(_, _, _)

\* v is within the limits of ReaderOptions; depth objects are open around it.
Admissible(t, v, depth) ==
    CASE t.k \in {"string", "u16string"}         -> Len(v) <= MaxString
      [] t.k \in {"vector", "seq", "array", "unmanagedCollection"} ->
            Len(v) <= MaxCollection /\ \A i \in DOMAIN v : Admissible(t.of, v[i], depth)
      [] t.k = "set"                             -> Cardinality(v) <= MaxCollection
      [] t.k = "map"                             ->
            Cardinality(DOMAIN v) <= MaxCollection /\ \A x \in DOMAIN v : Admissible(t.of, v[x], depth)
      [] t.k \in {"inline", "tuple"}             -> \A i \in DOMAIN v : Admissible(t.of[i], v[i], depth)
      [] t.k = "object"                          ->
            (v # <<>> => depth < MaxDepth) /\ \A i \in DOMAIN v : Admissible(t.of[i], v[i], depth + 1)
      [] t.k \in {"optional", "ptr", "nullableObject"} -> v # <<>> => Admissible(t.of, v[1], depth)
      [] t.k = "variant"                         ->
            \A i \in DOMAIN t.of : t.of[i].tag = v.tag => Admissible(t.of[i].of, v.val, depth)
      [] OTHER                                   -> TRUE

\* The types a type is made of.
Parts(t) ==
    CASE t.k \in {"inline", "tuple", "object"}   -> t.of
      [] t.k = "variant"                         -> [i \in DOMAIN t.of |-> t.of[i].of]
      [] t.k = "map"                             -> <<t.key, t.of>>
      [] t.k \in {"vector", "seq", "set", "array", "optional", "ptr", "nullableObject"} -> <<t.of>>
      [] OTHER                                   -> <<>>

RECURSIVE NoneAppended(_, _)

\* The sender's type has no member, at any depth, that the receiver's lacks.
NoneAppended(wt, rt) ==
    /\ Len(Parts(wt)) <= Len(Parts(rt))
    /\ \A i \in DOMAIN Parts(wt) : NoneAppended(Parts(wt)[i], Parts(rt)[i])

\* Nor has any part of it: only behind the last member the receiver knows.
NoneAppendedInside(wt, rt) ==
    \A i \in DOMAIN Parts(wt) \cap DOMAIN Parts(rt) : NoneAppended(Parts(wt)[i], Parts(rt)[i])

RECURSIVE NullIsDistinct(_, _)

\* Where null is the byte 255, no value starts with it.
NullIsDistinct(t, v) ==
    CASE t.k \in {"vector", "seq", "array"}      -> \A i \in DOMAIN v : NullIsDistinct(t.of, v[i])
      [] t.k \in {"inline", "tuple", "object"}   -> \A i \in DOMAIN v : NullIsDistinct(t.of[i], v[i])
      [] t.k = "map"                             -> \A x \in DOMAIN v : NullIsDistinct(t.of, v[x])
      [] t.k = "nullableObject"                  -> v # <<>> => NullIsDistinct(t.of, v[1])
      [] t.k \in {"optional", "ptr"}             ->
            v # <<>> => /\ NullIsDistinct(t.of, v[1])
                        /\ \/ t.k = "optional" /\ NullEncoding(t.of) # "Object"
                           \/ FlattenSeq(Pieces(t.of, v[1]))[1] # NULL_OBJECT
      [] OTHER                                   -> TRUE

RECURSIVE Seen(_, _, _)

\* What a value of type wt is for a receiver of type rt.
Seen(wt, rt, v) ==
    CASE wt.k = "u16string"                      -> Scrubbed(v)
      [] wt.k = "scrubbed"                       -> ScrubbedBytes(wt, v)
      [] wt.k \in {"vector", "seq", "array"} /\ rt.k = "array" ->
            [i \in 1 .. rt.n |-> IF i <= Len(v) THEN Seen(wt.of, rt.of, v[i]) ELSE Default(rt.of)]
      [] wt.k \in {"vector", "seq"} /\ rt.k \in {"vector", "seq"} ->
            [i \in DOMAIN v |-> Seen(wt.of, rt.of, v[i])]
      [] wt.k \in {"vector", "seq"} /\ rt.k = "set" -> {Seen(wt.of, rt.of, v[i]) : i \in DOMAIN v}
      [] wt.k = "map"                            -> [x \in DOMAIN v |-> Seen(wt.of, rt.of, v[x])]
      [] wt.k \in {"inline", "tuple", "object"}  ->
            [i \in DOMAIN rt.of |-> IF i <= Len(v) THEN Seen(wt.of[i], rt.of[i], v[i])
                                    ELSE Default(rt.of[i])]
      [] wt.k \in {"optional", "ptr", "nullableObject"} ->
            [i \in DOMAIN v |-> Seen(wt.of, rt.of, v[i])]
      [] OTHER                                   -> v

-----------------------------------------------------------------------------
(***************************************************************************)
(* Properties.                                                             *)
(***************************************************************************)
\* Whatever bytes arrive, the reader stays inside them and what the formatters
\* leave in the receiver's variable is a value of its type.
TypeOK ==
    /\ reader \in Readers /\ reader.depth <= MaxDepth + 1
    /\ fault \in {"none", "cut", "changed", "relayed"}
    /\ phase \in {"idle", "made", "encoded", "arrived", "decoded", "viewed", "refused"}
    /\ phase = "decoded" => HasType(ReadType, out)

Whole == fault \in {"none", "relayed"}

ReadAsSent ==
    IF Admissible(SentType, value, 0)
    THEN /\ ~ Failed(reader)
         /\ out = Seen(SentType, ReadType, value)
         /\ NoneAppended(SentType, ReadType) => IsEnd(reader)
    ELSE reader.error = "LengthLimit"

SameText == (SentType.k = "string") = (ReadType.k = "string")

SameVersion == NoneAppended(SentType, ReadType) /\ NoneAppended(ReadType, SentType)

(***************************************************************************)
(* A message that arrives whole is read as what was sent: every container, *)
(* optional, pointer, union and .NET type, read by the same or another     *)
(* version of the type, into a fresh variable or over an old value of the  *)
(* same version, and also when the value itself came out of a damaged      *)
(* message.  It is refused exactly when a length, a text or the nesting is *)
(* over the reader's limits.  Left out are the two cases in which the code *)
(* does not keep this: members appended to an object inside another, and   *)
(* values that start with the byte that stands for null.                   *)
(***************************************************************************)
ReadsBack ==
    /\ phase = "decoded" /\ Whole /\ SameText
    /\ reused => SameVersion
    /\ NoneAppendedInside(SentType, ReadType)
    /\ NullIsDistinct(SentType, value)
    => ReadAsSent

(***************************************************************************)
(* The same without the exception for values that look like null: the      *)
(* promise of docs/type-mapping.md that std::optional<T> picks an encoding *)
(* of null that suits T.                                                   *)
(***************************************************************************)
OptionalKept ==
    phase = "decoded" /\ Whole /\ SameText /\ ~ reused /\ NoneAppendedInside(SentType, ReadType)
    => ReadAsSent

(***************************************************************************)
(* A message that was cut short anywhere is never taken for a shorter      *)
(* value: its own version of the reader reports it (EnsureBytes and the    *)
(* checks of lengths against the bytes that remain).                       *)
(***************************************************************************)
TruncationReported ==
    /\ phase = "decoded" /\ fault = "cut" /\ SameVersion
    /\ NullIsDistinct(SentType, value)
    => Failed(reader)

\* A reference for UTF-8: every character is as long as its first byte says,
\* and no longer than it must be.
WellFormed(text) ==
    LET size(b) == IF b < 128 THEN 1 ELSE IF b < 224 THEN 2 ELSE IF b < 240 THEN 3 ELSE 4
    IN  \A i \in DOMAIN text :
            \/ IsContinuation(text[i]) /\ \E k \in 1 .. 3 : i > k /\ text[i - k] >= 192 /\ size(text[i - k]) > k
                                          /\ \A j \in i - k + 1 .. i : IsContinuation(text[j])
            \/ /\ text[i] \in 0 .. 127 \cup 194 .. 244
               /\ \A k \in 1 .. size(text[i]) - 1 : i + k <= Len(text) /\ IsContinuation(text[i + k])
               /\ text[i] = 224 => text[i + 1] >= 160
               /\ text[i] = 240 => text[i + 1] >= 144

(***************************************************************************)
(* A text survives the change between UTF-16 and UTF-8 in both directions: *)
(* what ReadUtf16String makes of units is well-formed UTF-8 of that many   *)
(* units, and goes back to the same ones but for halves of pairs that lack *)
(* the other, which become U+FFFD; what the u16string formatter makes of   *)
(* UTF-8 goes back to the same bytes, and the UTF-16 length on the wire is *)
(* the number of its units.  A view is the same text, or, for UTF-16,      *)
(* nothing with the reader where it was.                                   *)
(***************************************************************************)
StringsTranscoded ==
    /\ phase = "decoded" /\ Whole /\ ~ SameText /\ ~ Failed(reader) =>
          IF ReadType.k = "string"
          THEN /\ WellFormed(out) /\ utf16_length_from_utf8(out) = Len(value)
               /\ Utf16FromUtf8(out) = Scrubbed(value)
          ELSE /\ Utf8FromUtf16(out) = value
               /\ out # <<>> => ToBytes(Len(out), IntSize) = SubSeq(data_, IntSize + 1, 2 * IntSize)
    /\ phase = "viewed" /\ fault = "none" /\ Admissible(SentType, value, 0) =>
          /\ ~ Failed(reader)
          /\ IF SentType.k = "string" \/ value = <<>> THEN out = <<value>> /\ IsEnd(reader)
             ELSE out = <<>> /\ reader = NewReader

Lower(text) ==
    [i \in DOMAIN text |-> IF \E d \in 1 .. 16 : UpperDigits[d] = text[i]
                           THEN LowerDigits[CHOOSE d \in 1 .. 16 : UpperDigits[d] = text[i]] ELSE text[i]]

IsCanonical(text) ==
    /\ Len(text) = GuidLength
    /\ {i \in DOMAIN text : text[i] = "-"} = {i + 1 : i \in GuidDashes}
    /\ \A i \in DOMAIN text : text[i] # "-" => Lower(text)[i] \in ToSet(LowerDigits)

\* The bits, without sign, of the float halfway between the half h and the next.
MiddleAbove(h) ==
    LET shift == CHOOSE s \in 0 .. 23 : (2 * h + 1) * (2 ^ s) \in 2 ^ 23 .. 2 ^ 24 - 1
    IN  IF h >= 1024 THEN Mag(ToFloat(h)) + 2 ^ 12
        ELSE (125 - shift) * (2 ^ 23) + (2 * h + 1) * (2 ^ shift) - 2 ^ 23

\* The half next to f, and of two that are equally far the one further from zero.
IsNearest(f, half) ==
    LET h == half % 32768
    IN  /\ half \div 32768 = f.sign
        /\ f.exp = 255 => h >= Infinity /\ (h = Infinity <=> f.mant = 0)
        /\ f.exp < 255 => /\ h <= Infinity
                          /\ h < Infinity => Mag(f) < MiddleAbove(h)
                          /\ h > 0 => Mag(f) >= MiddleAbove(h - 1)

(***************************************************************************)
(* What was converted, sent, received and converted back is what it was:   *)
(* a time point and a duration to within a tick and never further from     *)
(* zero (FromTimePoint, FromDuration), the ticks and kind of a DateTime,   *)
(* the text of a Guid in lower case, with the bytes of FromBytes and any   *)
(* malformed text refused (Parse), the nearest half of a float, from zero  *)
(* for a tie (FromFloat); and every half that arrives survives ToFloat.    *)
(***************************************************************************)
ConversionsFaithful ==
    LET within(x, y) == IF x >= 0 THEN y \in x - NsPerTick + 1 .. x ELSE y \in x .. x + NsPerTick - 1
        arrived(kind) == phase = "decoded" /\ source.kind = kind /\ fault = "none"
    IN  /\ source.kind = "text" => (IsCanonical(source.x) <=> ~ (phase = "refused" /\ value = <<>>))
        /\ arrived("text")  => GuidToString(out) = Lower(source.x) /\ FromBytes(data_) = out
        /\ arrived("time")  => within(source.x, ToTimePoint(out)) /\ GetKind(out) = Utc
        /\ arrived("ticks") => GetTicks(out) = source.x /\ GetKind(out) = source.of
        /\ arrived("span")  => within(source.x, ToDuration(out))
        /\ arrived("float") => /\ IsNearest(source.x, out)
                               /\ out % 32768 <= Infinity => FromFloat(ToFloat(out)) = out

\* What the comment on Half::FromFloat says of a float halfway between two halves:
\* it becomes the one whose last bit is zero.
HalfTiesToEven ==
    phase = "decoded" /\ source.kind = "float" /\ fault = "none" /\ source.x.exp < 255 =>
        LET h   == out % 32768
            tie == \/ h < Infinity /\ Mag(source.x) = MiddleAbove(h)
                   \/ h > 0 /\ Mag(source.x) = MiddleAbove(h - 1)
        IN  tie => h % 2 = 0
=============================================================================
