----------------------------- MODULE MCExchange -----------------------------
(***************************************************************************)
(* A catalog of messages with every formatter, and what is converted.      *)
(***************************************************************************)
EXTENDS Exchange

Bool            == [k |-> "bool"]
Int16           == Num(IntSize, TRUE)
Enum8           == [k |-> "enum", n |-> 1, signed |-> FALSE, init |-> 0]
Text            == [k |-> "string"]
Text16          == [k |-> "u16string"]
Of(kind, t)     == [k |-> kind, of |-> t]
Array(t, size)  == [k |-> "array", of |-> t, n |-> size]
MapOf(t, u)     == [k |-> "map", key |-> t, of |-> u]
Object(types)   == Of("object", types)
Struct          == [k |-> "unmanaged", n |-> 3, align |-> 1]
Padded          == [k |-> "scrubbed", n |-> 4, align |-> 2, padding |-> {2}]
Shape           == Of("variant", <<[tag |-> 0, of |-> Object(<<U8>>)], [tag |-> 249, of |-> Object(<<>>)],
                                   [tag |-> 250, of |-> Object(<<U8, U8>>)], [tag |-> 300, of |-> Object(<<U8>>)]>>)

\* A list of three objects that point to the next one.
Third           == Object(<<U8, Of("ptr", Object(<<>>))>>)
Second          == Object(<<U8, Of("ptr", Third)>>)
Chain           == Object(<<U8, Of("ptr", Second)>>)

\* One, two and four bytes; one too many for MaxString.
Texts == {<<>>, <<65>>, <<195, 169, 66>>, <<240, 159, 152, 128>>, <<226, 130, 172, 195, 169, 65>>,
          <<65, 65, 65, 65, 65, 65, 65>>}
Units == {65, 233, 8364, 55357, 56832}

\* The first and last unit of each half of a pair, and the units beside them.
Edges == {55295, 55296, 56319, 56320, 57343, 57344}
Texts16 == UNION {[1 .. n -> Units] : n \in 0 .. 2} \cup [1 .. 2 -> Edges]
             \cup {<<65, 55357, 56832>>, <<55357, 55357, 56832>>, <<55357, 56832, 56832>>, <<56832, 55357, 65>>,
                   <<65, 65, 65, 65, 65, 65, 65>>}

E(sent, read, vs, before) == [wt |-> sent, rt |-> read, values |-> vs, old |-> before]
Same(t, vs, before)       == E(t, t, vs, before)

Objects == <<
    Same(Object(<<Bool, Int16, Enum8, Text>>),
         BOOLEAN \X {-32768, -1, 0, 300} \X {0, 255} \X {<<>>, <<195, 169>>}, <<TRUE, 7, 1, <<66>>>>),
    E(Object(<<Int16, Text, U8>>), Object(<<Int16, Text>>), {-2, 5} \X {<<65>>} \X {1}, <<9, <<66>>>>),
    E(Object(<<Int16>>), Object(<<Int16, [U8 EXCEPT !.init = 7]>>), {<<-2>>, <<5>>}, <<9, 8>>),
    E(Object(<<Object(<<U8, U8>>), U8>>), Object(<<Object(<<U8>>), U8>>), {<< <<1, 2>>, 3>>}, << <<0>>, 0>>),
    E(Object(<<Object(<<U8>>), U8>>), Object(<<Object(<<U8, U8>>), U8>>), {<< <<1>>, 3>>}, << <<0, 5>>, 0>>),
    Same(Chain, {<<1, <<>> >>, <<1, << <<2, <<>> >> >> >>, <<1, << <<2, << <<3, <<>> >> >> >> >> >>}, <<8, <<>> >>),
    Same(Of("tuple", <<Int16, Text>>), {<<-1, <<>> >>, <<5, <<65>> >>}, <<7, <<66>> >>),
    E(Of("tuple", <<U8>>), Of("tuple", <<U8, U8>>), {<<4>>}, <<7, 7>>),
    Same(Shape, {[tag |-> 0, val |-> <<9>>], [tag |-> 249, val |-> <<>>], [tag |-> 250, val |-> <<1, 2>>],
                 [tag |-> 300, val |-> <<3>>]}, [tag |-> 0, val |-> <<8>>]) >>

Containers == <<
    Same(Of("vector", Int16), {<<>>, <<-1>>, <<255, 0, 1>>, <<1, 2, 3, 4>>}, <<5>>),
    Same(Of("vector", Bool), {<<>>, <<TRUE, FALSE>>}, <<TRUE>>),
    Same(Of("vector", Text), {<<>>, << <<>>, <<65>> >>, << <<65>>, <<>>, <<66>> >>}, << <<67>> >>),
    Same(Of("vector", Object(<<U8, Text>>)), {<< <<1, <<65>> >>, <<2, <<>> >> >>}, <<>>),
    Same(Of("vector", Object(<<>>)), {<< <<>>, <<>> >>}, <<>>),
    Same(Of("unmanagedCollection", Struct), {<<>>, << <<1, 2, 3>>, <<0, 255, 0>> >>}, <<>>),
    E(Of("vector", U8), Array(U8, 2), {<<>>, <<1>>, <<1, 2>>, <<1, 2, 3>>}, <<8, 8>>),
    E(Of("vector", Text), Array(Text, 2), {<< <<65>> >>, << <<65>>, <<>>, <<66>> >>}, << <<67>>, <<67>> >>),
    Same(Array(U8, 2), {<<1, 255>>}, <<8, 8>>),
    Same(Of("seq", Int16), {<<>>, <<3, -3>>}, <<5>>),
    Same(Of("seq", Text16), {<< <<65>>, <<233>> >>}, <<>>),
    Same(Of("set", U8), {{}, {1, 255}}, {5}),
    E(Of("vector", U8), Of("set", U8), {<<2, 1, 2>>}, {5}),
    Same(MapOf(U8, Text), {<<>>, <<(<<65>>)>>, (1 :> <<>> @@ 255 :> <<66>>)}, (5 :> <<67>>)),
    Same(Row(<<U8, Text>>), {<<1, <<>> >>, <<255, <<65>> >>}, <<5, <<67>> >>) >>

Nullables == <<
    Same(Of("optional", Int16), {<<>>, <<-1>>, <<256>>}, <<5>>),
    Same(Of("optional", Struct), {<<>>, << <<1, 2, 3>> >>}, << <<0, 0, 0>> >>),
    Same(Of("optional", Text), {<<>>, << <<>> >>, << <<65>> >>}, << <<67>> >>),
    Same(Of("optional", Text16), {<<>>, << <<>> >>, << <<55357, 56832>> >>}, << <<67>> >>),
    Same(Of("optional", Of("vector", U8)), {<<>>, << <<>> >>, << <<255, 255>> >>}, << <<5>> >>),
    Same(Of("optional", Object(<<U8>>)), {<<>>, << <<255>> >>}, << <<5>> >>),
    Same(Of("optional", Shape), {<<>>, << [tag |-> 300, val |-> <<255>>] >>}, <<>>),
    Same(Of("optional", Row(<<U8, U8>>)), {<<>>, << <<1, 255>> >>}, << <<5, 5>> >>),
    Same(Of("nullableObject", Object(<<U8, Text>>)), {<<>>, << <<255, <<65>> >> >>}, <<>>),
    Same(Struct, {<<1, 255, 0>>}, <<5, 5, 5>>),
    Same(Padded, {<<1, 77, 3, 4>>}, <<5, 5, 5, 5>>),
    Same(Object(<<Of("optional", Guid), U8>>),
         {<< <<>>, 7>>, << << <<1, 2, 3>> \o Zeros(8) >>, 7>>, << << <<255, 2, 3>> \o Zeros(8) >>, 7>>}, << <<>>, 0>>) >>

Strings == <<
    Same(Text, Texts, <<67>>), E(Text, Text16, Texts, <<67>>),
    Same(Text16, Texts16, <<67>>), E(Text16, Text, Texts16, <<67>>) >>

DotNetTypes == <<
    Same(DateTimeOffset, {<<-540, <<>>, 600000>>, <<0, <<>>, 256 ^ LongSize - 1>>}, <<1, <<>>, 1>>),
    Same(Decimal, {[i \in 1 .. 16 |-> i]}, Zeros(16)),
    Same(Int128, {<<1, -1>>, <<256 ^ LongSize - 1, 5>>}, <<0, 0>>),
    Same(UInt128, {<<1, 256 ^ LongSize - 1>>}, <<0, 0>>),
    Same(Vector(2), {<<0, 0, 128, 63, 1, 2, 3, 4>>}, Zeros(8)) >>

MCCatalog == Objects \o Containers \o Nullables \o Strings \o DotNetTypes

\* Exponents around the ends of the halfs, mantissas around the ties.
MCFloats ==
    [sign : {0, 1}, exp : {0, 101, 102, 103, 111, 112, 113, 127, 141, 142, 143, 254, 255},
     mant : {0, 1, 2 ^ 12 - 1, 2 ^ 12, 2 ^ 12 + 1, 2 ^ 13, 3 * (2 ^ 12), 2 ^ 22,
             2 ^ 23 - 2 ^ 12 - 1, 2 ^ 23 - 2 ^ 12, 2 ^ 23 - 1}]

Canonical ==
    LET digit(i) == LowerDigits[1 + ((7 * i) % 16)]
    IN  [i \in 1 .. GuidLength |-> IF i - 1 \in GuidDashes THEN "-" ELSE digit(i)]

MCGuidTexts ==
    {Canonical, Append(Canonical, "0"), Tail(Canonical), [i \in DOMAIN Canonical |-> "0"]}
      \cup {[Canonical EXCEPT ![i] = c] : i \in DOMAIN Canonical, c \in {"F", "g", "-"}}

MCTimePoints == {-8388608, -601, -600, -599, -100, -99, -1, 0, 1, 99, 100, 199, 8388607}
MCTickCounts == {0, 1, EpochTicks, 256 ^ LongSize \div 4 - 1}
=============================================================================
