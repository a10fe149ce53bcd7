-------------------------------- MODULE Utf --------------------------------
(***************************************************************************)
(* The transcoding between UTF-8 and UTF-16 of include/memorypack/core.hpp.*)
(* Text is a sequence of bytes (std::string) or of 16-bit units            *)
(* (std::u16string).                                                       *)
(***************************************************************************)
EXTENDS Integers, Sequences, FiniteSets

IsHigh(unit) == unit \in 55296 .. 56319     \* D800 .. DBFF
IsLow(unit)  == unit \in 56320 .. 57343     \* DC00 .. DFFF

Replacement == 65533                        \* U+FFFD

IsContinuation(byte) == byte \in 128 .. 191

\* Mutant of utf16_length_from_utf8: a supplementary character counts once.
utf16_length_bmp(text) == Cardinality({i \in DOMAIN text : ~ IsContinuation(text[i])})

\* Every byte that starts a character counts one unit, a four-byte lead two.
utf16_length_from_utf8(text) ==
    Cardinality({i \in DOMAIN text : ~ IsContinuation(text[i])})
      + Cardinality({i \in DOMAIN text : text[i] >= 240})

\* The bytes of one code point.
append_utf8_codepoint(cp) ==
    LET tail(n) == 128 + ((cp \div (64 ^ n)) % 64)
    IN  CASE cp <= 127              -> <<cp>>
          [] cp \in 128 .. 2047     -> <<192 + cp \div 64, tail(0)>>
          [] cp \in 2048 .. 65535   -> <<224 + cp \div 4096, tail(1), tail(0)>>
          [] cp > 65535             -> <<240 + cp \div 262144, tail(2), tail(1), tail(0)>>

\* The loop of ReadUtf16String: a pair is one code point, and half a pair is
\* replaced while the unit behind it is looked at again.
Utf8FromUtf16(units) ==
    LET pairAt(i) == IsHigh(units[i]) /\ i < Len(units) /\ IsLow(units[i + 1])
        cpAt(i)   == CASE pairAt(i) -> 65536 + (units[i] - 55296) * 1024 + units[i + 1] - 56320
                       [] ~ pairAt(i) /\ (IsHigh(units[i]) \/ IsLow(units[i])) -> Replacement
                       [] OTHER -> units[i]
        from[i \in 1 .. Len(units) + 1] ==
            IF i > Len(units) THEN <<>>
            ELSE append_utf8_codepoint(cpAt(i)) \o from[IF pairAt(i) THEN i + 2 ELSE i + 1]
    IN  from[1]

\* The loop of the std::u16string formatter.  It trusts the lead byte, and
\* leaves when the last character is cut short.
Utf16FromUtf8(text) ==
    LET lead(i)  == text[i]
        size(i)  == CASE lead(i) < 128           -> 1
                      [] lead(i) \in 192 .. 223  -> 2
                      [] lead(i) \in 224 .. 239  -> 3
                      [] OTHER                   -> 4
        first(i) == CASE size(i) = 1 -> lead(i)
                      [] size(i) = 2 -> lead(i) % 32
                      [] size(i) = 3 -> lead(i) % 16
                      [] size(i) = 4 -> lead(i) % 8
        cp(i)    == LET prefix[k \in 0 .. 3] ==
                            IF k = 0 THEN first(i) ELSE prefix[k - 1] * 64 + (text[i + k] % 64)
                    IN  prefix[size(i) - 1]
        units(c) == IF c <= 65535 THEN <<c>>
                    ELSE <<55296 + (c - 65536) \div 1024, 56320 + ((c - 65536) % 1024)>>
        from[i \in 1 .. Len(text) + 1] ==
            IF i > Len(text) \/ i + size(i) - 1 > Len(text) THEN <<>>
            ELSE units(cp(i)) \o from[i + size(i)]
    IN  from[1]

-----------------------------------------------------------------------------
\* Reference: the text with each half of a pair that lacks the other replaced.
Scrubbed(units) ==
    [i \in DOMAIN units |->
        IF \/ IsHigh(units[i]) /\ ~ (i < Len(units) /\ IsLow(units[i + 1]))
           \/ IsLow(units[i]) /\ ~ (i > 1 /\ IsHigh(units[i - 1]))
        THEN Replacement ELSE units[i]]
=============================================================================
