----------------------- MODULE MemoryPackReaderProofs -----------------------
(***************************************************************************)
(* Lemmas about the operators of MemoryPackReader, and the induction over  *)
(* the natural numbers that its recursive sums need.                       *)
(***************************************************************************)
EXTENDS MemoryPackReader, SequenceTheorems, WellFoundedInduction, TLAPS

-----------------------------------------------------------------------------
(***************************************************************************)
(* Induction, with a set in the place of the predicate.                    *)
(***************************************************************************)
\* A set of naturals that is not empty has a least element.
LEMMA Least ==
    ASSUME NEW T \in SUBSET Nat, T # {}
    PROVE  \E m \in T : \A k \in T : m <= k
<1> DEFINE R == OpToRel(<, Nat)
<1>1. IsWellFoundedOn(R, Nat)
  BY NatLessThanWellFounded
<1>2. \A x, y \in Nat : y < x => <<y, x>> \in R
  BY DEF OpToRel
<1> HIDE DEF R
<1>3. PICK m \in T : \A y \in T : ~ (<<y, m>> \in R)
  BY <1>1, WFMin
<1>4. ASSUME NEW k \in T PROVE m <= k
  <2>1. m \in Nat /\ k \in Nat /\ ~ (k < m)
    BY <1>2, <1>3
  <2> QED BY <2>1
<1> QED BY <1>4

\* A set that holds 0 and the successor of each natural it holds is all of them.
LEMMA Induct ==
    ASSUME NEW S, 0 \in S, \A n \in Nat : n \in S => n + 1 \in S
    PROVE  Nat \subseteq S
<1> DEFINE T == Nat \ S
<1> SUFFICES ASSUME T # {} PROVE FALSE
  OBVIOUS
<1>1. PICK m \in T : \A k \in T : m <= k
  BY Least
<1>2. m # 0 /\ m - 1 \in Nat
  BY <1>1
<1>3. m - 1 \in S
  BY <1>1, <1>2
<1>4. (m - 1) + 1 \in S
  BY <1>2, <1>3
<1> QED BY <1>1, <1>4

\* g holds the partial sums of b, t[1] .. t[n].
Sums(g, n, b, t) == g = [k \in 0 .. n |-> IF k = 0 THEN b ELSE g[k - 1] + t[k]]

\* The function of partial sums that a recursive definition asks for exists.
LEMMA SumsExist ==
    ASSUME NEW n \in Nat, NEW b, NEW t
    PROVE  \E g : Sums(g, n, b, t)
<1> DEFINE S == {m \in Nat : \E g : Sums(g, m, b, t)}
<1>1. 0 \in S
  <2> DEFINE g == [k \in 0 .. 0 |-> b]
  <2>1. Sums(g, 0, b, t)
    BY DEF Sums
  <2> QED BY <2>1
<1>2. ASSUME NEW m \in Nat, m \in S PROVE m + 1 \in S
  <2>1. PICK g : Sums(g, m, b, t)
    BY <1>2
  <2> DEFINE h == [k \in 0 .. m + 1 |-> IF k = m + 1 THEN g[m] + t[m + 1] ELSE g[k]]
  <2>2. ASSUME NEW k \in 0 .. m + 1
        PROVE  h[k] = IF k = 0 THEN b ELSE h[k - 1] + t[k]
    <3>1. CASE k = m + 1
      BY <3>1
    <3>2. CASE k # m + 1
      BY <2>1, <3>2 DEF Sums
    <3> QED BY <3>1, <3>2
  <2>3. Sums(h, m + 1, b, t)
    BY <2>2 DEF Sums
  <2> HIDE DEF h
  <2> QED BY <2>3
<1> HIDE DEF S
<1>3. n \in S
  BY <1>1, <1>2, Induct
<1> QED BY <1>3 DEF S

\* Its values are integers, and naturals when it adds naturals.
LEMMA SumsType ==
    ASSUME NEW n \in Nat, NEW b, NEW t, NEW N \in {Nat, Int},
           b \in N, \A k \in 1 .. n : t[k] \in N,
           NEW g, Sums(g, n, b, t)
    PROVE  \A k \in 0 .. n : g[k] \in N
<1> DEFINE S == {m \in Nat : m <= n => g[m] \in N}
<1>1. 0 \in S
  BY DEF Sums
<1>2. ASSUME NEW m \in Nat, m \in S PROVE m + 1 \in S
  <2> SUFFICES ASSUME m + 1 <= n PROVE g[m + 1] \in N
    OBVIOUS
  <2>1. g[m] \in N /\ t[m + 1] \in N
    BY <1>2
  <2>2. g[m + 1] = g[m] + t[m + 1]
    BY DEF Sums
  <2>3. \A x, y \in N : x + y \in N
    OBVIOUS
  <2> QED BY <2>1, <2>2, <2>3
<1> HIDE DEF S
<1>3. Nat \subseteq S
  BY <1>1, <1>2, Induct
<1> QED BY <1>3 DEF S

\* The equations of the partial sums.
LEMMA SumsStep ==
    ASSUME NEW n \in Nat, NEW b, NEW t, NEW g, Sums(g, n, b, t)
    PROVE  g[0] = b /\ \A k \in 1 .. n : g[k] = g[k - 1] + t[k]
BY DEF Sums

-----------------------------------------------------------------------------
(***************************************************************************)
(* What a call makes of a reader, whatever it reads.                       *)
(***************************************************************************)
\* The input is bytes and the build is one of two.
Input == data_ \in Seq(0 .. 255) /\ throws \in BOOLEAN

\* An exception has left the call only with an error recorded.
Honest(r) == r.threw => Failed(r)

\* s is a reader that a call may leave behind when it was given r: an error is
\* never cleared or replaced.
Keeps(r, s) ==
    /\ s \in Readers
    /\ s.depth = r.depth
    /\ Honest(r) => Honest(s)
    /\ Failed(r) => s.error = r.error

\* The same for the calls that read: they never step back, and with an error
\* nothing more is read.
After(r, s) == Keeps(r, s) /\ r.pos <= s.pos /\ (Failed(r) => s.pos = r.pos)

\* One call behind another.
LEMMA AfterTransitive ==
    ASSUME NEW r \in Readers, NEW s, NEW t, After(r, s), After(s, t)
    PROVE  After(r, t)
<1>1. s \in Readers /\ t \in Readers
  BY DEF After, Keeps
<1>2. r.pos <= t.pos
  BY <1>1 DEF After, Readers
<1> QED BY <1>1, <1>2 DEF After, Keeps, Failed

\* A call that has no effect.
LEMMA AfterReflexive ==
    ASSUME NEW r \in Readers PROVE After(r, r)
<1>1. r.pos <= r.pos
  BY DEF Readers
<1> QED BY <1>1 DEF After, Keeps

\* Fail records the first error.
LEMMA FailAfter ==
    ASSUME Input, NEW r \in Readers, NEW code \in Errors \ {"None"}
    PROVE  After(r, Fail(r, code)) /\ Failed(Fail(r, code))
<1> DEFINE s == Fail(r, code)
<1>1. s.pos = r.pos /\ s.depth = r.depth /\ s.threw = throws
      /\ s.error = IF r.error = "None" THEN code ELSE r.error
  BY DEF Fail, Readers
<1>2. s \in Readers
  BY <1>1 DEF Fail, Readers, Input
<1>3. Failed(s)
  BY <1>1 DEF Failed, Errors
<1>4. r.pos <= s.pos
  BY <1>1 DEF Readers
<1> QED BY <1>1, <1>2, <1>3, <1>4 DEF After, Keeps, Honest, Failed

\* A call that steps over n bytes, when they are there.
LEMMA TakeAfter ==
    ASSUME Input, NEW r \in Readers, NEW n \in Nat
    PROVE  After(r, Take(r, n)) /\ (~ Failed(Take(r, n)) => Take(r, n).pos = r.pos + n)
<1>1. CASE Failed(r)
  <2>1. Take(r, n) = r
    BY <1>1 DEF Take, EnsureBytes
  <2> QED BY <1>1, <2>1, AfterReflexive
<1>2. CASE ~ Failed(r) /\ EnsureBytes(r, n)
  <2> DEFINE s == [r EXCEPT !.pos = @ + n]
  <2>1. Take(r, n) = s
    BY <1>2 DEF Take
  <2>2. s.pos = r.pos + n /\ s.depth = r.depth /\ s.error = r.error /\ s.threw = r.threw
    BY DEF Readers
  <2>3. r.pos + n \in 0 .. Len(data_)
    BY <1>2 DEF EnsureBytes, Remaining, Readers, Input
  <2>4. s \in Readers
    BY <2>2, <2>3 DEF Readers
  <2> HIDE DEF s
  <2>5. r.pos <= s.pos
    BY <2>2 DEF Readers
  <2> QED BY <1>2, <2>1, <2>2, <2>4, <2>5 DEF After, Keeps, Honest, Failed
<1>3. CASE ~ Failed(r) /\ ~ EnsureBytes(r, n)
  <2>1. Take(r, n) = Fail(r, "BufferUnderflow")
    BY <1>3 DEF Take
  <2> QED BY <2>1, FailAfter DEF Errors
<1> QED BY <1>1, <1>2, <1>3

\* Seek moves the reader, failed or not, and stays in the input.
LEMMA SeekKeeps ==
    ASSUME Input, NEW r \in Readers, NEW position \in Nat
    PROVE  /\ Keeps(r, Seek(r, position))
           /\ ~ Failed(Seek(r, position)) => Seek(r, position).pos = position
<1>1. CASE position > Len(data_)
  <2>1. Seek(r, position) = Fail(r, "BufferUnderflow")
    BY <1>1 DEF Seek
  <2> QED BY <2>1, FailAfter DEF Errors, After
<1>2. CASE position <= Len(data_)
  <2> DEFINE s == [r EXCEPT !.pos = position]
  <2>1. Seek(r, position) = s
    BY <1>2 DEF Seek, Input
  <2>2. s.pos = position /\ s.depth = r.depth /\ s.error = r.error /\ s.threw = r.threw
    BY DEF Readers
  <2>3. s \in Readers
    BY <1>2, <2>2 DEF Readers, Input
  <2> HIDE DEF s
  <2> QED BY <2>1, <2>2, <2>3 DEF Keeps, Honest, Failed
<1> QED BY <1>1, <1>2 DEF Input

-----------------------------------------------------------------------------
(***************************************************************************)
(* Integers.                                                               *)
(***************************************************************************)
\* The bytes of an integer that is there.
LEMMA BytesThere ==
    ASSUME Input, NEW r \in Readers, NEW n \in Nat, EnsureBytes(r, n)
    PROVE  \A i \in 1 .. n : data_[r.pos + i] \in 0 .. 255
<1> SUFFICES ASSUME NEW i \in 1 .. n PROVE data_[r.pos + i] \in 0 .. 255
  OBVIOUS
<1>1. r.pos + i \in 1 .. Len(data_)
  BY DEF EnsureBytes, Remaining, Readers, Input
<1> QED BY <1>1, ElementOfSeq DEF Input

\* A little-endian integer of any width is an integer; of the widths that length
\* prefixes have, it is a natural number, and of one byte that byte.
LEMMA LittleEndianType ==
    ASSUME Input, NEW r \in Readers, NEW n \in Nat, EnsureBytes(r, n)
    PROVE  /\ LittleEndian(r, n) \in Int
           /\ n \in {2, 4} => LittleEndian(r, n) \in Nat
           /\ n = 1 => LittleEndian(r, n) \in 0 .. 255
<1> DEFINE t == [i \in 1 .. n |-> data_[r.pos + i] * 256 ^ (i - 1)]
           p == CHOOSE g : g = [i \in 0 .. n |-> IF i = 0 THEN 0 ELSE g[i - 1] + data_[r.pos + i] * 256 ^ (i - 1)]
<1>1. LittleEndian(r, n) = p[n]
  BY DEF LittleEndian
<1>2. PICK g : Sums(g, n, 0, t)
  <2> HIDE DEF t
  <2> QED BY SumsExist
<1>3. g = [i \in 0 .. n |-> IF i = 0 THEN 0 ELSE g[i - 1] + data_[r.pos + i] * 256 ^ (i - 1)]
  <2>1. \A i \in 1 .. n : t[i] = data_[r.pos + i] * 256 ^ (i - 1)
    OBVIOUS
  <2> HIDE DEF t
  <2> QED BY <1>2, <2>1 DEF Sums
<1>4. p = [i \in 0 .. n |-> IF i = 0 THEN 0 ELSE p[i - 1] + data_[r.pos + i] * 256 ^ (i - 1)]
  BY <1>3, ZenonT(30)
<1>5. Sums(p, n, 0, t)
  <2> HIDE DEF p
  <2> QED BY <1>4 DEF Sums
<1> HIDE DEF p
<1>b. \A i \in 1 .. n : data_[r.pos + i] \in 0 .. 255
  BY BytesThere
<1>6. \A i \in 1 .. n : t[i] \in Int
  <2> SUFFICES ASSUME NEW i \in 1 .. n PROVE data_[r.pos + i] * 256 ^ (i - 1) \in Int
    OBVIOUS
  <2>1. data_[r.pos + i] \in 0 .. 255
    BY <1>b
  <2>2. 256 ^ (i - 1) \in Int
    OBVIOUS
  <2> QED BY <2>1, <2>2
<1>7. p[n] \in Int
  <2> HIDE DEF t
  <2>1. \A k \in 0 .. n : p[k] \in Int
    <3>1. 0 \in Int /\ Int \in {Nat, Int}
      OBVIOUS
    <3> QED BY <1>5, <1>6, <3>1, SumsType, Zenon
  <2> QED BY <2>1
<1>8. ASSUME n \in {2, 4} PROVE p[n] \in Nat
  <2>1. ASSUME NEW i \in 1 .. n PROVE t[i] \in Nat
    <3>1. data_[r.pos + i] \in 0 .. 255
      BY <1>b
    <3>2. i \in {1, 2, 3, 4}
      BY <1>8
    <3>3. 256 ^ (i - 1) \in Nat
      <4>1. CASE i = 1
        BY <4>1
      <4>2. CASE i = 2
        BY <4>2
      <4>3. CASE i = 3
        BY <4>3
      <4>4. CASE i = 4
        BY <4>4
      <4> QED BY <3>2, <4>1, <4>2, <4>3, <4>4
    <3> QED BY <3>1, <3>3
  <2> HIDE DEF t
  <2>2. \A k \in 0 .. n : p[k] \in Nat
    BY <1>5, <2>1, SumsType
  <2> QED BY <2>2
<1>9. ASSUME n = 1 PROVE p[n] \in 0 .. 255
  <2>1. p[0] = 0 /\ p[1] = p[0] + t[1]
    <3> HIDE DEF t
    <3> QED BY <1>5, <1>9, SumsStep
  <2>2. t[1] = data_[r.pos + 1] * 256 ^ 0
    BY <1>9
  <2>3. data_[r.pos + 1] \in 0 .. 255
    BY <1>9, <1>b
  <2> HIDE DEF t
  <2> QED BY <1>9, <2>1, <2>2, <2>3
<1> QED BY <1>1, <1>7, <1>8, <1>9

\* An integer of n bytes, and zero behind an error.
LEMMA ReadUnsignedAfter ==
    ASSUME Input, NEW r \in Readers, NEW n \in Nat
    PROVE  /\ After(r, ReadUnsigned(r, n).to)
           /\ ReadUnsigned(r, n).val \in Int
           /\ n \in {2, 4} => ReadUnsigned(r, n).val \in Nat
           /\ n = 1 => ReadUnsigned(r, n).val \in 0 .. 255
           /\ Failed(ReadUnsigned(r, n).to) => ReadUnsigned(r, n).val = 0
           /\ ~ Failed(ReadUnsigned(r, n).to) => ReadUnsigned(r, n).to.pos = r.pos + n
<1>1. ReadUnsigned(r, n).to = Take(r, n)
  BY DEF ReadUnsigned
<1>2. ReadUnsigned(r, n).val = IF EnsureBytes(r, n) THEN LittleEndian(r, n) ELSE 0
  BY DEF ReadUnsigned
<1>3. CASE EnsureBytes(r, n)
  <2>1. ~ Failed(Take(r, n))
    BY <1>3 DEF Take, EnsureBytes, Failed, Readers
  <2> QED BY <1>1, <1>2, <1>3, <2>1, LittleEndianType, TakeAfter
<1>4. CASE ~ EnsureBytes(r, n)
  BY <1>1, <1>2, <1>4, TakeAfter
<1> QED BY <1>3, <1>4

\* A signed integer; behind an error it is not positive.
LEMMA ReadIntAfter ==
    ASSUME Input, NEW r \in Readers
    PROVE  /\ After(r, ReadInt(r).to) /\ ReadInt(r).val \in Int
           /\ Failed(ReadInt(r).to) => ReadInt(r).val <= 0
           /\ ~ Failed(ReadInt(r).to) => ReadInt(r).to.pos = r.pos + IntSize
<1> DEFINE raw == ReadUnsigned(r, IntSize)
<1>1. /\ raw.val \in Int /\ After(r, raw.to) /\ (Failed(raw.to) => raw.val = 0)
      /\ ~ Failed(raw.to) => raw.to.pos = r.pos + IntSize
  BY ReadUnsignedAfter, ReaderAssumption
<1>2. ReadInt(r).to = raw.to /\ ReadInt(r).val = Signed(raw.val, IntSize)
  BY DEF ReadInt, ReadUnsigned
<1>3. 256 ^ IntSize \in Int
  BY ReaderAssumption
<1> HIDE DEF raw
<1>4. Signed(raw.val, IntSize) \in Int
  BY <1>1, <1>3 DEF Signed
<1>5. Signed(0, IntSize) <= 0
  <2>1. CASE IntSize = 1
    BY <2>1 DEF Signed
  <2>2. CASE IntSize = 2
    BY <2>2 DEF Signed
  <2>3. CASE IntSize = 4
    BY <2>3 DEF Signed
  <2> QED BY <2>1, <2>2, <2>3, ReaderAssumption
<1> QED BY <1>1, <1>2, <1>4, <1>5

-----------------------------------------------------------------------------
(***************************************************************************)
(* Headers and strings.                                                    *)
(***************************************************************************)
\* An object header is null, or announces a count below the reserved values;
\* behind an error it announces nothing.
LEMMA ReadObjectHeaderAfter ==
    ASSUME Input, NEW r \in Readers
    PROVE  /\ After(r, ReadObjectHeader(r).to)
           /\ ReadObjectHeader(r).val \in [count : 0 .. MAX_MEMBER_COUNT, isNull : BOOLEAN]
           /\ ReadObjectHeader(r).val.isNull => ReadObjectHeader(r).val.count = 0
           /\ ~ Failed(ReadObjectHeader(r).to) => ReadObjectHeader(r).to.pos = r.pos + 1
<1> DEFINE b == ReadByte(r)
<1>1. After(r, b.to) /\ b.val \in 0 .. 255 /\ (~ Failed(b.to) => b.to.pos = r.pos + 1)
  BY ReadUnsignedAfter DEF ReadByte
<1>2. CASE b.val = 255
  <2>1. ReadObjectHeader(r) = [to |-> b.to, val |-> NullHeader]
    BY <1>2 DEF ReadObjectHeader, NULL_OBJECT, MAX_MEMBER_COUNT
  <2> QED BY <1>1, <2>1 DEF NullHeader, MAX_MEMBER_COUNT
<1>3. CASE b.val \in 250 .. 254
  <2>1. ReadObjectHeader(r) = [to |-> Fail(b.to, "InvalidHeader"), val |-> NullHeader]
    BY <1>3 DEF ReadObjectHeader, NULL_OBJECT, MAX_MEMBER_COUNT
  <2>2. After(r, Fail(b.to, "InvalidHeader")) /\ Failed(Fail(b.to, "InvalidHeader"))
    <3>1. b.to \in Readers
      BY <1>1 DEF After, Keeps
    <3>2. After(b.to, Fail(b.to, "InvalidHeader")) /\ Failed(Fail(b.to, "InvalidHeader"))
      BY <3>1, FailAfter DEF Errors
    <3> HIDE DEF b
    <3> QED BY <1>1, <3>2, AfterTransitive
  <2> QED BY <2>1, <2>2 DEF NullHeader, MAX_MEMBER_COUNT
<1>4. CASE b.val <= 249
  <2>1. ReadObjectHeader(r) = [to |-> b.to, val |-> [count |-> b.val, isNull |-> FALSE]]
    BY <1>1, <1>4 DEF ReadObjectHeader, NULL_OBJECT, MAX_MEMBER_COUNT
  <2> QED BY <1>1, <1>4, <2>1 DEF MAX_MEMBER_COUNT
<1> QED BY <1>1, <1>2, <1>3, <1>4

\* The length of a VersionTolerant member is a natural number.
LEMMA ReadVarIntLengthAfter ==
    ASSUME Input, NEW r \in Readers
    PROVE  After(r, ReadVarIntLength(r).to) /\ ReadVarIntLength(r).val \in Nat
<1> DEFINE b == ReadByte(r)
<1>1. After(r, b.to) /\ b.val \in 0 .. 255 /\ b.to \in Readers
  BY ReadUnsignedAfter DEF ReadByte, After, Keeps
<1>2. CASE b.val <= 127
  <2>1. ReadVarIntLength(r) = b
    BY <1>2 DEF ReadVarIntLength, VARINT_MAX_SINGLE, VARINT_UINT16_TAG, VARINT_UINT32_TAG
  <2> QED BY <1>1, <2>1
<1>3. CASE b.val = 132
  <2>1. ReadVarIntLength(r) = ReadUnsigned(b.to, 2)
    BY <1>3 DEF ReadVarIntLength, VARINT_MAX_SINGLE, VARINT_UINT16_TAG, VARINT_UINT32_TAG
  <2> HIDE DEF b
  <2> QED BY <1>1, <2>1, ReadUnsignedAfter, AfterTransitive
<1>4. CASE b.val = 130
  <2>1. ReadVarIntLength(r) = ReadUnsigned(b.to, 4)
    BY <1>4 DEF ReadVarIntLength, VARINT_MAX_SINGLE, VARINT_UINT16_TAG, VARINT_UINT32_TAG
  <2> HIDE DEF b
  <2> QED BY <1>1, <2>1, ReadUnsignedAfter, AfterTransitive
<1>5. CASE b.val > 127 /\ b.val \notin {130, 132}
  <2>1. ReadVarIntLength(r) = [to |-> Fail(b.to, "InvalidHeader"), val |-> 0]
    BY <1>1, <1>5 DEF ReadVarIntLength, VARINT_MAX_SINGLE, VARINT_UINT16_TAG, VARINT_UINT32_TAG
  <2> HIDE DEF b
  <2> QED BY <1>1, <2>1, FailAfter, AfterTransitive DEF Errors
<1> QED BY <1>1, <1>2, <1>3, <1>4, <1>5

\* The bytes of a string are stepped over when they are there.
LEMMA TakeStringAfter ==
    ASSUME Input, NEW r \in Readers, NEW count \in Nat, NEW unitSize \in Nat
    PROVE  After(r, TakeString(r, count, unitSize))
<1>1. CASE CheckStringLength(r, count, unitSize)
  <2>1. TakeString(r, count, unitSize) = Take(r, count * unitSize) /\ count * unitSize \in Nat
    BY <1>1 DEF TakeString
  <2> QED BY <2>1, TakeAfter
<1>2. CASE ~ CheckStringLength(r, count, unitSize)
  <2>1. TakeString(r, count, unitSize) = Fail(r, "LengthLimit")
    BY <1>2 DEF TakeString
  <2> QED BY <2>1, FailAfter DEF Errors
<1> QED BY <1>1, <1>2

\* ReadString only reads, whatever its header says.
LEMMA ReadStringAfter ==
    ASSUME Input, NEW r \in Readers
    PROVE  After(r, ReadString(r))
<1> DEFINE header == ReadInt(r)
           utf16Length == Take(header.to, IntSize)
<1>1. After(r, header.to) /\ header.val \in Int /\ header.to \in Readers
  BY ReadIntAfter DEF After, Keeps
<1>2. After(header.to, utf16Length) /\ utf16Length \in Readers
  <2>1. After(header.to, utf16Length)
    BY <1>1, TakeAfter, ReaderAssumption
  <2> QED BY <2>1 DEF After, Keeps
<1>3. CASE Failed(header.to) \/ header.val \in {-1, 0}
  <2>1. ReadString(r) = header.to
    BY <1>3 DEF ReadString
  <2> QED BY <1>1, <2>1
<1>4. CASE ~ Failed(header.to) /\ header.val > 0
  <2>1. ReadString(r) = TakeString(header.to, header.val, 2)
    BY <1>1, <1>4 DEF ReadString
  <2> HIDE DEF header
  <2>2. After(header.to, TakeString(header.to, header.val, 2))
    BY <1>1, <1>4, TakeStringAfter
  <2> QED BY <1>1, <2>1, <2>2, AfterTransitive
<1>5. CASE ~ Failed(header.to) /\ header.val < -1
  <2>1. ReadString(r) = IF utf16Length.threw THEN utf16Length
                        ELSE TakeString(utf16Length, -header.val - 1, 1)
    BY <1>1, <1>5 DEF ReadString
  <2> HIDE DEF header, utf16Length
  <2>2. After(utf16Length, TakeString(utf16Length, -header.val - 1, 1))
    BY <1>1, <1>2, <1>5, TakeStringAfter
  <2> QED BY <1>1, <1>2, <2>1, <2>2, AfterTransitive
<1> HIDE DEF header
<1> QED BY <1>1, <1>3, <1>4, <1>5

\* A collection's length is -1 or what the header says; what is accepted is
\* within the limit and within the bytes that remain.
LEMMA ReadCollectionLengthAfter ==
    ASSUME Input, NEW r \in Readers
    PROVE  /\ After(r, ReadCollectionLength(r, 1).to)
           /\ ReadCollectionLength(r, 1).val \in Int
           /\ ReadCollectionLength(r, 1).val >= -1
           /\ ReadCollectionLength(r, 1).val > 0 =>
                /\ ~ Failed(ReadCollectionLength(r, 1).to)
                /\ ReadCollectionLength(r, 1).val <= Remaining(ReadCollectionLength(r, 1).to)
           /\ ~ Failed(ReadCollectionLength(r, 1).to) =>
                ReadCollectionLength(r, 1).to.pos = r.pos + IntSize
<1> DEFINE len == ReadInt(r)
           bad == \/ len.val < 0 /\ len.val # NULL_COLLECTION
                  \/ len.val > MaxCollection
                  \/ 1 > 0 /\ len.val > Remaining(len.to) \div 1
<1>1. /\ After(r, len.to) /\ len.val \in Int /\ len.to \in Readers
      /\ Failed(len.to) => len.val <= 0
      /\ ~ Failed(len.to) => len.to.pos = r.pos + IntSize
  BY ReadIntAfter DEF After, Keeps
<1>2. ReadCollectionLength(r, 1) =
        IF bad THEN [to |-> Fail(len.to, "LengthLimit"), val |-> -1] ELSE len
  BY DEF ReadCollectionLength
<1>3. CASE bad
  <2> HIDE DEF len, bad
  <2>1. After(r, Fail(len.to, "LengthLimit")) /\ Failed(Fail(len.to, "LengthLimit"))
    BY <1>1, FailAfter, AfterTransitive DEF Errors
  <2> QED BY <1>2, <1>3, <2>1
<1>4. CASE ~ bad
  <2> HIDE DEF len
  <2>1. ReadCollectionLength(r, 1) = len
    BY <1>2, <1>4
  <2>2. Remaining(len.to) \in Int
    BY <1>1 DEF Remaining, Readers, Input
  <2>3. len.val >= -1 /\ len.val <= Remaining(len.to)
    BY <1>1, <1>4, <2>2 DEF NULL_COLLECTION
  <2> QED BY <1>1, <2>1, <2>3
<1> QED BY <1>3, <1>4

-----------------------------------------------------------------------------
(***************************************************************************)
(* Depth.                                                                  *)
(***************************************************************************)
\* EnterObject goes one level down, and lets in only below the limit.
LEMMA EnterObjectAfter ==
    ASSUME Input, NEW r \in Readers
    PROVE  LET s == EnterObject(r).to
           IN  /\ s \in Readers
               /\ s.depth = r.depth + 1
               /\ s.pos = r.pos
               /\ Honest(r) => Honest(s)
               /\ Failed(r) => s.error = r.error
               /\ IF EnterObject(r).val THEN s.depth <= MaxDepth /\ s.error = r.error /\ s.threw = r.threw
                  ELSE Failed(s)
<1> DEFINE deeper == [r EXCEPT !.depth = @ + 1]
<1>1. /\ deeper \in Readers /\ deeper.depth = r.depth + 1
      /\ deeper.pos = r.pos /\ deeper.error = r.error /\ deeper.threw = r.threw
  BY DEF Readers
<1>2. EnterObject(r) =
        IF deeper.depth > MaxDepth
        THEN [to |-> Fail(deeper, "LengthLimit"), val |-> FALSE]
        ELSE [to |-> deeper, val |-> TRUE]
  BY DEF EnterObject
<1> HIDE DEF deeper
<1>3. CASE deeper.depth > MaxDepth
  <2> DEFINE s == Fail(deeper, "LengthLimit")
  <2>1. After(deeper, s) /\ Failed(s) /\ s.pos = deeper.pos
    BY <1>1, FailAfter DEF Errors, Fail, Readers
  <2>2. EnterObject(r).to = s /\ EnterObject(r).val = FALSE
    BY <1>2, <1>3
  <2> HIDE DEF s
  <2> QED BY <1>1, <2>1, <2>2 DEF After, Keeps, Failed, Honest
<1>4. CASE ~ deeper.depth > MaxDepth
  <2>1. EnterObject(r).to = deeper /\ EnterObject(r).val = TRUE
    BY <1>2, <1>4
  <2>2. deeper.depth <= MaxDepth
    BY <1>1, <1>4, ReaderAssumption DEF Readers
  <2> QED BY <1>1, <2>1, <2>2 DEF Failed, Honest
<1> QED BY <1>3, <1>4

\* LeaveObject goes one level up, and not above the top.
LEMMA LeaveObjectAfter ==
    ASSUME NEW r \in Readers
    PROVE  LET s == LeaveObject(r)
           IN  /\ s \in Readers
               /\ s.depth = IF r.depth > 0 THEN r.depth - 1 ELSE r.depth
               /\ s.pos = r.pos /\ s.error = r.error /\ s.threw = r.threw
BY DEF LeaveObject, Readers

\* RequireEnd at most records an error.
LEMMA RequireEndAfter ==
    ASSUME Input, NEW r \in Readers
    PROVE  After(r, RequireEnd(r))
<1>1. CASE IsEnd(r)
  <2>1. RequireEnd(r) = r
    BY <1>1 DEF RequireEnd
  <2> QED BY <2>1, AfterReflexive
<1>2. CASE ~ IsEnd(r)
  <2>1. RequireEnd(r) = Fail(r, "TrailingBytes")
    BY <1>2 DEF RequireEnd
  <2> QED BY <2>1, FailAfter DEF Errors
<1> QED BY <1>1, <1>2

\* A fresh reader.
LEMMA NewReaderType ==
    ASSUME Input
    PROVE  NewReader \in Readers /\ ~ Failed(NewReader) /\ ~ NewReader.threw /\ NewReader.depth = 0
BY DEF NewReader, Readers, Failed, Errors, Input
=============================================================================
