-------------------- MODULE VersionTolerantReaderProofs --------------------
(***************************************************************************)
(* Proofs about VersionTolerantReader, for every input, every number of    *)
(* members on either side and both builds.                                 *)
(***************************************************************************)
EXTENDS VersionTolerantReader, MemoryPackReaderProofs

-----------------------------------------------------------------------------
(***************************************************************************)
(* The inductive invariant.                                                *)
(***************************************************************************)
\* Until the table has been read no member has.
Untouched ==
    /\ phase \in {"construct", "lengths"} => index_ = 0 /\ got = {} /\ calls = 0
    /\ phase = "construct" => lengths_ = <<>>

\* While nothing has failed the table is complete and next_ is where the next
\* member begins.
OnTrack ==
    phase = "members" /\ ~ isNull_ /\ ~ Failed(reader) =>
        Len(lengths_) = count_ /\ next_ = MemberOffset(index_)

\* Members were read only where the table says.
GotInTable == \A m \in got : m[1] \in 0 .. Len(lengths_) /\ m[2] = MemberOffset(m[1])

\* A reader that has thrown has an error, and the object is over.
ThrownIsOver == Honest(reader) /\ (reader.threw => phase = "done")

Inv ==
    /\ TypeOK
    /\ Untouched
    /\ OnTrack
    /\ GotInTable
    /\ ThrownIsOver
    /\ isNull_ => count_ = 0
    /\ EndsBehindObject

-----------------------------------------------------------------------------
\* The offsets of the members add up along the table.
LEMMA OffsetStep ==
    ASSUME lengths_ \in Seq(Nat)
    PROVE  /\ MemberOffset(0) = bodyAt
           /\ \A i \in 1 .. Len(lengths_) : MemberOffset(i) = MemberOffset(i - 1) + lengths_[i]
<1> DEFINE n == Len(lengths_)
           sum == CHOOSE g : g = [k \in 0 .. Len(lengths_) |-> IF k = 0 THEN bodyAt ELSE g[k - 1] + lengths_[k]]
<1>1. \A i : MemberOffset(i) = sum[i]
  BY DEF MemberOffset
<1>2. n \in Nat
  BY LenProperties
<1>3. PICK g : Sums(g, n, bodyAt, lengths_)
  <2> HIDE DEF n
  <2> QED BY <1>2, SumsExist
<1>4. Sums(sum, n, bodyAt, lengths_)
  BY <1>3 DEF Sums
<1> HIDE DEF sum
<1>5. sum[0] = bodyAt /\ \A k \in 1 .. n : sum[k] = sum[k - 1] + lengths_[k]
  <2> HIDE DEF n
  <2> QED BY <1>2, <1>4, SumsStep
<1> QED BY <1>1, <1>5

\* The first member is behind the table, in the next state too.
LEMMA OffsetStepPrimed ==
    ASSUME lengths_' \in Seq(Nat)
    PROVE  MemberOffset(0)' = bodyAt'
<1>1. (lengths_ \in Seq(Nat) => MemberOffset(0) = bodyAt)'
  BY OffsetStep, PTL
<1> QED BY <1>1

\* The offsets depend on the table alone.
LEMMA OffsetSame ==
    ASSUME UNCHANGED <<lengths_, bodyAt>>
    PROVE  \A i : MemberOffset(i)' = MemberOffset(i)
BY DEF MemberOffset

\* The input is bytes and the build one of two.
LEMMA InputThere == TypeOK => Input
<1> SUFFICES ASSUME TypeOK PROVE Input
  OBVIOUS
<1>1. Seq(Byte) \subseteq Seq(0 .. 255)
  BY ByteAssumption, SeqMonotonic, ZenonT(30)
<1> QED BY <1>1, ProgramAssumption DEF TypeOK, Input

\* Before the constructor nothing was read.
LEMMA InitInv == Init => Inv
<1> SUFFICES ASSUME Init PROVE Inv
  OBVIOUS
<1>1. data_ \in Seq(Byte)
  BY DEF Init
<1>2. Len(data_) \in Nat /\ lengths_ \in Seq(Nat) /\ Len(lengths_) = 0
  BY <1>1, LenProperties DEF Init
<1>3. reader \in Readers
  BY <1>2 DEF Init, NewReader, Readers, Errors
<1>4. TypeOK
  <2>1. calls \in 0 .. Known /\ count_ \in 0 .. MAX_MEMBER_COUNT /\ index_ \in 0 .. count_
    BY ProgramAssumption DEF Init, MAX_MEMBER_COUNT
  <2>2. bodyAt \in 0 .. Len(data_) /\ next_ \in Nat
    BY <1>2 DEF Init
  <2>3. throws \in Builds /\ isNull_ \in BOOLEAN
    BY DEF Init
  <2>a. Len(lengths_) <= count_
    BY <1>2 DEF Init
  <2>4. phase \in {"construct", "lengths", "members", "done"}
    BY DEF Init
  <2> QED BY <1>1, <1>2, <1>3, <2>1, <2>2, <2>3, <2>a, <2>4 DEF TypeOK
<1> QED BY <1>4 DEF Init, Inv, Untouched, OnTrack, GotInTable, ThrownIsOver, Honest, NewReader, EndsBehindObject

-----------------------------------------------------------------------------
(***************************************************************************)
(* The constructor.                                                        *)
(***************************************************************************)
\* The header gives a count, or there is no member.
LEMMA ReadHeaderInv == Inv /\ ReadHeader => Inv'
<1> SUFFICES ASSUME Inv, ReadHeader PROVE Inv'
  OBVIOUS
<1> USE DEF Inv
<1> DEFINE header == ReadObjectHeader(reader)
<1>1. Input
  BY InputThere
<1>2. /\ After(reader, header.to)
      /\ header.val.count \in 0 .. MAX_MEMBER_COUNT /\ header.val.isNull \in BOOLEAN
      /\ header.val.isNull => header.val.count = 0
  BY <1>1, ReadObjectHeaderAfter DEF TypeOK
<1>3. /\ phase = "construct"
      /\ reader' = header.to
      /\ isNull_' = header.val.isNull
      /\ count_' = header.val.count
      /\ phase' = IF header.to.threw THEN "done"
                  ELSE IF header.val.isNull THEN "members" ELSE "lengths"
      /\ UNCHANGED <<data_, throws, index_, next_, lengths_, calls, got, bodyAt>>
  BY DEF ReadHeader
<1> HIDE DEF header
<1>4. /\ index_ = 0 /\ got = {} /\ calls = 0
      /\ phase' \in {"done", "members", "lengths"}
      /\ header.to.threw <=> phase' = "done"
      /\ phase' = "members" => isNull_'
  BY <1>2, <1>3 DEF Untouched
<1>5. reader' \in Readers /\ Honest(reader')
  BY <1>2, <1>3 DEF After, Keeps, ThrownIsOver
<1>r. Readers' = Readers
  BY <1>3 DEF Readers
<1>6. TypeOK'
  <2>1. Len(lengths_') <= count_'
    <3>1. Len(lengths_') = 0
      BY <1>3 DEF Untouched
    <3>2. count_' \in Nat
      BY <1>2, <1>3 DEF MAX_MEMBER_COUNT
    <3> QED BY <3>1, <3>2
  <2> QED BY <1>2, <1>3, <1>4, <1>5, <1>r, <2>1 DEF TypeOK
<1>7. Untouched' /\ OnTrack' /\ GotInTable'
  BY <1>3, <1>4 DEF Untouched, OnTrack, GotInTable
<1>8. ThrownIsOver'
  BY <1>3, <1>4, <1>5 DEF ThrownIsOver, Honest, Failed
<1>9. EndsBehindObject'
  BY <1>3, <1>4, <1>5 DEF EndsBehindObject, Honest, Failed
<1> QED BY <1>2, <1>3, <1>6, <1>7, <1>8, <1>9

\* One more length is recorded.
LEMMA ReadLengthInv == Inv /\ ReadLength => Inv'
<1> SUFFICES ASSUME Inv, ReadLength PROVE Inv'
  OBVIOUS
<1> USE DEF Inv
<1> DEFINE len == ReadVarIntLength(reader)
<1>1. Input
  BY InputThere
<1>2. After(reader, len.to) /\ len.val \in Nat
  BY <1>1, ReadVarIntLengthAfter DEF TypeOK
<1>3. /\ phase = "lengths" /\ InTable
      /\ reader' = len.to
      /\ lengths_' = IF len.to.threw THEN lengths_ ELSE Append(lengths_, len.val)
      /\ phase' = IF len.to.threw THEN "done" ELSE "lengths"
      /\ UNCHANGED <<data_, throws, isNull_, count_, index_, next_, calls, got, bodyAt>>
  BY DEF ReadLength
<1> HIDE DEF len
<1>4. lengths_' \in Seq(Nat) /\ Len(lengths_') <= count_
  <2>1. CASE len.to.threw
    BY <1>3, <2>1 DEF TypeOK
  <2>2. CASE ~ len.to.threw
    <3>1. lengths_' \in Seq(Nat) /\ Len(lengths_') = Len(lengths_) + 1
      BY <1>2, <1>3, <2>2, AppendProperties DEF TypeOK
    <3> QED BY <1>3, <3>1, LenProperties DEF TypeOK, InTable, MAX_MEMBER_COUNT
  <2> QED BY <2>1, <2>2
<1>5. reader' \in Readers /\ Honest(reader')
  BY <1>2, <1>3 DEF After, Keeps, ThrownIsOver
<1>6. TypeOK'
  BY <1>3, <1>4, <1>5 DEF TypeOK, Readers
<1>7. Untouched' /\ OnTrack' /\ GotInTable'
  BY <1>3 DEF Untouched, OnTrack, GotInTable
<1>8. ThrownIsOver' /\ EndsBehindObject'
  BY <1>3, <1>5 DEF ThrownIsOver, EndsBehindObject, Honest, Failed
<1> QED BY <1>3, <1>6, <1>7, <1>8

\* Behind the table the first member begins.
LEMMA EndTableInv == Inv /\ EndTable => Inv'
<1> SUFFICES ASSUME Inv, EndTable PROVE Inv'
  OBVIOUS
<1> USE DEF Inv
<1>1. /\ phase = "lengths" /\ ~ InTable
      /\ next_' = reader.pos /\ bodyAt' = reader.pos /\ phase' = "members"
      /\ UNCHANGED <<data_, throws, reader, isNull_, count_, index_, lengths_, calls, got>>
  BY DEF EndTable
<1>2. reader.pos \in 0 .. Len(data_) /\ Len(data_) \in Nat
  BY LenProperties DEF TypeOK, Readers
<1>3. TypeOK'
  BY <1>1, <1>2 DEF TypeOK, Readers
<1>4. index_ = 0 /\ got = {} /\ ~ reader.threw
  BY <1>1 DEF Untouched, ThrownIsOver
<1>5. OnTrack'
  <2>1. MemberOffset(0)' = bodyAt'
    <3>1. lengths_' \in Seq(Nat)
      BY <1>3 DEF TypeOK
    <3> QED BY <3>1, OffsetStepPrimed
  <2>2. ~ Failed(reader) => Len(lengths_) = count_
    BY <1>1, LenProperties DEF InTable, TypeOK, MAX_MEMBER_COUNT
  <2>3. Failed(reader)' = Failed(reader)
    BY <1>1 DEF Failed
  <2> QED BY <1>1, <1>4, <2>1, <2>2, <2>3 DEF OnTrack
<1> QED BY <1>1, <1>3, <1>4, <1>5 DEF Untouched, GotInTable, ThrownIsOver, EndsBehindObject, Honest, Failed

-----------------------------------------------------------------------------
(***************************************************************************)
(* The members.                                                            *)
(***************************************************************************)
\* What the table holds behind a member that is not absent.
LEMMA LengthType ==
    ASSUME Inv, ~ NoMember, NEW len \in LengthAt(index_)
    PROVE  /\ len \in Nat
           /\ index_ \in 0 .. count_ - 1 /\ index_ + 1 \in 0 .. count_
           /\ Len(lengths_) = count_ =>
                index_ + 1 \in 1 .. Len(lengths_) /\ len = lengths_[index_ + 1]
<1>1. index_ \in 0 .. count_ - 1 /\ index_ + 1 \in 0 .. count_
  BY DEF Inv, TypeOK, NoMember, MAX_MEMBER_COUNT
<1>2. CASE index_ < Len(lengths_)
  <2>1. len = lengths_[index_ + 1] /\ index_ + 1 \in 1 .. Len(lengths_)
    BY <1>1, <1>2, LenProperties DEF LengthAt, Inv, TypeOK
  <2>2. lengths_[index_ + 1] \in Nat
    BY <2>1, ElementOfSeq DEF Inv, TypeOK
  <2> QED BY <1>1, <2>1, <2>2
<1>3. CASE ~ index_ < Len(lengths_)
  <2>1. len \in Nat
    BY <1>3, ProgramAssumption DEF LengthAt
  <2>2. Len(lengths_) # count_
    BY <1>1, <1>3 DEF Inv, TypeOK, MAX_MEMBER_COUNT
  <2> QED BY <1>1, <2>1, <2>2
<1> QED BY <1>2, <1>3

\* One member further along the table.
LEMMA NextOffset ==
    ASSUME Inv, ~ NoMember, phase = "members", ~ Failed(reader), NEW len \in LengthAt(index_)
    PROVE  next_ + len = MemberOffset(index_ + 1)
<1>1. Len(lengths_) = count_ /\ next_ = MemberOffset(index_)
  BY DEF Inv, OnTrack, NoMember
<1>2. index_ + 1 \in 1 .. Len(lengths_) /\ len = lengths_[index_ + 1] /\ index_ \in Nat
  BY <1>1, LengthType DEF Inv, TypeOK, MAX_MEMBER_COUNT
<1>3. lengths_ \in Seq(Nat)
  BY DEF Inv, TypeOK
<1>4. MemberOffset(index_ + 1) = MemberOffset((index_ + 1) - 1) + lengths_[index_ + 1]
  BY <1>2, <1>3, OffsetStep
<1>5. (index_ + 1) - 1 = index_
  BY <1>2
<1> QED BY <1>1, <1>2, <1>4, <1>5

\* The step to the next member preserves the invariant when the reader it leaves
\* behind is in order, next_ is a length further unless the reader failed, and
\* what was read was read at its offset.
LEMMA MemberInv ==
    ASSUME Inv, phase = "members", ~ NoMember,
           NEW len \in LengthAt(index_),
           Keeps(reader, reader'),
           next_' \in Nat, ~ Failed(reader') => next_' = next_ + len,
           index_' = index_ + 1, calls' \in 0 .. Known,
           phase' = IF reader'.threw THEN "done" ELSE "members",
           got' = got \/ (~ Failed(reader) /\ got' = got \cup {<<index_, next_>>}),
           UNCHANGED <<data_, throws, isNull_, count_, lengths_, bodyAt>>
    PROVE  Inv'
<1> USE DEF Inv
<1>1. /\ len \in Nat /\ index_ + 1 \in 0 .. count_ /\ ~ isNull_
      /\ Len(lengths_) = count_ => index_ \in 0 .. Len(lengths_)
  BY LengthType DEF NoMember, TypeOK, MAX_MEMBER_COUNT
<1>2. reader' \in Readers /\ Honest(reader') /\ (Failed(reader) => Failed(reader'))
  BY DEF Keeps, ThrownIsOver, Failed
<1>r. Readers' = Readers
  BY DEF Readers
<1>3. TypeOK'
  BY <1>1, <1>2, <1>r DEF TypeOK
<1>4. \A i : MemberOffset(i)' = MemberOffset(i)
  BY OffsetSame
<1>5. OnTrack'
  <2> SUFFICES ASSUME ~ Failed(reader') PROVE Len(lengths_') = count_' /\ next_' = MemberOffset(index_)'
    BY DEF OnTrack, Failed
  <2>1. next_ + len = MemberOffset(index_ + 1)
    BY <1>2, NextOffset
  <2>2. MemberOffset(index_)' = MemberOffset(index_ + 1)
    BY DEF MemberOffset
  <2> QED BY <1>1, <1>2, <2>1, <2>2 DEF OnTrack
<1>6. GotInTable'
  <2> SUFFICES ASSUME NEW m \in got' PROVE m[1] \in 0 .. Len(lengths_') /\ m[2] = MemberOffset(m[1])'
    BY DEF GotInTable
  <2>1. CASE m \in got
    BY <1>4, <2>1 DEF GotInTable
  <2>2. CASE m \notin got
    <3>1. ~ Failed(reader) /\ m = <<index_, next_>>
      BY <2>2
    <3>2. Len(lengths_) = count_ /\ next_ = MemberOffset(index_)
      BY <1>1, <3>1 DEF OnTrack
    <3> QED BY <1>1, <1>4, <3>1, <3>2
  <2> QED BY <2>1, <2>2
<1>7. ThrownIsOver' /\ EndsBehindObject' /\ Untouched'
  BY <1>2 DEF ThrownIsOver, EndsBehindObject, Untouched, Honest, Failed
<1> QED BY <1>1, <1>3, <1>5, <1>6, <1>7

\* A member is read and the reader put behind its recorded length.
LEMMA ReadMemberInv == Inv /\ ReadMember => Inv'
<1> SUFFICES ASSUME Inv, ReadMember PROVE Inv'
  OBVIOUS
<1>1. PICK len \in LengthAt(index_) :
          LET at   == Seek(reader, next_)
              read == ReadString(at)
              done == IF read.threw THEN read ELSE Seek(read, next_ + len)
          IN  IF Failed(at)
              THEN /\ reader' = at
                   /\ UNCHANGED <<next_, got>>
              ELSE /\ reader' = done
                   /\ next_' = IF read.threw THEN next_ ELSE next_ + len
                   /\ got' = got \cup {<<index_, at.pos>>}
  BY DEF ReadMember
<1> DEFINE at   == Seek(reader, next_)
           read == ReadString(at)
           done == IF read.threw THEN read ELSE Seek(read, next_ + len)
<1>2. /\ phase = "members" /\ ~ NoMember
      /\ index_' = index_ + 1 /\ calls < Known /\ calls' = calls + 1
      /\ phase' = IF reader'.threw THEN "done" ELSE "members"
      /\ UNCHANGED <<data_, throws, isNull_, count_, lengths_, bodyAt>>
  BY DEF ReadMember
<1>3. calls' \in 0 .. Known
  BY <1>2, ProgramAssumption DEF Inv, TypeOK
<1>4. Input /\ reader \in Readers /\ next_ \in Nat /\ len \in Nat
  BY <1>2, InputThere, LengthType DEF Inv, TypeOK
<1>5. Keeps(reader, at) /\ at \in Readers /\ (~ Failed(at) => at.pos = next_)
  BY <1>4, SeekKeeps DEF Keeps
<1>6. CASE Failed(at)
  <2>1. reader' = at /\ next_' = next_ /\ got' = got
    BY <1>1, <1>6
  <2> HIDE DEF at
  <2> QED BY <1>2, <1>3, <1>4, <1>5, <1>6, <2>1, MemberInv
<1>7. CASE ~ Failed(at)
  <2>1. /\ reader' = done
        /\ next_' = IF read.threw THEN next_ ELSE next_ + len
        /\ got' = got \cup {<<index_, at.pos>>}
    BY <1>1, <1>7
  <2> HIDE DEF at
  <2>2. Keeps(at, read) /\ read \in Readers
    BY <1>4, <1>5, ReadStringAfter DEF After, Keeps
  <2> HIDE DEF read
  <2>3. next_ + len \in Nat /\ next_' \in Nat
    BY <1>4, <2>1
  <2>4. Keeps(read, done)
    <3>1. CASE read.threw
      BY <2>2, <3>1 DEF Keeps
    <3>2. CASE ~ read.threw
      BY <1>4, <2>2, <2>3, <3>2, SeekKeeps
    <3> QED BY <3>1, <3>2
  <2>5. Keeps(reader, reader')
    <3> HIDE DEF done
    <3> QED BY <1>5, <2>1, <2>2, <2>4 DEF Keeps, Failed
  <2>6. ~ Failed(reader)
    BY <1>5, <1>7 DEF Keeps, Failed
  <2>7. ~ Failed(reader') => next_' = next_ + len
    <3>1. Honest(read)
      BY <1>5, <2>2 DEF Keeps, Inv, ThrownIsOver
    <3>2. CASE read.threw
      BY <2>1, <3>1, <3>2 DEF Honest
    <3>3. CASE ~ read.threw
      BY <2>1, <3>3
    <3> QED BY <3>2, <3>3
  <2>8. got' = got \cup {<<index_, next_>>}
    BY <1>5, <1>7, <2>1
  <2> HIDE DEF done
  <2> QED BY <1>2, <1>3, <2>3, <2>5, <2>6, <2>7, <2>8, MemberInv
<1> QED BY <1>6, <1>7

\* A member is skipped by its recorded length.
LEMMA SkipOneInv ==
    ASSUME Inv, phase = "members", SkipOne, calls' \in 0 .. Known
    PROVE  Inv'
<1>1. PICK len \in LengthAt(index_) : next_' = next_ + len /\ reader' = Seek(reader, next_ + len)
  BY DEF SkipOne
<1>2. /\ ~ NoMember /\ index_' = index_ + 1 /\ got' = got
      /\ phase' = IF reader'.threw THEN "done" ELSE "members"
      /\ UNCHANGED <<data_, throws, isNull_, count_, lengths_, bodyAt>>
  BY DEF SkipOne
<1>3. Input /\ reader \in Readers /\ next_ \in Nat /\ len \in Nat
  BY <1>2, InputThere, LengthType DEF Inv, TypeOK
<1>4. next_ + len \in Nat
  BY <1>3
<1>5. Keeps(reader, reader')
  BY <1>1, <1>3, <1>4, SeekKeeps
<1> QED BY <1>1, <1>2, <1>4, <1>5, MemberInv

\* Finish skips what is left.
LEMMA FinishInv == Inv /\ Finish => Inv'
<1> SUFFICES ASSUME Inv, Finish PROVE Inv'
  OBVIOUS
<1> USE DEF Inv
<1>1. /\ phase = "members" /\ index_ >= count_ /\ phase' = "done"
      /\ reader' = IF isNull_ THEN reader ELSE Seek(reader, next_)
      /\ UNCHANGED <<data_, throws, isNull_, count_, index_, next_, lengths_, calls, got, bodyAt>>
  BY DEF Finish, vtr
<1>2. Input /\ reader \in Readers /\ next_ \in Nat
  BY InputThere DEF TypeOK
<1>3. Keeps(reader, reader') /\ (~ isNull_ /\ ~ Failed(reader') => reader'.pos = next_)
  <2>1. CASE isNull_
    BY <1>1, <1>2, <2>1 DEF Keeps
  <2>2. CASE ~ isNull_
    BY <1>1, <1>2, <2>2, SeekKeeps
  <2> QED BY <2>1, <2>2
<1>4. reader' \in Readers /\ Honest(reader') /\ (Failed(reader) => Failed(reader'))
  BY <1>3 DEF Keeps, ThrownIsOver, Failed
<1>r. Readers' = Readers
  BY <1>1 DEF Readers
<1>5. TypeOK'
  BY <1>1, <1>4, <1>r DEF TypeOK
<1>6. \A i : MemberOffset(i)' = MemberOffset(i)
  BY <1>1, OffsetSame
<1>7. GotInTable'
  BY <1>1, <1>6 DEF GotInTable
<1>8. EndsBehindObject'
  <2> SUFFICES ASSUME ~ Failed(reader'), ~ isNull_ PROVE reader'.pos = MemberOffset(count_)'
    BY <1>1 DEF EndsBehindObject, Failed
  <2>1. next_ = MemberOffset(index_) /\ index_ = count_
    BY <1>1, <1>4 DEF OnTrack, TypeOK, MAX_MEMBER_COUNT
  <2>2. MemberOffset(count_)' = MemberOffset(count_)
    BY <1>1 DEF MemberOffset
  <2> QED BY <1>3, <2>1, <2>2
<1>9. Untouched' /\ OnTrack' /\ ThrownIsOver'
  BY <1>1, <1>4 DEF Untouched, OnTrack, ThrownIsOver, Honest, Failed
<1> QED BY <1>1, <1>5, <1>7, <1>8, <1>9

-----------------------------------------------------------------------------
\* A step that changes nothing, or only counts a member that is absent.
LEMMA OthersInv ==
    ASSUME Inv, Absent \/ UNCHANGED vars
    PROVE  Inv'
<1> USE DEF Inv
<1>1. /\ UNCHANGED <<data_, throws, reader, isNull_, count_, index_, next_, lengths_, got, bodyAt, phase>>
      /\ calls' = calls \/ (phase = "members" /\ calls < Known /\ calls' = calls + 1)
  BY DEF Absent, vars, vtr
<1>2. calls' \in 0 .. Known
  BY <1>1, ProgramAssumption DEF TypeOK
<1>r. Readers' = Readers
  BY <1>1 DEF Readers
<1>3. TypeOK'
  BY <1>1, <1>2, <1>r DEF TypeOK
<1>4. \A i : MemberOffset(i)' = MemberOffset(i)
  BY <1>1, OffsetSame
<1>5. MemberOffset(index_)' = MemberOffset(index_) /\ MemberOffset(count_)' = MemberOffset(count_)
  BY <1>1 DEF MemberOffset
<1>6. GotInTable'
  BY <1>1, <1>4 DEF GotInTable
<1>7. Untouched' /\ OnTrack' /\ ThrownIsOver' /\ EndsBehindObject'
  BY <1>1, <1>5 DEF Untouched, OnTrack, ThrownIsOver, EndsBehindObject, Honest, Failed
<1> QED BY <1>1, <1>3, <1>6, <1>7

\* The invariant holds in every reachable state, for every input.
THEOREM Invariance == Spec => []Inv
<1>1. Inv /\ [Next]_vars => Inv'
  <2> SUFFICES ASSUME Inv, [Next]_vars PROVE Inv'
    OBVIOUS
  <2>1. CASE SkipMember \/ FinishSkips
    <3>1. phase = "members" /\ SkipOne
      BY <2>1 DEF SkipMember, FinishSkips
    <3>2. calls' \in 0 .. Known
      BY <2>1, ProgramAssumption DEF SkipMember, FinishSkips, Inv, TypeOK
    <3> QED BY <3>1, <3>2, SkipOneInv
  <2> QED BY <2>1, ReadHeaderInv, ReadLengthInv, EndTableInv, ReadMemberInv, FinishInv, OthersInv DEF Next
<1> QED BY <1>1, InitInv, PTL DEF Spec

\* For every input, every number of members on either side and both builds, the
\* read position stays inside the input and the members of the class in their
\* ranges.
THEOREM TypeCorrect == Spec => []TypeOK
<1>1. Inv => TypeOK
  BY DEF Inv
<1> QED BY <1>1, Invariance, PTL

\* ReadMember decodes a member only at the offset that the length table gives
\* it, whatever the members before it consumed.
THEOREM MembersAtOffsets == Spec => []ReadAtRecordedOffset
<1>1. Inv => ReadAtRecordedOffset
  BY DEF Inv, GotInTable, ReadAtRecordedOffset
<1> QED BY <1>1, Invariance, PTL

\* A decode without an error ends exactly behind the object, unknown members
\* included.
THEOREM EndsBehind == Spec => []EndsBehindObject
<1>1. Inv => EndsBehindObject
  BY DEF Inv
<1> QED BY <1>1, Invariance, PTL
=============================================================================
