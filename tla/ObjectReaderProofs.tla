------------------------- MODULE ObjectReaderProofs -------------------------
(***************************************************************************)
(* Proofs about the generated Deserialize of ObjectReader, for every input,*)
(* every list of members, every limit and both builds.                     *)
(***************************************************************************)
EXTENDS ObjectReader, MemoryPackReaderProofs

-----------------------------------------------------------------------------
(***************************************************************************)
(* The inductive invariant.                                                *)
(***************************************************************************)
\* A member is read inside an activation, and the top-level function is back in
\* charge when there is none.
StackFitsPhase ==
    /\ phase = "member" => stack # <<>>
    /\ phase \in {"finish", "done"} => stack = <<>>

\* depth_ is the number of open objects, or above it once something failed: an
\* object that EnterObject did not let in is counted, and so are the ones that
\* an exception unwound.
DepthCovers ==
    /\ Len(stack) <= reader.depth
    /\ ~ Failed(reader) => reader.depth = Len(stack)

\* Nothing runs on behind an exception.
ThrownIsOver == Honest(reader) /\ (reader.threw => phase = "finish")

Inv == TypeOK /\ StackFitsPhase /\ DepthCovers /\ Len(stack) <= MaxDepth /\ ThrownIsOver

-----------------------------------------------------------------------------
\* The input is bytes and the build one of two.
LEMMA InputThere == TypeOK => Input
<1> SUFFICES ASSUME TypeOK PROVE Input
  OBVIOUS
<1>1. Seq(Byte) \subseteq Seq(0 .. 255)
  BY ByteAssumption, SeqMonotonic, ZenonT(30)
<1> QED BY <1>1 DEF TypeOK, Input

\* A decode begins with an empty stack and a new reader.
LEMMA InitInv == Init => Inv
<1> SUFFICES ASSUME Init PROVE Inv
  OBVIOUS
<1>1. data_ \in Seq(Byte)
  BY DEF Init
<1>2. Input
  <2>1. Seq(Byte) \subseteq Seq(0 .. 255)
    BY ByteAssumption, SeqMonotonic, ZenonT(30)
  <2> QED BY <1>1, <2>1 DEF Input, Init
<1>3. reader \in Readers /\ ~ Failed(reader) /\ ~ reader.threw /\ reader.depth = 0
  BY <1>2, NewReaderType DEF Init
<1>4. TypeOK
  <2>1. stack \in Seq(Frames) /\ outcomes \in Seq([error : Errors, pos : 0 .. Len(data_)])
    BY DEF Init
  <2>2. throws \in BOOLEAN /\ exact \in BOOLEAN /\ reserved \in Nat
    BY DEF Init
  <2>3. phase \in {"object", "member", "finish", "done"}
    BY DEF Init
  <2> QED BY <1>1, <1>3, <2>1, <2>2, <2>3 DEF TypeOK
<1>5. Len(stack) = 0
  BY DEF Init
<1> QED BY <1>3, <1>4, <1>5, ReaderAssumption DEF Init, Inv, StackFitsPhase, DepthCovers, ThrownIsOver, Honest

-----------------------------------------------------------------------------
\* What the step to the reader r, the activations frames and the phase next
\* needs to preserve the invariant.
LEMMA ContinueInv ==
    ASSUME Inv, NEW r \in Readers, NEW frames \in Seq(Frames), NEW next \in {"object", "member", "finish"},
           Continue(r, frames, next), reserved' \in Nat,
           Honest(r),
           ~ r.threw => /\ Len(frames) <= MaxDepth /\ Len(frames) <= r.depth
                        /\ ~ Failed(r) => r.depth = Len(frames)
                        /\ next = "member" => frames # <<>>
                        /\ next = "finish" => frames = <<>>
    PROVE  Inv'
<1>1. /\ reader' = r
      /\ stack' = IF r.threw THEN <<>> ELSE frames
      /\ phase' = IF r.threw THEN "finish" ELSE next
      /\ UNCHANGED <<data_, throws, exact, outcomes>>
  BY DEF Continue
<1>2. stack' \in Seq(Frames)
  BY <1>1
<1>r. Readers' = Readers
  BY <1>1 DEF Readers
<1>3. TypeOK'
  BY <1>1, <1>2, <1>r DEF Inv, TypeOK
<1>4. CASE r.threw
  <2>1. stack' = <<>> /\ phase' = "finish" /\ Len(stack') = 0
    BY <1>1, <1>4
  <2>2. Failed(reader)' /\ reader'.depth \in Nat /\ Honest(reader)'
    BY <1>1, <1>4 DEF Honest, Failed, Readers
  <2> QED BY <1>3, <2>1, <2>2, ReaderAssumption DEF Inv, StackFitsPhase, DepthCovers, ThrownIsOver
<1>5. CASE ~ r.threw
  <2>1. stack' = frames /\ phase' = next /\ reader' = r
    BY <1>1, <1>5
  <2>2. Failed(reader)' = Failed(r) /\ Honest(reader)'
    BY <2>1 DEF Failed, Honest
  <2> QED BY <1>3, <1>5, <2>1, <2>2 DEF Inv, StackFitsPhase, DepthCovers, ThrownIsOver
<1> QED BY <1>4, <1>5

\* The innermost activation, and the stack with another one in its place or
\* without it.
LEMMA StackOps ==
    ASSUME stack \in Seq(Frames), stack # <<>>
    PROVE  /\ top \in Frames
           /\ Len(stack) \in Nat \ {0}
           /\ \A frame \in Frames :
                SetTop(frame) \in Seq(Frames) /\ Len(SetTop(frame)) = Len(stack) /\ SetTop(frame) # <<>>
           /\ Pop \in Seq(Frames) /\ Len(Pop) = Len(stack) - 1
<1>1. Len(stack) \in Nat \ {0} /\ Len(stack) \in 1 .. Len(stack)
  BY EmptySeq, LenProperties
<1>2. top \in Frames
  BY <1>1, ElementOfSeq DEF top
<1>3. ASSUME NEW frame \in Frames
      PROVE  SetTop(frame) \in Seq(Frames) /\ Len(SetTop(frame)) = Len(stack) /\ SetTop(frame) # <<>>
  <2>1. SetTop(frame) \in Seq(Frames) /\ Len(SetTop(frame)) = Len(stack)
    BY <1>1, ExceptSeq DEF SetTop
  <2> QED BY <1>1, <2>1
<1>4. Pop \in Seq(Frames) /\ Len(Pop) = Len(stack) - 1
  <2> DEFINE n == Len(stack) - 1
  <2>1. n \in Nat /\ n <= Len(stack) /\ n \in 1 - 1 .. Len(stack)
    BY <1>1
  <2>2. Pop = SubSeq(stack, 1, n)
    BY DEF Pop
  <2> HIDE DEF n
  <2>3. SubSeq(stack, 1, n) \in Seq(Frames) /\ Len(SubSeq(stack, 1, n)) = n
    BY <1>1, <2>1
  <2> QED BY <2>2, <2>3 DEF n
<1> QED BY <1>1, <1>2, <1>3, <1>4

\* What ErrorIsFinal says of one step.
Final == Failed(reader) => reader'.error = reader.error /\ reader'.pos = reader.pos

-----------------------------------------------------------------------------
\* An object is entered, is null, or is refused for its header or its depth.
LEMMA BeginObjectInv ==
    ASSUME Inv, BeginObject
    PROVE  Inv' /\ Final
<1> DEFINE header  == ReadObjectHeader(reader)
           entered == EnterObject(header.to)
           frame   == [count |-> header.val.count, index |-> 0, left |-> 0]
<1>1. /\ phase = "object" /\ reserved' = reserved
      /\ IF header.val.isNull \/ header.to.threw
         THEN Continue(header.to, stack, Resume(stack))
         ELSE IF entered.val
         THEN Continue(entered.to, Append(stack, frame), "member")
         ELSE Continue(entered.to, stack, Resume(stack))
  BY DEF BeginObject
<1>2. Input /\ reader \in Readers /\ stack \in Seq(Frames) /\ Len(stack) \in Nat /\ reserved' \in Nat
  BY <1>1, InputThere, LenProperties DEF Inv, TypeOK
<1>3. /\ After(reader, header.to) /\ header.to \in Readers
      /\ header.val.count \in 0 .. MAX_MEMBER_COUNT
  BY <1>2, ReadObjectHeaderAfter DEF After, Keeps
<1>4. Resume(stack) \in {"finish", "member"} /\ (Resume(stack) = "member" => stack # <<>>)
      /\ (Resume(stack) = "finish" => stack = <<>>)
  BY DEF Resume
<1>5. frame \in Frames
  <2>1. 0 \in 0 .. Len(Members)
    BY MembersAssumption, LenProperties
  <2> HIDE DEF header
  <2> QED BY <1>3, <2>1 DEF Frames
<1> HIDE DEF frame
<1>6. CASE header.val.isNull \/ header.to.threw
  <2>1. Continue(header.to, stack, Resume(stack))
    BY <1>1, <1>6
  <2> HIDE DEF header
  <2>2. Honest(header.to) /\ header.to.depth = reader.depth /\ (Failed(reader) => Failed(header.to))
    BY <1>3 DEF After, Keeps, Inv, ThrownIsOver, Failed
  <2>3. Inv'
    BY <1>2, <1>3, <1>4, <2>1, <2>2, ContinueInv DEF Inv, DepthCovers
  <2> QED BY <1>3, <2>1, <2>3 DEF Final, After, Keeps, Continue
<1>7. CASE ~ (header.val.isNull \/ header.to.threw)
  <2>1. IF entered.val
        THEN Continue(entered.to, Append(stack, frame), "member")
        ELSE Continue(entered.to, stack, Resume(stack))
    BY <1>1, <1>7
  <2> HIDE DEF header
  <2>2. /\ entered.to \in Readers
        /\ entered.to.depth = header.to.depth + 1
        /\ entered.to.pos = header.to.pos
        /\ Honest(header.to) => Honest(entered.to)
        /\ Failed(header.to) => entered.to.error = header.to.error
        /\ entered.val => entered.to.depth <= MaxDepth /\ entered.to.error = header.to.error
                          /\ entered.to.threw = header.to.threw
        /\ ~ entered.val => Failed(entered.to)
    BY <1>2, <1>3, EnterObjectAfter
  <2> HIDE DEF entered
  <2>3. /\ Honest(entered.to) /\ header.to.depth = reader.depth /\ header.to.depth \in Nat
        /\ (Failed(reader) => Failed(entered.to) /\ entered.to.error = reader.error /\ entered.to.pos = reader.pos)
    BY <1>3, <2>2 DEF After, Keeps, Inv, ThrownIsOver, Failed, Readers
  <2>4. CASE entered.val
    <3>1. Continue(entered.to, Append(stack, frame), "member")
      BY <2>1, <2>4
    <3>2. Append(stack, frame) \in Seq(Frames) /\ Len(Append(stack, frame)) = Len(stack) + 1 /\ Append(stack, frame) # <<>>
      BY <1>2, <1>5, AppendProperties
    <3>3. ~ Failed(entered.to) => ~ Failed(reader)
      BY <2>3
    <3>4. Len(stack) + 1 <= entered.to.depth /\ Len(stack) + 1 <= MaxDepth
          /\ (~ Failed(entered.to) => entered.to.depth = Len(stack) + 1)
      <4>1. Len(stack) <= reader.depth /\ reader.depth \in Nat /\ (~ Failed(reader) => reader.depth = Len(stack))
        BY DEF Inv, DepthCovers, TypeOK, Readers
      <4>2. Len(stack) + 1 <= entered.to.depth /\ (~ Failed(entered.to) => entered.to.depth = Len(stack) + 1)
        BY <1>2, <2>2, <2>3, <3>3, <4>1
      <4>3. entered.to.depth <= MaxDepth /\ entered.to.depth \in Nat
        BY <2>2, <2>4 DEF Readers
      <4> QED BY <1>2, <4>2, <4>3, ReaderAssumption
    <3>5. Inv'
      BY <1>2, <2>2, <2>3, <3>1, <3>2, <3>4, ContinueInv
    <3> QED BY <2>3, <3>1, <3>5 DEF Final, Continue
  <2>5. CASE ~ entered.val
    <3>1. Continue(entered.to, stack, Resume(stack)) /\ Failed(entered.to)
      BY <2>1, <2>2, <2>5
    <3>2. Len(stack) <= MaxDepth /\ Len(stack) <= entered.to.depth
      <4>1. Len(stack) <= reader.depth /\ reader.depth \in Nat
        BY DEF Inv, DepthCovers, TypeOK, Readers
      <4> QED BY <1>2, <2>2, <2>3, <4>1 DEF Inv
    <3>3. Inv'
      BY <1>2, <1>4, <2>2, <2>3, <3>1, <3>2, ContinueInv
    <3> QED BY <2>3, <3>1, <3>3 DEF Final, Continue
  <2> QED BY <2>4, <2>5
<1> QED BY <1>6, <1>7

\* The members of one activation: the reader reads at most, and the activation
\* stays in its type.
LEMMA MemberInv ==
    ASSUME Inv, phase = "member", NEW r, NEW frame \in Frames, NEW next \in {"object", "member"},
           After(reader, r), Continue(r, SetTop(frame), next), reserved' \in Nat
    PROVE  Inv' /\ Final
<1>1. stack \in Seq(Frames) /\ stack # <<>>
  BY DEF Inv, TypeOK, StackFitsPhase
<1>2. SetTop(frame) \in Seq(Frames) /\ Len(SetTop(frame)) = Len(stack) /\ SetTop(frame) # <<>>
  BY <1>1, StackOps
<1>3. /\ r \in Readers /\ r.depth = reader.depth /\ Honest(r)
      /\ (Failed(reader) => Failed(r) /\ r.error = reader.error /\ r.pos = reader.pos)
  BY DEF After, Keeps, Inv, ThrownIsOver, Failed
<1>4. Inv'
  BY <1>2, <1>3, ContinueInv DEF Inv, DepthCovers
<1> QED BY <1>3, <1>4 DEF Final, Continue

\* The activation with one member done.
LEMMA NextIndex ==
    ASSUME TypeOK, stack # <<>>, top.index < Len(Members), NEW n \in Nat
    PROVE  /\ [top EXCEPT !.index = @ + 1] \in Frames
           /\ [top EXCEPT !.index = @ + 1, !.left = n] \in Frames
           /\ [top EXCEPT !.left = n] \in Frames
<1>1. top \in Frames
  BY StackOps DEF TypeOK
<1>2. Len(Members) \in Nat
  BY MembersAssumption, LenProperties
<1>3. top.index + 1 \in 0 .. Len(Members)
  BY <1>1, <1>2 DEF Frames
<1> QED BY <1>1, <1>3 DEF Frames

\* A member is read, or skipped as absent, at the same depth.
LEMMA MembersInv ==
    ASSUME Inv, SkipAbsent \/ ReadScalar \/ BeginList
    PROVE  Inv' /\ Final
<1>1. /\ phase = "member" /\ top.index < Len(Members) /\ stack # <<>>
      /\ Input /\ reader \in Readers /\ reserved \in Nat /\ TypeOK
  BY InputThere DEF SkipAbsent, ReadScalar, BeginList, InMember, Inv, TypeOK, StackFitsPhase
<1>2. [top EXCEPT !.index = @ + 1] \in Frames
  BY <1>1, NextIndex
<1>3. CASE SkipAbsent
  <2>1. Continue(reader, SetTop([top EXCEPT !.index = @ + 1]), "member") /\ reserved' = reserved
    BY <1>3 DEF SkipAbsent
  <2> QED BY <1>1, <1>2, <2>1, AfterReflexive, MemberInv
<1>4. CASE ReadScalar
  <2> DEFINE r == IF Members[top.index + 1] = "int" THEN ReadInt(reader).to ELSE ReadString(reader)
  <2>1. Continue(r, SetTop([top EXCEPT !.index = @ + 1]), "member") /\ reserved' = reserved
    BY <1>4 DEF ReadScalar
  <2>2. After(reader, r)
    BY <1>1, ReadIntAfter, ReadStringAfter
  <2> HIDE DEF r
  <2> QED BY <1>1, <1>2, <2>1, <2>2, MemberInv
<1>5. CASE BeginList
  <2> DEFINE len == ReadCollectionLength(reader, 1)
             n   == IF len.val > 0 THEN len.val ELSE 0
  <2>1. /\ Continue(len.to, SetTop([top EXCEPT !.index = @ + 1, !.left = n]), "member")
        /\ reserved' = reserved + n
    BY <1>5 DEF BeginList
  <2>2. After(reader, len.to) /\ len.val \in Int
    BY <1>1, ReadCollectionLengthAfter
  <2> HIDE DEF len
  <2>3. n \in Nat
    BY <2>2
  <2> HIDE DEF n
  <2>4. [top EXCEPT !.index = @ + 1, !.left = n] \in Frames
    BY <1>1, <2>3, NextIndex
  <2>5. reserved' \in Nat
    BY <1>1, <2>1, <2>3
  <2> QED BY <1>1, <2>1, <2>2, <2>4, <2>5, MemberInv
<1> QED BY <1>3, <1>4, <1>5

\* The loop over a list enters its next element or ends.
LEMMA NextElementInv ==
    ASSUME Inv, NextElement
    PROVE  Inv' /\ Final
<1>1. /\ phase = "member" /\ top.left > 0 /\ stack # <<>> /\ stack \in Seq(Frames)
      /\ reader \in Readers /\ reserved' \in Nat
      /\ IF Failed(reader)
         THEN Continue(reader, SetTop([top EXCEPT !.left = 0]), "member")
         ELSE Continue(reader, SetTop([top EXCEPT !.left = @ - 1]), "object")
  BY DEF NextElement, Inv, TypeOK, StackFitsPhase
<1>2. top \in Frames
  BY <1>1, StackOps
<1>3. top.left - 1 \in Nat
  BY <1>1, <1>2 DEF Frames
<1>4. [top EXCEPT !.left = 0] \in Frames
  BY <1>2 DEF Frames
<1>5. [top EXCEPT !.left = @ - 1] \in Frames
  BY <1>2, <1>3 DEF Frames
<1>6. After(reader, reader)
  BY <1>1, AfterReflexive
<1> QED BY <1>1, <1>4, <1>5, <1>6, MemberInv

\* An object is left, and with it its level of depth.
LEMMA EndObjectInv ==
    ASSUME Inv, EndObject
    PROVE  Inv' /\ Final
<1>1. /\ phase = "member" /\ stack # <<>> /\ stack \in Seq(Frames)
      /\ reader \in Readers /\ reserved' \in Nat
      /\ Continue(LeaveObject(reader), Pop, Resume(Pop))
  BY DEF EndObject, Inv, TypeOK, StackFitsPhase
<1>2. Pop \in Seq(Frames) /\ Len(Pop) = Len(stack) - 1 /\ Len(stack) \in Nat \ {0}
  BY <1>1, StackOps
<1> DEFINE r == LeaveObject(reader)
<1>3. /\ r \in Readers
      /\ r.depth = IF reader.depth > 0 THEN reader.depth - 1 ELSE reader.depth
      /\ r.pos = reader.pos /\ r.error = reader.error /\ r.threw = reader.threw
  BY <1>1, LeaveObjectAfter
<1> HIDE DEF r
<1>4. Resume(Pop) \in {"finish", "member"} /\ (Resume(Pop) = "member" => Pop # <<>>)
      /\ (Resume(Pop) = "finish" => Pop = <<>>)
  BY DEF Resume
<1>5. Honest(r) /\ Failed(r) = Failed(reader)
  BY <1>3 DEF Inv, ThrownIsOver, Honest, Failed
<1>6. Len(Pop) <= MaxDepth /\ Len(Pop) <= r.depth /\ (~ Failed(r) => r.depth = Len(Pop))
  <2>1. Len(stack) <= reader.depth /\ reader.depth \in Nat /\ Len(stack) <= MaxDepth
        /\ (~ Failed(reader) => reader.depth = Len(stack))
    BY DEF Inv, DepthCovers, TypeOK, Readers
  <2>2. r.depth = reader.depth - 1
    BY <1>2, <1>3, <2>1
  <2> QED BY <1>2, <1>5, <2>1, <2>2, ReaderAssumption
<1>7. Inv'
  BY <1>1, <1>2, <1>3, <1>4, <1>5, <1>6, ContinueInv DEF r
<1> QED BY <1>1, <1>3, <1>7 DEF Final, Continue, r

\* The end of the first decode begins the second with a new reader.
LEMMA FinishInv == Inv /\ Finish => Inv'
<1> SUFFICES ASSUME Inv, Finish PROVE Inv'
  OBVIOUS
<1> DEFINE r == IF exact /\ ~ reader.threw THEN RequireEnd(reader) ELSE reader
<1>1. /\ phase = "finish" /\ throws' = FALSE /\ reader' = NewReader /\ reserved' = 0
      /\ outcomes' = Append(outcomes, [error |-> r.error, pos |-> r.pos])
      /\ phase' = IF throws THEN "object" ELSE "done"
      /\ UNCHANGED <<data_, stack, exact>>
  BY DEF Finish
<1>2. Input /\ reader \in Readers
  BY InputThere DEF Inv, TypeOK
<1>3. r \in Readers
  BY <1>2, RequireEndAfter DEF After, Keeps
<1> HIDE DEF r
<1>4. [error |-> r.error, pos |-> r.pos] \in [error : Errors, pos : 0 .. Len(data_)]
  BY <1>3 DEF Readers
<1>5. outcomes' \in Seq([error : Errors, pos : 0 .. Len(data_')])
  BY <1>1, <1>4, AppendProperties DEF Inv, TypeOK
<1>6. NewReader \in Readers /\ ~ Failed(NewReader) /\ ~ NewReader.threw /\ NewReader.depth = 0
  BY <1>2, NewReaderType
<1>r. Readers' = Readers
  BY <1>1 DEF Readers
<1>7. TypeOK'
  BY <1>1, <1>5, <1>6, <1>r DEF Inv, TypeOK
<1>8. stack = <<>> /\ Len(stack') = 0
  BY <1>1 DEF Inv, StackFitsPhase
<1>9. Failed(reader)' = FALSE /\ ~ reader'.threw /\ reader'.depth = 0
  BY <1>1, <1>6 DEF Failed
<1> QED BY <1>1, <1>7, <1>8, <1>9, ReaderAssumption DEF Inv, StackFitsPhase, DepthCovers, ThrownIsOver, Honest

-----------------------------------------------------------------------------
\* Every step preserves the invariant, and one of the decoder leaves a recorded
\* error alone.
LEMMA StepInv ==
    ASSUME Inv, [Next]_vars
    PROVE  Inv' /\ (phase # "finish" => Final)
<1>1. CASE UNCHANGED vars
  <2>1. /\ UNCHANGED <<data_, throws, reader, stack, phase, exact, reserved, outcomes>>
    BY <1>1 DEF vars
  <2>2. Readers' = Readers
    BY <2>1 DEF Readers
  <2>3. TypeOK'
    BY <2>1, <2>2 DEF Inv, TypeOK
  <2> QED BY <2>1, <2>3 DEF Inv, StackFitsPhase, DepthCovers, ThrownIsOver, Honest, Failed, Final
<1>2. CASE Finish
  BY <1>2, FinishInv DEF Finish
<1> QED BY <1>1, <1>2, BeginObjectInv, MembersInv, NextElementInv, EndObjectInv DEF Next

\* The invariant holds in every reachable state, for every input.
THEOREM Invariance == Spec => []Inv
<1>1. Inv /\ [Next]_vars => Inv'
  BY StepInv
<1> QED BY <1>1, InitInv, PTL DEF Spec

-----------------------------------------------------------------------------
(***************************************************************************)
(* What the vectors reserve.  The elements reserved are those begun, each  *)
(* of which has read a header byte of its own, and those the open lists    *)
(* still wait for; on every level the open list waits for fewer elements   *)
(* than there are bytes behind the first length.                           *)
(***************************************************************************)
\* The bytes behind the root's header and the first length.
Behind == IF Len(data_) - 1 - IntSize > 0 THEN Len(data_) - 1 - IntSize ELSE 0

\* c[i] is what the i outermost activations of s still wait for.
Waiting(s, c) ==
    /\ c \in [0 .. Len(s) -> Nat]
    /\ c[0] = 0
    /\ \A i \in 1 .. Len(s) : c[i] = c[i - 1] + s[i].left
    /\ \A i \in 0 .. Len(s) : c[i] <= i * Behind

\* The activations s wait for t elements together.
Outstanding(s, t) == \E c : Waiting(s, c) /\ t = c[Len(s)]

\* With the reader at r, the activations fs and the phase next, the bytes read
\* and the t elements outstanding pay for the n reserved.  An element whose
\* Deserialize has been called and has read nothing is one more.
Paid(r, fs, next, n, t) ==
    /\ fs # <<>> => r.pos >= 1
    /\ n = 0 => t = 0
    /\ n > 0 => /\ r.pos >= 1 + IntSize
                /\ n + 1 + IntSize <= r.pos + t + (IF next = "object" /\ fs # <<>> THEN 1 ELSE 0)

Affordable ==
    ~ Failed(reader) /\ phase \in {"object", "member"} =>
        \E t : Outstanding(stack, t) /\ Paid(reader, stack, phase, reserved, t)

\* No activation waits for nothing.
LEMMA NoneOutstanding == ASSUME Behind \in Nat PROVE Outstanding(<<>>, 0)
<1> DEFINE c == [i \in 0 .. 0 |-> 0]
<1>1. c[0] = 0 /\ Len(<<>>) = 0
  OBVIOUS
<1>2. Waiting(<<>>, c)
  BY <1>1 DEF Waiting
<1> QED BY <1>1, <1>2 DEF Outstanding

\* What is outstanding is a number, and the innermost list has a part in it.
LEMMA OutstandingType ==
    ASSUME NEW s \in Seq(Frames), NEW t, Outstanding(s, t), Behind \in Nat
    PROVE  /\ t \in Nat
           /\ s # <<>> => /\ s[Len(s)].left <= t
                          /\ t - s[Len(s)].left <= (Len(s) - 1) * Behind
<1>1. PICK c : Waiting(s, c) /\ t = c[Len(s)]
  BY DEF Outstanding
<1>2. Len(s) \in Nat
  BY LenProperties
<1>3. t \in Nat
  BY <1>1, <1>2 DEF Waiting
<1>4. ASSUME s # <<>>
      PROVE  s[Len(s)].left <= t /\ t - s[Len(s)].left <= (Len(s) - 1) * Behind
  <2>1. Len(s) \in 1 .. Len(s) /\ Len(s) - 1 \in 0 .. Len(s)
    BY <1>2, <1>4, EmptySeq
  <2>2. s[Len(s)].left \in Nat
    <3>1. s[Len(s)] \in Frames
      BY <2>1, ElementOfSeq
    <3> QED BY <3>1 DEF Frames
  <2>3. /\ c[Len(s)] = c[Len(s) - 1] + s[Len(s)].left
        /\ c[Len(s) - 1] \in Nat
        /\ c[Len(s) - 1] <= (Len(s) - 1) * Behind
    BY <1>1, <2>1 DEF Waiting
  <2>4. t - s[Len(s)].left = c[Len(s) - 1]
    BY <1>1, <1>3, <2>2, <2>3
  <2> QED BY <1>3, <2>2, <2>3, <2>4
<1> QED BY <1>3, <1>4

\* A new activation waits for nothing yet.
LEMMA OutstandingPush ==
    ASSUME NEW s \in Seq(Frames), NEW t, Outstanding(s, t), Behind \in Nat,
           NEW frame \in Frames, frame.left = 0
    PROVE  Outstanding(Append(s, frame), t)
<1>1. PICK c : Waiting(s, c) /\ t = c[Len(s)]
  BY DEF Outstanding
<1> DEFINE n == Len(s)
           u == Append(s, frame)
           d == [i \in 0 .. n + 1 |-> IF i = n + 1 THEN t ELSE c[i]]
<1>2. n \in Nat /\ Len(u) = n + 1 /\ u[n + 1] = frame /\ \A i \in 1 .. n : u[i] = s[i]
  BY AppendProperties, LenProperties
<1>3. /\ c \in [0 .. n -> Nat] /\ c[0] = 0 /\ t = c[n]
      /\ \A i \in 1 .. n : c[i] = c[i - 1] + s[i].left
      /\ \A i \in 0 .. n : c[i] <= i * Behind
  BY <1>1 DEF Waiting
<1> HIDE DEF n, u
<1>4. t \in Nat /\ t <= n * Behind
  BY <1>2, <1>3
<1>5. t <= (n + 1) * Behind
  BY <1>2, <1>4
<1>6. d \in [0 .. n + 1 -> Nat] /\ d[0] = 0 /\ d[n + 1] = t
  BY <1>2, <1>3, <1>4
<1>7. \A i \in 0 .. n + 1 : d[i] <= i * Behind
  <2>1. ASSUME NEW i \in 0 .. n PROVE d[i] <= i * Behind
    BY <1>2, <1>3
  <2>2. d[n + 1] <= (n + 1) * Behind
    BY <1>5, <1>6
  <2>3. 0 .. n + 1 = (0 .. n) \cup {n + 1}
    BY <1>2
  <2> HIDE DEF d
  <2> QED BY <2>1, <2>2, <2>3
<1>8. \A i \in 1 .. n + 1 : d[i] = d[i - 1] + u[i].left
  <2>1. ASSUME NEW i \in 1 .. n PROVE d[i] = d[i - 1] + u[i].left
    <3>1. d[i] = c[i] /\ d[i - 1] = c[i - 1] /\ u[i] = s[i]
      BY <1>2
    <3> HIDE DEF d
    <3> QED BY <1>3, <3>1
  <2>2. d[n] = c[n]
    BY <1>2
  <2> HIDE DEF d
  <2>3. ASSUME NEW i \in 1 .. n + 1 PROVE d[i] = d[i - 1] + u[i].left
    <3>1. CASE i = n + 1
      <4>1. i - 1 = n /\ d[i] = t /\ u[i].left = 0
        BY <1>2, <1>6, <3>1
      <4>2. d[i - 1] = t
        BY <1>3, <2>2, <4>1
      <4> QED BY <1>4, <4>1, <4>2
    <3>2. CASE i # n + 1
      <4>1. i \in 1 .. n
        BY <1>2, <3>2
      <4> QED BY <2>1, <4>1
    <3> QED BY <3>1, <3>2
  <2> QED BY <2>3
<1> HIDE DEF d
<1>9. Waiting(u, d) /\ t = d[Len(u)]
  BY <1>2, <1>6, <1>7, <1>8 DEF Waiting
<1> QED BY <1>9 DEF Outstanding, u

\* An activation that is done waits for nothing any more.
LEMMA OutstandingPop ==
    ASSUME NEW s \in Seq(Frames), s # <<>>, NEW t, Outstanding(s, t), Behind \in Nat,
           s[Len(s)].left = 0
    PROVE  Outstanding(SubSeq(s, 1, Len(s) - 1), t)
<1>1. PICK c : Waiting(s, c) /\ t = c[Len(s)]
  BY DEF Outstanding
<1> DEFINE n == Len(s) - 1
           u == SubSeq(s, 1, n)
           d == [i \in 0 .. n |-> c[i]]
<1>2. n \in Nat /\ Len(s) = n + 1
  BY LenProperties, EmptySeq
<1>3. /\ c \in [0 .. n + 1 -> Nat] /\ c[0] = 0 /\ t = c[n + 1]
      /\ \A i \in 1 .. n + 1 : c[i] = c[i - 1] + s[i].left
      /\ \A i \in 0 .. n + 1 : c[i] <= i * Behind
  BY <1>1, <1>2 DEF Waiting
<1>4. s[n + 1].left = 0
  BY <1>2
<1> HIDE DEF n
<1>5. Len(u) = n /\ \A i \in 1 .. n : u[i] = s[i]
  BY <1>2
<1> HIDE DEF u
<1>6. t = d[n]
  <2>1. c[n + 1] = c[n + 1 - 1] + s[n + 1].left
    BY <1>2, <1>3
  <2>2. c[n] \in Nat /\ n + 1 - 1 = n
    BY <1>2, <1>3
  <2> QED BY <1>2, <1>3, <1>4, <2>1, <2>2
<1>7. d \in [0 .. n -> Nat] /\ d[0] = 0 /\ \A i \in 0 .. n : d[i] <= i * Behind
  BY <1>2, <1>3
<1>8. ASSUME NEW i \in 1 .. n PROVE d[i] = d[i - 1] + u[i].left
  <2>1. d[i] = c[i] /\ d[i - 1] = c[i - 1] /\ u[i] = s[i] /\ i \in 1 .. n + 1
    BY <1>2, <1>5
  <2> HIDE DEF d
  <2> QED BY <1>3, <2>1
<1> HIDE DEF d
<1>9. Waiting(u, d)
  BY <1>5, <1>7, <1>8 DEF Waiting
<1> QED BY <1>5, <1>6, <1>9 DEF Outstanding, u, n

\* The innermost list waits for another number of elements.
LEMMA OutstandingTop ==
    ASSUME NEW s \in Seq(Frames), s # <<>>, NEW t, Outstanding(s, t), Behind \in Nat,
           NEW frame \in Frames, frame.left <= s[Len(s)].left \/ frame.left <= Behind
    PROVE  Outstanding([s EXCEPT ![Len(s)] = frame], t - s[Len(s)].left + frame.left)
<1>1. PICK c : Waiting(s, c) /\ t = c[Len(s)]
  BY DEF Outstanding
<1> DEFINE n == Len(s)
           u == [s EXCEPT ![n] = frame]
           e == c[n - 1] + frame.left
           d == [i \in 0 .. n |-> IF i = n THEN e ELSE c[i]]
<1>2. n \in Nat /\ n >= 1 /\ Len(u) = n /\ u[n] = frame /\ \A i \in 1 .. n - 1 : u[i] = s[i]
  BY LenProperties, EmptySeq, ExceptSeq
<1>3. /\ c \in [0 .. n -> Nat] /\ c[0] = 0 /\ t = c[n]
      /\ \A i \in 1 .. n : c[i] = c[i - 1] + s[i].left
      /\ \A i \in 0 .. n : c[i] <= i * Behind
  BY <1>1 DEF Waiting
<1>4. s[n].left \in Nat /\ frame.left \in Nat
  <2>1. Len(s) \in 1 .. Len(s)
    BY LenProperties, EmptySeq
  <2>2. s[n] \in Frames
    BY <2>1, ElementOfSeq
  <2> HIDE DEF n
  <2> QED BY <2>2 DEF Frames
<1>5. frame.left <= s[n].left \/ frame.left <= Behind
  OBVIOUS
<1> HIDE DEF n, u
<1>6. c[n - 1] \in Nat /\ c[n] = c[n - 1] + s[n].left /\ c[n - 1] <= (n - 1) * Behind /\ c[n] <= n * Behind
  BY <1>2, <1>3
<1>7. e \in Nat /\ e = t - s[n].left + frame.left
  <2>1. \A x, y, z \in Nat : x + z \in Nat /\ x + z = x + y - y + z
    OBVIOUS
  <2>2. PICK x : x = c[n - 1]
    OBVIOUS
  <2>3. PICK y : y = s[n].left
    OBVIOUS
  <2>4. PICK z : z = frame.left
    OBVIOUS
  <2>5. x \in Nat /\ y \in Nat /\ z \in Nat /\ t = x + y
    BY <1>3, <1>4, <1>6, <2>2, <2>3, <2>4
  <2>6. x + z \in Nat /\ x + z = t - y + z
    BY <2>1, <2>5
  <2> QED BY <2>2, <2>3, <2>4, <2>6
<1>8. e <= n * Behind
  <2>1. n * Behind = (n - 1) * Behind + Behind
    BY <1>2
  <2>2. n * Behind \in Int /\ (n - 1) * Behind \in Int
    BY <1>2
  <2> QED BY <1>4, <1>5, <1>6, <2>1, <2>2, SMTT(30)
<1> HIDE DEF e
<1>9. d \in [0 .. n -> Nat] /\ d[0] = 0 /\ d[n] = e
  BY <1>2, <1>3, <1>7, SMTT(30)
<1>10. \A i \in 0 .. n : d[i] <= i * Behind
  <2>1. ASSUME NEW i \in 0 .. n - 1 PROVE d[i] <= i * Behind
    BY <1>2, <1>3
  <2>2. d[n] <= n * Behind
    BY <1>8, <1>9
  <2>3. 0 .. n = (0 .. n - 1) \cup {n}
    BY <1>2
  <2> HIDE DEF d
  <2> QED BY <2>1, <2>2, <2>3
<1>11. \A i \in 1 .. n : d[i] = d[i - 1] + u[i].left
  <2>1. ASSUME NEW i \in 1 .. n - 1 PROVE d[i] = d[i - 1] + u[i].left
    <3>1. d[i] = c[i] /\ d[i - 1] = c[i - 1] /\ u[i] = s[i] /\ i \in 1 .. n
      BY <1>2
    <3> HIDE DEF d
    <3> QED BY <1>3, <3>1
  <2>2. d[n - 1] = c[n - 1]
    BY <1>2
  <2>3. d[n] = d[n - 1] + u[n].left
    BY <1>2, <1>9, <2>2 DEF e
  <2>4. 1 .. n = (1 .. n - 1) \cup {n}
    BY <1>2
  <2> HIDE DEF d
  <2> QED BY <2>1, <2>3, <2>4
<1> HIDE DEF d
<1>12. Waiting(u, d) /\ e = d[Len(u)]
  BY <1>2, <1>9, <1>10, <1>11 DEF Waiting
<1> QED BY <1>7, <1>12 DEF Outstanding, u, n

\* The numbers that the argument compares.
LEMMA Numbers ==
    ASSUME TypeOK
    PROVE  /\ Behind \in Nat /\ Len(data_) \in Nat /\ IntSize \in Nat
           /\ reader.pos \in Nat /\ reserved \in Nat /\ stack \in Seq(Frames)
<1>1. Len(data_) \in Nat /\ IntSize \in Nat
  BY ReaderAssumption, LenProperties DEF TypeOK
<1>2. Behind \in Nat
  BY <1>1 DEF Behind
<1> QED BY <1>1, <1>2 DEF TypeOK, Readers

\* What the step of the decoder to r, frames and next owes.
LEMMA ContinueAffordable ==
    ASSUME NEW r, NEW frames, NEW next, Continue(r, frames, next), Honest(r),
           ~ Failed(r) /\ next \in {"object", "member"} =>
               \E t : Outstanding(frames, t) /\ Paid(r, frames, next, reserved', t)
    PROVE  Affordable'
<1>1. reader' = r /\ data_' = data_
  BY DEF Continue
<1>2. ASSUME ~ Failed(r) PROVE stack' = frames /\ phase' = next
  BY <1>2 DEF Continue, Honest
<1>3. Behind' = Behind
  BY <1>1 DEF Behind
<1>4. ASSUME NEW t, Outstanding(frames, t), Paid(r, frames, next, reserved', t), ~ Failed(r)
      PROVE  Outstanding(stack, t)' /\ Paid(reader, stack, phase, reserved, t)'
  BY <1>1, <1>2, <1>3, <1>4 DEF Outstanding, Waiting, Paid
<1>5. Failed(reader)' = Failed(r)
  BY <1>1 DEF Failed
<1>6. CASE ~ Failed(r) /\ next \in {"object", "member"}
  <2>1. PICK t : Outstanding(frames, t) /\ Paid(r, frames, next, reserved', t)
    BY <1>6
  <2>2. Outstanding(stack, t)' /\ Paid(reader, stack, phase, reserved, t)'
    BY <1>4, <1>6, <2>1
  <2> QED BY <2>2 DEF Affordable
<1>7. CASE ~ (~ Failed(r) /\ next \in {"object", "member"})
  BY <1>2, <1>5, <1>7 DEF Affordable
<1> QED BY <1>6, <1>7

\* At first nothing is reserved.
LEMMA InitAffordable == Init => Affordable /\ ReservedBounded
<1> SUFFICES ASSUME Init PROVE Affordable /\ ReservedBounded
  OBVIOUS
<1>1. Behind \in Nat
  BY InitInv, Numbers DEF Inv
<1>2. Outstanding(stack, 0)
  BY <1>1, NoneOutstanding DEF Init
<1>3. Paid(reader, stack, phase, reserved, 0)
  BY DEF Init, Paid
<1>4. reserved = 0
  BY DEF Init
<1> QED BY <1>2, <1>3, <1>4 DEF Affordable, ReservedBounded

\* The header of an element pays for it.
LEMMA BeginObjectAffordable ==
    ASSUME Inv, Affordable, BeginObject
    PROVE  Affordable'
<1> DEFINE header  == ReadObjectHeader(reader)
           entered == EnterObject(header.to)
           frame   == [count |-> header.val.count, index |-> 0, left |-> 0]
<1>1. /\ phase = "object" /\ reserved' = reserved
      /\ IF header.val.isNull \/ header.to.threw
         THEN Continue(header.to, stack, Resume(stack))
         ELSE IF entered.val
         THEN Continue(entered.to, Append(stack, frame), "member")
         ELSE Continue(entered.to, stack, Resume(stack))
  BY DEF BeginObject
<1>2. /\ Behind \in Nat /\ Len(data_) \in Nat /\ IntSize \in Nat
      /\ reader.pos \in Nat /\ reserved \in Nat /\ stack \in Seq(Frames)
      /\ reader \in Readers /\ Input
  BY Numbers, InputThere DEF Inv, TypeOK
<1>3. /\ After(reader, header.to) /\ header.to \in Readers
      /\ header.val.count \in 0 .. MAX_MEMBER_COUNT
      /\ ~ Failed(header.to) => header.to.pos = reader.pos + 1
  BY <1>2, ReadObjectHeaderAfter DEF After, Keeps
<1>4. frame \in Frames /\ frame.left = 0
  <2>1. 0 \in 0 .. Len(Members)
    BY MembersAssumption, LenProperties
  <2> HIDE DEF header
  <2> QED BY <1>3, <2>1 DEF Frames
<1> HIDE DEF frame
<1>5. Honest(header.to) /\ (Failed(reader) => Failed(header.to))
  BY <1>3 DEF After, Keeps, Inv, ThrownIsOver, Failed
<1>6. ASSUME NEW r, ~ Failed(r), ~ Failed(header.to), r.pos = header.to.pos,
             NEW fs \in {stack, Append(stack, frame)}, NEW t \in Nat,
             Paid(reader, stack, phase, reserved, t)
      PROVE  Paid(r, fs, "member", reserved', t)
  <2> HIDE DEF header, entered
  <2>1. r.pos = reader.pos + 1
    BY <1>3, <1>6
  <2> QED BY <1>1, <1>2, <1>6, <2>1 DEF Paid
<1>7. CASE header.val.isNull \/ header.to.threw
  <2>1. Continue(header.to, stack, Resume(stack))
    BY <1>1, <1>7
  <2> HIDE DEF header, entered
  <2>2. ASSUME ~ Failed(header.to), Resume(stack) \in {"object", "member"}
        PROVE  \E t : Outstanding(stack, t) /\ Paid(header.to, stack, Resume(stack), reserved', t)
    <3>1. PICK t : Outstanding(stack, t) /\ Paid(reader, stack, phase, reserved, t)
      BY <1>1, <1>5, <2>2 DEF Affordable
    <3>2. t \in Nat
      BY <1>2, <3>1, OutstandingType
    <3>3. Resume(stack) = "member"
      BY <2>2 DEF Resume
    <3>4. Paid(header.to, stack, "member", reserved', t)
      BY <1>6, <2>2, <3>1, <3>2
    <3> QED BY <3>1, <3>3, <3>4
  <2> QED BY <1>5, <2>1, <2>2, ContinueAffordable
<1>8. CASE ~ (header.val.isNull \/ header.to.threw)
  <2>1. IF entered.val
        THEN Continue(entered.to, Append(stack, frame), "member")
        ELSE Continue(entered.to, stack, Resume(stack))
    BY <1>1, <1>8
  <2> HIDE DEF header
  <2>2. /\ entered.to.pos = header.to.pos /\ Honest(entered.to)
        /\ Failed(header.to) => Failed(entered.to)
        /\ ~ entered.val => Failed(entered.to)
    BY <1>2, <1>3, <1>5, EnterObjectAfter DEF Failed
  <2> HIDE DEF entered
  <2>3. CASE entered.val
    <3>1. Continue(entered.to, Append(stack, frame), "member")
      BY <2>1, <2>3
    <3>2. ASSUME ~ Failed(entered.to)
          PROVE  \E t : Outstanding(Append(stack, frame), t)
                        /\ Paid(entered.to, Append(stack, frame), "member", reserved', t)
      <4>1. PICK t : Outstanding(stack, t) /\ Paid(reader, stack, phase, reserved, t)
        BY <1>1, <1>5, <2>2, <3>2 DEF Affordable
      <4>2. t \in Nat
        BY <1>2, <4>1, OutstandingType
      <4>3. Outstanding(Append(stack, frame), t)
        BY <1>2, <1>4, <4>1, OutstandingPush
      <4>4. Paid(entered.to, Append(stack, frame), "member", reserved', t)
        BY <1>6, <2>2, <3>2, <4>1, <4>2
      <4> QED BY <4>3, <4>4
    <3> QED BY <2>2, <3>1, <3>2, ContinueAffordable
  <2>4. CASE ~ entered.val
    <3>1. Continue(entered.to, stack, Resume(stack))
      BY <2>1, <2>4
    <3> QED BY <2>2, <2>4, <3>1, ContinueAffordable
  <2> QED BY <2>3, <2>4
<1> QED BY <1>7, <1>8

\* A member's step that leaves the list of the activation waiting for as many
\* elements as before, or for n more that fit behind the read position.
LEMMA TopAffordable ==
    ASSUME Inv, Affordable, phase = "member", NEW r, After(reader, r),
           NEW frame \in Frames, NEW n \in Nat,
           frame.left = top.left + n, n > 0 => top.left = 0,
           n > 0 /\ ~ Failed(r) => r.pos = reader.pos + IntSize /\ n <= Len(data_) - r.pos,
           reserved' = reserved + n, Continue(r, SetTop(frame), "member")
    PROVE  Affordable'
<1>1. /\ Behind \in Nat /\ Len(data_) \in Nat /\ IntSize \in Nat
      /\ reader.pos \in Nat /\ reserved \in Nat /\ stack \in Seq(Frames) /\ stack # <<>>
  BY Numbers DEF Inv, TypeOK, StackFitsPhase
<1>2. /\ r \in Readers /\ r.pos \in Nat /\ Honest(r) /\ reader.pos <= r.pos
      /\ Failed(reader) => Failed(r)
  BY DEF After, Keeps, Readers, Inv, ThrownIsOver, Failed
<1>3. ASSUME ~ Failed(r)
      PROVE  \E t : Outstanding(SetTop(frame), t) /\ Paid(r, SetTop(frame), "member", reserved', t)
  <2>1. PICK t : Outstanding(stack, t) /\ Paid(reader, stack, phase, reserved, t)
    BY <1>2, <1>3 DEF Affordable
  <2>2. t \in Nat /\ top.left \in Nat
    BY <1>1, <2>1, OutstandingType, StackOps DEF Frames
  <2>3. Paid(r, SetTop(frame), "member", reserved', t + n)
    <3>1. reader.pos >= 1 /\ r.pos >= 1
      BY <1>1, <1>2, <2>1 DEF Paid
    <3>2. CASE n = 0
      <4>1. reserved' = reserved /\ t + n = t
        BY <1>1, <2>2, <3>2
      <4>2. /\ reserved = 0 => t = 0
            /\ reserved > 0 => reader.pos >= 1 + IntSize /\ reserved + 1 + IntSize <= reader.pos + t
        BY <1>1, <2>1, <2>2 DEF Paid
      <4>3. reserved > 0 => r.pos >= 1 + IntSize /\ reserved + 1 + IntSize <= r.pos + t + 0
        BY <1>1, <1>2, <2>2, <4>2, SMTT(30)
      <4>4. Paid(r, SetTop(frame), "member", reserved, t)
        BY <1>1, <1>2, <2>2, <3>1, <4>2, <4>3 DEF Paid
      <4> QED BY <4>1, <4>4, Zenon
    <3>3. CASE n > 0
      <4>1. r.pos = reader.pos + IntSize
        BY <1>3, <3>3
      <4>2. /\ reserved = 0 => t = 0
            /\ reserved > 0 => reserved + 1 + IntSize <= reader.pos + t
        BY <1>1, <2>1, <2>2 DEF Paid
      <4>3. r.pos >= 1 + IntSize /\ reserved' > 0
        BY <1>1, <3>1, <3>3, <4>1
      <4>4. reserved' + 1 + IntSize <= r.pos + (t + n) + 0
        BY <1>1, <1>2, <2>2, <3>1, <4>1, <4>2
      <4> QED BY <3>1, <4>3, <4>4 DEF Paid
    <3> QED BY <3>2, <3>3
  <2>4. frame.left <= top.left \/ frame.left <= Behind
    <3>1. CASE n = 0
      BY <2>2, <3>1
    <3>2. CASE n > 0
      <4>1. reader.pos >= 1
        BY <1>1, <2>1 DEF Paid
      <4> QED BY <1>1, <1>2, <1>3, <2>2, <3>2, <4>1 DEF Behind
    <3> QED BY <3>1, <3>2
  <2>5. Outstanding(SetTop(frame), t - top.left + frame.left)
    BY <1>1, <2>1, <2>4, OutstandingTop DEF SetTop, top
  <2>6. t - top.left + frame.left = t + n
    BY <2>2
  <2> QED BY <2>3, <2>5, <2>6
<1> QED BY <1>2, <1>3, ContinueAffordable

\* Members read or skipped, and a list begun.
LEMMA MembersAffordable ==
    ASSUME Inv, Affordable, SkipAbsent \/ ReadScalar \/ BeginList
    PROVE  Affordable'
<1>1. /\ phase = "member" /\ top.index < Len(Members) /\ top.left = 0 /\ stack # <<>>
      /\ Input /\ reader \in Readers /\ reserved \in Nat /\ TypeOK /\ top \in Frames
  BY InputThere, StackOps DEF SkipAbsent, ReadScalar, BeginList, InMember, Inv, TypeOK, StackFitsPhase
<1> DEFINE frame == [top EXCEPT !.index = @ + 1]
<1>2. frame \in Frames
  BY <1>1, NextIndex
<1>3. frame.left = top.left + 0
  BY <1>1 DEF Frames
<1>4. CASE SkipAbsent
  <2>1. Continue(reader, SetTop(frame), "member") /\ reserved' = reserved + 0
    BY <1>1, <1>4 DEF SkipAbsent
  <2> HIDE DEF frame
  <2> QED BY <1>1, <1>2, <1>3, <2>1, AfterReflexive, TopAffordable
<1>5. CASE ReadScalar
  <2> DEFINE r == IF Members[top.index + 1] = "int" THEN ReadInt(reader).to ELSE ReadString(reader)
  <2>1. Continue(r, SetTop(frame), "member") /\ reserved' = reserved + 0
    BY <1>1, <1>5 DEF ReadScalar
  <2>2. After(reader, r)
    BY <1>1, ReadIntAfter, ReadStringAfter
  <2> HIDE DEF r, frame
  <2> QED BY <1>1, <1>2, <1>3, <2>1, <2>2, TopAffordable
<1>6. CASE BeginList
  <2> DEFINE len  == ReadCollectionLength(reader, 1)
             n    == IF len.val > 0 THEN len.val ELSE 0
             list == [top EXCEPT !.index = @ + 1, !.left = n]
  <2>1. Continue(len.to, SetTop(list), "member") /\ reserved' = reserved + n
    BY <1>6 DEF BeginList
  <2>2. /\ After(reader, len.to) /\ len.val \in Int
        /\ len.val > 0 => len.val <= Len(data_) - len.to.pos
        /\ ~ Failed(len.to) => len.to.pos = reader.pos + IntSize
    BY <1>1, ReadCollectionLengthAfter DEF Remaining
  <2> HIDE DEF len
  <2>3. n \in Nat /\ (n > 0 => n <= Len(data_) - len.to.pos)
    BY <2>2
  <2> HIDE DEF n
  <2>4. list \in Frames
    BY <1>1, <2>3, NextIndex
  <2>5. list.left = top.left + n
    BY <1>1, <2>3 DEF Frames
  <2> HIDE DEF list
  <2> QED BY <1>1, <2>1, <2>2, <2>3, <2>4, <2>5, TopAffordable
<1> QED BY <1>4, <1>5, <1>6

\* An element is called: it is no longer outstanding.
LEMMA NextElementAffordable ==
    ASSUME Inv, Affordable, NextElement
    PROVE  Affordable'
<1>1. /\ phase = "member" /\ top.left > 0 /\ stack # <<>> /\ reserved' = reserved
      /\ IF Failed(reader)
         THEN Continue(reader, SetTop([top EXCEPT !.left = 0]), "member")
         ELSE Continue(reader, SetTop([top EXCEPT !.left = @ - 1]), "object")
  BY DEF NextElement, Inv, StackFitsPhase
<1>2. /\ Behind \in Nat /\ IntSize \in Nat /\ reader.pos \in Nat /\ reserved \in Nat
      /\ stack \in Seq(Frames) /\ Honest(reader)
  BY Numbers DEF Inv, ThrownIsOver
<1>3. CASE Failed(reader)
  BY <1>1, <1>2, <1>3, ContinueAffordable
<1>4. CASE ~ Failed(reader)
  <2> DEFINE frame == [top EXCEPT !.left = @ - 1]
  <2>1. Continue(reader, SetTop(frame), "object")
    BY <1>1, <1>4
  <2>2. top \in Frames /\ SetTop(frame) # <<>>
    <3>1. top \in Frames /\ Len(stack) \in Nat \ {0}
      BY <1>1, <1>2, StackOps
    <3>2. Len(SetTop(frame)) = Len(stack)
      BY <1>2 DEF SetTop
    <3> QED BY <3>1, <3>2
  <2>3. frame.left = top.left - 1 /\ top.left \in Nat /\ top.left - 1 \in Nat
    BY <1>1, <2>2 DEF Frames
  <2>4. frame \in Frames
    BY <2>2, <2>3 DEF Frames
  <2> HIDE DEF frame
  <2>5. PICK t : Outstanding(stack, t) /\ Paid(reader, stack, phase, reserved, t)
    BY <1>1, <1>4 DEF Affordable
  <2>6. t \in Nat /\ top.left <= t
    BY <1>1, <1>2, <2>5, OutstandingType DEF top
  <2>7. Outstanding(SetTop(frame), t - top.left + frame.left)
    <3>1. frame.left <= top.left
      BY <2>3
    <3> QED BY <1>1, <1>2, <2>4, <2>5, <3>1, OutstandingTop DEF SetTop, top
  <2>8. t - top.left + frame.left = t - 1
    BY <2>3, <2>6
  <2>9. Paid(reader, SetTop(frame), "object", reserved', t - 1)
    <3>1. /\ reader.pos >= 1 /\ reserved > 0 /\ reader.pos >= 1 + IntSize
          /\ reserved + 1 + IntSize <= reader.pos + t
      BY <1>1, <1>2, <2>3, <2>5, <2>6 DEF Paid
    <3>2. reserved + 1 + IntSize <= reader.pos + (t - 1) + 1
      BY <1>2, <2>6, <3>1
    <3> QED BY <1>1, <2>2, <3>1, <3>2 DEF Paid
  <2> QED BY <1>2, <2>1, <2>7, <2>8, <2>9, ContinueAffordable
<1> QED BY <1>3, <1>4

\* Leaving an object reserves nothing.
LEMMA EndObjectAffordable ==
    ASSUME Inv, Affordable, EndObject
    PROVE  Affordable'
<1>1. /\ phase = "member" /\ stack # <<>> /\ top.left = 0 /\ reserved' = reserved
      /\ Continue(LeaveObject(reader), Pop, Resume(Pop))
  BY DEF EndObject, Inv, StackFitsPhase
<1>2. /\ Behind \in Nat /\ IntSize \in Nat /\ reader.pos \in Nat /\ reserved \in Nat
      /\ stack \in Seq(Frames) /\ reader \in Readers
  BY Numbers DEF Inv, TypeOK
<1> DEFINE r == LeaveObject(reader)
<1>3. r.pos = reader.pos /\ Honest(r) /\ Failed(r) = Failed(reader)
  BY <1>2, LeaveObjectAfter DEF Honest, Failed, Inv, ThrownIsOver
<1> HIDE DEF r
<1>4. ASSUME ~ Failed(r), Resume(Pop) \in {"object", "member"}
      PROVE  \E t : Outstanding(Pop, t) /\ Paid(r, Pop, Resume(Pop), reserved', t)
  <2>1. PICK t : Outstanding(stack, t) /\ Paid(reader, stack, phase, reserved, t)
    BY <1>1, <1>3, <1>4 DEF Affordable
  <2>2. Outstanding(Pop, t)
    BY <1>1, <1>2, <2>1, OutstandingPop DEF Pop, top
  <2>3. Resume(Pop) = "member"
    BY <1>4 DEF Resume
  <2>4. Paid(r, Pop, "member", reserved', t)
    BY <1>1, <1>3, <2>1 DEF Paid
  <2> QED BY <2>2, <2>3, <2>4
<1> QED BY <1>1, <1>3, <1>4, ContinueAffordable DEF r

\* A decode that ended leaves nothing to be paid.
LEMMA FinishAffordable ==
    ASSUME Inv, Finish
    PROVE  Affordable'
<1>1. reader' = NewReader /\ reserved' = 0 /\ stack' = <<>> /\ data_' = data_
  BY DEF Finish, Inv, StackFitsPhase
<1>2. Behind' = Behind /\ Behind \in Nat
  BY <1>1, Numbers DEF Behind, Inv
<1>3. Outstanding(stack, 0)'
  BY <1>1, <1>2, NoneOutstanding DEF Outstanding, Waiting
<1>4. Paid(reader, stack, phase, reserved, 0)'
  BY <1>1 DEF Paid
<1> QED BY <1>3, <1>4 DEF Affordable

\* Only a list begun reserves, and what it reserves is behind the read position
\* while what was reserved before is before it or waited for further out.
LEMMA BeginListBounded ==
    ASSUME Inv, Affordable, ReservedBounded, BeginList
    PROVE  ReservedBounded'
<1> DEFINE len == ReadCollectionLength(reader, 1)
           n   == IF len.val > 0 THEN len.val ELSE 0
<1>1. /\ phase = "member" /\ top.left = 0 /\ stack # <<>>
      /\ data_' = data_ /\ reserved' = reserved + n
  BY DEF BeginList, InMember, Continue, Inv, StackFitsPhase
<1>2. /\ Behind \in Nat /\ Len(data_) \in Nat /\ IntSize \in Nat /\ Input
      /\ reader.pos \in Nat /\ reserved \in Nat /\ stack \in Seq(Frames) /\ reader \in Readers
  BY Numbers, InputThere DEF Inv, TypeOK
<1>3. /\ len.val \in Int /\ len.to \in Readers
      /\ len.val > 0 => ~ Failed(len.to) /\ len.val <= Len(data_) - len.to.pos
      /\ ~ Failed(len.to) => len.to.pos = reader.pos + IntSize
      /\ ~ Failed(len.to) => ~ Failed(reader)
  BY <1>2, ReadCollectionLengthAfter DEF Remaining, After, Keeps, Failed
<1> HIDE DEF len
<1>4. CASE n = 0
  BY <1>1, <1>2, <1>4 DEF ReservedBounded
<1>5. CASE n # 0
  <2>1. n > 0 /\ n \in Nat /\ ~ Failed(reader) /\ n <= Len(data_) - (reader.pos + IntSize)
    BY <1>2, <1>3, <1>5
  <2> HIDE DEF n
  <2>2. PICK t : Outstanding(stack, t) /\ Paid(reader, stack, phase, reserved, t)
    BY <1>1, <2>1 DEF Affordable
  <2> DEFINE k == Len(stack)
  <2>3. t \in Nat /\ t <= (k - 1) * Behind /\ k \in Nat \ {0} /\ k <= MaxDepth
    <3>1. t \in Nat /\ t - top.left <= (k - 1) * Behind
      BY <1>1, <1>2, <2>2, OutstandingType DEF top
    <3>2. k \in Nat \ {0}
      BY <1>1, <1>2, StackOps
    <3> QED BY <1>1, <3>1, <3>2 DEF Inv
  <2> HIDE DEF k
  <2>4. reserved + n <= Len(data_) - 1 - IntSize + t
    <3>1. CASE reserved = 0
      BY <1>1, <1>2, <2>1, <2>2, <2>3, <3>1 DEF Paid
    <3>2. CASE reserved > 0
      <4>1. reserved + 1 + IntSize <= reader.pos + t
        BY <1>1, <1>2, <2>2, <2>3, <3>2 DEF Paid
      <4> QED BY <1>2, <2>1, <2>3, <4>1
    <3> QED BY <1>2, <3>1, <3>2
  <2>5. Behind = Len(data_) - 1 - IntSize
    BY <1>1, <1>2, <2>1, <2>2 DEF Behind, Paid
  <2>6. reserved + n <= MaxDepth * Behind
    <3>1. (k - 1) * Behind + Behind = k * Behind
      BY <1>2, <2>3
    <3>2. k * Behind <= MaxDepth * Behind
      BY <1>2, <2>3, ReaderAssumption
    <3>3. (k - 1) * Behind \in Int /\ k * Behind \in Int /\ MaxDepth * Behind \in Int
      BY <1>2, <2>3, ReaderAssumption
    <3> QED BY <1>2, <2>1, <2>3, <2>4, <2>5, <3>1, <3>2, <3>3
  <2> QED BY <1>1, <2>5, <2>6 DEF ReservedBounded
<1> QED BY <1>4, <1>5

\* Every step keeps the reservations within what the input pays for.
LEMMA StepAffordable ==
    ASSUME Inv, Affordable, ReservedBounded, [Next]_vars
    PROVE  Affordable' /\ ReservedBounded'
<1>1. CASE UNCHANGED vars
  BY <1>1 DEF vars, Affordable, ReservedBounded, Outstanding, Waiting, Behind, Paid, Failed
<1>2. ASSUME reserved' = reserved, data_' = data_ PROVE ReservedBounded'
  BY <1>2 DEF ReservedBounded
<1>3. CASE BeginObject
  BY <1>2, <1>3, BeginObjectAffordable DEF BeginObject, Continue
<1>4. CASE SkipAbsent
  BY <1>2, <1>4, MembersAffordable DEF SkipAbsent, Continue
<1>5. CASE ReadScalar
  BY <1>2, <1>5, MembersAffordable DEF ReadScalar, Continue
<1>6. CASE BeginList
  BY <1>6, MembersAffordable, BeginListBounded
<1>7. CASE NextElement
  BY <1>2, <1>7, NextElementAffordable DEF NextElement, Continue
<1>8. CASE EndObject
  BY <1>2, <1>8, EndObjectAffordable DEF EndObject, Continue
<1>9. CASE Finish
  <2>1. reserved' = 0
    BY <1>9 DEF Finish
  <2> QED BY <1>9, <2>1, FinishAffordable DEF ReservedBounded
<1> QED BY <1>1, <1>3, <1>4, <1>5, <1>6, <1>7, <1>8, <1>9 DEF Next

-----------------------------------------------------------------------------
(***************************************************************************)
(* The two builds.                                                         *)
(***************************************************************************)
\* The reader of the build without exceptions, on the same input.
Loose == INSTANCE MemoryPackReader WITH throws <- FALSE

\* A call that was given a reader without an error leaves x behind in this build
\* and y in the other one: both fail with the same error at the same offset, or
\* neither does and the two are the same.
Alike(x, y) ==
    /\ y \in Readers
    /\ x.error = y.error
    /\ x.pos = y.pos
    /\ ~ Failed(x) => x = y
    /\ throws /\ Failed(x) => x.threw

\* A call that has no effect.
LEMMA AlikeReflexive ==
    ASSUME NEW r \in Readers, ~ Failed(r) PROVE Alike(r, r)
BY DEF Alike

\* Fail behind two calls that were alike.
LEMMA FailAlike ==
    ASSUME Input, NEW x \in Readers, NEW y, Alike(x, y), NEW code \in Errors \ {"None"}
    PROVE  Alike(Fail(x, code), Loose!Fail(y, code)) /\ Failed(Fail(x, code))
<1>1. PICK s, t : s = Fail(x, code) /\ t = Loose!Fail(y, code)
  OBVIOUS
<1>2. /\ s.pos = x.pos /\ s.threw = throws
      /\ s.error = IF x.error = "None" THEN code ELSE x.error
      /\ t.pos = y.pos
      /\ t.error = IF y.error = "None" THEN code ELSE y.error
  BY <1>1 DEF Fail, Loose!Fail, Readers, Alike
<1>3. Failed(s)
  BY <1>2 DEF Failed
<1>4. t \in Readers
  BY <1>1 DEF Loose!Fail, Readers, Alike
<1> QED BY <1>1, <1>2, <1>3, <1>4 DEF Alike

\* A call that steps over n bytes.
LEMMA TakeAlike ==
    ASSUME Input, NEW r \in Readers, ~ Failed(r), NEW n \in Nat
    PROVE  Alike(Take(r, n), Loose!Take(r, n))
<1>1. ~ Loose!Failed(r) /\ (Loose!EnsureBytes(r, n) <=> EnsureBytes(r, n))
  BY DEF Failed, Loose!Failed, EnsureBytes, Loose!EnsureBytes, Remaining, Loose!Remaining
<1>2. CASE EnsureBytes(r, n)
  <2>1. Take(r, n) = [r EXCEPT !.pos = @ + n] /\ Loose!Take(r, n) = [r EXCEPT !.pos = @ + n]
    BY <1>1, <1>2 DEF Take, Loose!Take
  <2>2. ~ Failed([r EXCEPT !.pos = @ + n])
    BY DEF Failed, Readers
  <2>3. [r EXCEPT !.pos = @ + n] \in Readers
    BY <2>1, TakeAfter DEF After, Keeps
  <2> QED BY <2>1, <2>2, <2>3 DEF Alike
<1>3. CASE ~ EnsureBytes(r, n)
  <2>1. Take(r, n) = Fail(r, "BufferUnderflow") /\ Loose!Take(r, n) = Loose!Fail(r, "BufferUnderflow")
    BY <1>1, <1>3 DEF Take, Loose!Take
  <2> QED BY <2>1, AlikeReflexive, FailAlike DEF Errors
<1> QED BY <1>2, <1>3

\* An integer of n bytes has the same value.
LEMMA ReadUnsignedAlike ==
    ASSUME Input, NEW r \in Readers, ~ Failed(r), NEW n \in Nat
    PROVE  /\ Alike(ReadUnsigned(r, n).to, Loose!ReadUnsigned(r, n).to)
           /\ ReadUnsigned(r, n).val = Loose!ReadUnsigned(r, n).val
<1>1. Loose!EnsureBytes(r, n) <=> EnsureBytes(r, n)
  BY DEF Failed, Loose!Failed, EnsureBytes, Loose!EnsureBytes, Remaining, Loose!Remaining
<1>2. LittleEndian(r, n) = Loose!LittleEndian(r, n)
  BY Zenon DEF LittleEndian, Loose!LittleEndian
<1>3. /\ ReadUnsigned(r, n).to = Take(r, n) /\ Loose!ReadUnsigned(r, n).to = Loose!Take(r, n)
      /\ ReadUnsigned(r, n).val = IF EnsureBytes(r, n) THEN LittleEndian(r, n) ELSE 0
      /\ Loose!ReadUnsigned(r, n).val = IF Loose!EnsureBytes(r, n) THEN Loose!LittleEndian(r, n) ELSE 0
  BY DEF ReadUnsigned, Loose!ReadUnsigned
<1> QED BY <1>1, <1>2, <1>3, TakeAlike

LEMMA ReadIntAlike ==
    ASSUME Input, NEW r \in Readers, ~ Failed(r)
    PROVE  /\ Alike(ReadInt(r).to, Loose!ReadInt(r).to)
           /\ ReadInt(r).val = Loose!ReadInt(r).val
<1>1. /\ ReadInt(r).to = ReadUnsigned(r, IntSize).to
      /\ ReadInt(r).val = Signed(ReadUnsigned(r, IntSize).val, IntSize)
  BY DEF ReadInt, ReadUnsigned
<1>2. /\ Loose!ReadInt(r).to = Loose!ReadUnsigned(r, IntSize).to
      /\ Loose!ReadInt(r).val = Loose!Signed(Loose!ReadUnsigned(r, IntSize).val, IntSize)
  BY DEF Loose!ReadInt, Loose!ReadUnsigned
<1>3. \A v : Signed(v, IntSize) = Loose!Signed(v, IntSize)
  BY DEF Signed, Loose!Signed
<1>4. IntSize \in Nat
  BY ReaderAssumption
<1> QED BY <1>1, <1>2, <1>3, <1>4, ReadUnsignedAlike

\* Both builds find the same object header: the member count, null or an error.
LEMMA ReadObjectHeaderAlike ==
    ASSUME Input, NEW r \in Readers, ~ Failed(r)
    PROVE  /\ Alike(ReadObjectHeader(r).to, Loose!ReadObjectHeader(r).to)
           /\ ReadObjectHeader(r).val = Loose!ReadObjectHeader(r).val
<1> DEFINE b == ReadByte(r)
           c == Loose!ReadByte(r)
<1>1. b.to \in Readers /\ b.val \in 0 .. 255
  BY ReadUnsignedAfter DEF ReadByte, After, Keeps
<1>2. Alike(b.to, c.to) /\ b.val = c.val
  BY ReadUnsignedAlike DEF ReadByte, Loose!ReadByte
<1>3. /\ NULL_OBJECT = 255 /\ MAX_MEMBER_COUNT = 249
      /\ Loose!NULL_OBJECT = 255 /\ Loose!MAX_MEMBER_COUNT = 249 /\ Loose!NullHeader = NullHeader
  BY DEF NULL_OBJECT, MAX_MEMBER_COUNT, Loose!NULL_OBJECT, Loose!MAX_MEMBER_COUNT, NullHeader, Loose!NullHeader
<1>4. CASE b.val = 255
  <2>1. ReadObjectHeader(r) = [to |-> b.to, val |-> NullHeader]
    BY <1>3, <1>4 DEF ReadObjectHeader
  <2>2. Loose!ReadObjectHeader(r) = [to |-> c.to, val |-> NullHeader]
    BY <1>2, <1>3, <1>4 DEF Loose!ReadObjectHeader
  <2> QED BY <1>2, <2>1, <2>2
<1>5. CASE b.val \in 250 .. 254
  <2>1. ReadObjectHeader(r) = [to |-> Fail(b.to, "InvalidHeader"), val |-> NullHeader]
    BY <1>3, <1>5 DEF ReadObjectHeader
  <2>2. Loose!ReadObjectHeader(r) = [to |-> Loose!Fail(c.to, "InvalidHeader"), val |-> NullHeader]
    BY <1>2, <1>3, <1>5 DEF Loose!ReadObjectHeader
  <2>3. Alike(Fail(b.to, "InvalidHeader"), Loose!Fail(c.to, "InvalidHeader"))
    BY <1>1, <1>2, FailAlike DEF Errors
  <2> QED BY <2>1, <2>2, <2>3
<1>6. CASE b.val \in 0 .. 249
  <2>1. ReadObjectHeader(r) = [to |-> b.to, val |-> [count |-> b.val, isNull |-> FALSE]]
    BY <1>3, <1>6 DEF ReadObjectHeader
  <2>2. Loose!ReadObjectHeader(r) = [to |-> c.to, val |-> [count |-> b.val, isNull |-> FALSE]]
    BY <1>2, <1>3, <1>6 DEF Loose!ReadObjectHeader
  <2> QED BY <1>2, <2>1, <2>2
<1> QED BY <1>1, <1>4, <1>5, <1>6

\* A level of depth is entered, or refused with the same error; behind a failed
\* header the error and the offset stay.
LEMMA EnterObjectAlike ==
    ASSUME Input, NEW x \in Readers, NEW y, Alike(x, y)
    PROVE  /\ Loose!EnterObject(y).to.error = EnterObject(x).to.error
           /\ Loose!EnterObject(y).to.pos = EnterObject(x).to.pos
           /\ ~ Failed(x) => /\ Alike(EnterObject(x).to, Loose!EnterObject(y).to)
                              /\ EnterObject(x).val = Loose!EnterObject(y).val
<1> DEFINE s == [x EXCEPT !.depth = @ + 1]
           t == [y EXCEPT !.depth = @ + 1]
<1>1. /\ s \in Readers /\ s.pos = x.pos /\ s.error = x.error /\ s.threw = x.threw
      /\ t \in Readers /\ t.pos = y.pos /\ t.error = y.error
  BY DEF Readers, Alike
<1>2. /\ EnterObject(x) = IF s.depth > MaxDepth THEN [to |-> Fail(s, "LengthLimit"), val |-> FALSE]
                          ELSE [to |-> s, val |-> TRUE]
      /\ Loose!EnterObject(y) = IF t.depth > MaxDepth THEN [to |-> Loose!Fail(t, "LengthLimit"), val |-> FALSE]
                                ELSE [to |-> t, val |-> TRUE]
  BY DEF EnterObject, Loose!EnterObject
<1>3. x = y => s = t
  OBVIOUS
<1> HIDE DEF s, t
<1>4. CASE Failed(x)
  <2>1. s.error # "None" /\ t.error = s.error /\ t.pos = s.pos
    BY <1>1, <1>4 DEF Alike, Failed
  <2>2. Fail(s, "LengthLimit").error = s.error /\ Fail(s, "LengthLimit").pos = s.pos
    BY <1>1, <2>1 DEF Fail, Readers
  <2>3. Loose!Fail(t, "LengthLimit").error = t.error /\ Loose!Fail(t, "LengthLimit").pos = t.pos
    BY <1>1, <2>1 DEF Loose!Fail, Readers
  <2> QED BY <1>2, <1>4, <2>1, <2>2, <2>3
<1>5. CASE ~ Failed(x)
  <2>1. t = s /\ ~ Failed(s) /\ Alike(s, s)
    BY <1>1, <1>3, <1>5, AlikeReflexive DEF Alike, Failed
  <2>2. CASE s.depth > MaxDepth
    <3>1. Alike(Fail(s, "LengthLimit"), Loose!Fail(s, "LengthLimit"))
      BY <1>1, <2>1, FailAlike DEF Errors
    <3> QED BY <1>2, <2>1, <2>2, <3>1 DEF Alike
  <2>3. CASE ~ (s.depth > MaxDepth)
    BY <1>2, <2>1, <2>3
  <2> QED BY <2>2, <2>3
<1> QED BY <1>4, <1>5

\* The bytes of a string, also behind a length that was not there.
LEMMA TakeStringAlike ==
    ASSUME Input, NEW r \in Readers, ~ Failed(r), NEW count \in Nat, NEW unitSize \in Nat
    PROVE  Alike(TakeString(r, count, unitSize), Loose!TakeString(r, count, unitSize))
<1>1. CheckStringLength(r, count, unitSize) <=> Loose!CheckStringLength(r, count, unitSize)
  BY DEF CheckStringLength, Loose!CheckStringLength, Remaining, Loose!Remaining
<1>2. CASE CheckStringLength(r, count, unitSize)
  <2>1. /\ TakeString(r, count, unitSize) = Take(r, count * unitSize)
        /\ Loose!TakeString(r, count, unitSize) = Loose!Take(r, count * unitSize)
        /\ count * unitSize \in Nat
    BY <1>1, <1>2 DEF TakeString, Loose!TakeString
  <2> QED BY <2>1, TakeAlike
<1>3. CASE ~ CheckStringLength(r, count, unitSize)
  <2>1. /\ TakeString(r, count, unitSize) = Fail(r, "LengthLimit")
        /\ Loose!TakeString(r, count, unitSize) = Loose!Fail(r, "LengthLimit")
    BY <1>1, <1>3 DEF TakeString, Loose!TakeString
  <2> QED BY <2>1, AlikeReflexive, FailAlike DEF Errors
<1> QED BY <1>2, <1>3

\* Without exceptions a failed reader takes no string and keeps its error.
LEMMA TakeStringFailed ==
    ASSUME Input, NEW y \in Readers, Failed(y), NEW count \in Nat, NEW unitSize \in Nat
    PROVE  LET s == Loose!TakeString(y, count, unitSize)
           IN  s \in Readers /\ s.error = y.error /\ s.pos = y.pos
<1>1. Loose!Take(y, count * unitSize) = y
  BY DEF Loose!Take, Loose!EnsureBytes, Loose!Failed, Failed
<1>2. LET f == Loose!Fail(y, "LengthLimit")
      IN  f \in Readers /\ f.error = y.error /\ f.pos = y.pos
  BY DEF Loose!Fail, Failed, Readers
<1> QED BY <1>1, <1>2 DEF Loose!TakeString

\* A string is read alike, whichever of its two lengths is missing or too large.
LEMMA ReadStringAlike ==
    ASSUME Input, NEW r \in Readers, ~ Failed(r)
    PROVE  Alike(ReadString(r), Loose!ReadString(r))
<1> DEFINE header == ReadInt(r)
           loose  == Loose!ReadInt(r)
           u == Take(header.to, IntSize)
           v == Loose!Take(loose.to, IntSize)
<1>1. header.to \in Readers /\ header.val \in Int /\ IntSize \in Nat
  BY ReadIntAfter, ReaderAssumption DEF After, Keeps
<1>2. Alike(header.to, loose.to) /\ header.val = loose.val
  BY ReadIntAlike
<1>3. ReadString(r) =
        IF Failed(header.to) \/ header.val \in {-1, 0} THEN header.to
        ELSE IF header.val > 0 THEN TakeString(header.to, header.val, 2)
        ELSE IF u.threw THEN u ELSE TakeString(u, -header.val - 1, 1)
  BY DEF ReadString
<1>4. Loose!ReadString(r) =
        IF Loose!Failed(loose.to) \/ loose.val \in {-1, 0} THEN loose.to
        ELSE IF loose.val > 0 THEN Loose!TakeString(loose.to, loose.val, 2)
        ELSE IF v.threw THEN v ELSE Loose!TakeString(v, -loose.val - 1, 1)
  BY DEF Loose!ReadString
<1>5. Loose!Failed(loose.to) <=> Failed(header.to)
  BY <1>2 DEF Failed, Loose!Failed, Alike
<1> HIDE DEF header, loose
<1>6. CASE Failed(header.to) \/ header.val \in {-1, 0}
  BY <1>2, <1>3, <1>4, <1>5, <1>6
<1>7. CASE ~ Failed(header.to) /\ ~ (header.val \in {-1, 0})
  <2>1. loose.to = header.to
    BY <1>2, <1>7 DEF Alike
  <2>2. CASE header.val > 0
    <3>1. /\ ReadString(r) = TakeString(header.to, header.val, 2)
          /\ Loose!ReadString(r) = Loose!TakeString(header.to, header.val, 2)
      BY <1>2, <1>3, <1>4, <1>5, <1>7, <2>1, <2>2
    <3>2. header.val \in Nat
      BY <1>1, <2>2
    <3> QED BY <1>1, <1>7, <3>1, <3>2, TakeStringAlike
  <2>3. CASE ~ (header.val > 0)
    <3>1. Alike(u, v) /\ u \in Readers
      BY <1>1, <1>7, <2>1, TakeAlike, TakeAfter DEF After, Keeps
    <3> DEFINE n == -header.val - 1
    <3>2. n \in Nat
      BY <1>1, <1>7, <2>3
    <3>3. /\ ReadString(r) = IF u.threw THEN u ELSE TakeString(u, n, 1)
          /\ Loose!ReadString(r) = IF v.threw THEN v ELSE Loose!TakeString(v, n, 1)
      BY <1>2, <1>3, <1>4, <1>5, <1>7, <2>3
    <3> HIDE DEF n, u, v
    <3>4. CASE ~ Failed(u)
      <4>1. v = u
        BY <3>1, <3>4 DEF Alike
      <4>2. Alike(TakeString(u, n, 1), Loose!TakeString(u, n, 1))
        BY <3>1, <3>2, <3>4, TakeStringAlike
      <4> QED BY <3>1, <3>3, <4>1, <4>2
    <3>5. CASE Failed(u)
      <4>1. v \in Readers /\ Failed(v) /\ v.error = u.error /\ v.pos = u.pos /\ (throws => u.threw)
        BY <3>1, <3>5 DEF Alike, Failed
      <4>2. PICK s : s = Loose!ReadString(r)
        OBVIOUS
      <4>3. s \in Readers /\ s.error = u.error /\ s.pos = u.pos
        BY <3>2, <3>3, <4>1, <4>2, TakeStringFailed
      <4>4. After(u, TakeString(u, n, 1))
        BY <3>1, <3>2, TakeStringAfter
      <4>5. PICK t : t = ReadString(r)
        OBVIOUS
      <4>6. t.error = u.error /\ t.pos = u.pos /\ (throws => t.threw)
        BY <3>3, <3>5, <4>1, <4>4, <4>5 DEF After, Keeps
      <4> QED BY <3>5, <4>2, <4>3, <4>5, <4>6 DEF Alike, Failed
    <3> QED BY <3>4, <3>5
  <2> QED BY <2>2, <2>3
<1> QED BY <1>6, <1>7

\* The length of a collection has the same value, and is refused alike.
LEMMA ReadCollectionLengthAlike ==
    ASSUME Input, NEW r \in Readers, ~ Failed(r)
    PROVE  /\ Alike(ReadCollectionLength(r, 1).to, Loose!ReadCollectionLength(r, 1).to)
           /\ ReadCollectionLength(r, 1).val = Loose!ReadCollectionLength(r, 1).val
<1> DEFINE len   == ReadInt(r)
           loose == Loose!ReadInt(r)
           bad   == \/ len.val < 0 /\ len.val # -1
                    \/ len.val > MaxCollection
                    \/ 1 > 0 /\ len.val > Remaining(len.to) \div 1
           worse == \/ loose.val < 0 /\ loose.val # -1
                    \/ loose.val > MaxCollection
                    \/ 1 > 0 /\ loose.val > Loose!Remaining(loose.to) \div 1
<1>1. len.to \in Readers
  BY ReadIntAfter DEF After, Keeps
<1>2. Alike(len.to, loose.to) /\ len.val = loose.val
  BY ReadIntAlike
<1>3. /\ ReadCollectionLength(r, 1) = IF bad THEN [to |-> Fail(len.to, "LengthLimit"), val |-> -1] ELSE len
      /\ Loose!ReadCollectionLength(r, 1) =
            IF worse THEN [to |-> Loose!Fail(loose.to, "LengthLimit"), val |-> -1] ELSE loose
  BY DEF ReadCollectionLength, Loose!ReadCollectionLength, NULL_COLLECTION, Loose!NULL_COLLECTION
<1> HIDE DEF len, loose
<1>4. Loose!Remaining(loose.to) = Remaining(len.to)
  BY <1>2 DEF Alike, Remaining, Loose!Remaining
<1>5. bad <=> worse
  BY <1>2, <1>4
<1> HIDE DEF bad, worse
<1>6. CASE bad
  <2>1. Alike(Fail(len.to, "LengthLimit"), Loose!Fail(loose.to, "LengthLimit"))
    BY <1>1, <1>2, FailAlike DEF Errors
  <2> QED BY <1>3, <1>5, <1>6, <2>1
<1>7. CASE ~ bad
  BY <1>2, <1>3, <1>5, <1>7
<1> QED BY <1>6, <1>7

-----------------------------------------------------------------------------
(***************************************************************************)
(* One step of the decoder.                                                *)
(***************************************************************************)
\* What the code after a step depends on.
Core(r, s, p) == [reader |-> r, stack |-> s, phase |-> p]
core == Core(reader, stack, phase)

\* Where the build without exceptions goes from a call of Deserialize that found
\* the given header ...
AheadObject(header, s) ==
    LET entered == Loose!EnterObject(header.to)
        frame   == [count |-> header.val.count, index |-> 0, left |-> 0]
    IN  IF header.val.isNull THEN Core(header.to, s, Resume(s))
        ELSE IF entered.val THEN Core(entered.to, Append(s, frame), "member")
        ELSE Core(entered.to, s, Resume(s))

\* ... and from inside one, where a length, an int or a string would be read so,
AheadMember(len, int, string, r, s) ==
    LET frame   == s[Len(s)]
        With(f) == [s EXCEPT ![Len(s)] = f]
        below   == SubSeq(s, 1, Len(s) - 1)
        kind    == Members[frame.index + 1]
        n       == IF len.val > 0 THEN len.val ELSE 0
        next    == IF kind = "int" THEN int.to ELSE string
    IN  IF frame.left > 0 THEN Core(r, With([frame EXCEPT !.left = @ - 1]), "object")
        ELSE IF frame.index = Len(Members) THEN Core(LeaveObject(r), below, Resume(below))
        ELSE IF frame.count <= frame.index
        THEN Core(r, With([frame EXCEPT !.index = @ + 1]), "member")
        ELSE IF kind = "list"
        THEN Core(len.to, With([frame EXCEPT !.index = @ + 1, !.left = n]), "member")
        ELSE Core(next, With([frame EXCEPT !.index = @ + 1]), "member")

\* as long as nothing has failed.
Ahead(c) ==
    LET r == c.reader
    IN  IF c.phase = "object" THEN AheadObject(Loose!ReadObjectHeader(r), c.stack)
        ELSE AheadMember(Loose!ReadCollectionLength(r, 1), Loose!ReadInt(r), Loose!ReadString(r), r, c.stack)

\* A step from c to d fails as the build without exceptions does, or goes where
\* that build goes.
Leads(c, d) ==
    /\ d.reader.error = Ahead(c).reader.error
    /\ d.reader.pos = Ahead(c).reader.pos
    /\ ~ Failed(d.reader) => d = Ahead(c)

\* In the build with exceptions an error is an exception.
ThrownIfFailed == throws /\ Failed(reader) => reader.threw

\* What a step that continues with r shows about Leads.
LEMMA ContinueLeads ==
    ASSUME NEW r, NEW frames, NEW next, Continue(r, frames, next), Honest(r),
           NEW y, NEW s, NEW p, Ahead(core) = Core(y, s, p),
           y.error = r.error, y.pos = r.pos, throws /\ Failed(r) => r.threw,
           ~ Failed(r) => y = r /\ s = frames /\ p = next
    PROVE  Leads(core, core') /\ ThrownIfFailed'
<1>1. /\ reader' = r /\ throws' = throws
      /\ stack' = IF r.threw THEN <<>> ELSE frames
      /\ phase' = IF r.threw THEN "finish" ELSE next
  BY DEF Continue
<1>2. core' = Core(r, stack', phase')
  BY <1>1 DEF core, Core
<1>3. core'.reader = r /\ Ahead(core).reader = y
  BY <1>2 DEF Core
<1>4. ASSUME ~ Failed(r) PROVE core' = Ahead(core)
  <2>1. ~ r.threw
    BY <1>4 DEF Honest
  <2> QED BY <1>1, <1>2, <1>4, <2>1
<1>5. ThrownIfFailed'
  BY <1>1 DEF ThrownIfFailed, Failed
<1> QED BY <1>3, <1>4, <1>5 DEF Leads

\* The call of Deserialize.
LEMMA BeginObjectLeads ==
    ASSUME Inv, ~ Failed(reader), BeginObject
    PROVE  Leads(core, core') /\ ThrownIfFailed'
<1> DEFINE header  == ReadObjectHeader(reader)
           entered == EnterObject(header.to)
           frame   == [count |-> header.val.count, index |-> 0, left |-> 0]
           loose   == Loose!ReadObjectHeader(reader)
           within  == Loose!EnterObject(loose.to)
           same    == [count |-> loose.val.count, index |-> 0, left |-> 0]
<1>1. /\ phase = "object"
      /\ IF header.val.isNull \/ header.to.threw
         THEN Continue(header.to, stack, Resume(stack))
         ELSE IF entered.val
         THEN Continue(entered.to, Append(stack, frame), "member")
         ELSE Continue(entered.to, stack, Resume(stack))
  BY DEF BeginObject
<1>2. Input /\ reader \in Readers /\ Honest(reader)
  BY InputThere DEF Inv, TypeOK, ThrownIsOver
<1>3. header.to \in Readers /\ Honest(header.to) /\ header.val.isNull \in BOOLEAN
  BY <1>2, ReadObjectHeaderAfter DEF After, Keeps
<1>4. Alike(header.to, loose.to) /\ header.val = loose.val
  BY <1>2, ReadObjectHeaderAlike
<1>5. Ahead(core) = IF loose.val.isNull THEN Core(loose.to, stack, Resume(stack))
                    ELSE IF within.val THEN Core(within.to, Append(stack, same), "member")
                    ELSE Core(within.to, stack, Resume(stack))
  BY <1>1 DEF Ahead, core, Core, AheadObject
<1>6. frame = same
  BY <1>4
<1> HIDE DEF header, loose, frame, same
<1>7. /\ within.to.error = entered.to.error /\ within.to.pos = entered.to.pos
      /\ ~ Failed(header.to) => Alike(entered.to, within.to) /\ entered.val = within.val
  BY <1>2, <1>3, <1>4, EnterObjectAlike
<1>8. /\ Honest(entered.to)
      /\ entered.to.pos = header.to.pos /\ (Failed(header.to) => entered.to.error = header.to.error)
  BY <1>2, <1>3, EnterObjectAfter
<1> HIDE DEF entered, within
<1>9. CASE header.val.isNull
  <2>1. Continue(header.to, stack, Resume(stack)) /\ Ahead(core) = Core(loose.to, stack, Resume(stack))
    BY <1>1, <1>4, <1>5, <1>9
  <2> QED BY <1>3, <1>4, <2>1, ContinueLeads DEF Alike
<1>10. CASE ~ header.val.isNull /\ header.to.threw
  <2>1. Continue(header.to, stack, Resume(stack))
    BY <1>1, <1>10
  <2>2. Failed(header.to)
    BY <1>3, <1>10 DEF Honest
  <2>3. within.to.error = header.to.error /\ within.to.pos = header.to.pos
    BY <1>7, <1>8, <2>2
  <2>4. \E s, p : Ahead(core) = Core(within.to, s, p)
    BY <1>4, <1>5, <1>10
  <2> QED BY <1>3, <1>10, <2>1, <2>2, <2>3, <2>4, ContinueLeads
<1>11. CASE ~ header.val.isNull /\ ~ header.to.threw
  <2>1. IF entered.val
        THEN Continue(entered.to, Append(stack, frame), "member")
        ELSE Continue(entered.to, stack, Resume(stack))
    BY <1>1, <1>11
  <2>2. throws => ~ Failed(header.to)
    BY <1>4, <1>11 DEF Alike
  <2>3. throws /\ Failed(entered.to) => entered.to.threw
    BY <1>7, <2>2 DEF Alike
  <2>4. ~ Failed(entered.to) => ~ Failed(header.to)
    BY <1>8 DEF Failed
  <2>5. ~ Failed(entered.to) => within.to = entered.to /\ within.val = entered.val
    BY <1>7, <2>4 DEF Alike
  <2>6. PICK s, p : /\ Ahead(core) = Core(within.to, s, p)
                    /\ IF within.val THEN s = Append(stack, frame) /\ p = "member"
                       ELSE s = stack /\ p = Resume(stack)
    BY <1>4, <1>5, <1>6, <1>11
  <2>r. Honest(entered.to) /\ within.to.error = entered.to.error /\ within.to.pos = entered.to.pos
    BY <1>7, <1>8
  <2>a. Ahead(core) = Core(within.to, s, p)
    BY <2>6
  <2>7. CASE entered.val
    <3>1. Continue(entered.to, Append(stack, frame), "member")
      BY <2>1, <2>7
    <3>2. ~ Failed(entered.to) => within.to = entered.to /\ s = Append(stack, frame) /\ p = "member"
      BY <2>5, <2>6, <2>7
    <3> QED BY <2>r, <2>a, <2>3, <3>1, <3>2, ContinueLeads
  <2>8. CASE ~ entered.val
    <3>1. Continue(entered.to, stack, Resume(stack))
      BY <2>1, <2>8
    <3>2. ~ Failed(entered.to) => within.to = entered.to /\ s = stack /\ p = Resume(stack)
      BY <2>5, <2>6, <2>8
    <3> QED BY <2>r, <2>a, <2>3, <3>1, <3>2, ContinueLeads
  <2> QED BY <2>7, <2>8
<1> QED BY <1>3, <1>9, <1>10, <1>11

\* The members, the loop over a list and the end of an object.
LEMMA MemberLeads ==
    ASSUME Inv, ~ Failed(reader), phase = "member",
           SkipAbsent \/ ReadScalar \/ BeginList \/ NextElement \/ EndObject
    PROVE  Leads(core, core') /\ ThrownIfFailed'
<1>1. /\ Input /\ reader \in Readers /\ Honest(reader) /\ stack # <<>> /\ top \in Frames
  BY InputThere, StackOps DEF Inv, TypeOK, ThrownIsOver, StackFitsPhase
<1>2. top.left \in Nat /\ top.index \in Nat /\ top.count \in Nat /\ Len(Members) \in Nat
  BY <1>1, MembersAssumption, LenProperties DEF Frames
<1> DEFINE kind == Members[top.index + 1]
           len  == Loose!ReadCollectionLength(reader, 1)
           n    == IF len.val > 0 THEN len.val ELSE 0
           next == IF kind = "int" THEN Loose!ReadInt(reader).to ELSE Loose!ReadString(reader)
<1>3. Ahead(core) =
        IF top.left > 0 THEN Core(reader, SetTop([top EXCEPT !.left = @ - 1]), "object")
        ELSE IF top.index = Len(Members) THEN Core(LeaveObject(reader), Pop, Resume(Pop))
        ELSE IF top.count <= top.index
        THEN Core(reader, SetTop([top EXCEPT !.index = @ + 1]), "member")
        ELSE IF kind = "list"
        THEN Core(len.to, SetTop([top EXCEPT !.index = @ + 1, !.left = n]), "member")
        ELSE Core(next, SetTop([top EXCEPT !.index = @ + 1]), "member")
  <2>1. Ahead(core) = AheadMember(Loose!ReadCollectionLength(reader, 1), Loose!ReadInt(reader),
                                 Loose!ReadString(reader), reader, stack)
    BY DEF Ahead, core, Core
  <2> QED BY <2>1 DEF AheadMember, SetTop, top, Pop
<1> HIDE DEF next, kind
<1>4. CASE SkipAbsent
  <2>1. Continue(reader, SetTop([top EXCEPT !.index = @ + 1]), "member")
    BY <1>4 DEF SkipAbsent
  <2>2. Ahead(core) = Core(reader, SetTop([top EXCEPT !.index = @ + 1]), "member")
    BY <1>2, <1>3, <1>4 DEF SkipAbsent, InMember
  <2> QED BY <1>1, <2>1, <2>2, ContinueLeads
<1>5. CASE ReadScalar
  <2> DEFINE r == IF kind = "int" THEN ReadInt(reader).to ELSE ReadString(reader)
  <2>1. Continue(r, SetTop([top EXCEPT !.index = @ + 1]), "member")
    BY <1>5 DEF ReadScalar, kind
  <2>2. Ahead(core) = Core(next, SetTop([top EXCEPT !.index = @ + 1]), "member")
    BY <1>2, <1>3, <1>5 DEF ReadScalar, InMember, kind
  <2>3. Alike(r, next)
    BY <1>1, ReadIntAlike, ReadStringAlike DEF next
  <2>4. Honest(r)
    BY <1>1, ReadIntAfter, ReadStringAfter DEF After, Keeps
  <2> HIDE DEF r
  <2> QED BY <2>1, <2>2, <2>3, <2>4, ContinueLeads DEF Alike
<1>6. CASE BeginList
  <2> DEFINE mine == ReadCollectionLength(reader, 1)
             m    == IF mine.val > 0 THEN mine.val ELSE 0
  <2>1. Continue(mine.to, SetTop([top EXCEPT !.index = @ + 1, !.left = m]), "member")
    BY <1>6 DEF BeginList
  <2>2. Ahead(core) = Core(len.to, SetTop([top EXCEPT !.index = @ + 1, !.left = n]), "member")
    BY <1>2, <1>3, <1>6 DEF BeginList, InMember, kind
  <2>3. Alike(mine.to, len.to) /\ mine.val = len.val
    BY <1>1, ReadCollectionLengthAlike
  <2>4. Honest(mine.to)
    BY <1>1, ReadCollectionLengthAfter DEF After, Keeps
  <2>5. m = n
    BY <2>3
  <2> HIDE DEF mine, m, len, n
  <2> QED BY <2>1, <2>2, <2>3, <2>4, <2>5, ContinueLeads DEF Alike
<1>7. CASE NextElement
  <2>1. Continue(reader, SetTop([top EXCEPT !.left = @ - 1]), "object") /\ top.left > 0
    BY <1>7 DEF NextElement
  <2>2. Ahead(core) = Core(reader, SetTop([top EXCEPT !.left = @ - 1]), "object")
    BY <1>3, <2>1
  <2> QED BY <1>1, <2>1, <2>2, ContinueLeads
<1>8. CASE EndObject
  <2>1. Continue(LeaveObject(reader), Pop, Resume(Pop)) /\ top.left = 0 /\ top.index = Len(Members)
    BY <1>8 DEF EndObject
  <2>2. Ahead(core) = Core(LeaveObject(reader), Pop, Resume(Pop))
    BY <1>3, <2>1
  <2>3. Honest(LeaveObject(reader)) /\ ~ Failed(LeaveObject(reader))
    BY <1>1, LeaveObjectAfter DEF Honest, Failed
  <2> QED BY <2>1, <2>2, <2>3, ContinueLeads
<1> QED BY <1>4, <1>5, <1>6, <1>7, <1>8

\* Ahead looks at the input and at nothing else that changes.
LEMMA AheadStays ==
    ASSUME data_' = data_, NEW c
    PROVE  Ahead(c)' = Ahead(c)
<1>1. \A r, n : Loose!EnsureBytes(r, n)' <=> Loose!EnsureBytes(r, n)
  BY DEF Loose!EnsureBytes, Loose!Failed, Loose!Remaining
<1>2. \A r, n : Loose!Take(r, n)' = Loose!Take(r, n)
  BY <1>1, Zenon DEF Loose!Take, Loose!Fail, Loose!Failed
<1>3. \A r, n : Loose!LittleEndian(r, n)' = Loose!LittleEndian(r, n)
  <2> DEFINE Of(d, r, n) ==
        LET prefix[i \in 0 .. n] == IF i = 0 THEN 0 ELSE prefix[i - 1] + d[r.pos + i] * 256 ^ (i - 1)
        IN  prefix[n]
  <2>1. ASSUME NEW r, NEW n PROVE Loose!LittleEndian(r, n) = Of(data_, r, n)
    BY Zenon DEF Loose!LittleEndian
  <2>2. ASSUME NEW r, NEW n PROVE Loose!LittleEndian(r, n)' = Of(data_', r, n)
    BY Zenon DEF Loose!LittleEndian
  <2> HIDE DEF Of
  <2> QED BY <2>1, <2>2
<1>4. \A r, n : Loose!ReadUnsigned(r, n)' = Loose!ReadUnsigned(r, n)
  BY <1>1, <1>2, <1>3, Zenon DEF Loose!ReadUnsigned
<1>5. \A r : Loose!ReadInt(r)' = Loose!ReadInt(r)
  BY <1>4, Zenon DEF Loose!ReadInt, Loose!Signed
<1>6. \A r : Loose!ReadObjectHeader(r)' = Loose!ReadObjectHeader(r)
  BY <1>4, Zenon DEF Loose!ReadObjectHeader, Loose!ReadByte, Loose!Fail, Loose!NullHeader, Loose!NULL_OBJECT, Loose!MAX_MEMBER_COUNT
<1>7. \A r, k : Loose!Remaining(r)' = Loose!Remaining(r)
  BY DEF Loose!Remaining
<1>8. \A r : Loose!ReadCollectionLength(r, 1)' = Loose!ReadCollectionLength(r, 1)
  BY <1>5, <1>7, Zenon DEF Loose!ReadCollectionLength, Loose!Fail, Loose!NULL_COLLECTION
<1>9. \A r, k, u : Loose!TakeString(r, k, u)' = Loose!TakeString(r, k, u)
  BY <1>2, <1>7 DEF Loose!TakeString, Loose!CheckStringLength, Loose!Fail
<1>10. \A r : Loose!ReadString(r)' = Loose!ReadString(r)
  BY <1>2, <1>5, <1>9, Zenon DEF Loose!ReadString, Loose!Failed
<1>11. \A header, s : AheadObject(header, s)' = AheadObject(header, s)
  OBVIOUS
<1>12. \A len, int, string, r, s : AheadMember(len, int, string, r, s)' = AheadMember(len, int, string, r, s)
  OBVIOUS
<1> QED BY <1>5, <1>6, <1>8, <1>10, <1>11, <1>12, Zenon DEF Ahead

-----------------------------------------------------------------------------
(***************************************************************************)
(* A whole decode.                                                         *)
(***************************************************************************)
\* h is the decode of the input up to its n-th step: nothing fails before the
\* last.
History(h, n) ==
    /\ h[0] = Core(NewReader, <<>>, "object")
    /\ \A i \in 0 .. n - 1 : /\ h[i].phase \in {"object", "member"}
                             /\ ~ Failed(h[i].reader)
                             /\ Leads(h[i], h[i + 1])

\* What the top-level function reports of the reader r.
Report(r) ==
    [error |-> IF exact /\ ~ Failed(r) /\ ~ IsEnd(r) THEN "TrailingBytes" ELSE r.error,
     pos   |-> r.pos]

\* The first build is somewhere in its decode.
FirstBuild ==
    /\ phase # "done" /\ outcomes = <<>> /\ ThrownIfFailed
    /\ \E n \in Nat : \E h : History(h, n) /\ h[n] = core

\* The second build is where the first one has been, or has failed where it did.
Follows(h, n) ==
    IF Failed(reader) THEN reader.error = h[n].reader.error /\ reader.pos = h[n].reader.pos
    ELSE \E i \in 0 .. n : core = h[i]

SecondBuild ==
    IF phase = "done" THEN outcomes[1] = outcomes[2]
    ELSE \E n \in Nat : \E h :
            /\ History(h, n) /\ h[n].phase = "finish"
            /\ outcomes = << Report(h[n].reader) >>
            /\ Follows(h, n)

Twins == IF throws THEN FirstBuild ELSE SecondBuild

-----------------------------------------------------------------------------
\* A history stays one.
LEMMA HistoryStays ==
    ASSUME data_' = data_, exact' = exact, NEW h, NEW n, NEW r
    PROVE  (History(h, n) => History(h, n)') /\ Report(r)' = Report(r)
<1>1. \A c : Ahead(c)' = Ahead(c)
  BY AheadStays
<1>2. \A c, d : Leads(c, d) => Leads(c, d)'
  BY <1>1, Zenon DEF Leads, Failed
<1>3. History(h, n) => History(h, n)'
  BY <1>2, Zenon DEF History, Core, NewReader, Failed
<1>4. Report(r)' = Report(r)
  BY Zenon DEF Report, IsEnd, Failed
<1> QED BY <1>3, <1>4

\* The top-level function reports the error of the decode, or the bytes left.
LEMMA FinishReports ==
    ASSUME Inv, Finish
    PROVE  outcomes' = Append(outcomes, Report(reader))
<1> DEFINE r == IF exact /\ ~ reader.threw THEN RequireEnd(reader) ELSE reader
<1>1. outcomes' = Append(outcomes, [error |-> r.error, pos |-> r.pos])
  BY DEF Finish
<1>2. Input /\ reader \in Readers /\ (~ Failed(reader) => ~ reader.threw)
  BY InputThere DEF Inv, TypeOK, ThrownIsOver, Honest
<1>3. CASE Failed(reader)
  <2>1. RequireEnd(reader).error = reader.error /\ RequireEnd(reader).pos = reader.pos
    BY <1>2, <1>3, RequireEndAfter DEF After, Keeps
  <2>2. r.error = reader.error /\ r.pos = reader.pos
    BY <2>1
  <2> HIDE DEF r
  <2> QED BY <1>1, <1>3, <2>2 DEF Report
<1>4. CASE ~ Failed(reader)
  <2>1. r = IF exact THEN RequireEnd(reader) ELSE reader
    BY <1>2, <1>4
  <2>2. Fail(reader, "TrailingBytes").error = "TrailingBytes" /\ Fail(reader, "TrailingBytes").pos = reader.pos
    BY <1>2, <1>4 DEF Fail, Readers, Failed
  <2> HIDE DEF r
  <2>3. r.pos = reader.pos /\ r.error = IF exact /\ ~ IsEnd(reader) THEN "TrailingBytes" ELSE reader.error
    BY <2>1, <2>2 DEF RequireEnd
  <2> QED BY <1>1, <1>4, <2>3 DEF Report
<1> QED BY <1>3, <1>4
\* A step of the decoder with nothing failed so far.
LEMMA StepLeads ==
    ASSUME Inv, ~ Failed(reader), Next, ~ Finish
    PROVE  Leads(core, core') /\ ThrownIfFailed'
<1>1. CASE BeginObject
  BY <1>1, BeginObjectLeads
<1>2. CASE SkipAbsent \/ ReadScalar \/ BeginList \/ NextElement \/ EndObject
  <2>1. phase = "member"
    BY <1>2 DEF SkipAbsent, ReadScalar, BeginList, NextElement, EndObject, InMember
  <2> QED BY <1>2, <2>1, MemberLeads
<1> QED BY <1>1, <1>2 DEF Next

\* The decode of the first build grows by a step, and ends with its report.
LEMMA FirstBuildStep ==
    ASSUME Inv, throws, FirstBuild, Next
    PROVE  Twins'
<1>1. PICK n \in Nat : \E h : History(h, n) /\ h[n] = core
  BY DEF FirstBuild
<1>2. PICK h : History(h, n) /\ h[n] = core
  BY <1>1
<1>3. data_' = data_ /\ exact' = exact
  BY DEF Next, BeginObject, SkipAbsent, ReadScalar, BeginList, NextElement, EndObject, Finish, Continue
<1>4. core.phase = phase /\ core.reader = reader
  BY DEF core, Core
<1>5. CASE Finish
  <2>1. phase = "finish" /\ phase' = "object" /\ throws' = FALSE /\ reader' = NewReader /\ stack' = <<>>
    BY <1>5 DEF Finish, Inv, StackFitsPhase
  <2>2. History(h, n)' /\ Report(h[n].reader)' = Report(h[n].reader)
    BY <1>2, <1>3, HistoryStays
  <2>3. outcomes' = << Report(h[n].reader) >>
    <3>1. outcomes' = Append(<<>>, Report(h[n].reader))
      BY <1>2, <1>4, <1>5, FinishReports DEF FirstBuild
    <3> QED BY <3>1
  <2>4. h[n].phase = "finish"
    BY <1>2, <1>4, <2>1
  <2>5. core' = h[0]
    BY <1>2, <2>1 DEF core, Core, History
  <2>6. ~ Failed(reader)'
    BY <2>1 DEF Failed, NewReader
  <2>7. 0 \in 0 .. n
    OBVIOUS
  <2>8. Follows(h, n)'
    BY <2>5, <2>6, <2>7 DEF Follows
  <2> QED BY <2>1, <2>2, <2>3, <2>4, <2>8 DEF Twins, SecondBuild
<1>6. CASE ~ Finish
  <2>1. phase \in {"object", "member"} /\ throws' = throws /\ outcomes' = outcomes
    BY <1>6 DEF Next, BeginObject, SkipAbsent, ReadScalar, BeginList, NextElement, EndObject, InMember, Continue
  <2>2. ~ Failed(reader)
    BY <2>1 DEF FirstBuild, ThrownIfFailed, Inv, ThrownIsOver
  <2>3. Leads(core, core') /\ ThrownIfFailed'
    BY <1>6, <2>1, <2>2, StepLeads
  <2>4. phase' # "done"
    BY <1>6 DEF Next, BeginObject, SkipAbsent, ReadScalar, BeginList, NextElement, EndObject, Continue, Resume
  <2>5. PICK d : d = core'
    OBVIOUS
  <2> DEFINE m == n + 1
             g == [i \in 0 .. m |-> IF i = m THEN d ELSE h[i]]
  <2>6. m \in Nat /\ g[m] = core' /\ g[0] = h[0]
    BY <2>5
  <2>7. History(g, m)
    <3>1. ASSUME NEW i \in 0 .. m - 1
          PROVE  g[i].phase \in {"object", "member"} /\ ~ Failed(g[i].reader) /\ Leads(g[i], g[i + 1])
      <4>1. g[i] = h[i]
        OBVIOUS
      <4>2. CASE i = n
        <5>1. g[i] = core /\ g[i + 1] = d
          BY <1>2, <4>1, <4>2
        <5> QED BY <1>4, <2>1, <2>2, <2>3, <2>5, <5>1
      <4>3. CASE i # n
        <5>1. i \in 0 .. n - 1 /\ g[i + 1] = h[i + 1]
          BY <4>3
        <5> HIDE DEF g
        <5> QED BY <1>2, <4>1, <5>1 DEF History
      <4> QED BY <4>2, <4>3
    <3> HIDE DEF g, m
    <3> QED BY <1>2, <2>6, <3>1 DEF History
  <2> HIDE DEF g, m
  <2>8. History(g, m)'
    BY <1>3, <2>7, HistoryStays
  <2> QED BY <2>1, <2>3, <2>4, <2>6, <2>8 DEF Twins, FirstBuild
<1> QED BY <1>5, <1>6

\* The second build takes the step that the first one took.
LEMMA SecondBuildStep ==
    ASSUME Inv, ~ throws, SecondBuild, Next
    PROVE  Twins'
<1>1. phase # "done" /\ data_' = data_ /\ exact' = exact /\ throws' = FALSE
  BY DEF Next, BeginObject, SkipAbsent, ReadScalar, BeginList, NextElement, EndObject, Finish, InMember, Continue,
         Inv, TypeOK
<1>2. PICK n \in Nat : \E h : /\ History(h, n) /\ h[n].phase = "finish"
                              /\ outcomes = << Report(h[n].reader) >> /\ Follows(h, n)
  BY <1>1 DEF SecondBuild
<1>3. PICK h : /\ History(h, n) /\ h[n].phase = "finish"
               /\ outcomes = << Report(h[n].reader) >> /\ Follows(h, n)
  BY <1>2
<1>4. core.phase = phase /\ core.reader = reader /\ core'.reader = reader'
  BY DEF core, Core
<1>5. ASSUME NEW i \in 0 .. n, i # n
      PROVE  /\ h[i].phase \in {"object", "member"} /\ ~ Failed(h[i].reader) /\ Leads(h[i], h[i + 1])
  <2>1. i \in 0 .. n - 1
    BY <1>5
  <2> QED BY <1>3, <2>1 DEF History
<1>6. CASE Finish
  <2>1. phase = "finish" /\ phase' = "done"
    BY <1>6 DEF Finish
  <2>2. outcomes' = Append(outcomes, Report(reader))
    BY <1>6, FinishReports
  <2>3. Report(reader) = Report(h[n].reader)
    <3>1. CASE Failed(reader)
      BY <1>3, <3>1 DEF Follows, Report, Failed
    <3>2. CASE ~ Failed(reader)
      <4>1. PICK i \in 0 .. n : core = h[i]
        BY <1>3, <3>2 DEF Follows
      <4>2. i = n
        BY <1>4, <1>5, <2>1, <4>1
      <4> QED BY <1>4, <4>1, <4>2
    <3> QED BY <3>1, <3>2
  <2>4. PICK x : x = Report(reader)
    OBVIOUS
  <2>5. outcomes = << x >> /\ outcomes' = Append(<< x >>, x)
    BY <1>3, <2>2, <2>3, <2>4
  <2>6. outcomes'[1] = x /\ outcomes'[2] = x
    BY <2>5
  <2> QED BY <1>1, <2>1, <2>6 DEF Twins, SecondBuild
<1>7. CASE ~ Finish
  <2>1. phase \in {"object", "member"} /\ outcomes' = outcomes
    BY <1>7 DEF Next, BeginObject, SkipAbsent, ReadScalar, BeginList, NextElement, EndObject, InMember, Continue
  <2>2. phase' # "done"
    BY <1>7 DEF Next, BeginObject, SkipAbsent, ReadScalar, BeginList, NextElement, EndObject, Continue, Resume
  <2>3. History(h, n)' /\ Report(h[n].reader)' = Report(h[n].reader)
    BY <1>1, <1>3, HistoryStays
  <2>4. Follows(h, n)'
    <3>1. CASE Failed(reader)
      <4>1. reader'.error = reader.error /\ reader'.pos = reader.pos
        BY <2>1, <3>1, StepInv DEF Final
      <4> QED BY <1>3, <3>1, <4>1 DEF Follows, Failed
    <3>2. CASE ~ Failed(reader)
      <4>1. PICK i \in 0 .. n : core = h[i]
        BY <1>3, <3>2 DEF Follows
      <4>2. i # n /\ i + 1 \in 0 .. n
        BY <1>3, <1>4, <2>1, <4>1
      <4>3. Leads(core, h[i + 1]) /\ Leads(core, core')
        BY <1>5, <1>7, <2>1, <3>2, <4>1, <4>2, StepLeads
      <4>4. reader'.error = h[i + 1].reader.error /\ reader'.pos = h[i + 1].reader.pos
        BY <1>4, <4>3 DEF Leads
      <4>5. CASE Failed(reader')
        <5>1. i + 1 = n
          BY <1>5, <4>2, <4>4, <4>5 DEF Failed
        <5> QED BY <4>4, <4>5, <5>1 DEF Follows, Failed
      <4>6. CASE ~ Failed(reader')
        <5>1. ~ Failed(h[i + 1].reader)
          BY <4>4, <4>6 DEF Failed
        <5>2. core' = h[i + 1]
          BY <1>4, <4>3, <4>6, <5>1 DEF Leads
        <5> QED BY <4>2, <4>6, <5>2 DEF Follows, Failed
      <4> QED BY <4>5, <4>6
    <3> QED BY <3>1, <3>2
  <2> QED BY <1>1, <1>3, <2>1, <2>2, <2>3, <2>4 DEF Twins, SecondBuild
<1> QED BY <1>6, <1>7

\* Nothing changes.
LEMMA TwinsStay ==
    ASSUME Twins, UNCHANGED vars
    PROVE  Twins'
<1>1. UNCHANGED <<data_, throws, reader, stack, phase, exact, outcomes>>
  BY DEF vars
<1>2. core' = core
  BY <1>1 DEF core, Core
<1>3. \A h, n, r : (History(h, n) => History(h, n)') /\ Report(r)' = Report(r)
  BY <1>1, HistoryStays
<1>4. \A h, n : Follows(h, n) => Follows(h, n)'
  BY <1>1, <1>2 DEF Follows, Failed
<1>5. FirstBuild => FirstBuild'
  <2> SUFFICES ASSUME FirstBuild PROVE FirstBuild'
    OBVIOUS
  <2>1. PICK n \in Nat : \E h : History(h, n) /\ h[n] = core
    BY DEF FirstBuild
  <2>2. PICK h : History(h, n) /\ h[n] = core
    BY <2>1
  <2>3. History(h, n)' /\ h[n] = core'
    BY <1>2, <1>3, <2>2
  <2>4. ThrownIfFailed'
    BY <1>1 DEF FirstBuild, ThrownIfFailed, Failed
  <2> QED BY <1>1, <2>3, <2>4 DEF FirstBuild
<1>6. SecondBuild => SecondBuild'
  <2> SUFFICES ASSUME SecondBuild, phase # "done" PROVE SecondBuild'
    BY <1>1 DEF SecondBuild
  <2>1. PICK n \in Nat : \E h : /\ History(h, n) /\ h[n].phase = "finish"
                                /\ outcomes = << Report(h[n].reader) >> /\ Follows(h, n)
    BY DEF SecondBuild
  <2>2. PICK h : /\ History(h, n) /\ h[n].phase = "finish"
                 /\ outcomes = << Report(h[n].reader) >> /\ Follows(h, n)
    BY <2>1
  <2>3. History(h, n)' /\ outcomes' = << Report(h[n].reader)' >> /\ Follows(h, n)'
    BY <1>1, <1>3, <1>4, <2>2
  <2> QED BY <1>1, <2>2, <2>3 DEF SecondBuild
<1> QED BY <1>1, <1>5, <1>6 DEF Twins

-----------------------------------------------------------------------------
\* For every input, every type, every limit and both builds: the read position
\* stays inside the input and every activation within its member list.
THEOREM TypeCorrect == Spec => []TypeOK
<1>1. Inv => TypeOK
  BY DEF Inv
<1> QED BY <1>1, Invariance, PTL

\* The generated Deserialize never nests deeper than maxDepth, and depth_ counts
\* the open objects exactly until something fails.
THEOREM DepthBounded == Spec => []DepthIsNesting
<1>1. Inv => DepthIsNesting
  BY DEF Inv, DepthCovers, DepthIsNesting
<1> QED BY <1>1, Invariance, PTL

\* For every input and every type with lists of itself: what ReadCollection
\* reserves in one decode is at most maxDepth times the bytes of the input behind
\* the first length, however many lists are nested or follow each other.
THEOREM ReservationsBounded == Spec => []ReservedBounded
<1>1. Inv /\ Affordable /\ ReservedBounded /\ [Next]_vars => (Affordable /\ ReservedBounded)'
  BY StepAffordable
<1>2. Init => Affordable /\ ReservedBounded
  BY InitAffordable
<1> QED BY <1>1, <1>2, Invariance, PTL DEF Spec

\* No step of a decode clears or replaces an error or reads behind it.
THEOREM FirstErrorFinal == Spec => ErrorIsFinal
<1>1. Inv /\ [Next]_vars =>
        [Failed(reader) /\ phase # "finish" =>
            reader'.error = reader.error /\ reader'.pos = reader.pos]_vars
  BY StepInv DEF Final
<1> QED BY <1>1, Invariance, PTL DEF Spec, ErrorIsFinal

\* For every input, every list of members and every limit: the build with
\* exceptions and the build without them end a decode with the same error at the
\* same offset, for Deserialize and for DeserializeExact.
THEOREM BuildsSame == Spec => []BuildsAgree
<1>1. Init => Twins
  <2> SUFFICES ASSUME Init PROVE FirstBuild
    BY DEF Init, Twins
  <2> DEFINE h == [i \in {0} |-> core]
  <2>1. History(h, 0) /\ h[0] = core
    BY DEF History, Init, core
  <2>2. ThrownIfFailed
    BY DEF Init, ThrownIfFailed, Failed, NewReader
  <2> HIDE DEF h
  <2> QED BY <2>1, <2>2 DEF FirstBuild, Init
<1>2. Inv /\ Twins /\ [Next]_vars => Twins'
  <2> SUFFICES ASSUME Inv, Twins, [Next]_vars PROVE Twins'
    OBVIOUS
  <2>1. CASE Next
    BY <2>1, FirstBuildStep, SecondBuildStep DEF Twins
  <2>2. CASE UNCHANGED vars
    BY <2>2, TwinsStay
  <2> QED BY <2>1, <2>2
<1>3. Inv /\ Twins => BuildsAgree
  BY DEF Twins, FirstBuild, SecondBuild, BuildsAgree
<1> QED BY <1>1, <1>2, <1>3, Invariance, PTL DEF Spec
=============================================================================
