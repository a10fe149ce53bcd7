---------------------------- MODULE ObjectReader ----------------------------
(***************************************************************************)
(* The Deserialize that MEMORYPACK_DEFINE generates, run by Deserialize,   *)
(* TryDeserialize or DeserializeExact on an arbitrary input.  The type has *)
(* members of three kinds: an int32_t, a std::string and a std::vector of  *)
(* the type itself, so that the recursion of the decoder is there.         *)
(*                                                                         *)
(* Every input is decoded twice, by the build with exceptions and then by  *)
(* the build without them; outcomes keeps how each decode ended.           *)
(***************************************************************************)
EXTENDS MemoryPackReader

CONSTANTS
    Byte,       \* the byte values of the inputs
    MaxInput,   \* bound: the length of the inputs
    Members     \* the member kinds in declaration order

ASSUME ByteAssumption == Byte \subseteq 0 .. 255

ASSUME MembersAssumption == Members \in Seq({"int", "string", "list"})

VARIABLES
    reader,
    stack,      \* one activation of the generated Deserialize per element
    phase,      \* "object": about to call Deserialize; "member": inside it;
                \* "finish": back in the top-level function; "done"
    exact,      \* the top-level function is DeserializeExact
    reserved,   \* history: elements reserved for vectors in this decode
    outcomes    \* history: error and offset, per build

vars == <<data_, throws, reader, stack, phase, exact, reserved, outcomes>>

Init ==
    /\ \E n \in 0 .. MaxInput : data_ \in [1 .. n -> Byte]
    /\ throws = TRUE
    /\ reader = NewReader
    /\ stack = <<>>
    /\ phase = "object"
    /\ exact \in BOOLEAN
    /\ reserved = 0
    /\ outcomes = <<>>

-----------------------------------------------------------------------------
top == stack[Len(stack)]
SetTop(frame) == [stack EXCEPT ![Len(stack)] = frame]
Pop == SubSeq(stack, 1, Len(stack) - 1)

\* The caller goes on: the loop or the next member of the activation below.
Resume(below) == IF below = <<>> THEN "finish" ELSE "member"

\* The step's reader becomes r: an exception unwinds every activation to the
\* top-level function, otherwise the decode goes on with frames and next.
Continue(r, frames, next) ==
    /\ reader' = r
    /\ stack' = IF r.threw THEN <<>> ELSE frames
    /\ phase' = IF r.threw THEN "finish" ELSE next
    /\ UNCHANGED <<data_, throws, exact, outcomes>>

\* ReadObjectHeader and EnterObject at the head of the generated Deserialize.
BeginObject ==
    LET header  == ReadObjectHeader(reader)
        entered == EnterObject(header.to)
        frame   == [count |-> header.val.count, index |-> 0, left |-> 0]
    IN  /\ phase = "object"
        /\ IF header.val.isNull \/ header.to.threw
           THEN Continue(header.to, stack, Resume(stack))
           ELSE IF entered.val
           THEN Continue(entered.to, Append(stack, frame), "member")
           ELSE Continue(entered.to, stack, Resume(stack))
        /\ UNCHANGED reserved

InMember == phase = "member" /\ top.left = 0 /\ top.index < Len(Members)

\* Mutant of SkipAbsent: the index does not advance past an absent member.
SkipAbsentStays ==
    /\ InMember
    /\ top.count <= top.index
    /\ Continue(reader, stack, "member")
    /\ UNCHANGED reserved

\* `count > index++` is false: the sender did not write this member.
SkipAbsent ==
    /\ InMember
    /\ top.count <= top.index
    /\ Continue(reader, SetTop([top EXCEPT !.index = @ + 1]), "member")
    /\ UNCHANGED reserved

ReadScalar ==
    /\ InMember
    /\ top.count > top.index
    /\ Members[top.index + 1] # "list"
    /\ LET r == IF Members[top.index + 1] = "int" THEN ReadInt(reader).to
                ELSE ReadString(reader)
       IN  Continue(r, SetTop([top EXCEPT !.index = @ + 1]), "member")
    /\ UNCHANGED reserved

\* ReadCollection: the length is checked, the vector reserved, the loop begun.
BeginList ==
    /\ InMember
    /\ top.count > top.index
    /\ Members[top.index + 1] = "list"
    /\ LET len == ReadCollectionLength(reader, 1)
           n   == IF len.val > 0 THEN len.val ELSE 0
       IN  /\ Continue(len.to, SetTop([top EXCEPT !.index = @ + 1, !.left = n]), "member")
           /\ reserved' = reserved + n

\* The loop's condition `i < len && !Failed()`.
NextElement ==
    /\ phase = "member"
    /\ top.left > 0
    /\ IF Failed(reader)
       THEN Continue(reader, SetTop([top EXCEPT !.left = 0]), "member")
       ELSE Continue(reader, SetTop([top EXCEPT !.left = @ - 1]), "object")
    /\ UNCHANGED reserved

EndObject ==
    /\ phase = "member"
    /\ top.left = 0
    /\ top.index = Len(Members)
    /\ Continue(LeaveObject(reader), Pop, Resume(Pop))
    /\ UNCHANGED reserved

\* Back in Deserialize, TryDeserialize or DeserializeExact; the second build
\* then gets the same input.
Finish ==
    /\ phase = "finish"
    /\ LET r == IF exact /\ ~ reader.threw THEN RequireEnd(reader) ELSE reader
       IN  outcomes' = Append(outcomes, [error |-> r.error, pos |-> r.pos])
    /\ phase' = IF throws THEN "object" ELSE "done"
    /\ throws' = FALSE
    /\ reader' = NewReader
    /\ reserved' = 0
    /\ UNCHANGED <<data_, stack, exact>>

Next ==
    \/ BeginObject
    \/ SkipAbsent
    \/ ReadScalar
    \/ BeginList
    \/ NextElement
    \/ EndObject
    \/ Finish

\* The decoder is one thread of straight code.
Spec == Init /\ [][Next]_vars /\ WF_vars(Next)

-----------------------------------------------------------------------------
Frames ==
    [count : 0 .. MAX_MEMBER_COUNT, index : 0 .. Len(Members), left : Nat]

\* Every variable has its type; in particular the read position of
\* MemoryPackReader never leaves the input.
TypeOK ==
    /\ data_ \in Seq(Byte)
    /\ throws \in BOOLEAN
    /\ reader \in Readers
    /\ stack \in Seq(Frames)
    /\ phase \in {"object", "member", "finish", "done"}
    /\ exact \in BOOLEAN
    /\ reserved \in Nat
    /\ outcomes \in Seq([error : Errors, pos : 0 .. Len(data_)])

\* The two builds agree on every input: Deserialize fails with the same error
\* at the same offset whether Fail throws or only records the error.
BuildsAgree == phase = "done" => outcomes[1] = outcomes[2]

\* EnterObject stops nesting before the stack grows past the limit, and while
\* nothing has failed depth_ is exactly the number of open objects.
DepthIsNesting ==
    /\ Len(stack) <= MaxDepth
    /\ ~ Failed(reader) /\ phase # "done" => reader.depth = Len(stack)

\* What ReadCollection reserves before it has seen a single element is bounded
\* by the input: on each level of nesting at most one element per byte behind
\* the object header and the length, also when several lists are open at once.
ReservedBounded ==
    reserved > 0 => reserved <= MaxDepth * (Len(data_) - 1 - IntSize)

\* An error is never cleared or replaced, and nothing is read after it.
ErrorIsFinal ==
    [][Failed(reader) /\ phase # "finish" =>
          reader'.error = reader.error /\ reader'.pos = reader.pos]_vars

\* Every decode ends, in both builds.
DecodeEnds == <>(phase = "done")
=============================================================================
