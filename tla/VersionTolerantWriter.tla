----------------------- MODULE VersionTolerantWriter -----------------------
(***************************************************************************)
(* A program that reuses one MemoryPackWriter and puts version-tolerant    *)
(* objects into it.  VersionTolerantWriter of include/memorypack/core.hpp  *)
(* serializes the members into a buffer of its own, and Finish, or the     *)
(* destructor when Finish was not called, emits the member count, the      *)
(* table of lengths and the buffered bytes to the target w (out_).         *)
(***************************************************************************)
EXTENDS WriterBuffers

CONSTANTS
    MAX_MEMBER_COUNT,   \* 249 in the code
    Values,             \* the members, each the sequence of its appends
    MaxMembers          \* bound: members written to one object

ASSUME MemberCountAssumption == MAX_MEMBER_COUNT \in 0 .. 249

ASSUME ValuesAssumption == Values \subseteq Seq(Seq(0 .. 255))

VARIABLES
    body_, lengths_, finished_,     \* the members of the class
    phase,          \* "none", "open" or, after an exception, "unwinding"
    members,        \* history: the members written whole before Finish
    memberFailed    \* history: a member since w was emptied was not serialized

own  == <<body_, lengths_, finished_>>
vars == <<throws, w, intended, own, phase, members, memberFailed>>

Init ==
    /\ BuffersInit
    /\ body_ = NewWriter("owned", <<>>)
    /\ lengths_ = <<>>
    /\ finished_ = FALSE
    /\ members = <<>>
    /\ phase = "none"
    /\ memberFailed = FALSE

\* The scope of the object has ended.
Discard ==
    /\ body_' = NewWriter("owned", <<>>)
    /\ lengths_' = <<>>
    /\ finished_' = FALSE
    /\ members' = <<>>
    /\ phase' = "none"

\* The object that the members make: count, lengths, bytes.
Layout ==
    <<Len(members)>>
      \o Flatten([i \in DOMAIN members |-> Flatten(VarIntLength(Len(members[i])))])
      \o Flatten(members)

\* A call on w itself; whatever empties w forgets what was put into it.
Call ==
    /\ phase = "none"
    /\ BufferCall
    /\ memberFailed' = (memberFailed /\ (Size(w') > 0 \/ WriterFailed(w')))
    /\ UNCHANGED <<own, phase, members>>

\* VersionTolerantWriter object(w);
Open ==
    /\ phase = "none"
    /\ Fits(1)
    /\ phase' = "open"
    /\ UNCHANGED <<throws, w, intended, own, members, memberFailed>>

\* WriteMember(value), also after Finish, when nothing will emit the member; a
\* value that cannot be encoded (refused) fails after its first appends, as a
\* header above 249 members or an oversized container does.
WriteMember(value, refused) ==
    LET written == WritePieces(body_, value)
        after   == IF refused THEN WriterFail(written, "LengthLimit") ELSE written
    IN  /\ phase = "open"
        /\ Len(lengths_) < MaxMembers
        /\ Fits(2 + Len(lengths_) + Size(body_) + Len(Flatten(value)))
        /\ body_' = after
        /\ lengths_' = IF after.threw THEN lengths_
                       ELSE Append(lengths_, Size(after) - Size(body_))
        /\ phase' = IF after.threw THEN "unwinding" ELSE "open"
        /\ members' = IF refused \/ finished_ THEN members
                      ELSE Append(members, SubSeq(after.buf, Size(body_) + 1, Size(after)))
        /\ memberFailed' = (memberFailed \/ (refused /\ ~ finished_))
        /\ UNCHANGED <<throws, w, intended, finished_>>

\* What Finish makes of the target: header, lengths, bytes, and on too many
\* members a header that is refused.
Emitted ==
    LET header == WriteObjectHeader(w, Len(lengths_), MAX_MEMBER_COUNT)
        table  == Flatten([i \in DOMAIN lengths_ |-> VarIntLength(lengths_[i])])
    IN  IF Len(lengths_) > MAX_MEMBER_COUNT THEN WriterFail(w, "InvalidHeader")
        ELSE IF header.threw THEN header
        ELSE WritePieces(header, Append(table, GetSpan(body_)))

\* Finish(), called by the program; its exception leaves the object's scope.
Finish ==
    /\ phase = "open"
    /\ ~ finished_
    /\ finished_' = TRUE
    /\ Returns(Emitted, intended \o Layout)
    /\ phase' = IF Emitted.threw THEN "unwinding" ELSE "open"
    /\ UNCHANGED <<throws, body_, lengths_, members, memberFailed>>

\* Mutant of Destroy: an object that was finished is emitted again.
DestroyAgain ==
    /\ phase \in {"open", "unwinding"}
    /\ Returns(Emitted, IF finished_ THEN intended ELSE intended \o Layout)
    /\ Discard
    /\ UNCHANGED <<throws, memberFailed>>

\* The destructor, at the end of the scope or during unwinding: Finish unless it
\* ran before, and its exception is swallowed.
Destroy ==
    /\ phase \in {"open", "unwinding"}
    /\ IF finished_ THEN UNCHANGED <<w, intended>>
       ELSE Returns(Emitted, intended \o Layout)
    /\ Discard
    /\ UNCHANGED <<throws, memberFailed>>

Next ==
    \/ Call
    \/ Open
    \/ \E value \in Values, refused \in BOOLEAN : WriteMember(value, refused)
    \/ Finish
    \/ Destroy

Spec == Init /\ [][Next]_vars

-----------------------------------------------------------------------------
\* Every variable has its type; neither write position leaves its buffer.
TypeOK ==
    /\ WriterTypeOK
    /\ body_.mode = "owned"
    /\ body_.pos \in 0 .. Len(body_.buf)
    /\ lengths_ \in Seq(Nat)
    /\ finished_ \in BOOLEAN
    /\ phase \in {"none", "open", "unwinding"}
    /\ memberFailed \in BOOLEAN

\* A writer that reports no error holds every byte it was given since it was
\* last emptied, in order: growing, trimming, reusing and moving lose nothing, a
\* fixed buffer never truncates silently, and a version-tolerant object whose
\* members were all serialized is there whole and once, whether Finish or the
\* destructor emitted it and whatever the destructor swallowed.
NoSilentLoss ==
    ~ WriterFailed(w) /\ ~ memberFailed => GetSpan(w) = intended

\* Without exceptions, a failure to serialize a member reaches the program in
\* the error state of the target writer.
MemberFailureReported ==
    phase = "none" /\ memberFailed /\ ~ throws => WriterFailed(w)
=============================================================================
