----------------------- MODULE VersionTolerantReader -----------------------
(***************************************************************************)
(* VersionTolerantReader of include/memorypack/core.hpp: an object whose   *)
(* members are preceded by their byte lengths, read by a program that      *)
(* knows some number of members, in either build.  The program constructs  *)
(* the reader, reads or skips the members it knows in order, calls         *)
(* Finish, and looks at Failed() at the end, as docs/error-handling.md     *)
(* advises.                                                                *)
(***************************************************************************)
EXTENDS MemoryPackReader

CONSTANTS
    Byte,       \* the byte values of the inputs
    HeaderByte, \* bound: the object headers of the inputs
    MaxInput,   \* bound: the length of the inputs
    Known,      \* how many members the local type has
    Builds,     \* the builds looked at, as values of throws
    Garbage     \* what reading past the end of lengths_ may return

ASSUME ByteAssumption == Byte \subseteq 0 .. 255

ASSUME ProgramAssumption ==
    /\ MaxInput \in Nat
    /\ Known \in Nat
    /\ Builds \subseteq BOOLEAN
    /\ Garbage \subseteq Nat

VARIABLES
    reader,                                     \* *in_
    isNull_, count_, index_, next_, lengths_,   \* the members of the class
    calls,      \* members read or skipped so far
    got,        \* the members that Read was run for, with the offset it began at
    bodyAt,     \* history: where the members begin
    phase       \* "construct", "lengths", "members", "done"

vtr  == <<isNull_, count_, index_, next_, lengths_>>
vars == <<data_, throws, reader, vtr, calls, got, bodyAt, phase>>

Init ==
    /\ \E n \in 0 .. MaxInput : data_ \in [1 .. n -> Byte]
    /\ data_ # <<>> => data_[1] \in HeaderByte
    /\ throws \in Builds
    /\ reader = NewReader
    /\ isNull_ = FALSE
    /\ count_ = 0
    /\ index_ = 0
    /\ next_ = 0
    /\ lengths_ = <<>>
    /\ calls = 0
    /\ got = {}
    /\ bodyAt = 0
    /\ phase = "construct"

\* The constructor: the object header, then the table of member lengths, which
\* is left at the first length that fails.
ReadHeader ==
    LET header == ReadObjectHeader(reader)
    IN  /\ phase = "construct"
        /\ reader' = header.to
        /\ isNull_' = header.val.isNull
        /\ count_' = header.val.count
        /\ phase' = IF header.to.threw THEN "done"
                    ELSE IF header.val.isNull THEN "members" ELSE "lengths"
        /\ UNCHANGED <<data_, throws, index_, next_, lengths_, calls, got, bodyAt>>

InTable == Len(lengths_) < count_ /\ ~ Failed(reader)

ReadLength ==
    LET len == ReadVarIntLength(reader)
    IN  /\ phase = "lengths"
        /\ InTable
        /\ reader' = len.to
        /\ lengths_' = IF len.to.threw THEN lengths_ ELSE Append(lengths_, len.val)
        /\ phase' = IF len.to.threw THEN "done" ELSE "lengths"
        /\ UNCHANGED <<data_, throws, isNull_, count_, index_, next_, calls, got, bodyAt>>

EndTable ==
    /\ phase = "lengths"
    /\ ~ InTable
    /\ next_' = reader.pos
    /\ bodyAt' = reader.pos
    /\ phase' = "members"
    /\ UNCHANGED <<data_, throws, reader, isNull_, count_, index_, lengths_, calls, got>>

NoMember == isNull_ \/ index_ >= count_

\* lengths_[index]: an operator[] with no check.
LengthAt(index) == IF index < Len(lengths_) THEN {lengths_[index + 1]} ELSE Garbage

\* ReadMember or SkipMember on a member that the sender did not include.
Absent ==
    /\ phase = "members"
    /\ calls < Known
    /\ NoMember
    /\ calls' = calls + 1
    /\ UNCHANGED <<data_, throws, reader, vtr, got, bodyAt, phase>>

\* Mutant of ReadMember: the next member is expected where Read stopped.
ReadMemberTrusting ==
    /\ phase = "members"
    /\ calls < Known
    /\ ~ NoMember
    /\ LET at   == Seek(reader, next_)
           read == ReadString(at)
       IN  IF Failed(at)
           THEN /\ reader' = at
                /\ UNCHANGED <<next_, got>>
           ELSE /\ reader' = read
                /\ next_' = read.pos
                /\ got' = got \cup {<<index_, at.pos>>}
    /\ index_' = index_ + 1
    /\ calls' = calls + 1
    /\ phase' = IF reader'.threw THEN "done" ELSE "members"
    /\ UNCHANGED <<data_, throws, isNull_, count_, lengths_, bodyAt>>

\* ReadMember(out): to the member's offset, Read, to the end of the member.  An
\* exception leaves next_ behind; a failed reader returns before Read.
ReadMember ==
    /\ phase = "members"
    /\ calls < Known
    /\ ~ NoMember
    /\ \E len \in LengthAt(index_) :
          LET at   == Seek(reader, next_)
              read == ReadString(at)
              done == IF read.threw THEN read ELSE Seek(read, next_ + len)
          IN  IF Failed(at)
              THEN /\ reader' = at
                   /\ UNCHANGED <<next_, got>>
              ELSE /\ reader' = done
                   /\ next_' = IF read.threw THEN next_ ELSE next_ + len
                   /\ got' = got \cup {<<index_, at.pos>>}
    /\ index_' = index_ + 1
    /\ calls' = calls + 1
    /\ phase' = IF reader'.threw THEN "done" ELSE "members"
    /\ UNCHANGED <<data_, throws, isNull_, count_, lengths_, bodyAt>>

SkipOne ==
    /\ ~ NoMember
    /\ \E len \in LengthAt(index_) :
          /\ next_' = next_ + len
          /\ reader' = Seek(reader, next_ + len)
    /\ index_' = index_ + 1
    /\ phase' = IF reader'.threw THEN "done" ELSE "members"
    /\ UNCHANGED <<data_, throws, isNull_, count_, lengths_, got, bodyAt>>

SkipMember ==
    /\ phase = "members"
    /\ calls < Known
    /\ SkipOne
    /\ calls' = calls + 1

\* Finish: its loop skips what the local type does not know, one member a step,
\* then the reader is put behind the object.
FinishSkips ==
    /\ phase = "members"
    /\ calls = Known
    /\ SkipOne
    /\ UNCHANGED calls

\* Mutant of Finish: members the local type does not know are not skipped.
FinishForgetsUnknown ==
    /\ phase = "members"
    /\ calls = Known
    /\ reader' = IF isNull_ THEN reader ELSE Seek(reader, next_)
    /\ phase' = "done"
    /\ UNCHANGED <<data_, throws, vtr, calls, got, bodyAt>>

Finish ==
    /\ phase = "members"
    /\ calls = Known
    /\ index_ >= count_
    /\ reader' = IF isNull_ THEN reader ELSE Seek(reader, next_)
    /\ phase' = "done"
    /\ UNCHANGED <<data_, throws, vtr, calls, got, bodyAt>>

Next ==
    \/ ReadHeader \/ ReadLength \/ EndTable
    \/ Absent \/ ReadMember \/ SkipMember \/ FinishSkips \/ Finish

Spec == Init /\ [][Next]_vars /\ WF_vars(Next)

-----------------------------------------------------------------------------
\* Where member i begins: behind the length table and the members before it.
MemberOffset(i) ==
    LET sum[k \in 0 .. Len(lengths_)] == IF k = 0 THEN bodyAt ELSE sum[k - 1] + lengths_[k]
    IN  sum[i]

\* Every variable has its type; the read position never leaves the input.
TypeOK ==
    /\ data_ \in Seq(Byte)
    /\ throws \in Builds
    /\ reader \in Readers
    /\ isNull_ \in BOOLEAN
    /\ count_ \in 0 .. MAX_MEMBER_COUNT
    /\ index_ \in 0 .. count_
    /\ next_ \in Nat
    /\ lengths_ \in Seq(Nat)
    /\ Len(lengths_) <= count_
    /\ calls \in 0 .. Known
    /\ bodyAt \in 0 .. Len(data_)
    /\ phase \in {"construct", "lengths", "members", "done"}

\* ReadMember decodes a member at the offset the length table gives it and
\* nowhere else, whatever the members before it consumed or failed to.
ReadAtRecordedOffset == \A m \in got : m[2] = MemberOffset(m[1])

\* Without an error, the reader ends exactly behind the object, the members of
\* a newer sender included, so that what follows it is read from its own bytes.
EndsBehindObject ==
    phase = "done" /\ ~ Failed(reader) /\ ~ isNull_ =>
        reader.pos = MemberOffset(count_)

\* The lengths that ReadMember, SkipMember and Finish look up are lengths that
\* were read from the input.
LengthsAreRead ==
    phase = "members" /\ ~ NoMember => index_ < Len(lengths_)
=============================================================================
