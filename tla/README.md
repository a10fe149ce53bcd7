# A TLA+ model of MemoryPackCpp

MemoryPackCpp is a header-only C++ implementation of the C# MemoryPack wire
format, with a TCP packet layer, a set of sample servers and clients, and a C#
to C++ generator. This directory holds TLA+ models of its stateful parts, the
TLC configurations that check them and, for all but the formatters' exchange,
proofs checked by TLAPS. Line numbers in `PROJECT.json` refer to the files under `src/`.

## 1. Inventory

| Component | State | Operations | Hard behaviour |
|---|---|---|---|
| `BasicPacketFrameParser` (packet.hpp) | `buffer_`, `consumed_`, `maxBodyLength_` | `Feed`, `Compact`, `Reset`, `SetMaxBodyLength` | arbitrary chunking; callbacks that throw; the limit changing mid-frame; when to erase the consumed prefix |
| `WritePacket`, `PeekPacketHeader` (packet.hpp) | the caller's vector | header placeholder, body, patch | a body that fails half-way; a length above 2^31 - 1 |
| `MemoryPackReader` (core.hpp) | `pos_`, `depth_`, `error_` | primitive reads, headers, strings, `Seek`, `EnterObject` | the two builds: with exceptions a failure unwinds, without them the code behind it runs on |
| `MEMORYPACK_DEFINE`, `Deserialize`, `DeserializeExact`, `TryDeserialize` | the call stack | one decode | recursion, members absent on the wire, reservation before reading |
| `VersionTolerantReader` | `count_`, `index_`, `next_`, `lengths_` | constructor, `ReadMember`, `SkipMember`, `Finish` | a length table cut short, members longer or shorter than recorded |
| `MemoryPackWriter` | three buffer modes, write position, `error_` | `Write*`, `Clear`, `Reserve`, `GetBuffer`, `TakeBuffer`, moves | a fixed buffer at its limit, growth, reuse |
| `VersionTolerantWriter` | `body_`, `lengths_`, `finished_` | `WriteMember`, `Finish`, destructor | emission during unwinding, errors of the inner writer |
| formatters of core.hpp, containers.hpp | none; the reader's or writer's | what each type appends and reads | four encodings of null, plausible lengths in damaged input, two versions of a type, UTF-8 and UTF-16 |
| dotnet.hpp | none | layouts; `Guid::Parse`, `FromTimePoint`, `FromDuration`, `Half::FromFloat` and back | rounding, truncation around the epoch, malformed text |
| `ChatServer` | `loggedInUsers`, `rooms`, per-session fields, `globalLock`, per-session write locks | login, join, room chat, private chat, disconnect | a thread per client; blocking sends with the lock held; responses sent after it is released |
| `ChatClient`, `ChatClientConsole` | socket, receive thread, member list | buttons, packet handler | UI thread against receive thread |
| `CppServer` | one `Connection` per client | receive loop, echo, sum, spawn | a loop on top of the parser; sends that stop half-way |
| `CppClient`, `CSharpServer`, `CsClient` | one connection, used in lockstep | `send_exact`, `recv_exact`, the tests of `main`; `ReadExactAsync`, the switch | short reads and writes; a connection lost between any two of them; answers told apart by their order only |
| `tools/cs2cpp` | none kept | parse, order, emit, compare | emit order, `--check` |

How they interact: a server or client reads a socket and calls `Feed`; its
callback builds a `MemoryPackReader` on the body and calls the generated
`Deserialize`; the answer is written by `WritePacket` or by a long-lived
`MemoryPackWriter` into a send buffer. A `VersionTolerantReader` or `Writer` sits
on a reader or a writer that it does not own. The chat server's threads share
two dictionaries under one lock.

What makes each correct: the parser hands out exactly the frames of the stream
and keeps a bounded buffer; the reader stays in its input and fails the same way
in both builds; a writer loses nothing without saying so; a version-tolerant
object is complete or reported, and is read at the recorded offsets; a value is
read as what was sent, or the reader says that it was not; the chat
server's tables agree with its sessions and nobody waits for ever. `PROJECT.json`
lists the hazards behind these one by one, with the line where each bites.

## 2. Modules

| Module | Models | Notes |
|---|---|---|
| `FrameStream` | the promise of the parser, abstractly | stream, handled frames, the next one |
| `PacketFrameParser` | `BasicPacketFrameParser` | refines `FrameStream` |
| `Build` | the build, with or without exceptions | shared by readers and writers |
| `MemoryPackReader` | the reader's members, as operators from reader to reader | used by the next two and by `Codec` |
| `ObjectReader` | one decode of a recursive type, run in one build after the other | |
| `VersionTolerantReader` | the class, on a reader | |
| `MemoryPackWriter` | the writer's members, as operators | used by the next two and by `Codec` |
| `WriterBuffers` | the calls of a program that reuses one writer | |
| `VersionTolerantWriter` | the class, on such a writer | extends `WriterBuffers` |
| `Utf` | transcoding between UTF-8 and UTF-16 | |
| `Codec` | every formatter: what `Write` appends, what `Read` reads | extends reader, writer, `Utf` |
| `DotNet` | the .NET types and their conversions | extends `Codec` |
| `Exchange` | a value on its way from a sender to a receiver | extends `DotNet` |
| `ChatServer` | the server's threads, its lock and its streams | |
| `ChatClients` | windows and other clients, on the chat server | extends `ChatServer` |
| `PacketWriter` | `WritePacket` and a client's reused send buffer | extends `PacketFrameParser` |
| `ServerConnection` | a `Connection` of `CppServer` and its client | extends `PacketWriter` |
| `ConsoleClient` | the two threads of `ChatClientConsole` | |
| `EchoClient` | `CppClient`'s tests against `CSharpServer` | |
| `FramingProofs`, `MemoryPackReaderProofs`, `ObjectReaderProofs`, `VersionTolerantReaderProofs`, `VersionTolerantWriterProofs`, `ChatServerProofs`, `ConsoleClientProofs`, `EchoClientProofs` | - | the theorems of section 5 |
| `MC*` | constants for TLC | |

**Parser.** `buffer_`, `consumed_` and `maxBodyLength_` are the members of the
class. `Feed` is cut where foreign code runs, that is around the callback:
`FeedInsert` (the insert), then for each round of the loop `FeedReject` (bad
length: reset, `false`), `FeedOffer` (frame complete: callback), or `FeedWait`
(incomplete: `Compact`, `true`); the callback is `CallbackReturns` or
`CallbackThrows`. `received`, `dropped` and `handled` are history. The header
layout is a parameter (`HeaderSize`, `ReadBodyLength`), as it is a policy in the
code.

**Reader and object reader.** A reader is a record `[pos, depth, error, threw]`.
`Fail` is the only place where the builds differ: `threw` becomes `throws`. A
step of `ObjectReader` is one header, one member, one list header, one turn of
the list loop or one return; when the reader threw, the step unwinds the whole
stack. Every input is decoded first with exceptions and then without, and
`outcomes` keeps both ends. The type decoded has a list of itself, a string and
an integer, the list first so that the others follow a nested failure. Here strings
are their length checks and the bytes they step over; what they say is in `Codec`.

**Version-tolerant reader.** The program constructs it, reads or skips `Known`
members in any mixture, calls `Finish`, and asks for the error at the end, as
`docs/error-handling.md` advises. `lengths_[index_]` has no check in the code: past the
end the model takes any value of `Garbage`.

**Writer.** A writer is `[mode, buf, pos, error, threw]`. A `Write` call is the
sequence of its appends; an exception skips the rest of them and the build
without exceptions tries the rest. `WriterBuffers` has the calls of a program that
mixes writes, refused values, `Clear`, `Reserve`, `GetBuffer`, `TakeBuffer` and
moves; `intended` is what the buffer should hold. `VersionTolerantWriter` lets the
same program put version-tolerant objects into the writer in between: the buffered
members, `Finish` and a destructor that may run during unwinding. `memberFailed`
is history and excludes from `NoSilentLoss` what `MemberFailureReported` is about.

**Codec.** A type is a record that names its formatter, and a value is plain data:
an integer, a sequence, a set, a function. `Pieces(t, v)` is the sequence of appends
that `Write(v)` makes, and `Read(t, r, old)` takes a reader to the reader after the
call and the value, where `old` is what the variable held: an object's absent
members, a union with an unknown tag and an object refused for its depth leave it as it
was. Both are written with the operators of `MemoryPackWriter` and
`MemoryPackReader`, for the build without exceptions, where the code behind a
failure runs on (`object_reader` shows that the other build fails at the same
place with the same error). `Utf` has the two loops of the transcoding and the count
of units that goes on the wire.

**.NET types.** `DotNet` gives the layouts as types of `Codec` and the conversions
as functions. A float is its three fields; `FromFloat` and `ToFloat` keep the real
widths. 64-bit integers are `LongSize` bytes, and the epoch and the range of the
ticks are scaled with it, so that a time point of the clock always has a tick, as in the code.

**Exchange.** A sender makes a value of the catalog or converts one, serializes it
into a new buffer, its own vector or a fixed buffer; the message is delivered,
cut short anywhere or has a byte changed; the receiver reads it with its own version of
the type into a fresh variable or over an old value, or views a string in place. What it made of a
damaged message it may write again for the next receiver. The properties compare the
outcome with `Seen`, which says what a value is for another version without
mentioning any encoding.

**Chat server.** Each handler is a locked section, the sends that the section
makes (one step each, because each may wait for the receiver's window), the
release, and then the response. The order in which other sessions' packets and
the response reach a stream is therefore the code's. A client may send any
request that the protocol has; one that is gone takes no packets, and the
server's swallowed exceptions are sends that write nothing. What a blocked TCP
window holds is `Window` packets. `reading` says that a client's receive loop still runs: the console client's
ends at a refused login and at a frame over its limit, which only a packet with a
name or a text of some client can be (`StillReading`), and its socket stays open until
its main thread has a line (`ClientCloses`).

**Packet writer.** `Send` is the console client's: clear the buffer, `WritePacket`,
send all of it. `WritePacket` reserves the header, appends the body and patches
the header, as the code does; the length keeps the low bits that the header has
room for, so a body can be too long for it. `BodyThrows` leaves a zero header and
half a body in the buffer; `ClientCloses` may leave a part of a frame on the wire.

**Server connection.** `Run` is the parser's `Feed` with the callback spelled out:
ignored once `alive_` is false, refused (`HandlePacket` returns false), or answered
by `StartReply` and one `Send` step for each call of `send`. The handlers of the
packets are two parameters: which bodies are refused and what the reply is.

**Chat clients.** Each session is that of a window or of any other client, which
sends what it likes. `window` says which buttons are enabled and `listUsers` is the list
box. The server's actions are those of `ChatServer`; the client's actions decide
which of them can be asked for and what the window does with each packet.
`raced` is history: somebody entered or left between the locked section and the
response of the join. The list box looks for the row to delete without regard to case, and the
server's dictionary with it: names are model values, and `CaseFold` says which of them differ by case
only. The row is the first that matches, since the list box does not sort.

**Console client.** One action for each access to `running_` or `sock_` that the
other thread can interleave with: `Stop` is exchange, shutdown, join, close, and
it runs again in the destructor.

**Echo client.** `main` runs its tests one after another on one socket, and goes on
after one that failed. A test is `send_packet`, `recv_packet` and a decode; one
action is one `send` or `recv` of `send_exact` and `recv_exact`, which move any number
of units. The server's loop is cut the same way. `ConnectionLost` may happen between any
two steps; behind it a `send` may succeed, fail (`SendError`) or end the process
(`SendKills`: nothing handles `SIGPIPE`). `recv_packet` does not look at the packet id,
so what a test decodes is whatever body comes next: `Decode` takes any body and may throw on
one that is not the test's own answer.

Operators whose comment begins with "Mutant of" are faulty variants of the
definition that follows them. No specification uses them; they are there to show
that each property fails when the code is changed in that way.

## 3. Runs

| Run | Checks | Bounds |
|---|---|---|
| `parser` | `TypeOK`, `BufferIsSuffix`, `HandledFramesTile`, `DrainedAtReturn`, `BufferBounded`, `FeedEnds`, `ImplementsFrameStream` | two-byte headers, bodies of 0 and 2 bytes and a negative length, limits 1 and 2, threshold 2, chunks of up to 3 bytes, streams of up to 9 |
| `object_reader` | `TypeOK`, `BuildsAgree`, `DepthIsNesting`, `ReservedBounded`, `ErrorIsFinal`, `DecodeEnds` | all inputs of up to 5 bytes over 6 byte values, one-byte integers, depth 2 |
| `vt_reader` | `TypeOK`, `ReadAtRecordedOffset`, `EndsBehindObject` | all inputs of up to 5 bytes over 7 byte values, up to 3 members sent, 2 known, both builds |
| `vt_lengths_noexceptions` | `LengthsAreRead`, **violated** | inputs of up to 4 bytes, without exceptions |
| `writer` | `TypeOK`, `NoSilentLoss` | a fixed buffer of 4 bytes, first growth to 2, 5 bytes between clears, up to 3 members where 2 are allowed, all three modes, both builds |
| `vt_writer_failure` | `MemberFailureReported`, **violated** | without exceptions |
| `samples` | `DeliveredAsWritten`, `AnswersOwed`, `AllAnswered`, `BadPeerClosed` of the server connection; `NoDeadHandle`, `ToldOnce`, `StopEnds`, `EndNoticed` of the console client; `OwnAnswer`, `Verdict`, `ClientEnds` of the echo client | three calls of `WritePacket` with six kinds of packet, lengths of -4 to 3, chunks of up to 4 bytes, a window of 4; four packets and lines; four tests with bodies of 1 to 5 units, a stream of 3 |
| `chat_clients` | `NamesAreOwned`, `RoomsAgree`, `SameChatOrder`, `ListFollowsRoom` | windows of one packet, two names that differ by case only; two clients, one or both of a window, with two rooms and five requests (`TwoClients`), or three windows, each with one of three names, one room, six requests and no chats (`ThreeWindows`) |
| `chat_handlers` | `HandlersEnd`, `LoginAnswered` | two clients, one or both of a window, two names that differ, one room, five requests |
| `exchange` | `TypeOK`, `ReadsBack`, `TruncationReported`, `StringsTranscoded`, `ConversionsFaithful` | 45 exchanges with every formatter, texts of up to 7 bytes or units, 3 elements, depth 2, 286 floats, 7 damaged byte values at every place |
| `half_ties` | `HalfTiesToEven`, **violated** | the same |
| `optional_null` | `OptionalKept`, **violated** | the same |

Why these bounds are enough to be interesting. In `parser` a frame spans up to
three chunks, one chunk can end one frame and begin the next, the buffer passes
the threshold, the half rule and the whole-buffer case of `Compact`, and two
largest frames do not fit the stream without compaction, so that
`BufferBounded` can fail. In `object_reader` a one-byte integer makes each byte
value a header, a length or a content: 254 is a reserved header and the integer
-2, 255 the null header and -1; depth 2 with 5 bytes reaches the refusal of the
third level. In the version-tolerant runs the byte 132 is the marker of a
two-byte length. In `writer` the three-piece call overflows the fixed buffer
after its second piece, and an object of two members does not fit it. In
`chat_clients` five requests are two logins, two joins and a move or a chat, or a login
against a disconnect and another login, and a window of one packet makes every second send
wait. With three windows six requests are three logins and three
joins, after which a list has two rows and members leave; what a chat or a whisper says changes no list, so they
are left out there. The three programs of `samples` share nothing: a behaviour is one of a single program from its own
initial state, while the other two are over (`ConnOver`, `ConsoleOver`, `EchoOver`), in a state that each reaches when
nobody is at its other end. In the server connection the body of four bytes declares a negative length, a body that
threw comes before, between and behind others, a refused or malformed frame
stands at any place, and a reply of three bytes and a window of four make the
second reply wait half-sent.
In the echo client a body above the size of the stream is cut in at least two, a header and the beginning of its
body can be under way together, and there are tests before and behind each place where the connection
is lost.
In the console client four packets put a rejected and a malformed one into one chunk
with others around them. In `exchange` an integer has two bytes, so that a length and
a number can be negative; there is a text of each length of a character and every
pair of units around the surrogates, with the first and the last of each half of them; tags stand on both sides of the wide form; values,
collections, texts and nesting go one past each limit; and the floats lie on and next to
every tie and every end of the range.

The runs of single objects and connections end, as does a chat server without
clients, so their configurations switch deadlock checking off; the parser, the
writer and an exchange can always go on and deadlock is checked for them.

What the violated runs show is in `PROJECT.json` under `findings`:

- without exceptions a truncated length table makes `VersionTolerantReader` look
  up lengths that were never read;
- without exceptions `VersionTolerantWriter` drops the error of a member;
- a `std::optional` of a .NET type without a header of its own (a `Guid`, a
  `DateTime`, a `Decimal`) uses the byte 255 for null, and a value that begins with this
  byte is read as null and shifts everything behind it;
- `Half::FromFloat` rounds ties away from zero, although its comment says to even
  (`ConversionsFaithful` asks for what the code does: the nearest half, from zero for a tie).

More that the modules show and no run is spent on. A console client whose receive loop has ended, at a refused login
or a frame over its limit, keeps its socket open until the user presses
Enter; once its window is full, a thread that tells the room waits for it with `globalLock` held, and
neither that chat nor any later request of anybody gets through. `HandlersEnd` without its premise is violated by this.
A chat session that logs in twice leaves its first name registered for ever, since
`HandleDisconnect` removes only the last one; the name is then refused as in use although nobody
uses it. A `UserEntered` or `UserLeft` that is written between the locked section and the response of a
join is wiped when the client fills its list from the response. Of two members whose names differ by case
only, the row that a `UserLeft` deletes may be that of the one who stays, and the list then shows the name of the other. After a rejected login the console client's receive
thread finds `running_` cleared and does not tell the user that Enter ends the program. Without
exceptions a failed *writer* goes on appending what still fits, and `Seek` moves a
failed reader, so the logged position is not that of the failure, although
`docs/error-handling.md` says that later operations are no-ops.
`ListFollowsRoom` excludes the joins with which a notice races (`raced`), compares names as a
list box does, and speaks of windows only: a client of another make that logs in a second
time leaves its old name in the lists of others. Members appended to an object
inside another are not skipped by an older reader, so what follows is read at the wrong
place, although `docs/faq.md` calls both directions safe; `ReadsBack` excludes this
(`NoneAppendedInside`). A variable that is read into again keeps its old values for absent
members and for a union with an unknown tag, without an error. `maxStringLength` is
counted in bytes for UTF-8 and in units for UTF-16. Under POSIX a `send` to a peer that is gone raises `SIGPIPE`, which
neither `CppServer` nor `CppClient` handles, so the process can end before `SendAll` or
`send_exact` returns false: `SendKills` has this for the client. A `DateTime` far from 1970 wraps in `ToTimePoint`.

## 4. Fairness

The decoders are straight code on one thread: weak fairness of the next step.
For the parser, weak fairness of each step inside `Feed`, and of the callback
ending one way or the other; nothing obliges the caller to feed or to reset. For
the chat server, weak fairness of each thread's steps inside a handler, of
noticing a closed client, and of a receive loop that still runs reading what is there. The console
client's loop may end and leave its socket open, and nothing obliges that client to close it: whoever writes to it then
waits for good. `HandlersEnd` therefore has a premise, `ClientsKeepUp`: nobody keeps a socket open for ever
that it no longer reads. `LoginAnswered` needs no such premise, since a login sends nothing to others; it
begins when the login has `globalLock`. How long a thread waits for the lock is not
stated: `Monitor` makes no promise, and with a bounded number of requests every wait would
end. The window of `ChatClients` reads as long as it is connected
and handles what it is sent. The same holds for the server connection, where the
receiving thread runs, the network delivers and a client that is there reads; and
for the two threads of the console client. In the echo client the two processes run, each with
weak fairness of its next step; the connection need not be lost. Nobody is obliged to send, click, type,
disconnect or close.

## 5. Proofs

Each theorem is about every value of the constants that satisfies the named assumptions of the
modules, and each module of theorems follows one pattern: an inductive invariant `Inv` that
begins with `TypeOK`, a lemma for each action, the invariance, and the properties that follow.

**Parser** (`FramingProofs`, first part). Assumptions: the header is not empty, declared lengths
are integers, limits and threshold are naturals, chunks are byte strings.
`TypeCorrect`, `NoByteLost`, `ExactFraming`, `BoundedBuffer` and `Drained` are the five invariants
of the `parser` run, and `Refinement` says that the parser implements `FrameStream`, with the read
position in the stream as `next` and the received bytes as `stream`. The
inductive invariant is `TypeOK`, `BufferIsSuffix` and
`HandledFramesTile` with two more parts. `HandledInside` says that the headers of
handled frames lie wholly inside the received bytes, so that appending a chunk
cannot change what they declare. `CallbackFrame` ties Feed's local `frameSize`,
which is live across the callback, to the frame at the read position; without it
a step of `CallbackReturns` could advance by anything. The core lemma,
`SameFrame`, says that the header found at `consumed_` in the buffer is the header
found at `dropped + consumed_` in the stream; it follows from `BufferIsSuffix`
and carries every argument about lengths from one to the other.

**Server connection** (`FramingProofs`, second part, on the parser's invariant). Assumptions: a header has two
bytes, the id and the length, and the policy reads the length that `WritePacket` writes; ids and bodies are
bytes; a body's length fits a header byte (it may declare a negative length); a packet that is
not refused has a reply. `Delivery` is `DeliveredAsWritten`. Its invariant `ConnInv` says that there are offsets `c`
at which the frames of the packets written end (`Cut`), that the bytes received and on their way are those
frames up to where the connection broke (`Wire`), and that the frames handled are the first ones and
the read position is the end of the last (`InStep`). `FrameReadBack` then shows that the
header the parser finds there is that of the next packet. `Answers` is `AnswersOwed`: while the connection is
`Going`, what was sent is the replies to the packets handled and a part of the next one (`Live`);
afterwards it is the beginning of what is owed for some number of packets (`Over`), which no later
packet changes.

**Chat server** (`ChatServerProofs`), with any finite set of sessions, any names and rooms, any
window and any number of requests, and for the specification with the windows. The value `None` is none
of them. `NamesOwned`, `RoomsConsistent`
and `ChatOrder` are `NamesAreOwned`, `RoomsAgree` and `SameChatOrder`; `TypeCorrect` is the type invariant
with the bound on the streams. The invariant adds that the thread in a locked section owns `globalLock`
(`LockHeld`), that only such a thread has packets left to send (`QuietUnlocked`), that whoever responds
has a response (`AnswerReady`) and that a session without a client has no name (`NamedWhenAccepted`). The order of the chats rests on two more
parts: the chats of a stream carry growing request numbers (`ChatsIncrease`), and a chat that a locked
section has still to send is that of the last request, newer than everything
its receiver got, and the only one for it (`ChatsToCome`). The lock is what makes the second part inductive: while one section sends, no
other request is numbered. The windows only restrict which server steps are taken
(`ClientsStepIsServerStep`), so every invariant of the server is one of theirs.

`ListShowsRoom` is `ListFollowsRoom`, for any number of windows and any way to leave out the case of names (no response is `None`). Its invariant `ListInv` speaks of the states in which every
session has a window (`AllWindows`). It compares each list not with the room but with the sessions that the
window has been `Told` of: a mate whose `UserEntered` a locked section has still to send is not yet one of them,
one whose `UserLeft` it has still to send still is. `MovesInOrder`, `MovesAgree` and `ToldApart` say which notices a section may
still have to send, that they agree with the room table, and that no two sessions told of share a name. `WindowState` keeps the window
no further than its server thread. `ListAgrees` is the core: what the list becomes when
the packets on the wire are handled in order `Shows` the sessions told of, that is, there is a bijection between its rows and these sessions that
respects names but for their case; or the response of the join, not yet sent, names them. A bijection, because two
rows may match one name: when the row that is deleted was that of another (`RowDeleted`), the row left over takes its place. `Becomes` states this with the sequence of the lists in between, so that a packet can be added at one end and taken
from the other without induction. When no section sends and the wire is empty, the sessions told of are the mates.

**Console client** (`ConsoleClientProofs`), for conversations of any length. `HandleAlive` is `NoDeadHandle` and `AtMostOnce` is
`ToldOnce`. `ThreadHasSocket` is the order of shutdown, join and close; `OneTicket` says that
`running_` is a ticket that one of the two exchanges takes, and that only its taker may tell the user.

**Echo client** (`EchoClientProofs`), for any number of tests, requests and answers of any size and any window. Assumptions: the number
of tests, the window and the sizes are naturals. `AnswersMatch` is `OwnAnswer` and `ExitTells` is `Verdict`. A piece of a stream is described
by the frame it belongs to and its place in it (`Units`), which cutting and joining respect (`UnitsCut`,
`UnitsJoin`). The invariant says so for each side: what the server has is the beginning of the next request
(`ServerReadsNext`) and what it has to write the end of the last answer (`ServerWritesLast`); what lies before the
client is the answer of this very test, and nothing when it does not receive (`ClientSide`). `InStep` ties the two
together while the connection is there, and `Outcome` says that a test fails only when it is gone. The last is what keeps
a later test from decoding an earlier answer: the client that goes on after a failure has lost all that was on its way, and gets nothing more.

**Readers** (`MemoryPackReaderProofs`). Assumptions: bytes are at most 255, integers have one, two or four of
them, limits are naturals. The lemmas say of every member of the reader that it stays in its type and inside the
input, reads forward, and after a failure neither moves nor changes the error (`After`), in
both builds.

**Object reader** (`ObjectReaderProofs`), for every list of members, every input and every limit. `DepthBounded` is `DepthIsNesting`, `FirstErrorFinal` the
action property `ErrorIsFinal`, `ReservationsBounded` is `ReservedBounded`, `TypeCorrect` is `TypeOK`. The
invariant ties the phase to the stack (`StackFitsPhase`) and the depth to the number of open objects, from above
once something failed (`DepthCovers`). The reservations need an argument about what pays for them
(`Affordable`): each element begun has read a header byte of its own, and the others are
still awaited by an open list. `Waiting` bounds what the open lists await level by level, which is where the factor of
the nesting limit comes from.

`BuildsSame` is `BuildsAgree`. `Loose` is a second instance of `MemoryPackReader`, without exceptions, and
`Alike` compares a call in this build with the same call there: same error and offset, and without an error the
same reader; it is shown for every call that the decoder makes. `Ahead` is the step of the `Loose` decoder as a
function, and `Leads` says that a step fails as that function does or goes where it goes (`StepLeads`), whichever build takes it.
A `History` is a decode in which nothing fails before its last step. The invariant `Twins` says that the first build
is at the end of one, and that the second is somewhere on the history of the first, or has failed with the error and at the offset
of its last step, where it stays by `FirstErrorFinal`'s argument. Only the
code that runs on after a failure distinguishes the builds, and that is where the history of the second build ends.

**Version-tolerant reader** (`VersionTolerantReaderProofs`), for every input, any number of members on either side, and any value
that a look-up past the table may give. `MembersAtOffsets` and `EndsBehind` are `ReadAtRecordedOffset` and
`EndsBehindObject`, `TypeCorrect` is `TypeOK`. The invariant says that before the table is complete no member has been read (`Untouched`), that without an error the
table is complete and `next_` is the offset of the next member (`OnTrack`), and that an exception ends the object
(`ThrownIsOver`).

**Writers** (`VersionTolerantWriterProofs`), for every sequence of calls, every size and mode of the buffer and
both builds. Assumptions: what is appended and what the caller's vector holds are bytes; the fixed
capacity and the arguments of `Reserve` are naturals, the first owned size is not 0; at most 249 members fit a header. `TypeCorrect` is `TypeOK` and `NothingLost` is
`NoSilentLoss`. `Wrote(x, y, s)` is the contract of one append: `y` reports a failure, or holds `s` behind what `x`
held. It composes (`WroteBoth`), so a call of several appends keeps it (`PiecesWrote`), and so does `Finish` with the count, the table and the
bytes (`EmittedWrote`); `FlattenTwice` says that the table written length by length is the table of the layout. The
invariant adds that the buffered bytes are the members and the recorded lengths theirs as long as every
member was serialized (`Buffered`), that nothing is left of an object outside its scope (`NoObject`), and
that what a failed member leaves behind is an error, a byte in the target or an object still to be emitted (`Remains`). Without the last part, a step
that finds the target empty could forget the failure although `intended` is not empty.

Sums of lengths, the offsets `c`, the joined replies, the doubled sizes and the appends of a call are recursive functions. What they compute is
proved by induction over the naturals with a *set* in the place of the predicate (`Induct`, from the existence of least
elements), and their existence by the same means (`SumsExist`, `JoinsExist`, `DoublesExist`, `RunsExist`).

What is checked by TLC only, and why:

- the liveness properties (`FeedEnds`, `DecodeEnds`, `HandlersEnd`, `LoginAnswered`, `AllAnswered`, `BadPeerClosed`,
  `StopEnds`, `EndNoticed`, `ClientEnds`): temporal reasoning with fairness is beyond these provers;
- `Exchange`'s properties: `Codec`, `DotNet` and `Exchange` recurse over types with `RECURSIVE`
  operators, which TLAPS does not support.

## 6. Plan

Built so far, in this order: the parser with its abstraction and proofs, the
readers, the writers, the chat server, the packet writer, the server connection,
the two chat clients, the formatters, the .NET types and their exchange, the echo client, and
the proofs of the chat server, the console client, the readers, the server connection, the writers, the windows' lists,
the echo client and the two builds. To do: a second click on Login before the first answer, with two sockets to a window.

## 7. Not modelled

Byte swapping on big-endian targets, allocation failure, the text of messages and
logs, `SubReader` and options changed between two reads, re-entrant use
of a parser from its own callback, socket set-up, and a bool that is copied from a damaged
byte into a `std::optional<bool>` or a `std::array<bool>`, whose value the language leaves
undefined. `CsClient` does in C# what `CppClient` does, on one thread and with one request at a
time, and has no module of its own.
The generator cs2cpp parses and formats text in one pass and keeps no state: a model of
it would be its transliteration. Tests, fuzzers, benchmarks and examples exercise the
library and are not part of it. `PROJECT.json` gives the reason for each component.
