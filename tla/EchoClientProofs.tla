-------------------------- MODULE EchoClientProofs --------------------------
(***************************************************************************)
(* Proofs about the echo client and its server, for any number of tests,   *)
(* bodies of any size, any window, and a connection that may be lost at    *)
(* any moment.                                                             *)
(***************************************************************************)
EXTENDS EchoClient, SequenceTheorems, TLAPS

-----------------------------------------------------------------------------
(***************************************************************************)
(* The inductive invariant.                                                *)
(***************************************************************************)
\* s is a piece of the frame of the given byte and size, from behind its first
\* `at' units: the second unit of a frame is the size, all others are the byte.
Units(s, size, byte, at) == \A i \in 1 .. Len(s) : s[i] = IF at + i = 2 THEN size ELSE byte

\* Every variable has its type; that no answer makes the client throw is part of it.
Types ==
    /\ test \in 1 .. Tests + 1
    /\ clientAt \in {"connect", "sendHeader", "sendBody", "recvHeader", "recvBody",
               "decode", "close", "ended"}
    /\ sentUnits \in Nat
    /\ length \in Int
    /\ buf \in Seq(Int)
    /\ read \in Seq(Int)
    /\ unsent \in Seq(Int)
    /\ clientToServer \in Seq(Int)
    /\ serverToClient \in Seq(Int)
    /\ allPassed \in BOOLEAN
    /\ up \in BOOLEAN
    /\ exit \in {"none", "0", "1", "killed"}
    /\ decoded \in Seq(Nat \X Seq(Int))
    /\ serverAt \in {"header", "body", "answer", "write", "stopped"}
    /\ served \in Seq(Nat)

\* How many requests the server has decoded.
Count == Len(served)

\* How far into a request the server has read, and how much of it there is.
ReadPos == IF serverAt \in {"body", "answer"} THEN 2 + Len(read) ELSE Len(read)
Got     == ReadPos + Len(clientToServer)

\* How far into an answer the client has read, and how much of it there is.
RecvPos == IF clientAt = "recvHeader" THEN Len(buf) ELSE 2 + Len(buf)
Here    == RecvPos + Len(serverToClient)

\* How much of the request of this test has been sent.
SentPos == IF clientAt = "sendHeader" THEN sentUnits ELSE 2 + sentUnits

\* The requests are decoded in order, and what is there of the next one is the
\* beginning of its frame.
ServerReadsNext ==
    /\ Count <= Tests
    /\ \A i \in 1 .. Count : served[i] = i
    /\ serverAt \in {"header", "body", "answer"} =>
           /\ Units(read, RequestLength(Count + 1), Count + 1, ReadPos - Len(read))
           /\ Units(clientToServer, RequestLength(Count + 1), Count + 1, ReadPos)
           /\ Got > 0 => Count < Tests /\ Got <= 2 + RequestLength(Count + 1)
    /\ serverAt = "header" => Len(read) < 2
    /\ serverAt \in {"body", "answer"} =>
           request[1] = Count + 1 /\ request[2] = RequestLength(Count + 1)
    /\ serverAt = "body" => Len(read) < RequestLength(Count + 1)
    /\ serverAt = "answer" => Len(read) = RequestLength(Count + 1)

\* While it writes, the server has nothing to read, and what is left is the end
\* of the answer's frame.
ServerWritesLast ==
    serverAt = "write" =>
        /\ Got = 0
        /\ Count > 0
        /\ Len(unsent) \in 1 .. 2 + AnswerLength(Count)
        /\ Units(unsent, AnswerLength(Count), Tests + Count, 2 + AnswerLength(Count) - Len(unsent))

Receiving == clientAt \in {"recvHeader", "recvBody", "decode"}

\* Nothing waits for a client that does not receive; a client that does has a
\* piece of the answer of this very test, and the bytes of no other, before it.
ClientSide ==
    /\ ~ Receiving /\ clientAt # "ended" => buf = <<>> /\ serverToClient = <<>>
    /\ clientAt \in {"sendHeader", "sendBody"} \/ Receiving => test <= Tests
    /\ clientAt = "sendHeader" => sentUnits < 2
    /\ clientAt = "sendBody" => sentUnits < RequestLength(test)
    /\ clientAt = "connect" \/ Receiving => sentUnits = 0
    /\ Receiving =>
           /\ Units(buf, AnswerLength(test), Tests + test, RecvPos - Len(buf))
           /\ Units(serverToClient, AnswerLength(test), Tests + test, RecvPos)
           /\ Here <= 2 + AnswerLength(test)
           /\ Here > 0 => allPassed /\ Count >= test
    /\ clientAt = "recvHeader" => Len(buf) < 2
    /\ clientAt = "recvBody" => length = AnswerLength(test) /\ Len(buf) < length
    /\ clientAt = "decode" => Len(buf) = AnswerLength(test)
    /\ clientAt = "close" => test = Tests + 1

\* A test fails only on a connection that is gone, and until one has failed every
\* test before this one was served and decoded its own answer.
Outcome ==
    /\ \A i \in 1 .. Len(decoded) : decoded[i] = <<i, AnswerBody(i)>>
    /\ allPassed => Len(decoded) = test - 1 /\ Count >= test - 1
    /\ ~ allPassed => ~ up
    /\ (clientAt = "ended") <=> (exit # "none")
    /\ exit = "0" => allPassed /\ test = Tests + 1
    /\ exit \in {"1", "killed"} => ~ up

\* As long as the connection is there, the two sides are in step: the server has
\* what the client sent of this request, or the two have this answer between them.
InStep ==
    /\ clientAt = "connect" => ~ up /\ allPassed /\ test = 1 /\ Count = 0 /\ serverAt = "header" /\ Got = 0
    /\ up => serverAt # "stopped"
    /\ up /\ clientAt \in {"sendHeader", "sendBody"} =>
           Count = test - 1 /\ serverAt \in {"header", "body"} /\ Got = SentPos
    /\ up /\ Receiving =>
           \/ /\ Count = test - 1
              /\ serverAt \in {"header", "body", "answer"}
              /\ Got = 2 + RequestLength(test)
              /\ Here = 0
           \/ /\ Count = test
              /\ Got = 0
              /\ \/ serverAt = "write" /\ Here + Len(unsent) = 2 + AnswerLength(test)
                 \/ serverAt = "header" /\ Here = 2 + AnswerLength(test)
    /\ up /\ clientAt \in {"close", "ended"} => Count = Tests /\ serverAt = "header" /\ Got = 0

Inv == Types /\ ServerReadsNext /\ ServerWritesLast /\ ClientSide /\ Outcome /\ InStep

-----------------------------------------------------------------------------
(***************************************************************************)
(* Pieces of frames.                                                       *)
(***************************************************************************)
\* The first n units of a sequence and the others.
LEMMA Halves ==
    ASSUME NEW s \in Seq(Int), NEW n \in 1 .. Len(s)
    PROVE  /\ Len(s) \in Nat
           /\ SubSeq(s, 1, n) \in Seq(Int)
           /\ Len(SubSeq(s, 1, n)) = n
           /\ \A i \in 1 .. n : SubSeq(s, 1, n)[i] = s[i]
           /\ SubSeq(s, n + 1, Len(s)) \in Seq(Int)
           /\ Len(SubSeq(s, n + 1, Len(s))) = Len(s) - n
           /\ \A i \in 1 .. Len(s) - n : SubSeq(s, n + 1, Len(s))[i] = s[n + i]
<1>1. Len(s) \in Nat
  OBVIOUS
<1>2. ASSUME NEW i \in 1 .. n PROVE SubSeq(s, 1, n)[i] = s[i]
  BY <1>1
<1>3. ASSUME NEW i \in 1 .. Len(s) - n PROVE SubSeq(s, n + 1, Len(s))[i] = s[n + i]
  BY <1>1
<1>4. \A i \in 1 .. n : s[i] \in Int
  BY <1>1
<1>5. \A i \in n + 1 .. Len(s) : s[i] \in Int
  BY <1>1
<1>6. SubSeq(s, 1, n) \in Seq(Int) /\ Len(SubSeq(s, 1, n)) = n
  BY <1>1, <1>4, SubSeqProperties
<1>7. SubSeq(s, n + 1, Len(s)) \in Seq(Int) /\ Len(SubSeq(s, n + 1, Len(s))) = Len(s) - n
  BY <1>1, <1>5, SubSeqProperties
<1> QED BY <1>1, <1>2, <1>3, <1>6, <1>7

\* Two sequences one behind the other.
LEMMA Joined ==
    ASSUME NEW s \in Seq(Int), NEW t \in Seq(Int)
    PROVE  /\ s \o t \in Seq(Int)
           /\ Len(s) \in Nat /\ Len(t) \in Nat
           /\ Len(s \o t) = Len(s) + Len(t)
           /\ \A i \in 1 .. Len(s) : (s \o t)[i] = s[i]
           /\ \A i \in 1 .. Len(t) : (s \o t)[Len(s) + i] = t[i]
           /\ \A i \in Len(s) + 1 .. Len(s) + Len(t) : (s \o t)[i] = t[i - Len(s)]
BY ConcatProperties

\* A piece of a frame is cut into pieces of it.
LEMMA UnitsCut ==
    ASSUME NEW s \in Seq(Int), NEW n \in 1 .. Len(s), NEW size, NEW byte, NEW at \in Int,
           Units(s, size, byte, at)
    PROVE  /\ Units(SubSeq(s, 1, n), size, byte, at)
           /\ Units(SubSeq(s, n + 1, Len(s)), size, byte, at + n)
<1> DEFINE a == SubSeq(s, 1, n)
           b == SubSeq(s, n + 1, Len(s))
<1>1. /\ Len(s) \in Nat /\ Len(a) = n /\ Len(b) = Len(s) - n
      /\ \A i \in 1 .. n : a[i] = s[i]
      /\ \A i \in 1 .. Len(s) - n : b[i] = s[n + i]
  BY Halves
<1> HIDE DEF a, b
<1>2. Units(a, size, byte, at)
  BY <1>1 DEF Units
<1>3. Units(b, size, byte, at + n)
  BY <1>1 DEF Units
<1> QED BY <1>2, <1>3 DEF a, b

\* A piece and the piece behind it are a piece.
LEMMA UnitsJoin ==
    ASSUME NEW s \in Seq(Int), NEW t \in Seq(Int), NEW size, NEW byte, NEW at \in Int,
           Units(s, size, byte, at), Units(t, size, byte, at + Len(s))
    PROVE  Units(s \o t, size, byte, at)
<1>1. /\ Len(s) \in Nat /\ Len(t) \in Nat
      /\ Len(s \o t) = Len(s) + Len(t)
      /\ \A i \in 1 .. Len(s) : (s \o t)[i] = s[i]
      /\ \A i \in Len(s) + 1 .. Len(s) + Len(t) : (s \o t)[i] = t[i - Len(s)]
  BY Joined
<1>2. ASSUME NEW i \in 1 .. Len(s \o t)
      PROVE  (s \o t)[i] = IF at + i = 2 THEN size ELSE byte
  <2>1. CASE i <= Len(s)
    BY <1>1, <2>1 DEF Units
  <2>2. CASE i > Len(s)
    <3>1. i - Len(s) \in 1 .. Len(t) /\ at + Len(s) + (i - Len(s)) = at + i
      BY <1>1, <2>2
    <3>2. t[i - Len(s)] = IF at + Len(s) + (i - Len(s)) = 2 THEN size ELSE byte
      BY <3>1 DEF Units
    <3>3. (s \o t)[i] = t[i - Len(s)]
      BY <1>1, <2>2
    <3> QED BY <3>1, <3>2, <3>3
  <2> QED BY <1>1, <2>1, <2>2
<1> QED BY <1>2 DEF Units

\* No units are a piece of every frame.
LEMMA UnitsNone == \A size, byte, at : Units(<<>>, size, byte, at)
BY DEF Units

\* A body is its byte, repeated.
LEMMA BodyUnits ==
    ASSUME NEW byte \in Int, NEW size \in Nat
    PROVE  /\ Body(byte, size) \in Seq(Int)
           /\ Len(Body(byte, size)) = size
           /\ Units(Body(byte, size), size, byte, 2)
<1>1. Body(byte, size) \in Seq(Int) /\ Len(Body(byte, size)) = size
  BY DEF Body
<1> QED BY <1>1 DEF Body, Units

\* A header's units are those of its frame.
LEMMA HeaderUnits ==
    ASSUME NEW byte \in Int, NEW size \in Nat
    PROVE  /\ Header(byte, Body(byte, size)) \in Seq(Int)
           /\ Len(Header(byte, Body(byte, size))) = 2
           /\ Units(Header(byte, Body(byte, size)), size, byte, 0)
<1>1. Header(byte, Body(byte, size)) = <<byte, size>>
  BY BodyUnits DEF Header
<1> QED BY <1>1 DEF Units

\* So a whole frame is one piece.
LEMMA FrameUnits ==
    ASSUME NEW byte \in Int, NEW size \in Nat
    PROVE  LET frame == Header(byte, Body(byte, size)) \o Body(byte, size)
           IN  /\ frame \in Seq(Int)
               /\ Len(frame) = 2 + size
               /\ Units(frame, size, byte, 0)
<1>1. PICK h, b : h = Header(byte, Body(byte, size)) /\ b = Body(byte, size)
  OBVIOUS
<1>2. h \in Seq(Int) /\ b \in Seq(Int)
  BY <1>1, BodyUnits, HeaderUnits
<1>3. Len(h) = 2 /\ Len(b) = size
  BY <1>1, BodyUnits, HeaderUnits
<1>4. h \o b \in Seq(Int) /\ Len(h \o b) = Len(h) + Len(b)
  BY <1>2, Joined
<1>5. Units(h, size, byte, 0)
  BY <1>1, HeaderUnits
<1>6. Units(b, size, byte, 0 + Len(h))
  BY <1>1, <1>3, BodyUnits
<1>7. Units(h \o b, size, byte, 0)
  BY <1>2, <1>5, <1>6, UnitsJoin
<1>8. Len(h \o b) = 2 + size
  BY <1>3, <1>4
<1> QED BY <1>1, <1>4, <1>7, <1>8

\* A piece as long as the body, from behind the header, is the body.
LEMMA WholeBody ==
    ASSUME NEW byte \in Int, NEW size \in Nat, NEW s \in Seq(Int),
           Len(s) = size, Units(s, size, byte, 2)
    PROVE  s = Body(byte, size)
<1>1. DOMAIN s = 1 .. size /\ s = [i \in 1 .. size |-> s[i]]
  OBVIOUS
<1>2. \A i \in 1 .. size : s[i] = byte
  BY DEF Units
<1> QED BY <1>1, <1>2 DEF Body

\* A part in the middle of a piece.
LEMMA UnitsPart ==
    ASSUME NEW s \in Seq(Int), NEW m \in Nat, NEW n \in 1 .. Len(s) - m,
           NEW size, NEW byte, NEW at \in Int, Units(s, size, byte, at)
    PROVE  /\ SubSeq(s, m + 1, m + n) \in Seq(Int)
           /\ Len(SubSeq(s, m + 1, m + n)) = n
           /\ Units(SubSeq(s, m + 1, m + n), size, byte, at + m)
<1>1. PICK part : part = SubSeq(s, m + 1, m + n)
  OBVIOUS
<1>2. Len(s) \in Nat /\ \A i \in m + 1 .. m + n : s[i] \in Int
  OBVIOUS
<1>3. part \in Seq(Int) /\ Len(part) = n
  BY <1>1, <1>2, SubSeqProperties
<1>4. \A i \in 1 .. n : part[i] = s[m + i]
  BY <1>1, <1>2
<1>5. ASSUME NEW i \in 1 .. n
      PROVE  part[i] = IF at + m + i = 2 THEN size ELSE byte
  <2>1. m + i \in 1 .. Len(s) /\ at + (m + i) = at + m + i
    BY <1>2
  <2>2. s[m + i] = IF at + (m + i) = 2 THEN size ELSE byte
    BY <2>1 DEF Units
  <2> QED BY <1>4, <2>1, <2>2
<1>6. Units(part, size, byte, at + m)
  BY <1>3, <1>5 DEF Units
<1> QED BY <1>1, <1>3, <1>6

-----------------------------------------------------------------------------
(***************************************************************************)
(* The client's steps.                                                     *)
(***************************************************************************)
\* The lengths of all that a state holds are naturals.
LEMMA Lengths ==
    ASSUME Types
    PROVE  /\ Tests \in Nat
           /\ Count \in Nat
           /\ Len(buf) \in Nat /\ Len(read) \in Nat /\ Len(unsent) \in Nat
           /\ Len(clientToServer) \in Nat /\ Len(serverToClient) \in Nat /\ Len(decoded) \in Nat
           /\ \A k \in 1 .. Tests : RequestLength(k) \in Nat /\ AnswerLength(k) \in Nat
BY TestsAssumption, LengthsAssumption DEF Types, Count

\* Before the connection there is nothing anywhere.
LEMMA InitInv == EchoInit => Inv
<1> SUFFICES ASSUME EchoInit PROVE Inv
  OBVIOUS
<1>1. /\ <<>> \in Seq(Int) /\ <<>> \in Seq(Nat) /\ <<>> \in Seq(Nat \X Seq(Int))
      /\ Len(<<>>) = 0
  OBVIOUS
<1>2. Types
  <2>1. test \in 1 .. Tests + 1 /\ sentUnits \in Nat /\ length \in Int
    BY TestsAssumption DEF EchoInit
  <2>2. /\ buf \in Seq(Int) /\ read \in Seq(Int) /\ unsent \in Seq(Int)
        /\ clientToServer \in Seq(Int) /\ serverToClient \in Seq(Int)
        /\ decoded \in Seq(Nat \X Seq(Int)) /\ served \in Seq(Nat)
    BY <1>1 DEF EchoInit
  <2> QED BY <2>1, <2>2, Zenon DEF EchoInit, Types
<1>3. Count = 0 /\ ReadPos = 0 /\ Got = 0
  BY DEF EchoInit, Count, ReadPos, Got
<1>4. ServerReadsNext /\ ServerWritesLast
  BY <1>3, UnitsNone, TestsAssumption DEF EchoInit, ServerReadsNext, ServerWritesLast
<1>5. ClientSide /\ Outcome
  BY <1>3 DEF EchoInit, ClientSide, Receiving, Outcome
<1>6. InStep
  BY <1>3 DEF EchoInit, InStep, Receiving
<1> QED BY <1>2, <1>4, <1>5, <1>6 DEF Inv

\* A step that leaves the server and what it reads alone.
LEMMA ServerAlone ==
    ASSUME ServerReadsNext, ServerWritesLast, UNCHANGED <<serverVars, clientToServer>>
    PROVE  /\ ServerReadsNext' /\ ServerWritesLast'
           /\ Got' = Got /\ Count' = Count /\ serverAt' = serverAt
BY DEF ServerReadsNext, ServerWritesLast, serverVars, Count, Got, ReadPos

\* The connection is made, or is not to be had.
LEMMA ConnectInv == ASSUME Inv, ConnectServer \/ ConnectServerFails PROVE Inv'
<1> USE DEF Inv
<1>1. ServerReadsNext' /\ ServerWritesLast' /\ Got' = Got /\ Count' = Count /\ serverAt' = serverAt
  BY ServerAlone DEF ConnectServer, ConnectServerFails
<1>2. Tests \in Nat /\ test \in Nat
  BY TestsAssumption DEF Types
<1>3. Types'
  BY <1>2 DEF ConnectServer, ConnectServerFails, Types, serverVars
<1>4. ClientSide'
  BY <1>2 DEF ConnectServer, ConnectServerFails, ClientSide, InStep, Receiving, Types
<1>5. Outcome'
  BY <1>1, <1>2 DEF ConnectServer, ConnectServerFails, Outcome, InStep, Types
<1>6. InStep'
  BY <1>1, <1>2 DEF ConnectServer, ConnectServerFails, ClientSide, InStep, Receiving, SentPos, Types
<1> QED BY <1>1, <1>3, <1>4, <1>5, <1>6

\* What send_exact is given is the header or the body of this test's request.
LEMMA SendingUnits ==
    ASSUME Types, ClientSide, clientAt \in {"sendHeader", "sendBody"}
    PROVE  /\ test \in 1 .. Tests
           /\ Sending \in Seq(Int)
           /\ Len(Sending) = IF clientAt = "sendHeader" THEN 2 ELSE RequestLength(test)
           /\ Units(Sending, RequestLength(test), test, SentPos - sentUnits)
<1>1. test \in 1 .. Tests /\ test \in Int /\ RequestLength(test) \in Nat /\ sentUnits \in Nat
  BY Lengths DEF Types, ClientSide
<1>2. SentPos - sentUnits = IF clientAt = "sendHeader" THEN 0 ELSE 2
  BY <1>1 DEF SentPos
<1>3. CASE clientAt = "sendHeader"
  BY <1>1, <1>2, <1>3, HeaderUnits DEF Sending, RequestBody
<1>4. CASE clientAt # "sendHeader"
  BY <1>1, <1>2, <1>4, BodyUnits DEF Sending, RequestBody
<1> QED BY <1>1, <1>3, <1>4

\* Where the client is after a send, and how much of its request is sent.
LEMMA SendMoves ==
    ASSUME Inv, NEW n, SendSome(n)
    PROVE  /\ test \in 1 .. Tests /\ test' = test /\ n \in Nat \ {0} /\ sentUnits \in Nat /\ sentUnits' \in Nat
           /\ RequestLength(test) \in Nat
           /\ \/ /\ clientAt' \in {"sendHeader", "sendBody"}
                 /\ SentPos' = SentPos + n
                 /\ clientAt' = "sendHeader" => sentUnits' < 2
                 /\ clientAt' = "sendBody" => sentUnits' < RequestLength(test)
              \/ /\ clientAt' = "recvHeader"
                 /\ sentUnits' = 0
                 /\ SentPos + n = 2 + RequestLength(test)
<1> USE DEF Inv
<1>1. /\ test \in 1 .. Tests
      /\ Len(Sending) = IF clientAt = "sendHeader" THEN 2 ELSE RequestLength(test)
      /\ clientAt \in {"sendHeader", "sendBody"}
  BY SendingUnits DEF SendSome
<1>2. RequestLength(test) \in Nat /\ sentUnits \in Nat /\ Len(Sending) \in Nat
  BY <1>1, Lengths DEF Types
<1>3. n \in 1 .. Len(Sending) - sentUnits
  BY DEF SendSome
<1>4. n \in Nat \ {0} /\ n <= Len(Sending) - sentUnits
  BY <1>2, <1>3
<1>5. CASE sentUnits + n = Len(Sending)
  <2>1. sentUnits' = 0 /\ clientAt' = AfterSend /\ test' = test
    BY <1>5 DEF SendSome
  <2>2. CASE clientAt = "sendHeader" /\ RequestLength(test) > 0
    BY <1>1, <1>2, <1>4, <1>5, <2>1, <2>2 DEF AfterSend, SentPos
  <2>3. CASE ~ (clientAt = "sendHeader" /\ RequestLength(test) > 0)
    BY <1>1, <1>2, <1>4, <1>5, <2>1, <2>3 DEF AfterSend, SentPos
  <2> QED BY <2>2, <2>3
<1>6. CASE sentUnits + n # Len(Sending)
  <2>1. sentUnits' = sentUnits + n /\ clientAt' = clientAt /\ test' = test
    BY <1>6 DEF SendSome
  <2> QED BY <1>1, <1>2, <1>4, <1>6, <2>1 DEF SentPos
<1> QED BY <1>5, <1>6

\* What is sent on a connection continues what the server has of the request.
LEMMA SendContinues ==
    ASSUME Inv, NEW n, SendSome(n), up
    PROVE  /\ clientToServer' \in Seq(Int)
           /\ Len(clientToServer') = Len(clientToServer) + n
           /\ Units(clientToServer', RequestLength(test), test, ReadPos)
<1> USE DEF Inv
<1>1. /\ Sending \in Seq(Int) /\ n \in 1 .. Len(Sending) - sentUnits /\ sentUnits \in Nat
      /\ SentPos - sentUnits \in Int /\ SentPos - sentUnits + sentUnits = SentPos
      /\ Units(Sending, RequestLength(test), test, SentPos - sentUnits)
  <2>1. clientAt \in {"sendHeader", "sendBody"} /\ n \in 1 .. Len(Sending) - sentUnits
    BY DEF SendSome
  <2>2. sentUnits \in Nat
    BY DEF Types
  <2> QED BY <2>1, <2>2, SendingUnits DEF SentPos
<1>2. PICK part : part = SubSeq(Sending, sentUnits + 1, sentUnits + n)
  OBVIOUS
<1>3. part \in Seq(Int) /\ Len(part) = n /\ Units(part, RequestLength(test), test, SentPos - sentUnits + sentUnits)
  BY <1>1, <1>2, UnitsPart
<1>4. clientToServer' = clientToServer \o part
  BY <1>2 DEF SendSome
<1>5. Count + 1 = test /\ serverAt \in {"header", "body"} /\ Got = SentPos
  <2>1. Count = test - 1 /\ serverAt \in {"header", "body"} /\ Got = SentPos
    BY DEF SendSome, InStep
  <2> QED BY <2>1 DEF Types
<1>6. /\ clientToServer \in Seq(Int) /\ Len(clientToServer) \in Nat /\ ReadPos \in Int
      /\ ReadPos + Len(clientToServer) = SentPos
  BY <1>5, Lengths DEF Types, ReadPos, Got
<1>7. Units(clientToServer, RequestLength(test), test, ReadPos)
  BY <1>5 DEF ServerReadsNext
<1>8. Units(part, RequestLength(test), test, ReadPos + Len(clientToServer))
  BY <1>1, <1>3, <1>6
<1>9. Units(clientToServer', RequestLength(test), test, ReadPos)
  BY <1>3, <1>4, <1>6, <1>7, <1>8, UnitsJoin
<1> QED BY <1>3, <1>4, <1>6, <1>9, Joined

\* One send of send_exact.
LEMMA SendPartInv == ASSUME Inv, NEW n, SendSome(n) PROVE Inv'
<1> USE DEF Inv
<1>1. /\ test \in 1 .. Tests /\ test' = test /\ n \in Nat \ {0} /\ sentUnits \in Nat /\ sentUnits' \in Nat
      /\ RequestLength(test) \in Nat
      /\ \/ /\ clientAt' \in {"sendHeader", "sendBody"}
            /\ SentPos' = SentPos + n
            /\ clientAt' = "sendHeader" => sentUnits' < 2
            /\ clientAt' = "sendBody" => sentUnits' < RequestLength(test)
         \/ /\ clientAt' = "recvHeader"
            /\ sentUnits' = 0
            /\ SentPos + n = 2 + RequestLength(test)
  BY SendMoves
<1>2. /\ clientAt \in {"sendHeader", "sendBody"} /\ buf = <<>> /\ serverToClient = <<>>
      /\ UNCHANGED <<test, buf, length, allPassed, exit, decoded, serverAt, read, request,
                     unsent, served, up, serverToClient>>
      /\ Count' = Count /\ ReadPos' = ReadPos
  BY DEF SendSome, serverVars, ClientSide, Receiving, Count, ReadPos
<1>3. /\ ReadPos \in Nat /\ Len(clientToServer) \in Nat /\ Count \in Nat /\ Tests \in Nat
      /\ AnswerLength(test) \in Nat /\ SentPos \in Nat
  BY <1>1, Lengths DEF Types, ReadPos, SentPos
<1>4. up => /\ Count + 1 = test /\ Count = test - 1 /\ serverAt \in {"header", "body"}
            /\ Got = SentPos /\ Got' = SentPos + n
  <2> SUFFICES ASSUME up PROVE /\ Count + 1 = test /\ Count = test - 1 /\ serverAt \in {"header", "body"}
                               /\ Got = SentPos /\ Got' = SentPos + n
    OBVIOUS
  <2>1. Count = test - 1 /\ serverAt \in {"header", "body"} /\ Got = SentPos
    BY <1>2 DEF InStep
  <2>2. Len(clientToServer') = Len(clientToServer) + n
    BY SendContinues
  <2>3. Got' = ReadPos + Len(clientToServer') /\ Got = ReadPos + Len(clientToServer)
    BY <1>2 DEF Got
  <2> QED BY <1>1, <1>3, <2>1, <2>2, <2>3
<1>5. ~ up => clientToServer' = clientToServer /\ Got' = Got
  BY <1>2 DEF SendSome, Got
<1>6. Types'
  <2>1. clientToServer' \in Seq(Int)
    BY <1>5, SendContinues DEF Types
  <2> QED BY <1>1, <1>2, <2>1 DEF Types
<1>7. ServerReadsNext'
  <2>1. CASE up
    <3>1. Units(clientToServer', RequestLength(Count + 1), Count + 1, ReadPos)
      BY <1>4, <2>1, SendContinues
    <3>2. Got' <= 2 + RequestLength(test) /\ Count < Tests
      <4>1. CASE clientAt' = "recvHeader"
        BY <1>1, <1>3, <1>4, <2>1, <4>1
      <4>2. CASE clientAt' \in {"sendHeader", "sendBody"}
        <5>1. SentPos' <= 2 + RequestLength(test)
          <6>1. SentPos' = IF clientAt' = "sendHeader" THEN sentUnits' ELSE 2 + sentUnits'
            BY DEF SentPos
          <6> QED BY <1>1, <4>2, <6>1
        <5> QED BY <1>1, <1>3, <1>4, <2>1, <4>2, <5>1
      <4> QED BY <1>1, <4>1, <4>2
    <3> QED BY <1>2, <1>4, <2>1, <3>1, <3>2 DEF ServerReadsNext
  <2>2. CASE ~ up
    BY <1>2, <1>5, <2>2 DEF ServerReadsNext
  <2> QED BY <2>1, <2>2
<1>8. ServerWritesLast'
  BY <1>2, <1>4, <1>5 DEF ServerWritesLast
<1>9. ClientSide'
  <2>1. Receiving' => clientAt' = "recvHeader" /\ RecvPos' = 0 /\ Here' = 0
    BY <1>1, <1>2 DEF Receiving, RecvPos, Here
  <2>2. Receiving' => RecvPos' - Len(buf') = 0
    BY <1>2, <2>1
  <2> QED BY <1>1, <1>2, <1>3, <2>1, <2>2, UnitsNone DEF ClientSide, Receiving
<1>10. Outcome'
  BY <1>1, <1>2 DEF Outcome
<1>11. InStep'
  <2>1. Receiving' => Here' = 0
    BY <1>1, <1>2 DEF Receiving, RecvPos, Here
  <2> QED BY <1>1, <1>2, <1>3, <1>4, <2>1 DEF InStep, Receiving
<1> QED BY <1>6, <1>7, <1>8, <1>9, <1>10, <1>11

\* A test that returns false does so on a connection that is gone.
LEMMA FailsInv == ASSUME Inv, SendError \/ RecvError PROVE Inv'
<1> USE DEF Inv
<1>1. ServerReadsNext' /\ ServerWritesLast' /\ Got' = Got /\ Count' = Count /\ serverAt' = serverAt
  BY ServerAlone DEF SendError, RecvError
<1>2. /\ test \in 1 .. Tests /\ Tests \in Nat /\ ~ up /\ up' = up /\ exit = "none"
      /\ clientAt \notin {"connect", "ended"}
  <2>1. clientAt \in {"sendHeader", "sendBody"} \/ Receiving
    BY DEF SendError, RecvError, Receiving
  <2>2. clientAt \notin {"connect", "ended"} /\ test <= Tests
    BY <2>1 DEF ClientSide, Receiving
  <2>3. exit = "none"
    BY <2>2 DEF Outcome
  <2>4. ~ up /\ up' = up
    BY DEF SendError, RecvError
  <2> QED BY <2>2, <2>3, <2>4, TestsAssumption DEF Types
<1>3. /\ sentUnits' = 0 /\ buf' = <<>> /\ serverToClient' = <<>>
      /\ allPassed' = FALSE /\ test' = test + 1
      /\ clientAt' = IF test = Tests THEN "close" ELSE "sendHeader"
      /\ UNCHANGED <<length, exit, decoded, serverVars, up, clientToServer>>
  BY DEF SendError, RecvError, EndTest, ClientSide, Receiving
<1>4. Types'
  <2>1. test' \in 1 .. Tests + 1 /\ sentUnits' \in Nat /\ buf' \in Seq(Int) /\ serverToClient' \in Seq(Int)
    BY <1>2, <1>3
  <2>2. allPassed' \in BOOLEAN
    BY <1>3, Zenon
  <2> QED BY <1>3, <2>1, <2>2 DEF Types, serverVars
<1>5. ClientSide'
  BY <1>2, <1>3 DEF ClientSide, Receiving
<1>6. Outcome'
  BY <1>2, <1>3 DEF Outcome
<1>7. InStep'
  BY <1>2, <1>3 DEF InStep, Receiving
<1> QED BY <1>1, <1>4, <1>5, <1>6, <1>7

\* The process ends: by a signal, on a connection that is gone, or with the code
\* that main returns.
LEMMA EndsInv == ASSUME Inv, SendKills \/ Close PROVE Inv'
<1> USE DEF Inv
<1>1. ServerReadsNext' /\ ServerWritesLast' /\ Got' = Got /\ Count' = Count /\ serverAt' = serverAt
  BY ServerAlone DEF SendKills, Close
<1>2. /\ clientAt' = "ended" /\ exit' \in {"0", "1", "killed"}
      /\ UNCHANGED <<test, sentUnits, buf, length, allPassed, decoded, serverVars, up, clientToServer, serverToClient>>
      /\ exit' # "0" => ~ up
      /\ exit' = "0" => clientAt = "close" /\ allPassed
      /\ up => clientAt = "close"
  BY DEF SendKills, Close, Types, Outcome
<1>3. Types'
  BY <1>2 DEF Types, serverVars
<1>4. ClientSide'
  BY <1>2 DEF ClientSide, Receiving
<1>5. Outcome'
  BY <1>1, <1>2 DEF Outcome, ClientSide
<1>6. InStep'
  BY <1>1, <1>2 DEF InStep, Receiving
<1> QED BY <1>1, <1>3, <1>4, <1>5, <1>6

\* The test's own answer decodes, and no other ever arrives.
LEMMA DecodeInv == ASSUME Inv, NEW thrown \in BOOLEAN, Decode(thrown) PROVE Inv'
<1> USE DEF Inv
<1>1. ServerReadsNext' /\ ServerWritesLast' /\ Got' = Got /\ Count' = Count /\ serverAt' = serverAt
  BY ServerAlone DEF Decode
<1>2. /\ clientAt = "decode" /\ test \in 1 .. Tests /\ Tests \in Nat /\ AnswerLength(test) \in Nat
      /\ Len(buf) = AnswerLength(test) /\ buf \in Seq(Int) /\ Len(serverToClient) \in Nat
      /\ serverToClient \in Seq(Int) /\ sentUnits = 0 /\ Count \in Nat
  BY Lengths DEF Decode, ClientSide, Receiving, Types
<1>3. RecvPos = 2 + AnswerLength(test) /\ RecvPos - Len(buf) = 2
  BY <1>2 DEF RecvPos
<1>4. buf = AnswerBody(test)
  <2>1. Units(buf, AnswerLength(test), Tests + test, 2)
    BY <1>2, <1>3 DEF ClientSide, Receiving
  <2> QED BY <1>2, <2>1, WholeBody DEF AnswerBody
<1>5. /\ Here = 2 + AnswerLength(test) /\ serverToClient = <<>> /\ allPassed /\ Count >= test
  <2>1. Here <= 2 + AnswerLength(test) /\ (Here > 0 => allPassed /\ Count >= test)
    BY <1>2 DEF ClientSide, Receiving
  <2>2. Here = RecvPos + Len(serverToClient)
    BY DEF Here
  <2>3. Len(serverToClient) = 0 /\ Here > 0 /\ Here = 2 + AnswerLength(test)
    BY <1>2, <1>3, <2>1, <2>2
  <2> QED BY <1>2, <2>1, <2>3, EmptySeq
<1>6. /\ ~ thrown /\ allPassed' = allPassed /\ test' = test + 1
      /\ clientAt' = IF test = Tests THEN "close" ELSE "sendHeader"
      /\ buf' = <<>> /\ decoded' = Append(decoded, <<test, buf>>)
      /\ UNCHANGED <<sentUnits, length, exit, serverVars, up, clientToServer, serverToClient>>
  BY <1>4, <1>5 DEF Decode, EndTest
<1>7. exit = "none" /\ Len(decoded) = test - 1
  BY <1>2, <1>5 DEF Outcome
<1>8. /\ decoded \in Seq(Nat \X Seq(Int)) /\ <<test, buf>> \in Nat \X Seq(Int)
      /\ decoded' \in Seq(Nat \X Seq(Int)) /\ Len(decoded') = test
      /\ \A i \in 1 .. test - 1 : decoded'[i] = decoded[i]
      /\ decoded'[test] = <<test, buf>>
  <2>1. decoded \in Seq(Nat \X Seq(Int)) /\ <<test, buf>> \in Nat \X Seq(Int)
    BY <1>2 DEF Types
  <2> QED BY <1>2, <1>6, <1>7, <2>1, AppendProperties
<1>9. Types'
  <2>1. test' \in 1 .. Tests + 1 /\ buf' \in Seq(Int)
    BY <1>2, <1>6
  <2> QED BY <1>6, <1>8, <2>1 DEF Types, serverVars
<1>10. ClientSide'
  BY <1>2, <1>5, <1>6 DEF ClientSide, Receiving
<1>11. Outcome'
  <2>1. \A i \in 1 .. test - 1 : decoded[i] = <<i, AnswerBody(i)>>
    BY <1>7 DEF Outcome
  <2>2. ASSUME NEW i \in 1 .. test PROVE decoded'[i] = <<i, AnswerBody(i)>>
    <3>1. CASE i = test
      BY <1>4, <1>8, <3>1
    <3>2. CASE i # test
      <4>1. i \in 1 .. test - 1
        BY <1>2, <3>2
      <4> QED BY <1>8, <2>1, <4>1
    <3> QED BY <3>1, <3>2
  <2>3. (\A i \in 1 .. Len(decoded) : decoded[i] = <<i, AnswerBody(i)>>)'
    BY <1>8, <2>2
  <2>4. allPassed' /\ Len(decoded') = test' - 1 /\ Count' >= test' - 1
    BY <1>1, <1>2, <1>5, <1>6, <1>8
  <2>5. exit' = "none" /\ clientAt' # "ended"
    BY <1>6, <1>7
  <2> QED BY <2>3, <2>4, <2>5 DEF Outcome
<1>12. InStep'
  <2>1. up => Count = test /\ serverAt = "header" /\ Got = 0
    <3> SUFFICES ASSUME up PROVE Count = test /\ serverAt = "header" /\ Got = 0
      OBVIOUS
    <3>1. Here # 0
      BY <1>2, <1>5
    <3>2. \/ Count = test /\ Got = 0 /\ serverAt = "header"
          \/ /\ Count = test /\ Got = 0 /\ serverAt = "write"
             /\ Here + Len(unsent) = 2 + AnswerLength(test)
      BY <1>2, <3>1 DEF InStep, Receiving
    <3>3. ASSUME serverAt = "write", Here + Len(unsent) = 2 + AnswerLength(test), Count = test PROVE FALSE
      <4>1. Len(unsent) \in 1 .. 2 + AnswerLength(test)
        BY <3>3 DEF ServerWritesLast
      <4> QED BY <1>2, <1>5, <3>3, <4>1
    <3> QED BY <3>2, <3>3
  <2>2. SentPos' = 0 \/ clientAt' = "close"
    BY <1>2, <1>6 DEF SentPos
  <2> QED BY <1>1, <1>2, <1>6, <2>1, <2>2 DEF InStep, Receiving
<1> QED BY <1>1, <1>9, <1>10, <1>11, <1>12

\* A recv moves the client forward in the answer of this test; the header tells
\* it how long the body is.
LEMMA RecvMoves ==
    ASSUME Inv, NEW n, RecvSome(n)
    PROVE  /\ Receiving /\ Receiving'
           /\ Len(serverToClient) > 0
           /\ buf' \in Seq(Int) /\ serverToClient' \in Seq(Int) /\ length' \in Int
           /\ Here' = Here
           /\ Units(buf', AnswerLength(test), Tests + test, RecvPos' - Len(buf'))
           /\ Units(serverToClient', AnswerLength(test), Tests + test, RecvPos')
           /\ clientAt' = "recvHeader" => Len(buf') < 2
           /\ clientAt' = "recvBody" => length' = AnswerLength(test) /\ Len(buf') < length'
           /\ clientAt' = "decode" => Len(buf') = AnswerLength(test)
<1> USE DEF Inv
<1>1. /\ clientAt \in {"recvHeader", "recvBody"} /\ Receiving
      /\ n \in 1 .. Expected - Len(buf) /\ n <= Len(serverToClient)
      /\ serverToClient' = SubSeq(serverToClient, n + 1, Len(serverToClient))
  BY DEF RecvSome, Receiving
<1>2. /\ buf \in Seq(Int) /\ serverToClient \in Seq(Int) /\ Len(buf) \in Nat /\ Len(serverToClient) \in Nat
      /\ length \in Int /\ test \in 1 .. Tests /\ test \in Int /\ Tests \in Nat /\ AnswerLength(test) \in Nat
  BY <1>1, Lengths DEF Types, ClientSide
<1>3. /\ Units(buf, AnswerLength(test), Tests + test, RecvPos - Len(buf))
      /\ Units(serverToClient, AnswerLength(test), Tests + test, RecvPos)
      /\ clientAt = "recvBody" => length = AnswerLength(test)
  BY <1>1 DEF ClientSide
<1>4. /\ Expected = IF clientAt = "recvHeader" THEN 2 ELSE AnswerLength(test)
      /\ RecvPos = IF clientAt = "recvHeader" THEN Len(buf) ELSE 2 + Len(buf)
  BY <1>1, <1>3 DEF Expected, RecvPos
<1>5. n \in 1 .. Len(serverToClient) /\ n <= Expected - Len(buf) /\ n \in Nat /\ RecvPos \in Int
  BY <1>1, <1>2, <1>4
<1>6. PICK head, rest : head = SubSeq(serverToClient, 1, n) /\ rest = SubSeq(serverToClient, n + 1, Len(serverToClient))
  OBVIOUS
<1>7. /\ head \in Seq(Int) /\ Len(head) = n
      /\ rest \in Seq(Int) /\ Len(rest) = Len(serverToClient) - n
  BY <1>2, <1>5, <1>6, Halves
<1>8. /\ Units(head, AnswerLength(test), Tests + test, RecvPos)
      /\ Units(rest, AnswerLength(test), Tests + test, RecvPos + n)
  BY <1>2, <1>3, <1>5, <1>6, UnitsCut
<1>9. PICK all : all = buf \o head
  OBVIOUS
<1>10. all \in Seq(Int) /\ Len(all) = Len(buf) + n
  BY <1>2, <1>7, <1>9, Joined
<1>11. Units(all, AnswerLength(test), Tests + test, RecvPos - Len(buf))
  <2>1. RecvPos - Len(buf) \in Int /\ RecvPos - Len(buf) + Len(buf) = RecvPos
    BY <1>2, <1>5
  <2>2. Units(head, AnswerLength(test), Tests + test, RecvPos - Len(buf) + Len(buf))
    BY <1>8, <2>1
  <2> QED BY <1>2, <1>3, <1>7, <1>9, <2>1, <2>2, UnitsJoin
<1>12. serverToClient' = rest
  BY <1>1, <1>6
<1>13. ASSUME clientAt = "recvHeader", Len(all) = 2
       PROVE  /\ clientAt' = IF AnswerLength(test) > 0 THEN "recvBody" ELSE "decode"
              /\ length' = AnswerLength(test) /\ buf' = <<>>
  <2>1. all[2] = AnswerLength(test)
    <3>1. RecvPos - Len(buf) = 0
      BY <1>2, <1>4, <1>13
    <3>2. 2 \in 1 .. Len(all) /\ 0 + 2 = 2
      BY <1>13
    <3> QED BY <1>11, <3>1, <3>2 DEF Units
  <2>2. Expected = 2
    BY <1>4, <1>13
  <2> QED BY <1>6, <1>9, <1>13, <2>1, <2>2 DEF RecvSome
<1>14. ASSUME ~ (clientAt = "recvHeader" /\ Len(all) = 2)
       PROVE  /\ clientAt' = IF Len(all) = Expected THEN "decode" ELSE clientAt
              /\ length' = length /\ buf' = all
  <2>1. ~ (clientAt = "recvHeader" /\ Len(all) = Expected)
    BY <1>4, <1>14
  <2> QED BY <1>6, <1>9, <2>1 DEF RecvSome
<1>15. RecvPos' = IF clientAt' = "recvHeader" THEN Len(buf') ELSE 2 + Len(buf')
  BY DEF RecvPos
<1>16. RecvPos' = RecvPos + n
  <2>1. CASE clientAt = "recvHeader" /\ Len(all) = 2
    <3>1. clientAt' # "recvHeader" /\ Len(buf') = 0
      BY <1>13, <2>1
    <3>2. RecvPos' = 2
      BY <1>15, <3>1
    <3> QED BY <1>2, <1>4, <1>10, <2>1, <3>2
  <2>2. CASE ~ (clientAt = "recvHeader" /\ Len(all) = 2)
    <3>1. clientAt' = IF Len(all) = Expected THEN "decode" ELSE clientAt
      BY <1>14, <2>2
    <3>2. Len(buf') = Len(buf) + n
      BY <1>10, <1>14, <2>2
    <3>3. (clientAt' = "recvHeader") <=> (clientAt = "recvHeader")
      BY <1>1, <1>4, <2>2, <3>1
    <3> QED BY <1>2, <1>4, <1>5, <1>15, <3>2, <3>3
  <2> QED BY <2>1, <2>2
<1>17. Here' = Here
  <2>1. Here' = RecvPos' + Len(serverToClient') /\ Here = RecvPos + Len(serverToClient)
    BY DEF Here
  <2> QED BY <1>2, <1>5, <1>7, <1>12, <1>16, <2>1
<1>18. Units(buf', AnswerLength(test), Tests + test, RecvPos' - Len(buf'))
  <2>1. CASE clientAt = "recvHeader" /\ Len(all) = 2
    BY <1>13, <2>1, UnitsNone
  <2>2. CASE ~ (clientAt = "recvHeader" /\ Len(all) = 2)
    <3>1. RecvPos' - Len(buf') = RecvPos - Len(buf)
      <4>1. Len(buf') = Len(buf) + n
        BY <1>10, <1>14, <2>2
      <4> QED BY <1>2, <1>5, <1>16, <4>1
    <3> QED BY <1>11, <1>14, <2>2, <3>1
  <2> QED BY <2>1, <2>2
<1>19. Units(serverToClient', AnswerLength(test), Tests + test, RecvPos')
  BY <1>8, <1>12, <1>16
<1>20. /\ buf' \in Seq(Int) /\ length' \in Int /\ Receiving'
       /\ clientAt' = "recvHeader" => Len(buf') < 2
       /\ clientAt' = "recvBody" => length' = AnswerLength(test) /\ Len(buf') < length'
       /\ clientAt' = "decode" => Len(buf') = AnswerLength(test)
  <2>1. CASE clientAt = "recvHeader" /\ Len(all) = 2
    BY <1>2, <1>13, <2>1 DEF Receiving
  <2>2. CASE ~ (clientAt = "recvHeader" /\ Len(all) = 2)
    <3>1. clientAt' = IF Len(all) = Expected THEN "decode" ELSE clientAt
      BY <1>14, <2>2
    <3>2. length' = length /\ buf' \in Seq(Int) /\ Len(buf') = Len(all)
      BY <1>10, <1>14, <2>2
    <3>3. Receiving' /\ (clientAt' = "decode" \/ clientAt' = clientAt)
      BY <1>1, <3>1 DEF Receiving
    <3>4. Len(all) <= Expected
      BY <1>2, <1>4, <1>5, <1>10
    <3>5. CASE clientAt = "recvHeader"
      BY <1>2, <1>4, <1>5, <1>10, <2>2, <3>1, <3>2, <3>3, <3>4, <3>5
    <3>6. CASE clientAt = "recvBody"
      <4>1. Expected = AnswerLength(test) /\ length = AnswerLength(test)
        BY <1>3, <1>4, <3>6
      <4>2. CASE Len(all) = Expected
        BY <1>2, <3>1, <3>2, <3>3, <4>1, <4>2
      <4>3. CASE Len(all) # Expected
        <5>1. clientAt' = "recvBody"
          BY <3>1, <3>6, <4>3
        <5>2. Len(buf') < length'
          <6>1. Len(all) \in Nat /\ AnswerLength(test) \in Nat
            BY <1>2, <1>5, <1>10
          <6>2. Len(all) < AnswerLength(test)
            BY <3>4, <4>1, <4>3, <6>1
          <6>3. length' = AnswerLength(test)
            BY <3>2, <4>1
          <6> QED BY <3>2, <6>2, <6>3
        <5> QED BY <1>2, <3>2, <3>3, <4>1, <5>1, <5>2
      <4> QED BY <4>2, <4>3
    <3> QED BY <1>1, <3>5, <3>6
  <2> QED BY <2>1, <2>2
<1>21. Len(serverToClient) > 0
  BY <1>2, <1>5
<1> QED BY <1>1, <1>7, <1>12, <1>17, <1>18, <1>19, <1>20, <1>21

\* One recv of recv_exact.
LEMMA RecvPartInv == ASSUME Inv, NEW n, RecvSome(n) PROVE Inv'
<1> USE DEF Inv
<1>1. /\ Receiving /\ Receiving'
      /\ Len(serverToClient) > 0
      /\ buf' \in Seq(Int) /\ serverToClient' \in Seq(Int) /\ length' \in Int
      /\ Here' = Here
      /\ Units(buf', AnswerLength(test), Tests + test, RecvPos' - Len(buf'))
      /\ Units(serverToClient', AnswerLength(test), Tests + test, RecvPos')
      /\ clientAt' = "recvHeader" => Len(buf') < 2
      /\ clientAt' = "recvBody" => length' = AnswerLength(test) /\ Len(buf') < length'
      /\ clientAt' = "decode" => Len(buf') = AnswerLength(test)
  BY RecvMoves
<1>2. ServerReadsNext' /\ ServerWritesLast' /\ Got' = Got /\ Count' = Count /\ serverAt' = serverAt
  BY ServerAlone DEF RecvSome
<1>3. UNCHANGED <<test, sentUnits, allPassed, exit, decoded, serverVars, up, clientToServer>>
  BY DEF RecvSome
<1>4. Types'
  BY <1>1, <1>3 DEF Types, serverVars, Receiving
<1>5. ClientSide'
  <2>1. /\ clientAt' \notin {"sendHeader", "sendBody", "close", "ended", "connect"}
        /\ test <= Tests /\ sentUnits = 0
        /\ Here <= 2 + AnswerLength(test) /\ (Here > 0 => allPassed /\ Count >= test)
    BY <1>1 DEF ClientSide, Receiving
  <2> QED BY <1>1, <1>2, <1>3, <2>1 DEF ClientSide
<1>6. Outcome'
  BY <1>1, <1>2, <1>3 DEF Outcome, Receiving
<1>7. InStep'
  <2>1. clientAt' \notin {"sendHeader", "sendBody", "close", "ended", "connect"}
    BY <1>1 DEF Receiving
  <2> QED BY <1>1, <1>2, <1>3, <2>1 DEF InStep, serverVars
<1> QED BY <1>2, <1>4, <1>5, <1>6, <1>7

\* Every step of the client.
LEMMA ClientInv == Inv /\ Client => Inv'
BY ConnectInv, SendPartInv, FailsInv, EndsInv, RecvPartInv, DecodeInv DEF Client

-----------------------------------------------------------------------------
(***************************************************************************)
(* The server's steps.                                                     *)
(***************************************************************************)
\* A step that leaves the client and what it reads alone.
LEMMA ClientAlone ==
    ASSUME Types, Types', ClientSide, Outcome, UNCHANGED <<clientVars, serverToClient>>,
           Count' >= Count, up' => up
    PROVE  /\ ClientSide' /\ Outcome'
           /\ Here' = Here /\ SentPos' = SentPos /\ (Receiving' <=> Receiving)
<1>1. Here' = Here /\ SentPos' = SentPos /\ (Receiving' <=> Receiving) /\ RecvPos' = RecvPos
  BY DEF clientVars, Here, SentPos, Receiving, RecvPos
<1>2. Count \in Nat /\ Count' \in Nat /\ test \in Int
  <2>1. served \in Seq(Nat) /\ served' \in Seq(Nat)
    BY DEF Types
  <2>2. Count \in Nat /\ Count' \in Nat
    BY <2>1, LenProperties DEF Count
  <2>3. test \in 1 .. Tests + 1
    BY DEF Types
  <2> QED BY <2>2, <2>3, TestsAssumption
<1>3. ClientSide'
  BY <1>1, <1>2 DEF clientVars, ClientSide
<1>4. Outcome'
  BY <1>1, <1>2 DEF clientVars, Outcome
<1> QED BY <1>1, <1>3, <1>4

\* A read moves the server forward in the request; the header tells it the packet
\* and how long the body is.
LEMMA ReadMoves ==
    ASSUME Inv, NEW n, ServerReads(n)
    PROVE  /\ Count \in Nat /\ Count < Tests /\ Got' = Got /\ Got > 0 /\ Got <= 2 + RequestLength(Count + 1)
           /\ serverAt \in {"header", "body"} /\ serverAt' \in {"header", "body", "answer"}
           /\ read' \in Seq(Int) /\ clientToServer' \in Seq(Int)
           /\ Units(read', RequestLength(Count + 1), Count + 1, ReadPos' - Len(read'))
           /\ Units(clientToServer', RequestLength(Count + 1), Count + 1, ReadPos')
           /\ serverAt' = "header" => Len(read') < 2
           /\ serverAt' \in {"body", "answer"} =>
                  request'[1] = Count + 1 /\ request'[2] = RequestLength(Count + 1)
           /\ serverAt' = "body" => Len(read') < RequestLength(Count + 1)
           /\ serverAt' = "answer" => Len(read') = RequestLength(Count + 1)
<1> USE DEF Inv
<1>1. /\ serverAt \in {"header", "body"}
      /\ n \in 1 .. (IF serverAt = "header" THEN 2 ELSE request[2]) - Len(read)
      /\ n <= Len(clientToServer)
      /\ clientToServer' = SubSeq(clientToServer, n + 1, Len(clientToServer))
  BY DEF ServerReads
<1>2. /\ read \in Seq(Int) /\ clientToServer \in Seq(Int) /\ Len(read) \in Nat /\ Len(clientToServer) \in Nat
      /\ Count \in Nat /\ Tests \in Nat
  BY Lengths DEF Types
<1>3. PICK k : k = Count + 1
  OBVIOUS
<1>4. /\ Units(read, RequestLength(k), k, ReadPos - Len(read))
      /\ Units(clientToServer, RequestLength(k), k, ReadPos)
      /\ Got > 0 => Count < Tests /\ Got <= 2 + RequestLength(k)
      /\ serverAt = "body" => request[1] = k /\ request[2] = RequestLength(k)
  BY <1>1, <1>3 DEF ServerReadsNext
<1>5. ReadPos = IF serverAt = "header" THEN Len(read) ELSE 2 + Len(read)
  BY <1>1 DEF ReadPos
<1>6. n \in Nat /\ n > 0 /\ n \in 1 .. Len(clientToServer) /\ ReadPos \in Nat
  BY <1>1, <1>2, <1>5
<1>7. Got > 0
  <2>1. Got = ReadPos + Len(clientToServer)
    BY DEF Got
  <2> QED BY <1>2, <1>6, <2>1
<1>8. k \in 1 .. Tests /\ k \in Int /\ RequestLength(k) \in Nat /\ Got <= 2 + RequestLength(k) /\ Count < Tests
  BY <1>2, <1>3, <1>4, <1>7, Lengths
<1>9. PICK size : size = IF serverAt = "header" THEN 2 ELSE RequestLength(k)
  OBVIOUS
<1>10. n <= size - Len(read) /\ size \in Nat
  BY <1>1, <1>2, <1>4, <1>8, <1>9
<1>11. PICK head, rest : head = SubSeq(clientToServer, 1, n) /\ rest = SubSeq(clientToServer, n + 1, Len(clientToServer))
  OBVIOUS
<1>12. /\ head \in Seq(Int) /\ Len(head) = n
       /\ rest \in Seq(Int) /\ Len(rest) = Len(clientToServer) - n
  BY <1>2, <1>6, <1>11, Halves
<1>13. /\ Units(head, RequestLength(k), k, ReadPos)
       /\ Units(rest, RequestLength(k), k, ReadPos + n)
  BY <1>2, <1>4, <1>6, <1>11, UnitsCut
<1>14. PICK all : all = read \o head
  OBVIOUS
<1>15. all \in Seq(Int) /\ Len(all) = Len(read) + n
  BY <1>2, <1>12, <1>14, Joined
<1>16. Units(all, RequestLength(k), k, ReadPos - Len(read))
  <2>1. ReadPos - Len(read) \in Int /\ ReadPos - Len(read) + Len(read) = ReadPos
    BY <1>2, <1>6
  <2>2. Units(head, RequestLength(k), k, ReadPos - Len(read) + Len(read))
    BY <1>13, <2>1
  <2> QED BY <1>2, <1>4, <1>12, <1>14, <2>1, <2>2, UnitsJoin
<1>17. clientToServer' = rest
  BY <1>1, <1>11
<1>18. Len(all) \in Nat /\ Len(all) <= size /\ Len(all) > 0
  BY <1>2, <1>6, <1>10, <1>15
<1>19. ReadPos' = IF serverAt' \in {"body", "answer"} THEN 2 + Len(read') ELSE Len(read')
  BY DEF ReadPos
\* The three ways in which the read ends.
<1>20. CASE serverAt = "header" /\ Len(all) = 2
  <2>1. all[1] = k /\ all[2] = RequestLength(k)
    <3>1. ReadPos - Len(read) = 0
      BY <1>2, <1>5, <1>20
    <3>2. 1 \in 1 .. Len(all) /\ 2 \in 1 .. Len(all) /\ 0 + 2 = 2 /\ 0 + 1 # 2
      BY <1>20
    <3> QED BY <1>16, <3>1, <3>2 DEF Units
  <2>2. /\ read' = <<>> /\ request' = all
        /\ serverAt' = IF RequestLength(k) > 0 THEN "body" ELSE "answer"
    BY <1>11, <1>14, <1>20, <2>1 DEF ServerReads
  <2>3. ReadPos' = 2 /\ ReadPos' = ReadPos + n /\ Len(read') = 0
    <3>1. serverAt' \in {"body", "answer"} /\ Len(read') = 0
      BY <2>2
    <3>2. ReadPos' = 2
      BY <1>19, <3>1
    <3>3. ReadPos + n = Len(all)
      BY <1>5, <1>15, <1>20
    <3> QED BY <1>20, <3>1, <3>2, <3>3
  <2>4. Got' = Got
    <3>1. Got' = ReadPos' + Len(rest) /\ Got = ReadPos + Len(clientToServer)
      BY <1>17 DEF Got
    <3>2. ReadPos' = ReadPos + n
      BY <2>3
    <3> QED BY <1>2, <1>6, <1>12, <3>1, <3>2
  <2>5. /\ Units(read', RequestLength(k), k, ReadPos' - Len(read'))
        /\ Units(clientToServer', RequestLength(k), k, ReadPos')
    BY <1>13, <1>17, <2>2, <2>3, UnitsNone
  <2>6. read' \in Seq(Int) /\ clientToServer' \in Seq(Int)
    BY <1>12, <1>17, <2>2
  <2> QED BY <1>1, <1>2, <1>3, <1>7, <1>8, <2>1, <2>2, <2>3, <2>4, <2>5, <2>6
<1>21. CASE ~ (serverAt = "header" /\ Len(all) = 2)
  <2>1. /\ read' = all /\ request' = request
        /\ serverAt' = IF serverAt = "header" THEN "header"
                     ELSE IF Len(all) = RequestLength(k) THEN "answer" ELSE "body"
    <3>1. CASE serverAt = "header"
      <4>1. Len(all) < 2 /\ Len(all) # 2
        <5>1. Len(all) <= 2 /\ Len(all) \in Nat
          BY <1>9, <1>18, <3>1
        <5>2. Len(all) # 2
          BY <1>21, <3>1, Zenon
        <5>3. \A m \in Nat : m <= 2 /\ m # 2 => m < 2
          OBVIOUS
        <5> QED BY <5>1, <5>2, <5>3, Zenon
      <4> QED BY <1>11, <1>14, <3>1, <4>1 DEF ServerReads
    <3>2. CASE serverAt = "body"
      BY <1>4, <1>11, <1>14, <3>2 DEF ServerReads
    <3> QED BY <1>1, <3>1, <3>2
  <2>2. ReadPos' = ReadPos + n /\ ReadPos' - Len(read') = ReadPos - Len(read)
    <3>1. Len(read') = Len(read) + n
      BY <1>15, <2>1
    <3>2. serverAt' \in {"body", "answer"} <=> serverAt # "header"
      BY <2>1
    <3> QED BY <1>2, <1>5, <1>6, <1>19, <3>1, <3>2
  <2>3. Got' = Got
    <3>1. Got' = ReadPos' + Len(clientToServer') /\ Got = ReadPos + Len(clientToServer)
      BY DEF Got
    <3> QED BY <1>2, <1>6, <1>12, <1>17, <2>2, <3>1
  <2>4. /\ Units(read', RequestLength(k), k, ReadPos' - Len(read'))
        /\ Units(clientToServer', RequestLength(k), k, ReadPos')
    BY <1>13, <1>16, <1>17, <2>1, <2>2
  <2>5. /\ serverAt' = "header" => Len(read') < 2
        /\ serverAt' = "body" => Len(read') < RequestLength(k)
        /\ serverAt' = "answer" => Len(read') = RequestLength(k)
        /\ serverAt' \in {"body", "answer"} => serverAt = "body"
        /\ serverAt' \in {"header", "body", "answer"}
    <3>1. CASE serverAt = "header"
      <4>1. Len(all) <= 2 /\ Len(all) \in Nat
        BY <1>9, <1>18, <3>1
      <4>2. Len(read') < 2
        BY <1>21, <2>1, <3>1, <4>1
      <4> QED BY <2>1, <3>1, <4>2
    <3>2. CASE serverAt = "body"
      <4>1. Len(all) <= RequestLength(k) /\ Len(all) \in Nat
        BY <1>9, <1>18, <3>2
      <4>2. CASE Len(all) = RequestLength(k)
        BY <2>1, <3>2, <4>2
      <4>3. CASE Len(all) # RequestLength(k)
        <5>1. Len(read') < RequestLength(k)
          BY <1>8, <2>1, <4>1, <4>3
        <5> QED BY <2>1, <3>2, <4>3, <5>1
      <4> QED BY <4>2, <4>3
    <3> QED BY <1>1, <3>1, <3>2
  <2>6. read' \in Seq(Int) /\ clientToServer' \in Seq(Int)
    BY <1>12, <1>15, <1>17, <2>1
  <2> QED BY <1>1, <1>2, <1>3, <1>4, <1>7, <1>8, <2>1, <2>3, <2>4, <2>5, <2>6
<1> QED BY <1>20, <1>21

\* One ReadAsync of ReadExactAsync.
LEMMA ServerReadsInv == ASSUME Inv, NEW n, ServerReads(n) PROVE Inv'
<1> USE DEF Inv
<1>1. /\ Count \in Nat /\ Count < Tests /\ Got' = Got /\ Got > 0 /\ Got <= 2 + RequestLength(Count + 1)
      /\ serverAt \in {"header", "body"} /\ serverAt' \in {"header", "body", "answer"}
      /\ read' \in Seq(Int) /\ clientToServer' \in Seq(Int)
      /\ Units(read', RequestLength(Count + 1), Count + 1, ReadPos' - Len(read'))
      /\ Units(clientToServer', RequestLength(Count + 1), Count + 1, ReadPos')
      /\ serverAt' = "header" => Len(read') < 2
      /\ serverAt' \in {"body", "answer"} =>
             request'[1] = Count + 1 /\ request'[2] = RequestLength(Count + 1)
      /\ serverAt' = "body" => Len(read') < RequestLength(Count + 1)
      /\ serverAt' = "answer" => Len(read') = RequestLength(Count + 1)
  BY ReadMoves
<1>2. UNCHANGED <<clientVars, unsent, served, up, serverToClient>> /\ Count' = Count
  BY DEF ServerReads, Count
<1>3. Types'
  BY <1>1, <1>2 DEF Types, clientVars
<1>4. ServerReadsNext'
  <2>1. Count <= Tests /\ \A i \in 1 .. Count : served[i] = i
    BY DEF ServerReadsNext
  <2> QED BY <1>1, <1>2, <2>1 DEF ServerReadsNext
<1>5. ServerWritesLast'
  BY <1>1 DEF ServerWritesLast
<1>6. ClientSide' /\ Outcome' /\ Here' = Here /\ SentPos' = SentPos /\ (Receiving' <=> Receiving)
  <2>1. Count' >= Count
    BY <1>1, <1>2
  <2> QED BY <1>2, <1>3, <2>1, ClientAlone
<1>7. InStep'
  <2>1. UNCHANGED <<clientAt, test, up, allPassed>>
    BY <1>2 DEF clientVars
  <2>2. clientAt # "connect" /\ (up => clientAt \notin {"close", "ended"})
    BY <1>1 DEF InStep
  <2>3. up /\ clientAt \in {"sendHeader", "sendBody"} =>
            Count = test - 1 /\ serverAt' \in {"header", "body"} /\ Got = SentPos
    <3> SUFFICES ASSUME up, clientAt \in {"sendHeader", "sendBody"}
                 PROVE  Count = test - 1 /\ serverAt' \in {"header", "body"} /\ Got = SentPos
      OBVIOUS
    <3>1. Count = test - 1 /\ Got = SentPos
      BY DEF InStep
    <3>2. test \in 1 .. Tests /\ test = Count + 1 /\ RequestLength(test) \in Nat /\ sentUnits \in Nat
      BY <1>1, <3>1, Lengths DEF Types, ClientSide
    <3>3. SentPos < 2 + RequestLength(test)
      <4>1. SentPos = IF clientAt = "sendHeader" THEN sentUnits ELSE 2 + sentUnits
        BY DEF SentPos
      <4>2. (clientAt = "sendHeader" => sentUnits < 2) /\ (clientAt = "sendBody" => sentUnits < RequestLength(test))
        BY DEF ClientSide
      <4> QED BY <3>2, <4>1, <4>2
    <3>4. ASSUME serverAt' = "answer" PROVE FALSE
      <4>1. Got' = 2 + RequestLength(test) + Len(clientToServer')
        BY <1>1, <3>2, <3>4 DEF Got, ReadPos
      <4>2. Len(clientToServer') \in Nat
        BY <1>1
      <4>3. Got' < 2 + RequestLength(test)
        BY <1>1, <3>1, <3>3
      <4> QED BY <3>2, <4>1, <4>2, <4>3
    <3> QED BY <1>1, <3>1, <3>4
  <2>4. up /\ Receiving => /\ Count = test - 1
                           /\ Got = 2 + RequestLength(test)
                           /\ Here = 0
    BY <1>1 DEF InStep
  <2> QED BY <1>1, <1>2, <1>6, <2>1, <2>2, <2>3, <2>4 DEF InStep
<1> QED BY <1>3, <1>4, <1>5, <1>6, <1>7

\* The request decodes, and its answer is begun.
LEMMA ServerAnswersInv == ASSUME Inv, ServerAnswers PROVE Inv'
<1> USE DEF Inv
<1>1. PICK k : k = Count + 1
  OBVIOUS
<1>2. /\ serverAt = "answer" /\ request[1] = k /\ Len(read) = RequestLength(k)
      /\ Units(read, RequestLength(k), k, ReadPos - Len(read))
      /\ Got > 0 => Count < Tests /\ Got <= 2 + RequestLength(k)
      /\ \A i \in 1 .. Count : served[i] = i
  BY <1>1 DEF ServerAnswers, ServerReadsNext
<1>3. /\ Count \in Nat /\ Tests \in Nat /\ read \in Seq(Int) /\ Len(read) \in Nat
      /\ clientToServer \in Seq(Int) /\ Len(clientToServer) \in Nat /\ Len(serverToClient) \in Nat
  BY Lengths DEF Types
<1>4. ReadPos = 2 + Len(read) /\ ReadPos - Len(read) = 2 /\ Got = 2 + Len(read) + Len(clientToServer) /\ Got > 0
  <2>1. ReadPos = 2 + Len(read)
    BY <1>2 DEF ReadPos
  <2>2. Got = ReadPos + Len(clientToServer)
    BY DEF Got
  <2> QED BY <1>3, <2>1, <2>2
<1>5. /\ k \in 1 .. Tests /\ k \in Nat /\ k > 0 /\ Count < Tests
      /\ RequestLength(k) \in Nat /\ AnswerLength(k) \in Nat
  BY <1>1, <1>2, <1>3, <1>4, Lengths
<1>6. Len(clientToServer) = 0 /\ clientToServer = <<>>
  <2>1. Len(clientToServer) = 0
    BY <1>2, <1>3, <1>4, <1>5
  <2> QED BY <1>3, <2>1, EmptySeq
<1>7. read = RequestBody(k)
  <2>1. Units(read, RequestLength(k), k, 2)
    BY <1>2, <1>4
  <2> QED BY <1>2, <1>3, <1>5, <2>1, WholeBody DEF RequestBody
<1>8. /\ unsent' = Header(Tests + k, AnswerBody(k)) \o AnswerBody(k)
      /\ served' = Append(served, k)
      /\ serverAt' = "write" /\ read' = <<>> /\ up' = up
      /\ UNCHANGED <<clientVars, request, clientToServer, serverToClient>>
  BY <1>2, <1>5, <1>7 DEF ServerAnswers, Types
<1>9. /\ unsent' \in Seq(Int) /\ Len(unsent') = 2 + AnswerLength(k)
      /\ Units(unsent', AnswerLength(k), Tests + k, 0)
  <2>1. Tests + k \in Int
    BY <1>3, <1>5
  <2>2. unsent' = Header(Tests + k, Body(Tests + k, AnswerLength(k))) \o Body(Tests + k, AnswerLength(k))
    BY <1>8 DEF AnswerBody
  <2> QED BY <1>5, <2>1, <2>2, FrameUnits
<1>10. served' \in Seq(Nat) /\ Count' = k /\ \A i \in 1 .. k : served'[i] = i
  <2>1. served \in Seq(Nat) /\ Len(served) = Count
    BY DEF Types, Count
  <2>2. /\ served' \in Seq(Nat) /\ Len(served') = k
        /\ \A i \in 1 .. Count : served'[i] = served[i]
        /\ served'[k] = k
    BY <1>1, <1>3, <1>5, <1>8, <2>1, AppendProperties
  <2>3. Count' = Len(served')
    BY DEF Count
  <2>4. ASSUME NEW i \in 1 .. k PROVE served'[i] = i
    <3>1. i = k \/ i \in 1 .. Count
      BY <1>1, <1>3
    <3> QED BY <1>2, <2>2, <3>1
  <2> QED BY <2>2, <2>3, <2>4
<1>11. Got' = 0
  BY <1>6, <1>8 DEF Got, ReadPos
<1>12. Types'
  BY <1>8, <1>9, <1>10 DEF Types, clientVars
<1>13. ServerReadsNext'
  <2>1. (\A i \in 1 .. Count : served[i] = i)'
    BY <1>10
  <2>2. Count' <= Tests
    BY <1>3, <1>5, <1>10
  <2> QED BY <1>8, <2>1, <2>2 DEF ServerReadsNext
<1>14. ServerWritesLast'
  <2>1. Len(unsent') \in 1 .. 2 + AnswerLength(k) /\ 2 + AnswerLength(k) - Len(unsent') = 0
    BY <1>5, <1>9
  <2>2. (Got = 0 /\ Count = k)'
    BY <1>10, <1>11
  <2>3. Units(unsent', AnswerLength(k), Tests + k, 2 + AnswerLength(k) - Len(unsent'))
    BY <1>9, <2>1
  <2> QED BY <1>5, <2>1, <2>2, <2>3 DEF ServerWritesLast
<1>15. ClientSide' /\ Outcome' /\ Here' = Here /\ SentPos' = SentPos /\ (Receiving' <=> Receiving)
  <2>1. Count' >= Count
    BY <1>1, <1>3, <1>10
  <2> QED BY <1>8, <1>12, <2>1, ClientAlone
<1>16. InStep'
  <2>1. UNCHANGED <<clientAt, test, up, allPassed>>
    BY <1>8 DEF clientVars
  <2>2. clientAt # "connect" /\ (up => clientAt \notin {"close", "ended", "sendHeader", "sendBody"})
    BY <1>2 DEF InStep
  <2>3. up /\ Receiving => Count' = test /\ Here' + Len(unsent') = 2 + AnswerLength(test)
    <3> SUFFICES ASSUME up, Receiving
                 PROVE  Count' = test /\ Here' + Len(unsent') = 2 + AnswerLength(test)
      OBVIOUS
    <3>1. Count = test - 1 /\ Here = 0
      BY <1>2 DEF InStep
    <3>2. test = k
      BY <1>1, <1>3, <3>1 DEF Types
    <3> QED BY <1>5, <1>9, <1>10, <1>15, <3>1, <3>2
  <2> QED BY <1>8, <1>11, <1>15, <2>1, <2>2, <2>3 DEF InStep
<1> QED BY <1>12, <1>13, <1>14, <1>15, <1>16

\* A write hands the client the next piece of the answer it waits for.
LEMMA ServerWritesInv == ASSUME Inv, NEW n, ServerWrites(n) PROVE Inv'
<1> USE DEF Inv
<1>1. /\ serverAt = "write" /\ n \in 1 .. Len(unsent)
      /\ serverToClient' = IF up THEN serverToClient \o SubSeq(unsent, 1, n) ELSE serverToClient
      /\ unsent' = SubSeq(unsent, n + 1, Len(unsent))
      /\ serverAt' = IF n = Len(unsent) THEN "header" ELSE "write"
      /\ UNCHANGED <<clientVars, read, request, served, up, clientToServer>>
  BY DEF ServerWrites
<1>2. /\ Got = 0 /\ Count \in Nat /\ Count > 0 /\ Tests \in Nat /\ Count <= Tests
      /\ \A i \in 1 .. Count : served[i] = i
      /\ Len(unsent) \in 1 .. 2 + AnswerLength(Count)
      /\ Units(unsent, AnswerLength(Count), Tests + Count, 2 + AnswerLength(Count) - Len(unsent))
  BY <1>1, Lengths DEF ServerWritesLast, ServerReadsNext
<1>3. /\ unsent \in Seq(Int) /\ serverToClient \in Seq(Int) /\ read \in Seq(Int) /\ clientToServer \in Seq(Int)
      /\ Len(unsent) \in Nat /\ Len(serverToClient) \in Nat /\ Len(read) \in Nat /\ Len(clientToServer) \in Nat
      /\ AnswerLength(Count) \in Nat
  BY <1>2, Lengths DEF Types
<1>4. Count' = Count /\ Got' = Got /\ ReadPos' = ReadPos
  <2>1. serverAt' \notin {"body", "answer"} /\ serverAt \notin {"body", "answer"}
    BY <1>1
  <2> QED BY <1>1, <2>1 DEF Count, Got, ReadPos
<1>5. read = <<>> /\ clientToServer = <<>>
  <2>1. Got = Len(read) + Len(clientToServer)
    BY <1>1 DEF Got, ReadPos
  <2>2. Len(read) = 0 /\ Len(clientToServer) = 0
    BY <1>2, <1>3, <2>1
  <2> QED BY <1>3, <2>2, EmptySeq
<1>6. PICK head, rest : head = SubSeq(unsent, 1, n) /\ rest = SubSeq(unsent, n + 1, Len(unsent))
  OBVIOUS
<1>7. /\ head \in Seq(Int) /\ Len(head) = n /\ n \in Nat
      /\ rest \in Seq(Int) /\ Len(rest) = Len(unsent) - n
  <2>1. unsent \in Seq(Int) /\ n \in 1 .. Len(unsent)
    BY <1>1, <1>3
  <2>2. n \in Nat
    BY <1>3, <2>1
  <2> QED BY <1>6, <2>1, <2>2, Halves
<1>8. PICK at : at = 2 + AnswerLength(Count) - Len(unsent)
  OBVIOUS
<1>9. at \in Int /\ at + n = 2 + AnswerLength(Count) - Len(rest)
  <2>1. PICK a, l : a = AnswerLength(Count) /\ l = Len(unsent)
    OBVIOUS
  <2>2. a \in Nat /\ l \in Nat /\ n \in Nat /\ at = 2 + a - l /\ Len(rest) = l - n
    BY <1>3, <1>7, <1>8, <2>1
  <2>3. at \in Int /\ at + n = 2 + a - (l - n)
    BY <2>2
  <2> QED BY <2>1, <2>2, <2>3
<1>10. /\ Units(head, AnswerLength(Count), Tests + Count, at)
       /\ Units(rest, AnswerLength(Count), Tests + Count, at + n)
  <2>1. Units(unsent, AnswerLength(Count), Tests + Count, at)
    BY <1>2, <1>8
  <2> QED BY <1>1, <1>3, <1>6, <1>9, <2>1, UnitsCut
<1>11. ServerReadsNext'
  <2>1. /\ Count <= Tests /\ \A i \in 1 .. Count : served[i] = i
        /\ Units(read, RequestLength(Count + 1), Count + 1, ReadPos - Len(read))
        /\ Units(clientToServer, RequestLength(Count + 1), Count + 1, ReadPos)
        /\ ~ (Got > 0) /\ Len(read) < 2
    BY <1>2, <1>5, UnitsNone
  <2> QED BY <1>1, <1>4, <2>1 DEF ServerReadsNext
<1>12. ServerWritesLast'
  <2> SUFFICES ASSUME serverAt' = "write" PROVE ServerWritesLast'
    BY DEF ServerWritesLast
  <2>1. n # Len(unsent)
    BY <1>1
  <2>2. Len(rest) \in 1 .. 2 + AnswerLength(Count)
    <3>1. n < Len(unsent) /\ Len(unsent) <= 2 + AnswerLength(Count)
      <4>1. \A m \in 1 .. Len(unsent) : m # Len(unsent) => m < Len(unsent)
        BY <1>3
      <4>2. n < Len(unsent)
        BY <1>1, <2>1, <4>1, Zenon
      <4> QED BY <1>2, <1>3, <4>2
    <3>2. \A l, m, r, z \in Nat : r = l - m /\ m < l /\ l <= z => r \in 1 .. z
      OBVIOUS
    <3>3. Len(rest) \in Nat /\ 2 + AnswerLength(Count) \in Nat
      BY <1>3, <1>7, LenProperties
    <3> QED BY <1>3, <1>7, <3>1, <3>2, <3>3, Zenon
  <2>3. Units(rest, AnswerLength(Count), Tests + Count, 2 + AnswerLength(Count) - Len(rest))
    BY <1>9, <1>10
  <2>4. unsent' = rest
    BY <1>1, <1>6
  <2> QED BY <1>2, <1>4, <2>2, <2>3, <2>4 DEF ServerWritesLast
<1>13. CASE ~ up
  <2>1. Types'
    BY <1>1, <1>6, <1>7, <1>13 DEF Types, clientVars
  <2>2. ClientSide' /\ Outcome'
    <3>1. Count' >= Count /\ UNCHANGED <<clientVars, serverToClient>> /\ up' = up
      BY <1>1, <1>2, <1>4, <1>13
    <3> QED BY <2>1, <3>1, ClientAlone
  <2>3. InStep'
    BY <1>1, <1>4, <1>13 DEF InStep, clientVars
  <2> QED BY <1>11, <1>12, <2>1, <2>2, <2>3
<1>14. CASE up
  <2>1. Receiving /\ clientAt \notin {"connect", "sendHeader", "sendBody", "close", "ended"}
    BY <1>1, <1>14 DEF InStep, Types, Receiving
  <2>2. Count = test /\ Here + Len(unsent) = 2 + AnswerLength(test)
    BY <1>1, <1>14, <2>1 DEF InStep
  <2>3. /\ Units(serverToClient, AnswerLength(test), Tests + test, RecvPos)
        /\ Units(buf, AnswerLength(test), Tests + test, RecvPos - Len(buf))
        /\ test <= Tests
    BY <2>1 DEF ClientSide
  <2>4. /\ RecvPos \in Nat /\ Here = RecvPos + Len(serverToClient) /\ Here \in Nat /\ at = Here
    <3>1. RecvPos \in Nat
      BY Lengths DEF RecvPos
    <3>2. Here = RecvPos + Len(serverToClient)
      BY DEF Here
    <3> QED BY <1>3, <1>8, <2>2, <3>1, <3>2
  <2>5. serverToClient' = serverToClient \o head
    BY <1>1, <1>6, <1>14
  <2>6. serverToClient' \in Seq(Int) /\ Len(serverToClient') = Len(serverToClient) + n
    BY <1>3, <1>7, <2>5, Joined
  <2>7. Units(serverToClient', AnswerLength(test), Tests + test, RecvPos)
    <3>1. Units(head, AnswerLength(test), Tests + test, RecvPos + Len(serverToClient))
      BY <1>10, <2>2, <2>4
    <3> QED BY <1>3, <1>7, <2>3, <2>4, <2>5, <3>1, UnitsJoin
  <2>8. UNCHANGED <<test, clientAt, sentUnits, buf, length, allPassed, exit, decoded, up>>
        /\ RecvPos' = RecvPos /\ (Receiving' <=> Receiving)
    BY <1>1 DEF clientVars, RecvPos, Receiving
  <2>9. Here' = Here + n /\ Here' <= 2 + AnswerLength(test) /\ Here' \in Nat
        /\ Here' + Len(rest) = 2 + AnswerLength(test)
    <3>1. Here' = RecvPos + Len(serverToClient')
      BY <2>8 DEF Here
    <3>2. Here' = Here + n
      BY <1>3, <1>7, <2>4, <2>6, <3>1
    <3>3. Here' + Len(rest) = 2 + AnswerLength(test)
      BY <1>3, <1>7, <2>2, <2>4, <3>2
    <3>4. Len(rest) \in Nat /\ AnswerLength(test) \in Nat
      BY <1>1, <1>3, <1>7, <2>2
    <3> QED BY <1>7, <2>4, <3>2, <3>3, <3>4
  <2>10. allPassed
    BY <1>14 DEF Outcome
  <2>11. Types'
    BY <1>1, <1>6, <1>7, <2>6, <2>8 DEF Types
  <2>12. ClientSide'
    <3>1. /\ clientAt = "recvHeader" => Len(buf) < 2
          /\ clientAt = "recvBody" => length = AnswerLength(test) /\ Len(buf) < length
          /\ clientAt = "decode" => Len(buf) = AnswerLength(test)
          /\ sentUnits = 0
      BY <2>1 DEF ClientSide
    <3>2. Count' >= test'
      BY <1>2, <1>4, <2>2, <2>8
    <3> QED BY <2>1, <2>3, <2>7, <2>8, <2>9, <2>10, <3>1, <3>2 DEF ClientSide
  <2>13. Outcome'
    BY <1>4, <2>8 DEF Outcome
  <2>14. InStep'
    <3>1. Count' = test' /\ Got' = 0
      BY <1>2, <1>4, <2>2, <2>8
    <3>2. CASE n = Len(unsent)
      <4>1. serverAt' = "header" /\ Here' = 2 + AnswerLength(test)
        BY <1>1, <1>3, <1>7, <2>9, <3>2
      <4> QED BY <2>1, <2>8, <3>1, <4>1 DEF InStep
    <3>3. CASE n # Len(unsent)
      <4>1. serverAt' = "write" /\ Here' + Len(unsent') = 2 + AnswerLength(test)
        BY <1>1, <1>6, <2>9, <3>3
      <4> QED BY <2>1, <2>8, <3>1, <4>1 DEF InStep
    <3> QED BY <3>2, <3>3
  <2> QED BY <1>11, <1>12, <2>11, <2>12, <2>13, <2>14
<1> QED BY <1>13, <1>14

\* The server goes away, or the connection does.
LEMMA LossInv == ASSUME Inv, ServerStops \/ ConnectionLost PROVE Inv'
<1> USE DEF Inv
<1>1. /\ ~ up' /\ (serverAt' = "stopped" \/ serverAt' = serverAt) /\ clientAt # "connect"
      /\ UNCHANGED <<clientVars, read, request, unsent, served, clientToServer, serverToClient>>
  BY DEF ServerStops, ConnectionLost, serverVars, InStep
<1>2. up' \in BOOLEAN
  BY Zenon DEF ServerStops, ConnectionLost
<1>3. Count' = Count /\ (serverAt' = serverAt => Got' = Got /\ ReadPos' = ReadPos) /\ Count \in Nat
  BY <1>1, Lengths DEF Count, Got, ReadPos
<1>4. Types'
  BY <1>1, <1>2 DEF Types, clientVars
<1>5. ServerReadsNext'
  BY <1>1, <1>3 DEF ServerReadsNext
<1>6. ServerWritesLast'
  BY <1>1, <1>3 DEF ServerWritesLast
<1>7. ClientSide' /\ Outcome'
  <2>1. Count' >= Count
    BY <1>3
  <2> QED BY <1>1, <1>4, <2>1, ClientAlone
<1>8. InStep'
  BY <1>1 DEF InStep, clientVars
<1> QED BY <1>4, <1>5, <1>6, <1>7, <1>8

\* Nothing at all.
LEMMA StutterInv == ASSUME Inv, UNCHANGED echoVars PROVE Inv'
<1> USE DEF Inv
<1>1. UNCHANGED <<clientVars, serverVars, up, clientToServer, serverToClient>>
  BY DEF echoVars
<1>2. ServerReadsNext' /\ ServerWritesLast' /\ Got' = Got /\ Count' = Count /\ serverAt' = serverAt
  BY <1>1, ServerAlone
<1>3. Types'
  BY <1>1 DEF Types, clientVars, serverVars
<1>4. ClientSide' /\ Outcome' /\ Here' = Here /\ SentPos' = SentPos /\ (Receiving' <=> Receiving)
  <2>1. Count' >= Count
    BY <1>2, Lengths
  <2> QED BY <1>1, <1>3, <2>1, ClientAlone
<1>5. InStep'
  BY <1>1, <1>2, <1>4 DEF InStep, clientVars, serverVars
<1> QED BY <1>2, <1>3, <1>4, <1>5

-----------------------------------------------------------------------------
\* The invariant holds in every reachable state of the client, the server and the
\* connection between them.
THEOREM Invariance == EchoSpec => []Inv
<1>1. Inv /\ [EchoNext]_echoVars => Inv'
  <2>1. Inv /\ EchoServer => Inv'
    BY ServerReadsInv, ServerAnswersInv, ServerWritesInv, LossInv DEF EchoServer
  <2> QED BY <2>1, ClientInv, LossInv, StutterInv DEF EchoNext
<1> QED BY <1>1, InitInv, PTL DEF EchoSpec

\* However the two streams are cut and whenever the connection is lost, a test of
\* main that passed decoded the answer to its own request, although recv_packet
\* does not look at the id.
THEOREM AnswersMatch == EchoSpec => []OwnAnswer
<1>1. Inv => OwnAnswer
  <2> SUFFICES ASSUME Inv PROVE OwnAnswer
    OBVIOUS
  <2>1. DOMAIN decoded = 1 .. Len(decoded)
    BY DEF Inv, Types
  <2> QED BY <2>1 DEF Inv, Outcome, OwnAnswer
<1> QED BY <1>1, Invariance, PTL

\* The code with which the client exits tells whether every request was served
\* once, in order, and its answer decoded; a failure means that the connection was
\* lost, and no answer makes Deserialize throw.
THEOREM ExitTells == EchoSpec => []Verdict
<1>1. Inv => Verdict
  <2> SUFFICES ASSUME Inv PROVE Verdict
    OBVIOUS
  <2>1. ASSUME exit = "0" PROVE Len(decoded) = Tests /\ served = [k \in 1 .. Tests |-> k]
    <3>1. allPassed /\ test = Tests + 1 /\ Tests \in Nat
      BY <2>1, TestsAssumption DEF Inv, Outcome
    <3>2. Len(decoded) = test - 1 /\ Count >= test - 1
      BY <3>1 DEF Inv, Outcome
    <3>3. Count \in Nat /\ Count <= Tests /\ (\A i \in 1 .. Count : served[i] = i) /\ served \in Seq(Nat)
      BY Lengths DEF Inv, Types, ServerReadsNext
    <3>4. Count = Tests /\ Len(decoded) = Tests
      BY <3>1, <3>2, <3>3
    <3>5. DOMAIN served = 1 .. Tests /\ served = [k \in DOMAIN served |-> served[k]]
      BY <3>3, <3>4 DEF Count
    <3> QED BY <3>3, <3>4, <3>5
  <2>2. exit \in {"1", "killed"} => ~ up
    BY DEF Inv, Outcome
  <2>3. exit # "aborted"
    BY DEF Inv, Types
  <2> QED BY <2>1, <2>2, <2>3 DEF Verdict
<1> QED BY <1>1, Invariance, PTL
=============================================================================
