----------------------------- MODULE EchoClient -----------------------------
(***************************************************************************)
(* samples/CppClient/main.cpp against samples/CSharpServer/Program.cs: the *)
(* client runs its tests one after another on one socket, each a request,  *)
(* its answer and a decode of it; the server reads a request, answers it   *)
(* and reads the next.  Both sides move whole headers and bodies through a *)
(* stream that takes and gives any number of bytes at a time, and the      *)
(* connection may be lost between any two of them.                         *)
(*                                                                         *)
(* A header's two integers are one unit of the stream each, and so is each *)
(* byte of a body; a body is its packet's own byte, repeated.              *)
(***************************************************************************)
EXTENDS Integers, Sequences

CONSTANTS
    Tests,              \* how many tests main runs
    RequestLength(_),   \* the size of the request's body in test k
    AnswerLength(_),    \* the size of the answer's body in test k
    StreamSize          \* units that the stream holds in either direction

ASSUME TestsAssumption == Tests \in Nat /\ StreamSize \in Nat
ASSUME LengthsAssumption ==
    \A k \in 1 .. Tests : RequestLength(k) \in Nat /\ AnswerLength(k) \in Nat

VARIABLES
    test,           \* the test that runs
    clientAt,       \* where in it the client is
    sentUnits,      \* send_exact's local
    buf,            \* what recv_exact has received
    length,         \* recv_packet's bodyLength
    allPassed,
    exit,           \* how the process ended, "none" while it runs
    decoded,        \* history: <<test, body>> of each test that returned true
    serverAt,       \* where the server's loop is
    read,           \* what ReadExactAsync has read
    request,        \* packetId and bodyLength of the request
    unsent,         \* what WriteAsync has still to write
    served,         \* history: the requests that the server decoded
    up,             \* the connection is there
    clientToServer, serverToClient

clientVars == <<test, clientAt, sentUnits, buf, length, allPassed, exit, decoded>>
serverVars == <<serverAt, read, request, unsent, served>>
echoVars   == <<clientVars, serverVars, up, clientToServer, serverToClient>>

Body(byte, size) == [i \in 1 .. size |-> byte]

RequestBody(k) == Body(k, RequestLength(k))
AnswerBody(k)  == Body(Tests + k, AnswerLength(k))

Header(byte, body) == <<byte, Len(body)>>

EchoInit ==
    /\ test = 1
    /\ clientAt = "connect"
    /\ sentUnits = 0
    /\ buf = <<>>
    /\ length = 0
    /\ allPassed = TRUE
    /\ exit = "none"
    /\ decoded = <<>>
    /\ serverAt = "header"
    /\ read = <<>>
    /\ request = <<0, 0>>
    /\ unsent = <<>>
    /\ served = <<>>
    /\ up = FALSE
    /\ clientToServer = <<>>
    /\ serverToClient = <<>>

-----------------------------------------------------------------------------
(* The client. *)

ConnectServer ==
    /\ clientAt = "connect"
    /\ up' = TRUE
    /\ clientAt' = IF Tests = 0 THEN "close" ELSE "sendHeader"
    /\ UNCHANGED <<test, sentUnits, buf, length, allPassed, exit, decoded, serverVars,
                   clientToServer, serverToClient>>

\* There is no socket to be had, or nobody listens.
ConnectServerFails ==
    /\ clientAt = "connect"
    /\ clientAt' = "ended"
    /\ exit' = "1"
    /\ UNCHANGED <<test, sentUnits, buf, length, allPassed, decoded, serverVars, up,
                   clientToServer, serverToClient>>

\* Mutant of EndTest: what the test returned is not looked at.
EndTestForgets(passed) ==
    /\ allPassed' = allPassed
    /\ test' = test + 1
    /\ clientAt' = IF test = Tests THEN "close" ELSE "sendHeader"

\* A test function returns; main goes on to the next one, whatever it returned.
EndTest(passed) ==
    /\ allPassed' = (allPassed /\ passed)
    /\ test' = test + 1
    /\ clientAt' = IF test = Tests THEN "close" ELSE "sendHeader"

\* What send_exact was given.
Sending == IF clientAt = "sendHeader" THEN Header(test, RequestBody(test)) ELSE RequestBody(test)

\* Mutant of AfterSend: the body is forgotten.
AfterSendHeaderOnly == "recvHeader"

\* send_packet: behind the header the body, when there is one.
AfterSend ==
    IF clientAt = "sendHeader" /\ RequestLength(test) > 0 THEN "sendBody" ELSE "recvHeader"

\* One send of send_exact.  On a connection that is gone it may still succeed.
SendSome(n) ==
    /\ clientAt \in {"sendHeader", "sendBody"}
    /\ n \in 1 .. Len(Sending) - sentUnits
    /\ up => Len(clientToServer) + n <= StreamSize
    /\ LET done == sentUnits + n = Len(Sending)
       IN  /\ sentUnits' = IF done THEN 0 ELSE sentUnits + n
           /\ clientAt' = IF done THEN AfterSend ELSE clientAt
    /\ clientToServer' = IF up THEN clientToServer \o SubSeq(Sending, sentUnits + 1, sentUnits + n)
                         ELSE clientToServer
    /\ UNCHANGED <<test, buf, length, allPassed, exit, decoded, serverVars, up, serverToClient>>

\* send returns an error, and with it send_exact, send_packet and the test.
SendError ==
    /\ clientAt \in {"sendHeader", "sendBody"}
    /\ ~ up
    /\ sentUnits' = 0
    /\ EndTest(FALSE)
    /\ UNCHANGED <<buf, length, exit, decoded, serverVars, up, clientToServer, serverToClient>>

\* The same send under POSIX: nothing handles SIGPIPE.
SendKills ==
    /\ clientAt \in {"sendHeader", "sendBody"}
    /\ ~ up
    /\ clientAt' = "ended"
    /\ exit' = "killed"
    /\ UNCHANGED <<test, sentUnits, buf, length, allPassed, decoded, serverVars, up,
                   clientToServer, serverToClient>>

\* How many units recv_exact waits for: the header's two, or the body's.
Expected == IF clientAt = "recvHeader" THEN 2 ELSE length

\* Mutant of RecvSome: recv_packet takes what one recv returned.
RecvSomeShort(n) ==
    /\ clientAt \in {"recvHeader", "recvBody"}
    /\ n \in 1 .. Expected - Len(buf)
    /\ n <= Len(serverToClient)
    /\ serverToClient' = SubSeq(serverToClient, n + 1, Len(serverToClient))
    /\ LET all  == buf \o SubSeq(serverToClient, 1, n)
           done == Len(all) = Expected \/ clientAt = "recvBody"
       IN  IF clientAt = "recvHeader" /\ done
           THEN /\ length' = all[2]
                /\ clientAt' = IF all[2] > 0 THEN "recvBody" ELSE "decode"
                /\ buf' = <<>>
           ELSE /\ clientAt' = IF done THEN "decode" ELSE clientAt
                /\ buf' = all
                /\ length' = length
    /\ UNCHANGED <<test, sentUnits, allPassed, exit, decoded, serverVars, up, clientToServer>>

\* One recv of recv_exact; the last one of a header announces the body.
RecvSome(n) ==
    /\ clientAt \in {"recvHeader", "recvBody"}
    /\ n \in 1 .. Expected - Len(buf)
    /\ n <= Len(serverToClient)
    /\ serverToClient' = SubSeq(serverToClient, n + 1, Len(serverToClient))
    /\ LET all  == buf \o SubSeq(serverToClient, 1, n)
           done == Len(all) = Expected
       IN  IF clientAt = "recvHeader" /\ done
           THEN /\ length' = all[2]
                /\ clientAt' = IF all[2] > 0 THEN "recvBody" ELSE "decode"
                /\ buf' = <<>>
           ELSE /\ clientAt' = IF done THEN "decode" ELSE clientAt
                /\ buf' = all
                /\ length' = length
    /\ UNCHANGED <<test, sentUnits, allPassed, exit, decoded, serverVars, up, clientToServer>>

\* recv returns 0 or an error; whatever was still on its way is lost.
RecvError ==
    /\ clientAt \in {"recvHeader", "recvBody"}
    /\ ~ up
    /\ buf' = <<>>
    /\ serverToClient' = <<>>
    /\ EndTest(FALSE)
    /\ UNCHANGED <<sentUnits, length, exit, decoded, serverVars, up, clientToServer>>

\* Deserialize: the test's own answer decodes; of any other body it makes
\* something, or it throws, and nothing catches that.
Decode(thrown) ==
    /\ clientAt = "decode"
    /\ thrown => buf # AnswerBody(test)
    /\ buf' = <<>>
    /\ IF thrown
       THEN /\ clientAt' = "ended"
            /\ exit' = "aborted"
            /\ UNCHANGED <<test, allPassed, decoded>>
       ELSE /\ EndTest(TRUE)
            /\ decoded' = Append(decoded, <<test, buf>>)
            /\ exit' = exit
    /\ UNCHANGED <<sentUnits, length, serverVars, up, clientToServer, serverToClient>>

Close ==
    /\ clientAt = "close"
    /\ clientAt' = "ended"
    /\ exit' = IF allPassed THEN "0" ELSE "1"
    /\ UNCHANGED <<test, sentUnits, buf, length, allPassed, decoded, serverVars, up,
                   clientToServer, serverToClient>>

-----------------------------------------------------------------------------
(* The server. *)

\* One ReadAsync of ReadExactAsync.
ServerReads(n) ==
    /\ serverAt \in {"header", "body"}
    /\ n \in 1 .. (IF serverAt = "header" THEN 2 ELSE request[2]) - Len(read)
    /\ n <= Len(clientToServer)
    /\ clientToServer' = SubSeq(clientToServer, n + 1, Len(clientToServer))
    /\ LET all  == read \o SubSeq(clientToServer, 1, n)
       IN  IF serverAt = "header"
           THEN /\ read' = IF Len(all) = 2 THEN <<>> ELSE all
                /\ request' = IF Len(all) = 2 THEN all ELSE request
                /\ serverAt' = IF Len(all) < 2 THEN "header"
                               ELSE IF all[2] > 0 THEN "body" ELSE "answer"
           ELSE /\ read' = all
                /\ request' = request
                /\ serverAt' = IF Len(all) = request[2] THEN "answer" ELSE "body"
    /\ UNCHANGED <<clientVars, unsent, served, up, serverToClient>>

\* The switch: a known packet is decoded and answered, an unknown one passed
\* over.  A body that does not decode ends the server.
ServerAnswers ==
    /\ serverAt = "answer"
    /\ read' = <<>>
    /\ LET k     == request[1]
           known == k \in 1 .. Tests
       IN  /\ unsent' = IF known /\ read = RequestBody(k)
                        THEN Header(Tests + k, AnswerBody(k)) \o AnswerBody(k) ELSE <<>>
           /\ served' = IF known THEN Append(served, k) ELSE served
           /\ serverAt' = CASE ~ known -> "header"
                          [] known /\ read # RequestBody(k) -> "stopped"
                          [] OTHER -> "write"
           /\ up' = (up /\ serverAt' # "stopped")
    /\ UNCHANGED <<clientVars, request, clientToServer, serverToClient>>

\* WriteAsync, of the header and of the body.
ServerWrites(n) ==
    /\ serverAt = "write"
    /\ n \in 1 .. Len(unsent)
    /\ up => Len(serverToClient) + n <= StreamSize
    /\ serverToClient' = IF up THEN serverToClient \o SubSeq(unsent, 1, n) ELSE serverToClient
    /\ unsent' = SubSeq(unsent, n + 1, Len(unsent))
    /\ serverAt' = IF n = Len(unsent) THEN "header" ELSE "write"
    /\ UNCHANGED <<clientVars, read, request, served, up, clientToServer>>

\* ReadAsync returns 0, or one of the calls throws an IOException.
ServerStops ==
    /\ serverAt \in {"header", "body", "write"}
    /\ clientAt # "connect"
    /\ ~ up \/ (clientAt = "ended" /\ clientToServer = <<>>)
    /\ serverAt' = "stopped"
    /\ up' = FALSE
    /\ UNCHANGED <<clientVars, read, request, unsent, served, clientToServer, serverToClient>>

ConnectionLost ==
    /\ up
    /\ up' = FALSE
    /\ UNCHANGED <<clientVars, serverVars, clientToServer, serverToClient>>

Client ==
    \/ ConnectServer
    \/ ConnectServerFails
    \/ \E n \in 1 .. StreamSize : SendSome(n)
    \/ SendError
    \/ SendKills
    \/ \E n \in 1 .. StreamSize : RecvSome(n)
    \/ RecvError
    \/ \E thrown \in BOOLEAN : Decode(thrown)
    \/ Close

EchoServer ==
    \/ \E n \in 1 .. StreamSize : ServerReads(n)
    \/ ServerAnswers
    \/ \E n \in 1 .. StreamSize : ServerWrites(n)
    \/ ServerStops

EchoNext == Client \/ EchoServer \/ ConnectionLost

\* Both processes run.  The connection need not be lost.
EchoFairness == WF_echoVars(Client) /\ WF_echoVars(EchoServer)

EchoSpec == EchoInit /\ [][EchoNext]_echoVars /\ EchoFairness

-----------------------------------------------------------------------------
\* A test that passed decoded the answer to its own request, however the bytes
\* were cut and wherever an earlier test gave up: recv_packet never looks at the
\* id, so a request too many or an answer too few would let every later test
\* decode its predecessor's answer.
OwnAnswer == \A i \in DOMAIN decoded : decoded[i] = <<i, AnswerBody(i)>>

\* The exit code tells: 0 when every request was answered once, in order, and
\* every answer decoded; 1, a signal or an abort only when the connection was
\* never there or got lost.  No answer makes the client throw.
Verdict ==
    /\ exit = "0" => Len(decoded) = Tests /\ served = [k \in 1 .. Tests |-> k]
    /\ exit \in {"1", "killed"} => ~ up
    /\ exit # "aborted"

\* Nobody waits for the other one for good: main returns, or a signal ends it.
ClientEnds == <>(exit # "none")
=============================================================================
