---------------------------- MODULE ConsoleClient ----------------------------
(***************************************************************************)
(* samples/ChatClientConsole/main.cpp: the main thread, which owns stdin   *)
(* and sends, and the receive thread, which owns recv.  They share sock_   *)
(* and running_, and end each other: the main thread's Stop shuts the      *)
(* socket down and joins the receive thread, and a receive thread that     *)
(* ends clears running_ so that the main thread leaves its loop.           *)
(*                                                                         *)
(* Stop is called by main and once more by the destructor; after a Connect *)
(* that failed, by the destructor alone.                                   *)
(***************************************************************************)
EXTENDS Integers, Sequences

CONSTANT MaxTraffic     \* bound: packets and lines of one conversation

ASSUME MaxTrafficAssumption == MaxTraffic \in Nat

\* What arrives: "accepted" and "rejected" are LoginResponses, "other" is any
\* further packet, "malformed" a frame that breaks the parser's limit.
Arrivals == {"accepted", "rejected", "other", "malformed"}

VARIABLES
    sock_,          \* "none" is INVALID_SOCKET; "open"; "shut" after shutdown()
    running_,
    main,           \* where the main thread is
    receiver,       \* where receiveThread_ is
    wasRunning,     \* Stop's local
    destructing,    \* the Stop that is running is the destructor's
    told,           \* who has printed that the connection is gone
    server,         \* the server's end is open
    inbox,          \* packets on their way to the client
    traffic         \* history: packets sent by the server and lines typed

shared      == <<sock_, running_>>
stop        == <<wasRunning, destructing>>
consoleVars == <<shared, main, receiver, stop, told, server, inbox, traffic>>

ConsoleInit ==
    /\ sock_ = "none"
    /\ running_ = FALSE
    /\ main = "connect"
    /\ receiver = "none"
    /\ wasRunning = FALSE
    /\ destructing = FALSE
    /\ told = {}
    /\ server = TRUE
    /\ inbox = <<>>
    /\ traffic = 0

-----------------------------------------------------------------------------
(* The main thread. *)

Connect ==
    /\ main = "connect"
    /\ sock_' = "open"
    /\ running_' = TRUE
    /\ receiver' = "check"
    /\ main' = "login"
    /\ UNCHANGED <<stop, told, server, inbox, traffic>>

ConnectFails ==
    /\ main = "connect"
    /\ main' = "exchange"
    /\ destructing' = TRUE
    /\ server' = FALSE
    /\ UNCHANGED <<shared, receiver, wasRunning, told, inbox, traffic>>

\* Send: the frame goes out or it does not; main ignores which.
MainSends ==
    /\ main \in {"login", "join", "send"}
    /\ main' = IF main = "login" THEN "join" ELSE "check"
    /\ UNCHANGED <<shared, receiver, stop, told, server, inbox, traffic>>

\* while (client.IsRunning() ...
CheckRunning ==
    /\ main = "check"
    /\ main' = IF running_ THEN "getline" ELSE "exchange"
    /\ UNCHANGED <<shared, receiver, stop, told, server, inbox, traffic>>

\* ... && getline: a line that is empty or no command, one that sends, or /quit
\* and the end of the input.
GetLine(next) ==
    /\ main = "getline"
    /\ next \in {"check", "send", "exchange"}
    /\ next # "exchange" => traffic < MaxTraffic
    /\ traffic' = IF next = "exchange" THEN traffic ELSE traffic + 1
    /\ main' = next
    /\ UNCHANGED <<shared, receiver, stop, told, server, inbox>>

StopExchange ==
    /\ main = "exchange"
    /\ wasRunning' = running_
    /\ running_' = FALSE
    /\ main' = "shutdown"
    /\ UNCHANGED <<sock_, receiver, destructing, told, server, inbox, traffic>>

\* Mutant of StopShutdown: the receive thread is left in recv.
StopShutdownSkipped ==
    /\ main = "shutdown"
    /\ main' = "await"
    /\ UNCHANGED <<shared, receiver, stop, told, server, inbox, traffic>>

\* Mutant of StopShutdown: the socket is closed before the join.
StopShutdownCloses ==
    /\ main = "shutdown"
    /\ sock_' = "none"
    /\ main' = "await"
    /\ UNCHANGED <<running_, receiver, stop, told, server, inbox, traffic>>

StopShutdown ==
    /\ main = "shutdown"
    /\ sock_' = IF sock_ = "none" THEN "none" ELSE "shut"
    /\ main' = "await"
    /\ UNCHANGED <<running_, receiver, stop, told, server, inbox, traffic>>

StopJoin ==
    /\ main = "await"
    /\ receiver \in {"none", "ended"}
    /\ receiver' = "none"
    /\ main' = "close"
    /\ UNCHANGED <<shared, stop, told, server, inbox, traffic>>

StopClose ==
    /\ main = "close"
    /\ sock_' = "none"
    /\ told' = IF wasRunning THEN told \cup {"main"} ELSE told
    /\ main' = IF destructing THEN "returned" ELSE "exchange"
    /\ destructing' = TRUE
    /\ UNCHANGED <<running_, receiver, wasRunning, server, inbox, traffic>>

-----------------------------------------------------------------------------
(* The receive thread. *)

ReceiveCheck ==
    /\ receiver = "check"
    /\ receiver' = IF running_ THEN "recv" ELSE "leave"
    /\ UNCHANGED <<shared, main, stop, told, server, inbox, traffic>>

\* recv returns a chunk of n packets, and Feed hands HandlePacket those in front
\* of a malformed one; running_ is looked at again only behind the whole chunk.
Receive(n) ==
    /\ receiver = "recv"
    /\ n \in 1 .. Len(inbox)
    /\ LET malformed(i) == inbox[i] = "malformed"
           rejected(i)  == inbox[i] = "rejected" /\ \A j \in 1 .. i : ~ malformed(j)
       IN  /\ receiver' = IF \E i \in 1 .. n : malformed(i) THEN "leave" ELSE "check"
           /\ running_' = (running_ /\ ~ \E i \in 1 .. n : rejected(i))
    /\ inbox' = SubSeq(inbox, n + 1, Len(inbox))
    /\ UNCHANGED <<sock_, main, stop, told, server, traffic>>

\* recv returns 0 or an error: the server closed, or Stop shut the socket down.
ReceiveEnds ==
    /\ receiver = "recv"
    /\ sock_ # "open" \/ (~ server /\ inbox = <<>>)
    /\ receiver' = "leave"
    /\ UNCHANGED <<shared, main, stop, told, server, inbox, traffic>>

\* Mutant of ReceiveLeaves: running_ is read, and cleared without looking.
ReceiveLeavesTwice ==
    /\ receiver = "leave"
    /\ told' = told \cup {"receiver"}
    /\ running_' = FALSE
    /\ receiver' = "ended"
    /\ UNCHANGED <<sock_, main, stop, server, inbox, traffic>>

\* Mutant of ReceiveLeaves: running_ keeps its value.
ReceiveLeavesRunning ==
    /\ receiver = "leave"
    /\ receiver' = "ended"
    /\ UNCHANGED <<shared, main, stop, told, server, inbox, traffic>>

ReceiveLeaves ==
    /\ receiver = "leave"
    /\ told' = IF running_ THEN told \cup {"receiver"} ELSE told
    /\ running_' = FALSE
    /\ receiver' = "ended"
    /\ UNCHANGED <<sock_, main, stop, server, inbox, traffic>>

-----------------------------------------------------------------------------
(* The server, as far as the client sees it. *)

ServerSends(packet) ==
    /\ server
    /\ sock_ # "none"
    /\ traffic < MaxTraffic
    /\ traffic' = traffic + 1
    /\ inbox' = Append(inbox, packet)
    /\ UNCHANGED <<shared, main, receiver, stop, told, server>>

ServerCloses ==
    /\ server
    /\ sock_ # "none"
    /\ server' = FALSE
    /\ UNCHANGED <<shared, main, receiver, stop, told, inbox, traffic>>

MainThread ==
    \/ Connect
    \/ ConnectFails
    \/ MainSends
    \/ CheckRunning
    \/ StopExchange
    \/ StopShutdown
    \/ StopJoin
    \/ StopClose

ReceiveThread ==
    \/ ReceiveCheck
    \/ \E n \in 1 .. MaxTraffic : Receive(n)
    \/ ReceiveEnds
    \/ ReceiveLeaves

ConsoleNext ==
    \/ MainThread
    \/ \E next \in {"check", "send", "exchange"} : GetLine(next)
    \/ ReceiveThread
    \/ \E packet \in Arrivals : ServerSends(packet)
    \/ ServerCloses

\* Both threads run; nobody has to type anything, and the server need not send
\* or close.
ConsoleFairness == WF_consoleVars(MainThread) /\ WF_consoleVars(ReceiveThread)

ConsoleSpec == ConsoleInit /\ [][ConsoleNext]_consoleVars /\ ConsoleFairness

-----------------------------------------------------------------------------
\* Every variable has its type.
ConsoleTypeOK ==
    /\ sock_ \in {"none", "open", "shut"}
    /\ {running_, wasRunning, destructing, server} \subseteq BOOLEAN
    /\ main \in {"connect", "login", "join", "check", "getline", "send",
                 "exchange", "shutdown", "await", "close", "returned"}
    /\ receiver \in {"none", "check", "recv", "leave", "ended"}
    /\ told \subseteq {"main", "receiver"}
    /\ inbox \in Seq(Arrivals)
    /\ traffic \in 0 .. MaxTraffic

\* The receive thread is never in recv on a socket that has been closed: Stop
\* shuts down, joins and closes in this order, and the client object is destroyed
\* with its thread ended and joined and its socket closed.
NoDeadHandle ==
    /\ receiver = "recv" => sock_ # "none"
    /\ main = "returned" => receiver = "none" /\ sock_ = "none"

\* The user is told at most once that the connection is gone, whichever thread
\* notices first and however often Stop is called.
ToldOnce == told # {"main", "receiver"}

\* A Stop that has begun, from main or from the destructor, ends.
StopEnds == main = "exchange" ~> main = "returned"

\* When the server closes or the receive thread leaves its loop, running_ is
\* cleared, so that the main thread's loop ends at the next line.
EndNoticed == (~ server \/ receiver = "leave") ~> ~ running_
=============================================================================
