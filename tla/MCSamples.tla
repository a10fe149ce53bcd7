----------------------------- MODULE MCSamples -----------------------------
(***************************************************************************)
(* The sample programs that share nothing: one connection of CppServer,    *)
(* the two threads of ChatClientConsole, and CppClient with the echo       *)
(* server of CSharpServer.                                                 *)
(*                                                                         *)
(* A behaviour is one of a single program, from its own initial state; the *)
(* other two are over, in a state they reach when nobody is at the other   *)
(* end.  Their steps do not interact, so that their interleavings would    *)
(* add nothing.                                                            *)
(***************************************************************************)
EXTENDS ServerConnection, ConsoleClient, EchoClient

\* Bytes of radix 8, so that lengths are -4 .. 3.
MCByte == 0 .. 7

\* Two requests, one that does not decode, a response, a body above the limit and
\* one above the largest length that the header can declare.
MCPackets ==
    {<<0, <<1>>>>, <<0, <<2>>>>, <<0, <<>>>>, <<1, <<1>>>>, <<0, <<1, 1>>>>, <<0, <<1, 1, 1, 1>>>>}

\* Id 0 is a request, 1 a response; a body decodes when it has its one byte.
MCRefused(packet) == packet[1] # 0 \/ Len(packet[2]) # 1

MCReply(packet) == <<1, packet[2]>>

\* Bodies above and below the size of the stream.
MCRequestLength(k) == CASE k = 1 -> 5 [] k = 2 -> 1 [] OTHER -> 2

MCAnswerLength(k) == CASE k = 1 -> 1 [] k = 2 -> 4 [] OTHER -> 2

-----------------------------------------------------------------------------
\* The client disconnected before it had sent a byte.
ConnOver ==
    /\ Init
    /\ out = <<>>
    /\ toServer = <<>>
    /\ peer = FALSE
    /\ attempts = 0
    /\ written = <<>>
    /\ conn = "closed"
    /\ alive_ = TRUE
    /\ sendBuffer_ = <<>>
    /\ sending = FALSE
    /\ sent = 0
    /\ unread = 0
    /\ answered = <<>>

\* Connect failed and the destructor's Stop has ended.
ConsoleOver ==
    /\ sock_ = "none"
    /\ running_ = FALSE
    /\ main = "returned"
    /\ receiver = "none"
    /\ wasRunning = FALSE
    /\ destructing = TRUE
    /\ told = {}
    /\ server = FALSE
    /\ inbox = <<>>
    /\ traffic = 0

\* connect failed, and the server has stopped.
EchoOver ==
    /\ test = 1
    /\ clientAt = "ended"
    /\ sentUnits = 0
    /\ buf = <<>>
    /\ length = 0
    /\ allPassed = TRUE
    /\ exit = "1"
    /\ decoded = <<>>
    /\ serverAt = "stopped"
    /\ read = <<>>
    /\ request = <<0, 0>>
    /\ unsent = <<>>
    /\ served = <<>>
    /\ up = FALSE
    /\ clientToServer = <<>>
    /\ serverToClient = <<>>

SamplesInit ==
    \/ ConnInit /\ ConsoleOver /\ EchoOver
    \/ ConnOver /\ ConsoleInit /\ EchoOver
    \/ ConnOver /\ ConsoleOver /\ EchoInit

SamplesNext ==
    \/ ConnNext /\ UNCHANGED <<consoleVars, echoVars>>
    \/ ConsoleNext /\ UNCHANGED <<connVars, echoVars>>
    \/ EchoNext /\ UNCHANGED <<connVars, consoleVars>>

SamplesSpec ==
    /\ SamplesInit
    /\ [][SamplesNext]_<<connVars, consoleVars, echoVars>>
    /\ ConnFairness
    /\ ConsoleFairness
    /\ EchoFairness
=============================================================================
