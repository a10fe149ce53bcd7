------------------------ MODULE ConsoleClientProofs ------------------------
(***************************************************************************)
(* Proofs about the two threads of ConsoleClient, for a conversation of    *)
(* any length.                                                             *)
(***************************************************************************)
EXTENDS ConsoleClient, SequenceTheorems, TLAPS

-----------------------------------------------------------------------------
(***************************************************************************)
(* The inductive invariant.                                                *)
(***************************************************************************)
\* The receive thread exists from Connect to the join of Stop, and the socket is
\* not closed in between.
ThreadHasSocket ==
    receiver # "none" => sock_ # "none" /\ main \notin {"connect", "close", "returned"}

\* Nothing has happened before Connect.
Fresh == main = "connect" => ~ running_ /\ ~ wasRunning /\ told = {}

\* running_ is a ticket that is taken once, by Stop's exchange or by the receive
\* thread's, and whoever took it is the one to tell the user.
OneTicket ==
    /\ running_ => ~ wasRunning /\ told = {}
    /\ wasRunning => "receiver" \notin told

\* main returns with the socket closed.
Closed == main = "returned" => sock_ = "none"

Inv == ConsoleTypeOK /\ ThreadHasSocket /\ Closed /\ Fresh /\ OneTicket /\ ToldOnce

-----------------------------------------------------------------------------
\* Before Connect there is no thread, no socket and nothing to tell.
LEMMA InitInv == ConsoleInit => Inv
<1> SUFFICES ASSUME ConsoleInit PROVE Inv
  OBVIOUS
<1>1. inbox \in Seq(Arrivals) /\ traffic \in 0 .. MaxTraffic
  BY EmptySeq, MaxTrafficAssumption DEF ConsoleInit
<1>2. ConsoleTypeOK
  BY <1>1 DEF ConsoleInit, ConsoleTypeOK
<1>3. ThreadHasSocket /\ Closed /\ Fresh
  BY DEF ConsoleInit, ThreadHasSocket, Closed, Fresh
<1>4. OneTicket /\ ToldOnce
  BY Zenon DEF ConsoleInit, OneTicket, ToldOnce
<1> QED BY <1>2, <1>3, <1>4 DEF Inv

\* The steps of the main thread.
LEMMA MainInv == Inv /\ MainThread => Inv'
<1> SUFFICES ASSUME Inv, MainThread PROVE Inv'
  OBVIOUS
<1> USE DEF Inv, shared, stop
<1>1. CASE Connect \/ ConnectFails
  <2>1. ConsoleTypeOK'
    BY <1>1 DEF Connect, ConnectFails, ConsoleTypeOK
  <2> QED BY <1>1, <2>1 DEF Connect, ConnectFails, ConsoleTypeOK, ThreadHasSocket, Closed, Fresh, OneTicket, ToldOnce
<1>2. CASE MainSends \/ CheckRunning
  <2>1. ConsoleTypeOK'
    BY <1>2 DEF MainSends, CheckRunning, ConsoleTypeOK
  <2> QED BY <1>2, <2>1 DEF MainSends, CheckRunning, ConsoleTypeOK, ThreadHasSocket, Closed, Fresh, OneTicket, ToldOnce
<1>3. CASE StopExchange
  <2>1. ConsoleTypeOK'
    BY <1>3 DEF StopExchange, ConsoleTypeOK
  <2> QED BY <1>3, <2>1 DEF StopExchange, ConsoleTypeOK, ThreadHasSocket, Closed, Fresh, OneTicket, ToldOnce
<1>4. CASE StopShutdown \/ StopJoin
  <2>1. ConsoleTypeOK'
    BY <1>4 DEF StopShutdown, StopJoin, ConsoleTypeOK
  <2> QED BY <1>4, <2>1 DEF StopShutdown, StopJoin, ConsoleTypeOK, ThreadHasSocket, Closed, Fresh, OneTicket, ToldOnce
<1>5. CASE StopClose
  <2>1. ConsoleTypeOK'
    BY <1>5 DEF StopClose, ConsoleTypeOK
  <2>2. OneTicket' /\ ToldOnce'
    BY <1>5 DEF StopClose, ConsoleTypeOK, OneTicket, ToldOnce
  <2> QED BY <1>5, <2>1, <2>2 DEF StopClose, ConsoleTypeOK, ThreadHasSocket, Closed, Fresh
<1> QED BY <1>1, <1>2, <1>3, <1>4, <1>5 DEF MainThread

\* The steps of the receive thread.
LEMMA ReceiverInv == Inv /\ ReceiveThread => Inv'
<1> SUFFICES ASSUME Inv, ReceiveThread PROVE Inv'
  OBVIOUS
<1> USE DEF Inv, shared, stop
<1>1. CASE ReceiveCheck \/ ReceiveEnds
  <2>1. ConsoleTypeOK'
    BY <1>1 DEF ReceiveCheck, ReceiveEnds, ConsoleTypeOK
  <2> QED BY <1>1, <2>1 DEF ReceiveCheck, ReceiveEnds, ConsoleTypeOK, ThreadHasSocket, Closed, Fresh, OneTicket, ToldOnce
<1>2. ASSUME NEW n \in 1 .. MaxTraffic, Receive(n) PROVE Inv'
  <2>1. /\ receiver = "recv" /\ n \in 1 .. Len(inbox)
        /\ receiver' \in {"leave", "check"}
        /\ running_' \in BOOLEAN /\ (running_' => running_)
        /\ inbox' = SubSeq(inbox, n + 1, Len(inbox))
        /\ UNCHANGED <<sock_, main, wasRunning, destructing, told, server, traffic>>
    BY <1>2 DEF Receive
  <2>2. inbox' \in Seq(Arrivals)
    BY <2>1, SubSeqProperties DEF ConsoleTypeOK
  <2>3. ConsoleTypeOK'
    BY <2>1, <2>2 DEF ConsoleTypeOK
  <2> QED BY <2>1, <2>3 DEF ConsoleTypeOK, ThreadHasSocket, Closed, Fresh, OneTicket, ToldOnce
<1>3. CASE ReceiveLeaves
  <2>1. ConsoleTypeOK'
    BY <1>3 DEF ReceiveLeaves, ConsoleTypeOK
  <2> QED BY <1>3, <2>1 DEF ReceiveLeaves, ConsoleTypeOK, ThreadHasSocket, Closed, Fresh, OneTicket, ToldOnce
<1> QED BY <1>1, <1>2, <1>3 DEF ReceiveThread

\* The user's lines, the server's packets, and nothing at all.
LEMMA OthersInv ==
    ASSUME Inv,
           \/ \E next \in {"check", "send", "exchange"} : GetLine(next)
           \/ \E packet \in Arrivals : ServerSends(packet)
           \/ ServerCloses
           \/ UNCHANGED consoleVars
    PROVE  Inv'
<1> USE DEF Inv, shared, stop
<1>1. CASE \E next \in {"check", "send", "exchange"} : GetLine(next)
  <2>1. ConsoleTypeOK'
    BY <1>1, MaxTrafficAssumption DEF GetLine, ConsoleTypeOK
  <2> QED BY <1>1, <2>1 DEF GetLine, ConsoleTypeOK, ThreadHasSocket, Closed, Fresh, OneTicket, ToldOnce
<1>2. CASE \/ \E packet \in Arrivals : ServerSends(packet)
           \/ ServerCloses
           \/ UNCHANGED consoleVars
  <2>1. inbox' \in Seq(Arrivals) /\ traffic' \in 0 .. MaxTraffic
    <3>1. ASSUME NEW packet \in Arrivals PROVE Append(inbox, packet) \in Seq(Arrivals)
      BY <3>1, AppendProperties DEF ConsoleTypeOK
    <3> QED BY <1>2, <3>1, MaxTrafficAssumption DEF ServerSends, ServerCloses, consoleVars, ConsoleTypeOK
  <2>2. ConsoleTypeOK'
    BY <1>2, <2>1 DEF ServerSends, ServerCloses, consoleVars, ConsoleTypeOK
  <2> QED BY <1>2, <2>2 DEF ServerSends, ServerCloses, consoleVars, ConsoleTypeOK, ThreadHasSocket, Closed, Fresh, OneTicket, ToldOnce
<1> QED BY <1>1, <1>2

-----------------------------------------------------------------------------
\* The invariant holds in every reachable state of the two threads.
THEOREM Invariance == ConsoleSpec => []Inv
<1>1. Inv /\ [ConsoleNext]_consoleVars => Inv'
  BY MainInv, ReceiverInv, OthersInv DEF ConsoleNext
<1> QED BY <1>1, InitInv, PTL DEF ConsoleSpec

\* Both threads keep the client's members in their types, and main returns with
\* the socket closed.
THEOREM TypeCorrect == ConsoleSpec => []ConsoleTypeOK
<1>1. Inv => ConsoleTypeOK
  BY DEF Inv
<1> QED BY <1>1, Invariance, PTL

\* However the two threads interleave, recv is never called on a socket that
\* Stop has closed, and the client is destroyed with its thread joined.
THEOREM HandleAlive == ConsoleSpec => []NoDeadHandle
<1>1. Inv => NoDeadHandle
  BY DEF Inv, ThreadHasSocket, Closed, NoDeadHandle
<1> QED BY <1>1, Invariance, PTL

\* The exchanges of running_ let at most one thread tell the user.
THEOREM AtMostOnce == ConsoleSpec => []ToldOnce
<1>1. Inv => ToldOnce
  BY DEF Inv
<1> QED BY <1>1, Invariance, PTL
=============================================================================
