---------------------------- MODULE ChatClients ----------------------------
(***************************************************************************)
(* The Win32 clients of samples/ChatClient/main.cpp at work on ChatServer, *)
(* next to clients of any other make.                                      *)
(*                                                                         *)
(* A session is one connection of one client: a login that is refused      *)
(* closes the connection, and trying again is another session.  What the   *)
(* user may click is what the window has enabled so far, and since nothing *)
(* is disabled again a request that travels for a while is the same as one *)
(* clicked when the server takes it.  RecvThread and the window's message  *)
(* queue only delay packets, like the stream before them, so wire stands   *)
(* for all three.  The user clicks Login once for each connection.         *)
(***************************************************************************)
EXTENDS ChatServer, Functions

CONSTANTS
    WindowSets,     \* the sets of sessions that may be those of a window
    CaseFold        \* what a list box compares of a name: not its case

ASSUME CaseFoldAssumption == DOMAIN CaseFold = Names \cup {None}

VARIABLES
    window,     \* per session: how far the window is, "off", "connected",
                \* "waiting" (for LoginResponse), "lobby" or "room"; "none" for
                \* a client that sends what it likes
    listUsers,  \* per session: g_hListUsers, the room members it shows
    raced       \* history, per session: a UserEntered or UserLeft was written
                \* between the locked section and the response of its join

ui      == <<window, listUsers, raced>>
allVars == <<vars, ui>>

ClientsInit ==
    /\ Init
    /\ \E W \in WindowSets : window = [s \in Sessions |-> IF s \in W THEN "off" ELSE "none"]
    /\ listUsers = [s \in Sessions |-> <<>>]
    /\ raced = [s \in Sessions |-> FALSE]

-----------------------------------------------------------------------------
\* OnLogin connects, starts RecvThread and sends the LoginRequest.
OnLogin(s) ==
    /\ window[s] = "off"
    /\ Accept(s)
    /\ window' = [window EXCEPT ![s] = "connected"]
    /\ UNCHANGED <<listUsers, raced>>

\* A name of blanks passes OnLogin's test and is refused by the server.
LoginRequest(s, name) ==
    /\ window[s] = "connected"
    /\ HandleLogin(s, name)
    /\ window' = [window EXCEPT ![s] = "waiting"]
    /\ UNCHANGED <<listUsers, raced>>

OnJoinRoom(s, room) ==
    /\ window[s] \in {"lobby", "room"}
    /\ HandleRoomJoin(s, room)
    /\ raced' = [raced EXCEPT ![s] = FALSE]
    /\ UNCHANGED <<window, listUsers>>

OnSendChat(s) ==
    /\ window[s] = "room"
    /\ HandleRoomChat(s)
    /\ UNCHANGED ui

\* The target is a name the list showed when the button was clicked.
OnSendPM(s, target) ==
    /\ window[s] = "room"
    /\ HandlePrivateChat(s, target)
    /\ UNCHANGED ui

\* A packet for m overtakes the response of m's join.
Overtakes(m, packet) ==
    /\ window[m] # "none"
    /\ response[m] # None
    /\ response[m].id = "RoomJoinResponse"
    /\ packet.id \in {"UserEntered", "UserLeft"}

Broadcast(s) ==
    /\ SendLocked(s)
    /\ LET m == Head(pending[s])[1]
       IN  raced' = [raced EXCEPT ![m] = @ \/ Overtakes(m, Head(pending[s])[2])]
    /\ UNCHANGED <<window, listUsers>>

\* LB_FINDSTRINGEXACT takes these for the same text.  The server, whose dictionary
\* compares them character by character, does not.
SameText(a, b) == CaseFold[a] = CaseFold[b]

\* Mutant of ShownUsers: what the search returned is not used, the first row goes.
ShownUsersFirst(s, packet) ==
    CASE packet.id = "RoomJoinResponse" -> SetToSeq(packet.users)
      [] packet.id = "UserEntered"      -> Append(listUsers[s], packet.name)
      [] packet.id = "UserLeft"         -> RemoveFirstMatch(listUsers[s], LAMBDA row : TRUE)
      [] OTHER                          -> listUsers[s]

\* What the list shows after a packet: a join fills it anew, a newcomer is added,
\* and of one who left the first row with its name is deleted, if there is one.
ShownUsers(s, packet) ==
    CASE packet.id = "RoomJoinResponse" -> SetToSeq(packet.users)
      [] packet.id = "UserEntered"      -> Append(listUsers[s], packet.name)
      [] packet.id = "UserLeft"         ->
            RemoveFirstMatch(listUsers[s], LAMBDA row : SameText(row, packet.name))
      [] OTHER                          -> listUsers[s]

\* Mutant of HandleNetPacket: a LoginResponse is not acted upon.
HandleNetPacketNoLogin(s, packet) ==
    /\ window' = [window EXCEPT ![s] = IF packet.id = "RoomJoinResponse" THEN "room" ELSE @]
    /\ listUsers' = [listUsers EXCEPT ![s] = ShownUsers(s, packet)]
    /\ UNCHANGED up

\* HandleNetPacket, on the window's thread; a refused login closes the socket.
HandleNetPacket(s, packet) ==
    LET refused == packet.id = "LoginResponse" /\ ~ packet.ok
        next    == CASE packet.id = "LoginResponse"      -> IF refused THEN "off" ELSE "lobby"
                     [] packet.id = "RoomJoinResponse"   -> "room"
                     [] OTHER                            -> window[s]
    IN  /\ window' = [window EXCEPT ![s] = next]
        /\ listUsers' = [listUsers EXCEPT ![s] = ShownUsers(s, packet)]
        /\ up' = [up EXCEPT ![s] = ~ refused]

\* One turn of RecvThread, and the window's of the packet that it posts.
Receive(s) ==
    /\ window[s] # "none"
    /\ up[s]
    /\ reading[s]
    /\ wire[s] # <<>>
    /\ HandleNetPacket(s, Head(wire[s]))
    /\ wire' = [wire EXCEPT ![s] = IF up'[s] THEN Tail(@) ELSE <<>>]
    /\ UNCHANGED <<reading, chats, control, loggedInUsers, rooms, sessions, requests, raced>>

\* WM_DESTROY.
CloseWindow(s) ==
    /\ window[s] # "none"
    /\ ClientCloses(s)
    /\ window' = [window EXCEPT ![s] = "off"]
    /\ UNCHANGED <<listUsers, raced>>

\* What the window sends is well formed, so the server's loop ends only when the
\* client is gone.
ServerStep(s) ==
    /\ (LeaveLoop(s) /\ ~ up[s]) \/ HandleDisconnect(s) \/ Unlock(s) \/ Respond(s)
    /\ UNCHANGED ui

\* Any other client: any request at any time, and bytes that make the server's
\* loop throw.
OtherClient(s) ==
    /\ window[s] = "none"
    /\ \/ Accept(s)
       \/ \E name \in Names \cup {None} : HandleLogin(s, name)
       \/ \E room \in Rooms : HandleRoomJoin(s, room)
       \/ HandleRoomChat(s)
       \/ \E target \in Names : HandlePrivateChat(s, target)
       \/ LeaveLoop(s)
       \/ ClientReads(s)
       \/ ClientCloses(s)
    /\ UNCHANGED ui

ClientsNext ==
    \E s \in Sessions :
        \/ OtherClient(s)
        \/ OnLogin(s)
        \/ \E name \in Names \cup {None} : LoginRequest(s, name)
        \/ \E room \in Rooms : OnJoinRoom(s, room)
        \/ OnSendChat(s)
        \/ \E target \in Names : OnSendPM(s, target)
        \/ Broadcast(s)
        \/ ServerStep(s)
        \/ Receive(s)
        \/ CloseWindow(s)

\* The server's threads run, the window handles the packets it is sent, and any
\* other client reads them until its receive loop ends.  Nobody has to click
\* anything or to disconnect.
ClientsSpec ==
    /\ ClientsInit
    /\ [][ClientsNext]_allVars
    /\ \A s \in Sessions :
          /\ WF_allVars(Broadcast(s))
          /\ WF_allVars(Unlock(s) /\ UNCHANGED ui)
          /\ WF_allVars(Respond(s) /\ UNCHANGED ui)
          /\ WF_allVars(LeaveLoop(s) /\ ~ up[s] /\ UNCHANGED ui)
          /\ WF_allVars(HandleDisconnect(s) /\ UNCHANGED ui)
          /\ WF_allVars(Receive(s))
          /\ WF_allVars(window[s] = "none" /\ ClientReads(s) /\ UNCHANGED ui)

-----------------------------------------------------------------------------
\* Nothing that would change the list of s is under way.
Settled(s) ==
    /\ wire[s] = <<>>
    /\ response[s] = None
    /\ \A t \in Sessions : \A i \in DOMAIN pending[t] : pending[t][i][1] # s

\* The members, and nobody else, have each one row, by the comparison of a list
\* box: of two names that differ by case only, either may stand for the other.
RowsOf(list, members) ==
    \E g \in Bijection(DOMAIN list, members) :
        \A i \in DOMAIN list : SameText(list[i], Username[g[i]])

AllWindows == \A s \in Sessions : window[s] # "none"

\* s is in a room, and handled all that it was sent.
InRoom(s) == window[s] = "room" /\ Settled(s)

OthersOf(s) == rooms[CurrentRoom[s]] \ {s}

\* Where every client is such a window: once every packet is handled the list
\* shows the room up to the case of the names, whoever moved from room to room or
\* disconnected meanwhile, unless somebody entered or left between the locked
\* section and the response of the join.
ListFollowsRoom ==
    AllWindows => \A s \in Sessions : InRoom(s) /\ ~ raced[s] => RowsOf(listUsers[s], OthersOf(s))

\* A login that the server has taken is answered: the window lets the user join
\* a room, or its connection is closed.  What other clients do with their sockets
\* does not matter, since nothing is sent before the lock is released.
LoginAnswered ==
    \A s \in Sessions : window[s] = "waiting" ~> window[s] \in {"lobby", "room", "off"}
=============================================================================
