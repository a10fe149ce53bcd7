----------------------------- MODULE ChatServer -----------------------------
(***************************************************************************)
(* samples/ChatServer/Program.cs: one thread per client, two dictionaries  *)
(* under globalLock, and sends that block while the receiver's window is   *)
(* full - the broadcasts with globalLock held, the responses after it.     *)
(*                                                                         *)
(* A handler is two or three steps: its locked section computes the new    *)
(* dictionaries and the packets to send, the packets are sent one by one   *)
(* before the lock is released, and the response, if any, follows.  What   *)
(* a session holds (Username, CurrentRoom) is written by its own thread    *)
(* inside the lock only.                                                   *)
(***************************************************************************)
EXTENDS Integers, Sequences, SequencesExt

CONSTANTS
    Sessions,
    Names,          \* the user names that are not blank
    Rooms,
    None,           \* null, for names, rooms, sessions and responses
    Window,         \* packets that a stream takes before its client reads
    MaxRequests     \* bound: requests handled by all threads together

ASSUME NoneAssumption == None \notin Sessions \cup Names \cup Rooms

ASSUME SessionsAssumption == IsFiniteSet(Sessions)

ASSUME BoundsAssumption == Window \in Nat /\ MaxRequests \in Nat

VARIABLES
    globalLock,                 \* the thread in the locked section, or None
    loggedInUsers, rooms,       \* the dictionaries
    Username, CurrentRoom,      \* the fields of each ClientSession
    thread,     \* per session: "absent", "read", "locked", "respond", "closing", "closed"
    after,      \* per session: what follows the locked section
    pending,    \* per session: what its locked section has still to send, and to whom
    response,   \* per session: the packet to send after the lock
    up,         \* per session: the client's end is open
    reading,    \* per session: running_, the client's receive loop goes on
    wire,       \* per session: packets written to its stream and not read yet
    chats,      \* history, per session: the room chats written to its stream
    requests    \* history: requests handled so far, which also number the chats

sessions == <<Username, CurrentRoom>>
network  == <<up, reading, wire, chats>>
control  == <<globalLock, thread, after, pending, response>>
vars     == <<loggedInUsers, rooms, sessions, network, control, requests>>

Init ==
    /\ globalLock = None
    /\ loggedInUsers = [n \in {} |-> None]
    /\ rooms = [r \in {} |-> {}]
    /\ Username = [s \in Sessions |-> None]
    /\ CurrentRoom = [s \in Sessions |-> None]
    /\ thread = [s \in Sessions |-> "absent"]
    /\ after = [s \in Sessions |-> "read"]
    /\ pending = [s \in Sessions |-> <<>>]
    /\ response = [s \in Sessions |-> None]
    /\ up = [s \in Sessions |-> FALSE]
    /\ reading = [s \in Sessions |-> TRUE]
    /\ wire = [s \in Sessions |-> <<>>]
    /\ chats = [s \in Sessions |-> <<>>]
    /\ requests = 0

-----------------------------------------------------------------------------
\* A dictionary without one key, and with one key set.
Without(f, key) == [k \in DOMAIN f \ {key} |-> f[k]]
With(f, key, value) == [k \in DOMAIN f \cup {key} |-> IF k = key THEN value ELSE f[k]]

\* The same packet for everyone in a set of sessions.
ToEach(members, packet) == SetToSeq({<<m, packet>> : m \in members})

\* LeaveCurrentRoom: the room without s, which is dropped when it is empty, and
\* the UserLeft for those who stay.
Staying(s) == IF CurrentRoom[s] = None THEN {} ELSE rooms[CurrentRoom[s]] \ {s}

RoomsWithout(s) ==
    IF Staying(s) = {} THEN Without(rooms, CurrentRoom[s])
    ELSE With(rooms, CurrentRoom[s], Staying(s))

UserLeft(s) == ToEach(Staying(s), [id |-> "UserLeft", name |-> Username[s]])

\* A handler of s begins: a request is there and globalLock is free.
Begin(s) ==
    /\ thread[s] = "read"
    /\ globalLock = None
    /\ requests < MaxRequests
    /\ requests' = requests + 1

\* s enters the locked section with packets to send; next follows the section.
Locked(s, packets, next) ==
    /\ globalLock' = s
    /\ thread' = [thread EXCEPT ![s] = "locked"]
    /\ pending' = [pending EXCEPT ![s] = packets]
    /\ after' = [after EXCEPT ![s] = next]

\* The main thread accepts a client and starts its thread.
Accept(s) ==
    /\ thread[s] = "absent"
    /\ thread' = [thread EXCEPT ![s] = "read"]
    /\ up' = [up EXCEPT ![s] = TRUE]
    /\ UNCHANGED <<globalLock, after, pending, response, loggedInUsers, rooms, sessions,
                   reading, wire, chats, requests>>

\* Mutant of Refused: a name that is taken is given to the newcomer.
RefusedBlankOnly(name) == name = None

Refused(name) == name = None \/ name \in DOMAIN loggedInUsers

\* HandleLogin; None stands for a blank name.
HandleLogin(s, name) ==
    /\ Begin(s)
    /\ Locked(s, <<>>, "respond")
    /\ response' = [response EXCEPT ![s] = [id |-> "LoginResponse", ok |-> ~ Refused(name)]]
    /\ IF Refused(name) THEN UNCHANGED <<loggedInUsers, Username>>
       ELSE /\ loggedInUsers' = With(loggedInUsers, name, s)
            /\ Username' = [Username EXCEPT ![s] = name]
    /\ UNCHANGED <<rooms, CurrentRoom, network>>

\* HandleRoomJoin: leave, join, tell the others; the response is for later.
HandleRoomJoin(s, room) ==
    LET left   == IF CurrentRoom[s] = None THEN rooms ELSE RoomsWithout(s)
        others == IF room \in DOMAIN left THEN left[room] ELSE {}
        entered == [id |-> "UserEntered", name |-> Username[s]]
        users   == {Username[m] : m \in others} \ {None}
    IN  /\ Begin(s)
        /\ Locked(s, UserLeft(s) \o ToEach(others, entered), "respond")
        /\ response' = [response EXCEPT ![s] = [id |-> "RoomJoinResponse", users |-> users]]
        /\ rooms' = With(left, room, others \cup {s})
        /\ CurrentRoom' = [CurrentRoom EXCEPT ![s] = room]
        /\ UNCHANGED <<loggedInUsers, Username, network>>

Chat(s) == [id |-> "RoomChat", name |-> Username[s], number |-> requests]

\* Mutant of HandleRoomChat: the room is told without globalLock.
HandleRoomChatUnlocked(s) ==
    /\ Begin(s)
    /\ CurrentRoom[s] # None
    /\ thread' = [thread EXCEPT ![s] = "locked"]
    /\ pending' = [pending EXCEPT ![s] = ToEach(rooms[CurrentRoom[s]], Chat(s))]
    /\ after' = [after EXCEPT ![s] = "read"]
    /\ UNCHANGED <<globalLock, response, loggedInUsers, rooms, sessions, network>>

\* HandleRoomChat: everyone in the room, the sender too.  Outside a room the
\* handler returns before it locks.
HandleRoomChat(s) ==
    /\ Begin(s)
    /\ CurrentRoom[s] # None
    /\ Locked(s, ToEach(rooms[CurrentRoom[s]], Chat(s)), "read")
    /\ UNCHANGED <<response, loggedInUsers, rooms, sessions, network>>

\* HandlePrivateChat: the target if it is there, then the echo.
HandlePrivateChat(s, target) ==
    LET packet == [id |-> "PrivateChat", name |-> Username[s], target |-> target]
        to     == IF target \in DOMAIN loggedInUsers
                  THEN << <<loggedInUsers[target], packet>> >> ELSE <<>>
    IN  /\ Begin(s)
        /\ Locked(s, Append(to, <<s, packet>>), "read")
        /\ UNCHANGED <<response, loggedInUsers, rooms, sessions, network>>

\* HandleClient leaves its loop: the client is gone, or what it sent made the
\* loop throw.
LeaveLoop(s) ==
    /\ thread[s] = "read"
    /\ thread' = [thread EXCEPT ![s] = "closing"]
    /\ UNCHANGED <<globalLock, after, pending, response, loggedInUsers, rooms, sessions,
                   network, requests>>

\* Mutant of HandleDisconnect: the session stays in its room.
HandleDisconnectKeepsRoom(s) ==
    /\ thread[s] = "closing"
    /\ globalLock = None
    /\ Locked(s, UserLeft(s), "closed")
    /\ loggedInUsers' = IF Username[s] = None THEN loggedInUsers
                        ELSE Without(loggedInUsers, Username[s])
    /\ CurrentRoom' = [CurrentRoom EXCEPT ![s] = None]
    /\ UNCHANGED <<rooms, response, Username, network, requests>>

HandleDisconnect(s) ==
    /\ thread[s] = "closing"
    /\ globalLock = None
    /\ Locked(s, UserLeft(s), "closed")
    /\ loggedInUsers' = IF Username[s] = None THEN loggedInUsers
                        ELSE Without(loggedInUsers, Username[s])
    /\ rooms' = IF CurrentRoom[s] = None THEN rooms ELSE RoomsWithout(s)
    /\ CurrentRoom' = [CurrentRoom EXCEPT ![s] = None]
    /\ UNCHANGED <<response, Username, network, requests>>

\* SendPacket to m under its WriteLock: it waits for room in the window; to a
\* client that is gone nothing is written.
Write(m, packet) ==
    IF up[m]
    THEN /\ Len(wire[m]) < Window
         /\ wire' = [wire EXCEPT ![m] = Append(@, packet)]
         /\ chats' = IF packet.id = "RoomChat"
                     THEN [chats EXCEPT ![m] = Append(@, packet.number)] ELSE chats
    ELSE UNCHANGED <<wire, chats>>

\* TrySendPacket of the locked section: an exception is swallowed.
SendLocked(s) ==
    /\ thread[s] = "locked"
    /\ pending[s] # <<>>
    /\ Write(Head(pending[s])[1], Head(pending[s])[2])
    /\ pending' = [pending EXCEPT ![s] = Tail(@)]
    /\ UNCHANGED <<globalLock, thread, after, response, loggedInUsers, rooms, sessions,
                   up, reading, requests>>

\* Mutant of Unlock: a thread that ends keeps the lock.
UnlockUnlessClosing(s) ==
    /\ thread[s] = "locked"
    /\ pending[s] = <<>>
    /\ globalLock' = IF after[s] = "closed" THEN globalLock ELSE None
    /\ thread' = [thread EXCEPT ![s] = after[s]]
    /\ up' = [up EXCEPT ![s] = @ /\ after[s] # "closed"]
    /\ UNCHANGED <<after, pending, response, loggedInUsers, rooms, sessions, reading, wire,
                   chats, requests>>

\* The lock is released; behind HandleDisconnect the socket is closed.
Unlock(s) ==
    /\ thread[s] = "locked"
    /\ pending[s] = <<>>
    /\ globalLock' = IF globalLock = s THEN None ELSE globalLock
    /\ thread' = [thread EXCEPT ![s] = after[s]]
    /\ up' = [up EXCEPT ![s] = @ /\ after[s] # "closed"]
    /\ UNCHANGED <<after, pending, response, loggedInUsers, rooms, sessions, reading, wire,
                   chats, requests>>

\* The handler's own SendPacket.  When the client is gone it may throw, which
\* ends the loop, or the system takes the bytes all the same.
Respond(s) ==
    /\ thread[s] = "respond"
    /\ Write(s, response[s])
    /\ \E next \in IF up[s] THEN {"read"} ELSE {"read", "closing"} :
          thread' = [thread EXCEPT ![s] = next]
    /\ response' = [response EXCEPT ![s] = None]
    /\ UNCHANGED <<globalLock, after, pending, loggedInUsers, rooms, sessions, up, reading,
                   requests>>

-----------------------------------------------------------------------------
(* The clients, as far as the server sees them. *)

\* The packet holds a name or a text that some client chose.
FromClients(packet) ==
    \/ packet.id \in {"RoomChat", "PrivateChat"}
    \/ packet.id \in {"UserEntered", "UserLeft"} /\ packet.name # None
    \/ packet.id = "RoomJoinResponse" /\ packet.users # {}

\* A packet may end the receive loop, with the socket still open: a refused login
\* does, and so does a body over MAX_BODY_LENGTH, which the server does not bound.
StillReading(packet) ==
    IF packet.id = "LoginResponse" THEN {packet.ok} ELSE {TRUE, ~ FromClients(packet)}

\* One turn of ReceiveLoop.
ClientReads(s) ==
    /\ up[s]
    /\ reading[s]
    /\ wire[s] # <<>>
    /\ \E on \in StillReading(Head(wire[s])) : reading' = [reading EXCEPT ![s] = on]
    /\ wire' = [wire EXCEPT ![s] = Tail(@)]
    /\ UNCHANGED <<up, chats, control, loggedInUsers, rooms, sessions, requests>>

\* The client is ended: its main thread returns from getline, or it is killed.
ClientCloses(s) ==
    /\ up[s]
    /\ up' = [up EXCEPT ![s] = FALSE]
    /\ wire' = [wire EXCEPT ![s] = <<>>]
    /\ UNCHANGED <<reading, chats, control, loggedInUsers, rooms, sessions, requests>>

Next ==
    \E s \in Sessions :
        \/ Accept(s)
        \/ \E name \in Names \cup {None} : HandleLogin(s, name)
        \/ \E room \in Rooms : HandleRoomJoin(s, room)
        \/ HandleRoomChat(s)
        \/ \E target \in Names : HandlePrivateChat(s, target)
        \/ LeaveLoop(s)
        \/ HandleDisconnect(s)
        \/ SendLocked(s)
        \/ Unlock(s)
        \/ Respond(s)
        \/ ClientReads(s)
        \/ ClientCloses(s)

\* Threads run and obtain the lock, and a receive loop that has not ended reads
\* what is there.  Nobody has to connect, to send a request or to disconnect; a
\* client whose receive loop has ended need not close its socket either, since its
\* main thread waits for a line.
Fairness ==
    \A s \in Sessions :
        /\ WF_vars(SendLocked(s))
        /\ WF_vars(Unlock(s))
        /\ WF_vars(Respond(s))
        /\ WF_vars(LeaveLoop(s) /\ ~ up[s])
        /\ WF_vars(HandleDisconnect(s))
        /\ WF_vars(ClientReads(s))

Spec == Init /\ [][Next]_vars /\ Fairness

-----------------------------------------------------------------------------
\* What the locked sections send, and what follows them.
Packets ==
    [id : {"UserEntered", "UserLeft"}, name : Names \cup {None}]
      \cup [id : {"RoomChat"}, name : Names \cup {None}, number : Nat]
      \cup [id : {"PrivateChat"}, name : Names \cup {None}, target : Names]

Responses ==
    [id : {"LoginResponse"}, ok : BOOLEAN]
      \cup [id : {"RoomJoinResponse"}, users : SUBSET Names]

\* null is no packet.
ASSUME ResponsesAssumption == None \notin Responses

\* Every variable has its type, and no window is overrun.
TypeOK ==
    /\ globalLock \in Sessions \cup {None}
    /\ DOMAIN loggedInUsers \subseteq Names
    /\ \A n \in DOMAIN loggedInUsers : loggedInUsers[n] \in Sessions
    /\ DOMAIN rooms \subseteq Rooms
    /\ \A r \in DOMAIN rooms : rooms[r] \subseteq Sessions
    /\ Username \in [Sessions -> Names \cup {None}]
    /\ CurrentRoom \in [Sessions -> Rooms \cup {None}]
    /\ thread \in [Sessions -> {"absent", "read", "locked", "respond", "closing", "closed"}]
    /\ after \in [Sessions -> {"read", "respond", "closed"}]
    /\ pending \in [Sessions -> Seq(Sessions \X Packets)]
    /\ response \in [Sessions -> Responses \cup {None}]
    /\ up \in [Sessions -> BOOLEAN]
    /\ reading \in [Sessions -> BOOLEAN]
    /\ wire \in [Sessions -> Seq(Packets \cup Responses)]
    /\ \A s \in Sessions : Len(wire[s]) <= Window
    /\ chats \in [Sessions -> Seq(Nat)]
    /\ requests \in 0 .. MaxRequests

\* The session is between its accept and the locked section of its disconnect.
Live(s) ==
    \/ thread[s] \in {"read", "respond", "closing"}
    \/ thread[s] = "locked" /\ after[s] # "closed"

\* The name of a live session is registered for that session: no other session's
\* login or disconnect takes it away, and no two live sessions share a name.
NamesAreOwned ==
    \A s \in Sessions :
        Live(s) /\ Username[s] # None =>
            /\ Username[s] \in DOMAIN loggedInUsers
            /\ loggedInUsers[Username[s]] = s

\* The room table and the sessions' own fields agree, no empty room is kept, and
\* a session that is gone is in no room.
RoomsAgree ==
    /\ \A r \in DOMAIN rooms : rooms[r] # {}
    /\ \A s \in Sessions, r \in Rooms :
          (r \in DOMAIN rooms /\ s \in rooms[r]) <=> CurrentRoom[s] = r
    /\ \A s \in Sessions : ~ Live(s) => CurrentRoom[s] = None

\* Any two clients see the chats that both receive in the same order.
SameChatOrder ==
    \A s, t \in Sessions :
        \A i, j \in DOMAIN chats[s], k, l \in DOMAIN chats[t] :
            chats[s][i] = chats[t][k] /\ chats[s][j] = chats[t][l] => (i < j <=> k < l)

\* Nobody keeps a socket open for ever that it no longer reads.
ClientsKeepUp == \A c \in Sessions : []<>(reading[c] \/ ~ up[c])

\* A handler that has begun, and a disconnect, come to their end if the clients
\* keep up: no thread is left waiting for globalLock or for a window.
HandlersEnd ==
    ClientsKeepUp =>
        \A s \in Sessions :
            thread[s] \in {"locked", "respond", "closing"} ~> thread[s] \in {"read", "closed"}
=============================================================================
