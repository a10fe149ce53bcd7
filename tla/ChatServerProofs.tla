-------------------------- MODULE ChatServerProofs --------------------------
(***************************************************************************)
(* Proofs about the chat server of module ChatServer and about the windows *)
(* of module ChatClients, for any number of sessions, names and rooms, any *)
(* window and any number of requests.                                      *)
(***************************************************************************)
EXTENDS ChatClients, FiniteSetTheorems, SequenceTheorems, WellFoundedInduction, TLAPS

-----------------------------------------------------------------------------
(***************************************************************************)
(* The inductive invariant.                                                *)
(***************************************************************************)
\* The thread in a locked section is the owner of globalLock.
LockHeld == \A s \in Sessions : thread[s] = "locked" <=> globalLock = s

\* Only a locked section has packets left to send.
QuietUnlocked == \A s \in Sessions : thread[s] # "locked" => pending[s] = <<>>

\* Whoever is to respond has a response.
AnswerReady ==
    \A s \in Sessions :
        thread[s] = "respond" \/ (thread[s] = "locked" /\ after[s] = "respond") =>
            response[s] \in Responses

\* A session has no name before its client is accepted.
NamedWhenAccepted == \A s \in Sessions : thread[s] = "absent" => Username[s] = None

\* The chats of a stream carry growing numbers of requests that were handled.
ChatsIncrease ==
    \A s \in Sessions : \A i \in DOMAIN chats[s] :
        /\ chats[s][i] < requests
        /\ \A j \in DOMAIN chats[s] : j < i => chats[s][j] < chats[s][i]

\* A chat that a locked section has still to send is that of the last request,
\* newer than all that was written to its receiver, and nothing else in the
\* section is for the same receiver.
ChatsToCome ==
    \A s \in Sessions : \A i \in DOMAIN pending[s] :
        pending[s][i][2].id = "RoomChat" =>
            /\ pending[s][i][2].number = requests - 1
            /\ \A k \in DOMAIN chats[pending[s][i][1]] :
                  chats[pending[s][i][1]][k] < requests - 1
            /\ \A j \in DOMAIN pending[s] : j # i => pending[s][j][1] # pending[s][i][1]

Inv ==
    /\ TypeOK
    /\ LockHeld /\ QuietUnlocked /\ AnswerReady
    /\ NamedWhenAccepted /\ NamesAreOwned
    /\ RoomsAgree
    /\ ChatsIncrease /\ ChatsToCome

-----------------------------------------------------------------------------
(***************************************************************************)
(* What a locked section sends.                                            *)
(***************************************************************************)
\* SetToSeq lists a finite set without repetition.
LEMMA Numbered ==
    ASSUME NEW S, IsFiniteSet(S)
    PROVE  SetToSeq(S) \in Seq(S) /\ IsInjective(SetToSeq(S))
<1>1. Cardinality(S) \in Nat /\ ExistsBijection(1 .. Cardinality(S), S)
  BY FS_CardinalityType
<1>2. PICK f \in [1 .. Cardinality(S) -> S] : IsInjective(f)
  BY <1>1 DEF ExistsBijection, Bijection, Injection
<1>3. SetToSeq(S) \in [1 .. Cardinality(S) -> S] /\ IsInjective(SetToSeq(S))
  BY <1>2 DEF SetToSeq
<1> QED BY <1>1, <1>3

\* ToEach sends the packet once to each of the members.
LEMMA ToEachOnce ==
    ASSUME NEW members \in SUBSET Sessions, NEW packet \in Packets
    PROVE  /\ ToEach(members, packet) \in Seq(Sessions \X Packets)
           /\ \A i \in DOMAIN ToEach(members, packet) : ToEach(members, packet)[i][2] = packet
           /\ \A i, j \in DOMAIN ToEach(members, packet) :
                 j # i => ToEach(members, packet)[j][1] # ToEach(members, packet)[i][1]
<1> DEFINE S == {<<m, packet>> : m \in members}
           f == [m \in members |-> <<m, packet>>]
           q == SetToSeq(S)
<1>1. IsFiniteSet(members)
  BY FS_Subset, SessionsAssumption
<1>2. f \in Surjection(members, S)
  BY DEF Surjection
<1>3. IsFiniteSet(S)
  BY <1>1, <1>2, FS_Surjection
<1>4. q \in Seq(S) /\ IsInjective(q)
  BY <1>3, Numbered
<1>5. S \subseteq Sessions \X Packets
  OBVIOUS
<1>6. ToEach(members, packet) = q
  BY DEF ToEach
<1> HIDE DEF q
<1>7. q \in Seq(Sessions \X Packets)
  BY <1>4, <1>5, SeqMonotonic
<1>8. \A i \in DOMAIN q : q[i] \in S
  <2> HIDE DEF S
  <2> QED BY <1>4
<1>9. \A i \in DOMAIN q : q[i] = <<q[i][1], packet>>
  BY <1>8
<1>10. ASSUME NEW i \in DOMAIN q, NEW j \in DOMAIN q, j # i
      PROVE  q[j][1] # q[i][1]
  BY <1>4, <1>9, <1>10 DEF IsInjective
<1>11. \A i \in DOMAIN q : q[i][2] = packet
  BY <1>9
<1> QED BY <1>7, <1>10, <1>6, <1>11

\* The others in the room of s are sessions.
LEMMA StayingType ==
    ASSUME TypeOK, RoomsAgree, NEW s \in Sessions
    PROVE  /\ Staying(s) \subseteq Sessions
           /\ CurrentRoom[s] # None => CurrentRoom[s] \in DOMAIN rooms
BY DEF Staying, TypeOK, RoomsAgree

\* UserLeft goes to each of them, and is no chat.
LEMMA UserLeftShape ==
    ASSUME TypeOK, RoomsAgree, NEW s \in Sessions
    PROVE  /\ UserLeft(s) \in Seq(Sessions \X Packets)
           /\ \A i \in DOMAIN UserLeft(s) : UserLeft(s)[i][2].id = "UserLeft"
<1> DEFINE packet == [id |-> "UserLeft", name |-> Username[s]]
<1>1. packet \in Packets
  BY DEF TypeOK, Packets
<1>2. Staying(s) \in SUBSET Sessions
  BY StayingType
<1> HIDE DEF packet
<1>3. UserLeft(s) = ToEach(Staying(s), packet)
  BY DEF UserLeft, packet
<1>4. /\ UserLeft(s) \in Seq(Sessions \X Packets)
      /\ \A i \in DOMAIN UserLeft(s) : UserLeft(s)[i][2] = packet
  BY <1>1, <1>2, <1>3, ToEachOnce
<1> QED BY <1>4 DEF packet

-----------------------------------------------------------------------------
(***************************************************************************)
(* Entering a locked section.                                              *)
(***************************************************************************)
\* While globalLock is free no thread is in a locked section, and nothing is
\* left to send.
LEMMA FreeLock ==
    ASSUME Inv, globalLock = None
    PROVE  \A t \in Sessions : thread[t] # "locked" /\ pending[t] = <<>>
BY NoneAssumption DEF Inv, LockHeld, QuietUnlocked

\* The control state stays consistent when s enters its section.
LEMMA LockedControl ==
    ASSUME Inv, globalLock = None, NEW s \in Sessions,
           NEW packets \in Seq(Sessions \X Packets),
           NEW next \in {"read", "respond", "closed"},
           Locked(s, packets, next)
    PROVE  /\ globalLock' \in Sessions \cup {None}
           /\ thread' = [t \in Sessions |-> IF t = s THEN "locked" ELSE thread[t]]
           /\ thread' \in [Sessions -> {"absent", "read", "locked", "respond", "closing", "closed"}]
           /\ after' = [t \in Sessions |-> IF t = s THEN next ELSE after[t]]
           /\ after' \in [Sessions -> {"read", "respond", "closed"}]
           /\ pending' = [t \in Sessions |-> IF t = s THEN packets ELSE <<>>]
           /\ pending' \in [Sessions -> Seq(Sessions \X Packets)]
           /\ LockHeld' /\ QuietUnlocked'
<1>1. \A t \in Sessions : thread[t] # "locked" /\ pending[t] = <<>>
  BY FreeLock
<1>2. TypeOK
  BY DEF Inv
<1>3. /\ globalLock' \in Sessions \cup {None}
      /\ thread' = [t \in Sessions |-> IF t = s THEN "locked" ELSE thread[t]]
      /\ thread' \in [Sessions -> {"absent", "read", "locked", "respond", "closing", "closed"}]
      /\ after' = [t \in Sessions |-> IF t = s THEN next ELSE after[t]]
      /\ after' \in [Sessions -> {"read", "respond", "closed"}]
  BY <1>2 DEF Locked, TypeOK
<1>4. pending' = [t \in Sessions |-> IF t = s THEN packets ELSE <<>>]
  BY <1>1, <1>2 DEF Locked, TypeOK
<1>5. pending' \in [Sessions -> Seq(Sessions \X Packets)]
  BY <1>4
<1>6. LockHeld'
  BY <1>1, <1>3 DEF Locked, LockHeld
<1>7. QuietUnlocked'
  BY <1>3, <1>4 DEF QuietUnlocked
<1> QED BY <1>3, <1>4, <1>5, <1>6, <1>7

\* A section that sends no chat and leaves the streams alone keeps the order of
\* the chats.
LEMMA NoChatToCome ==
    ASSUME Inv, NEW s \in Sessions, NEW packets,
           pending' = [t \in Sessions |-> IF t = s THEN packets ELSE <<>>],
           \A i \in DOMAIN packets : packets[i][2].id # "RoomChat",
           UNCHANGED chats, requests' \in {requests, requests + 1}
    PROVE  ChatsIncrease' /\ ChatsToCome'
<1>1. requests \in Nat /\ chats \in [Sessions -> Seq(Nat)]
  BY DEF Inv, TypeOK
<1>2. ChatsIncrease'
  BY <1>1 DEF Inv, ChatsIncrease
<1>3. ASSUME NEW t \in Sessions, NEW i \in DOMAIN pending'[t]
      PROVE  pending'[t][i][2].id # "RoomChat"
  <2>1. CASE t = s
    BY <2>1, <1>3
  <2>2. CASE t # s
    BY <2>2, <1>3
  <2> QED BY <2>1, <2>2
<1> QED BY <1>2, <1>3 DEF ChatsToCome

-----------------------------------------------------------------------------
(***************************************************************************)
(* One lemma per action.                                                   *)
(***************************************************************************)
\* A new session has no name, no room and nothing to send.
LEMMA AcceptInv ==
    ASSUME Inv, NEW s \in Sessions, Accept(s)
    PROVE  Inv'
<1> USE DEF Accept, sessions
<1>1. TypeOK'
  BY DEF Inv, TypeOK
<1>2. LockHeld' /\ QuietUnlocked' /\ AnswerReady'
  BY DEF Inv, TypeOK, LockHeld, QuietUnlocked, AnswerReady
<1>3. NamedWhenAccepted'
  BY DEF Inv, TypeOK, NamedWhenAccepted
<1>4. NamesAreOwned'
  BY DEF Inv, TypeOK, NamesAreOwned, NamedWhenAccepted, Live
<1>5. RoomsAgree'
  BY DEF Inv, TypeOK, RoomsAgree, Live
<1>6. ChatsIncrease' /\ ChatsToCome'
  BY ZenonT(30) DEF Inv, ChatsIncrease, ChatsToCome
<1> QED BY <1>1, <1>2, <1>3, <1>4, <1>5, <1>6 DEF Inv

\* A login registers a free name for its own session only.
LEMMA HandleLoginInv ==
    ASSUME Inv, NEW s \in Sessions, NEW name \in Names \cup {None}, HandleLogin(s, name)
    PROVE  Inv'
<1> USE DEF HandleLogin, network
<1>1. /\ thread[s] = "read" /\ globalLock = None
      /\ requests \in Nat /\ requests < MaxRequests /\ requests' = requests + 1
  BY DEF Begin, Inv, TypeOK
<1>2. <<>> \in Seq(Sessions \X Packets)
  BY EmptySeq
<1>3. /\ globalLock' \in Sessions \cup {None}
      /\ thread' = [t \in Sessions |-> IF t = s THEN "locked" ELSE thread[t]]
      /\ thread' \in [Sessions -> {"absent", "read", "locked", "respond", "closing", "closed"}]
      /\ after' = [t \in Sessions |-> IF t = s THEN "respond" ELSE after[t]]
      /\ after' \in [Sessions -> {"read", "respond", "closed"}]
      /\ pending' = [t \in Sessions |-> IF t = s THEN <<>> ELSE <<>>]
      /\ pending' \in [Sessions -> Seq(Sessions \X Packets)]
      /\ LockHeld' /\ QuietUnlocked'
  BY <1>1, <1>2, LockedControl
<1> DEFINE answer == [id |-> "LoginResponse", ok |-> ~ Refused(name)]
<1>4. answer \in Responses
  BY DEF Responses
<1> HIDE DEF answer
<1>5. response' = [response EXCEPT ![s] = answer]
  BY DEF answer
<1>6. /\ response' \in [Sessions -> Responses \cup {None}]
      /\ \A t \in Sessions : response'[t] = IF t = s THEN answer ELSE response[t]
  BY <1>4, <1>5 DEF Inv, TypeOK
<1>7. AnswerReady'
  BY <1>3, <1>4, <1>6 DEF Inv, AnswerReady
<1>8. CASE Refused(name)
  <2>1. UNCHANGED <<loggedInUsers, Username, rooms, CurrentRoom, up, reading, wire, chats>>
    BY <1>8
  <2>2. TypeOK'
    BY <2>1, <1>1, <1>3, <1>6, BoundsAssumption, SMTT(30) DEF Inv, TypeOK
  <2>3. NamedWhenAccepted'
    BY <2>1, <1>1, <1>3 DEF Inv, NamedWhenAccepted
  <2>4. NamesAreOwned'
    BY <2>1, <1>1, <1>3 DEF Inv, NamesAreOwned, Live
  <2>5. RoomsAgree'
    BY <2>1, <1>1, <1>3 DEF Inv, RoomsAgree, Live
  <2>6. ChatsIncrease' /\ ChatsToCome'
    BY <2>1, <1>1, <1>3, NoChatToCome
  <2> QED BY <2>2, <2>3, <2>4, <2>5, <2>6, <1>3, <1>7 DEF Inv
<1>9. CASE ~ Refused(name)
  <2>1. /\ name \in Names /\ name \notin DOMAIN loggedInUsers
        /\ loggedInUsers' = [n \in DOMAIN loggedInUsers \cup {name} |->
                                IF n = name THEN s ELSE loggedInUsers[n]]
        /\ Username' = [Username EXCEPT ![s] = name]
        /\ UNCHANGED <<rooms, CurrentRoom, up, reading, wire, chats>>
    BY <1>9 DEF Refused, With
  <2>2. TypeOK'
    BY <2>1, <1>1, <1>3, <1>6, BoundsAssumption DEF Inv, TypeOK
  <2>3. NamedWhenAccepted'
    BY <2>1, <1>1, <1>3 DEF Inv, TypeOK, NamedWhenAccepted
  <2>4. NamesAreOwned'
    BY <2>1, <1>1, <1>3 DEF Inv, TypeOK, NamesAreOwned, Live
  <2>5. RoomsAgree'
    BY <2>1, <1>1, <1>3 DEF Inv, RoomsAgree, Live
  <2>6. ChatsIncrease' /\ ChatsToCome'
    BY <2>1, <1>1, <1>3, NoChatToCome
  <2> QED BY <2>2, <2>3, <2>4, <2>5, <2>6, <1>3, <1>7 DEF Inv
<1> QED BY <1>8, <1>9

\* The room table without s, and what becomes of it.
LEMMA RoomsWithoutShape ==
    ASSUME Inv, NEW s \in Sessions, CurrentRoom[s] # None
    PROVE  /\ DOMAIN RoomsWithout(s) \subseteq DOMAIN rooms
           /\ \A r \in DOMAIN RoomsWithout(s) :
                 /\ RoomsWithout(s)[r] # {}
                 /\ RoomsWithout(s)[r] = rooms[r] \ {s}
           /\ \A r \in DOMAIN rooms : \A t \in rooms[r] : t # s => r \in DOMAIN RoomsWithout(s)
<1> DEFINE c == CurrentRoom[s]
<1>1. c \in DOMAIN rooms /\ s \in rooms[c] /\ Staying(s) = rooms[c] \ {s}
  BY DEF Inv, TypeOK, RoomsAgree, Staying
<1>2. \A r \in DOMAIN rooms : r # c => s \notin rooms[r]
  BY DEF Inv, TypeOK, RoomsAgree
<1>3. \A r \in DOMAIN rooms : rooms[r] # {}
  BY DEF Inv, RoomsAgree
<1>4. CASE Staying(s) = {}
  <2>1. RoomsWithout(s) = [r \in DOMAIN rooms \ {c} |-> rooms[r]]
    BY <1>4 DEF RoomsWithout, Without
  <2> HIDE DEF c
  <2> QED BY <2>1, <1>1, <1>2, <1>3, <1>4
<1>5. CASE Staying(s) # {}
  <2>1. RoomsWithout(s) = [r \in DOMAIN rooms \cup {c} |-> IF r = c THEN Staying(s) ELSE rooms[r]]
    BY <1>5 DEF RoomsWithout, With
  <2> HIDE DEF c
  <2> QED BY <2>1, <1>1, <1>2, <1>3, <1>5
<1> QED BY <1>4, <1>5

\* A join moves one session from room to room, in the table and in its field.
LEMMA HandleRoomJoinInv ==
    ASSUME Inv, NEW s \in Sessions, NEW room \in Rooms, HandleRoomJoin(s, room)
    PROVE  Inv'
<1> DEFINE left   == IF CurrentRoom[s] = None THEN rooms ELSE RoomsWithout(s)
           others == IF room \in DOMAIN left THEN left[room] ELSE {}
           entered == [id |-> "UserEntered", name |-> Username[s]]
           answer  == [id |-> "RoomJoinResponse", users |-> {Username[m] : m \in others} \ {None}]
           packets == UserLeft(s) \o ToEach(others, entered)
<1>1. /\ thread[s] = "read" /\ globalLock = None
      /\ requests \in Nat /\ requests < MaxRequests /\ requests' = requests + 1
  BY DEF HandleRoomJoin, Begin, Inv, TypeOK
<1>2. /\ Locked(s, packets, "respond")
      /\ response' = [response EXCEPT ![s] = answer]
      /\ rooms' = [r \in DOMAIN left \cup {room} |-> IF r = room THEN others \cup {s} ELSE left[r]]
      /\ CurrentRoom' = [CurrentRoom EXCEPT ![s] = room]
      /\ UNCHANGED <<loggedInUsers, Username, up, reading, wire, chats>>
  BY DEF HandleRoomJoin, With, network
<1>3. /\ DOMAIN left \subseteq DOMAIN rooms
      /\ \A r \in DOMAIN left : left[r] # {} /\ left[r] = rooms[r] \ {s}
      /\ \A r \in DOMAIN rooms : \A t \in rooms[r] : t # s => r \in DOMAIN left
  <2>1. CASE CurrentRoom[s] = None
    <3>1. \A r \in DOMAIN rooms : rooms[r] # {} /\ s \notin rooms[r]
      BY <2>1, NoneAssumption DEF Inv, TypeOK, RoomsAgree
    <3> QED BY <2>1, <3>1
  <2>2. CASE CurrentRoom[s] # None
    BY <2>2, RoomsWithoutShape
  <2> QED BY <2>1, <2>2
<1> HIDE DEF left
<1>4. others \in SUBSET Sessions
  BY <1>3 DEF Inv, TypeOK
<1>5. answer \in Responses
  <2>1. {Username[m] : m \in others} \ {None} \in SUBSET Names
    BY <1>4 DEF Inv, TypeOK
  <2> QED BY <2>1 DEF Responses
<1>6. /\ packets \in Seq(Sessions \X Packets)
      /\ \A i \in DOMAIN packets : packets[i][2].id # "RoomChat"
  <2>1. entered \in Packets
    BY DEF Packets, Inv, TypeOK
  <2> DEFINE a == UserLeft(s)
             b == ToEach(others, entered)
  <2>2. /\ a \in Seq(Sessions \X Packets)
        /\ \A i \in DOMAIN a : a[i][2].id = "UserLeft"
    BY UserLeftShape DEF Inv
  <2> HIDE DEF a, others
  <2>3. /\ b \in Seq(Sessions \X Packets)
        /\ \A i \in DOMAIN b : b[i][2] = entered
    <3> HIDE DEF entered
    <3> QED BY <2>1, <1>4, ToEachOnce
  <2>4. \A i \in DOMAIN b : b[i][2].id = "UserEntered"
    BY <2>3
  <2>5. packets = a \o b
    BY DEF a
  <2> HIDE DEF b, packets
  <2>6. /\ packets \in Seq(Sessions \X Packets)
        /\ Len(packets) = Len(a) + Len(b)
        /\ \A i \in 1 .. Len(a) + Len(b) :
              packets[i] = IF i <= Len(a) THEN a[i] ELSE b[i - Len(a)]
    BY <2>2, <2>3, <2>5, ConcatProperties
  <2>7. ASSUME NEW i \in DOMAIN packets PROVE packets[i][2].id # "RoomChat"
    <3>1. i \in 1 .. Len(a) + Len(b) /\ Len(a) \in Nat /\ Len(b) \in Nat
      BY <2>2, <2>3, <2>6
    <3>2. CASE i <= Len(a)
      BY <3>1, <3>2, <2>2, <2>6
    <3>3. CASE i > Len(a)
      <4>1. i - Len(a) \in DOMAIN b /\ packets[i] = b[i - Len(a)]
        BY <3>1, <3>3, <2>3, <2>6
      <4> QED BY <4>1, <2>4
    <3> QED BY <3>1, <3>2, <3>3
  <2> QED BY <2>6, <2>7
<1> HIDE DEF answer, packets
<1>7. /\ globalLock' \in Sessions \cup {None}
      /\ thread' = [t \in Sessions |-> IF t = s THEN "locked" ELSE thread[t]]
      /\ thread' \in [Sessions -> {"absent", "read", "locked", "respond", "closing", "closed"}]
      /\ after' = [t \in Sessions |-> IF t = s THEN "respond" ELSE after[t]]
      /\ after' \in [Sessions -> {"read", "respond", "closed"}]
      /\ pending' = [t \in Sessions |-> IF t = s THEN packets ELSE <<>>]
      /\ pending' \in [Sessions -> Seq(Sessions \X Packets)]
      /\ LockHeld' /\ QuietUnlocked'
  BY <1>1, <1>2, <1>6, LockedControl
<1>8. /\ response' \in [Sessions -> Responses \cup {None}]
      /\ \A t \in Sessions : response'[t] = IF t = s THEN answer ELSE response[t]
  BY <1>2, <1>5 DEF Inv, TypeOK
<1>9. AnswerReady'
  BY <1>5, <1>7, <1>8 DEF Inv, AnswerReady
<1>10. /\ DOMAIN rooms' \subseteq Rooms
       /\ \A r \in DOMAIN rooms' : rooms'[r] \subseteq Sessions
       /\ CurrentRoom' \in [Sessions -> Rooms \cup {None}]
  BY <1>2, <1>3, <1>4 DEF Inv, TypeOK
<1>11. TypeOK'
  <2>1. UNCHANGED <<loggedInUsers, Username, up, reading, wire, chats>>
    BY <1>2
  <2> QED BY <2>1, <1>1, <1>7, <1>8, <1>10, BoundsAssumption DEF Inv, TypeOK
<1>12. NamedWhenAccepted' /\ NamesAreOwned'
  BY <1>1, <1>2, <1>7 DEF Inv, NamedWhenAccepted, NamesAreOwned, Live
<1>13. RoomsAgree'
  <2>1. \A r \in DOMAIN rooms' : rooms'[r] # {}
    BY <1>2, <1>3
  <2>2. ASSUME NEW t \in Sessions, NEW r \in Rooms
        PROVE  (r \in DOMAIN rooms' /\ t \in rooms'[r]) <=> CurrentRoom'[t] = r
    <3>0. /\ CurrentRoom'[s] = room
          /\ t # s => CurrentRoom'[t] = CurrentRoom[t]
      BY <1>2 DEF Inv, TypeOK
    <3>1. CASE t = s
      BY <3>0, <3>1, <1>2, <1>3
    <3>2. CASE t # s
      <4>1. (r \in DOMAIN rooms' /\ t \in rooms'[r]) <=> (r \in DOMAIN rooms /\ t \in rooms[r])
        BY <3>2, <1>2, <1>3
      <4> QED BY <4>1, <3>0, <3>2 DEF Inv, RoomsAgree
    <3> QED BY <3>1, <3>2
  <2>3. ASSUME NEW t \in Sessions, ~ Live(t)' PROVE CurrentRoom'[t] = None
    <3>1. t # s /\ ~ Live(t)
      BY <2>3, <1>1, <1>7 DEF Live
    <3> QED BY <3>1, <1>2 DEF Inv, RoomsAgree, TypeOK
  <2> QED BY <2>1, <2>2, <2>3 DEF RoomsAgree
<1>14. ChatsIncrease' /\ ChatsToCome'
  BY <1>1, <1>2, <1>6, <1>7, NoChatToCome
<1> QED BY <1>7, <1>9, <1>11, <1>12, <1>13, <1>14 DEF Inv

\* A chat is given a new number, and is put before the room in one section.
LEMMA HandleRoomChatInv ==
    ASSUME Inv, NEW s \in Sessions, HandleRoomChat(s)
    PROVE  Inv'
<1> DEFINE members == rooms[CurrentRoom[s]]
           packet  == Chat(s)
           packets == ToEach(members, packet)
<1>1. /\ thread[s] = "read" /\ globalLock = None
      /\ requests \in Nat /\ requests < MaxRequests /\ requests' = requests + 1
  BY DEF HandleRoomChat, Begin, Inv, TypeOK
<1>2. /\ Locked(s, packets, "read")
      /\ UNCHANGED <<response, loggedInUsers, rooms, Username, CurrentRoom, up, reading, wire, chats>>
  BY DEF HandleRoomChat, sessions, network
<1>3. packet \in Packets /\ packet.number = requests
  BY <1>1 DEF Chat, Packets, Inv, TypeOK
<1>4. members \in SUBSET Sessions
  BY DEF HandleRoomChat, Inv, TypeOK, RoomsAgree
<1> HIDE DEF packet, members
<1>5. /\ packets \in Seq(Sessions \X Packets)
      /\ \A i \in DOMAIN packets : packets[i][2] = packet
      /\ \A i, j \in DOMAIN packets : j # i => packets[j][1] # packets[i][1]
  BY <1>3, <1>4, ToEachOnce
<1> HIDE DEF packets
<1>6. /\ globalLock' \in Sessions \cup {None}
      /\ thread' = [t \in Sessions |-> IF t = s THEN "locked" ELSE thread[t]]
      /\ thread' \in [Sessions -> {"absent", "read", "locked", "respond", "closing", "closed"}]
      /\ after' = [t \in Sessions |-> IF t = s THEN "read" ELSE after[t]]
      /\ after' \in [Sessions -> {"read", "respond", "closed"}]
      /\ pending' = [t \in Sessions |-> IF t = s THEN packets ELSE <<>>]
      /\ pending' \in [Sessions -> Seq(Sessions \X Packets)]
      /\ LockHeld' /\ QuietUnlocked'
  BY <1>1, <1>2, <1>5, LockedControl
<1>7. TypeOK'
  <2>1. UNCHANGED <<response, loggedInUsers, rooms, Username, CurrentRoom, up, reading, wire, chats>>
    BY <1>2
  <2>2. requests' \in 0 .. MaxRequests
    BY <1>1, BoundsAssumption
  <2> QED BY <2>1, <2>2, <1>6 DEF Inv, TypeOK
<1>8. AnswerReady'
  BY <1>2, <1>6 DEF Inv, AnswerReady
<1>9. NamedWhenAccepted' /\ NamesAreOwned' /\ RoomsAgree'
  BY <1>1, <1>2, <1>6 DEF Inv, NamedWhenAccepted, NamesAreOwned, RoomsAgree, Live
<1>10. ChatsIncrease'
  BY <1>1, <1>2 DEF Inv, TypeOK, ChatsIncrease
<1>11. ChatsToCome'
  <2> SUFFICES ASSUME NEW t \in Sessions, NEW i \in DOMAIN pending'[t]
               PROVE  /\ pending'[t][i][2].number = requests' - 1
                      /\ \A k \in DOMAIN chats'[pending'[t][i][1]] :
                            chats'[pending'[t][i][1]][k] < requests' - 1
                      /\ \A j \in DOMAIN pending'[t] : j # i => pending'[t][j][1] # pending'[t][i][1]
    BY DEF ChatsToCome
  <2>1. t = s /\ pending'[t] = packets
    BY <1>6
  <2>2. pending'[t][i][2].number = requests' - 1
    BY <2>1, <1>1, <1>3, <1>5
  <2>3. pending'[t][i][1] \in Sessions
    BY <2>1, <1>5
  <2>4. \A k \in DOMAIN chats'[pending'[t][i][1]] :
           chats'[pending'[t][i][1]][k] < requests' - 1
    BY <2>3, <1>1, <1>2 DEF Inv, TypeOK, ChatsIncrease
  <2> QED BY <2>1, <2>2, <2>4, <1>5
<1> QED BY <1>6, <1>7, <1>8, <1>9, <1>10, <1>11 DEF Inv

\* A private chat changes no table.
LEMMA HandlePrivateChatInv ==
    ASSUME Inv, NEW s \in Sessions, NEW target \in Names, HandlePrivateChat(s, target)
    PROVE  Inv'
<1> DEFINE packet  == [id |-> "PrivateChat", name |-> Username[s], target |-> target]
           to      == IF target \in DOMAIN loggedInUsers
                      THEN << <<loggedInUsers[target], packet>> >> ELSE <<>>
           packets == Append(to, <<s, packet>>)
<1>1. /\ thread[s] = "read" /\ globalLock = None
      /\ requests \in Nat /\ requests < MaxRequests /\ requests' = requests + 1
  BY DEF HandlePrivateChat, Begin, Inv, TypeOK
<1>2. /\ Locked(s, packets, "read")
      /\ UNCHANGED <<response, loggedInUsers, rooms, Username, CurrentRoom, up, reading, wire, chats>>
  BY DEF HandlePrivateChat, sessions, network
<1>3. packet \in Packets /\ packet.id # "RoomChat"
  BY DEF Packets, Inv, TypeOK
<1> HIDE DEF packet
<1>4. /\ packets \in Seq(Sessions \X Packets)
      /\ \A i \in DOMAIN packets : packets[i][2] = packet
  <2>1. to \in Seq(Sessions \X Packets) /\ \A i \in DOMAIN to : to[i][2] = packet
    <3>1. CASE target \in DOMAIN loggedInUsers
      <4> DEFINE first == <<loggedInUsers[target], packet>>
      <4>1. first \in Sessions \X Packets /\ first[2] = packet
        BY <3>1, <1>3 DEF Inv, TypeOK
      <4>2. to = <<first>>
        BY <3>1
      <4> HIDE DEF first, to
      <4> QED BY <4>1, <4>2
    <3>2. CASE target \notin DOMAIN loggedInUsers
      BY <3>2, EmptySeq
    <3> QED BY <3>1, <3>2
  <2> HIDE DEF to
  <2> QED BY <2>1, <1>3
<1> HIDE DEF packets
<1>5. \A i \in DOMAIN packets : packets[i][2].id # "RoomChat"
  BY <1>3, <1>4
<1>6. /\ globalLock' \in Sessions \cup {None}
      /\ thread' = [t \in Sessions |-> IF t = s THEN "locked" ELSE thread[t]]
      /\ thread' \in [Sessions -> {"absent", "read", "locked", "respond", "closing", "closed"}]
      /\ after' = [t \in Sessions |-> IF t = s THEN "read" ELSE after[t]]
      /\ after' \in [Sessions -> {"read", "respond", "closed"}]
      /\ pending' = [t \in Sessions |-> IF t = s THEN packets ELSE <<>>]
      /\ pending' \in [Sessions -> Seq(Sessions \X Packets)]
      /\ LockHeld' /\ QuietUnlocked'
  BY <1>1, <1>2, <1>4, LockedControl
<1>7. TypeOK'
  <2>1. UNCHANGED <<response, loggedInUsers, rooms, Username, CurrentRoom, up, reading, wire, chats>>
    BY <1>2
  <2>2. requests' \in 0 .. MaxRequests
    BY <1>1, BoundsAssumption
  <2> QED BY <2>1, <2>2, <1>6 DEF Inv, TypeOK
<1>8. AnswerReady'
  BY <1>2, <1>6 DEF Inv, AnswerReady
<1>9. NamedWhenAccepted' /\ NamesAreOwned' /\ RoomsAgree'
  BY <1>1, <1>2, <1>6 DEF Inv, NamedWhenAccepted, NamesAreOwned, RoomsAgree, Live
<1>10. ChatsIncrease' /\ ChatsToCome'
  BY <1>1, <1>2, <1>5, <1>6, NoChatToCome
<1> QED BY <1>6, <1>7, <1>8, <1>9, <1>10 DEF Inv

\* A session whose loop is left is still live.
LEMMA LeaveLoopInv ==
    ASSUME Inv, NEW s \in Sessions, LeaveLoop(s)
    PROVE  Inv'
<1> USE DEF LeaveLoop, sessions, network
<1>1. TypeOK'
  BY DEF Inv, TypeOK
<1>2. LockHeld' /\ QuietUnlocked' /\ AnswerReady'
  BY DEF Inv, TypeOK, LockHeld, QuietUnlocked, AnswerReady
<1>3. NamedWhenAccepted' /\ NamesAreOwned' /\ RoomsAgree'
  BY DEF Inv, TypeOK, NamedWhenAccepted, NamesAreOwned, RoomsAgree, Live
<1>4. ChatsIncrease' /\ ChatsToCome'
  BY SMTT(30) DEF Inv, ChatsIncrease, ChatsToCome
<1> QED BY <1>1, <1>2, <1>3, <1>4 DEF Inv

\* The disconnect of s takes no name from another session: the name it removes
\* is registered for s.
LEMMA HandleDisconnectInv ==
    ASSUME Inv, NEW s \in Sessions, HandleDisconnect(s)
    PROVE  Inv'
<1> DEFINE packets == UserLeft(s)
<1>1. thread[s] = "closing" /\ globalLock = None /\ requests \in Nat
  BY DEF HandleDisconnect, Inv, TypeOK
<1>2. /\ Locked(s, packets, "closed")
      /\ CurrentRoom' = [CurrentRoom EXCEPT ![s] = None]
      /\ UNCHANGED <<response, Username, up, reading, wire, chats, requests>>
  BY DEF HandleDisconnect, network
<1>3. /\ packets \in Seq(Sessions \X Packets)
      /\ \A i \in DOMAIN packets : packets[i][2].id # "RoomChat"
  BY UserLeftShape DEF Inv
<1> HIDE DEF packets
<1>4. /\ globalLock' \in Sessions \cup {None}
      /\ thread' = [t \in Sessions |-> IF t = s THEN "locked" ELSE thread[t]]
      /\ thread' \in [Sessions -> {"absent", "read", "locked", "respond", "closing", "closed"}]
      /\ after' = [t \in Sessions |-> IF t = s THEN "closed" ELSE after[t]]
      /\ after' \in [Sessions -> {"read", "respond", "closed"}]
      /\ pending' = [t \in Sessions |-> IF t = s THEN packets ELSE <<>>]
      /\ pending' \in [Sessions -> Seq(Sessions \X Packets)]
      /\ LockHeld' /\ QuietUnlocked'
  BY <1>1, <1>2, <1>3, LockedControl
<1>5. AnswerReady'
  BY <1>2, <1>4 DEF Inv, AnswerReady
<1>6. /\ DOMAIN loggedInUsers' \subseteq DOMAIN loggedInUsers
      /\ \A n \in DOMAIN loggedInUsers' : loggedInUsers'[n] = loggedInUsers[n]
      /\ \A n \in DOMAIN loggedInUsers : n # Username[s] => n \in DOMAIN loggedInUsers'
  <2>1. CASE Username[s] = None
    BY <2>1 DEF HandleDisconnect
  <2>2. CASE Username[s] # None
    BY <2>2 DEF HandleDisconnect, Without
  <2> QED BY <2>1, <2>2
<1>7. /\ DOMAIN rooms' \subseteq DOMAIN rooms
      /\ \A r \in DOMAIN rooms' : rooms'[r] # {} /\ rooms'[r] = rooms[r] \ {s}
      /\ \A r \in DOMAIN rooms : \A t \in rooms[r] : t # s => r \in DOMAIN rooms'
  <2>1. CASE CurrentRoom[s] = None
    <3>1. \A r \in DOMAIN rooms : rooms[r] # {} /\ s \notin rooms[r]
      BY <2>1, NoneAssumption DEF Inv, TypeOK, RoomsAgree
    <3>2. rooms' = rooms
      BY <2>1 DEF HandleDisconnect
    <3> QED BY <3>1, <3>2
  <2>2. CASE CurrentRoom[s] # None
    <3>1. rooms' = RoomsWithout(s)
      BY <2>2 DEF HandleDisconnect
    <3> QED BY <2>2, <3>1, RoomsWithoutShape
  <2> QED BY <2>1, <2>2
<1>8. TypeOK'
  BY <1>1, <1>2, <1>4, <1>6, <1>7 DEF Inv, TypeOK
<1>9. NamedWhenAccepted'
  BY <1>1, <1>2, <1>4 DEF Inv, NamedWhenAccepted
<1>10. NamesAreOwned'
  <2> SUFFICES ASSUME NEW t \in Sessions, Live(t)', Username[t] # None
               PROVE  /\ Username[t] \in DOMAIN loggedInUsers'
                      /\ loggedInUsers'[Username[t]] = t
    BY <1>2 DEF NamesAreOwned
  <2>1. t # s /\ Live(t)
    BY <1>4 DEF Live
  <2>2. Live(s)
    BY <1>1 DEF Live
  <2>3. /\ Username[t] \in DOMAIN loggedInUsers /\ loggedInUsers[Username[t]] = t
        /\ Username[t] # Username[s]
    BY <2>1, <2>2 DEF Inv, NamesAreOwned
  <2> QED BY <2>3, <1>6
<1>11. RoomsAgree'
  <2>1. ASSUME NEW t \in Sessions, NEW r \in Rooms
        PROVE  (r \in DOMAIN rooms' /\ t \in rooms'[r]) <=> CurrentRoom'[t] = r
    <3>1. CurrentRoom'[t] = IF t = s THEN None ELSE CurrentRoom[t]
      BY <1>2 DEF Inv, TypeOK
    <3>2. CASE t = s
      BY <3>1, <3>2, <1>7, NoneAssumption
    <3>3. CASE t # s
      BY <3>1, <3>3, <1>7 DEF Inv, RoomsAgree
    <3> QED BY <3>2, <3>3
  <2>2. ASSUME NEW t \in Sessions, ~ Live(t)' PROVE CurrentRoom'[t] = None
    <3>1. t # s => ~ Live(t)
      BY <2>2, <1>4 DEF Live
    <3> QED BY <3>1, <1>2 DEF Inv, RoomsAgree, TypeOK
  <2> QED BY <2>1, <2>2, <1>7 DEF RoomsAgree
<1>12. ChatsIncrease' /\ ChatsToCome'
  BY <1>2, <1>3, <1>4, NoChatToCome
<1> QED BY <1>4, <1>5, <1>8, <1>9, <1>10, <1>11, <1>12 DEF Inv

\* A packet that is written keeps the type of the streams, and is recorded when
\* it is a chat.
LEMMA WriteTypes ==
    ASSUME TypeOK, NEW m \in Sessions, NEW packet \in Packets \cup Responses, Write(m, packet)
    PROVE  /\ wire' \in [Sessions -> Seq(Packets \cup Responses)]
           /\ \A t \in Sessions : Len(wire'[t]) <= Window
           /\ \/ UNCHANGED chats
              \/ /\ packet.id = "RoomChat"
                 /\ chats' = [chats EXCEPT ![m] = Append(@, packet.number)]
<1>1. CASE up[m]
  <2> DEFINE longer == Append(wire[m], packet)
  <2>1. /\ Len(wire[m]) < Window /\ wire' = [wire EXCEPT ![m] = longer]
        /\ chats' = IF packet.id = "RoomChat"
                    THEN [chats EXCEPT ![m] = Append(@, packet.number)] ELSE chats
    BY <1>1 DEF Write
  <2>2. /\ longer \in Seq(Packets \cup Responses)
        /\ Len(longer) = Len(wire[m]) + 1 /\ Len(wire[m]) \in Nat
    BY DEF TypeOK
  <2> HIDE DEF longer
  <2> QED BY <2>1, <2>2, BoundsAssumption DEF TypeOK
<1>2. CASE ~ up[m]
  BY <1>2 DEF Write, TypeOK
<1> QED BY <1>1, <1>2

\* One packet of a locked section is written; a chat keeps the common order.
LEMMA SendLockedInv ==
    ASSUME Inv, NEW s \in Sessions, SendLocked(s)
    PROVE  Inv'
<1> DEFINE q      == pending[s]
           m      == Head(q)[1]
           packet == Head(q)[2]
<1>1. /\ q \in Seq(Sessions \X Packets) /\ q # <<>> /\ Len(q) \in Nat /\ Len(q) >= 1
      /\ thread[s] = "locked" /\ requests \in Nat
  BY SMTT(30) DEF SendLocked, Inv, TypeOK
<1>2. /\ Write(m, packet) /\ pending' = [pending EXCEPT ![s] = Tail(q)]
      /\ UNCHANGED <<globalLock, thread, after, response, loggedInUsers, rooms, Username,
                     CurrentRoom, up, reading, requests>>
  BY DEF SendLocked, sessions
<1>3. Head(q) = q[1] /\ m \in Sessions /\ packet \in Packets /\ q[1] = <<m, packet>>
  BY <1>1
<1>4. /\ Tail(q) \in Seq(Sessions \X Packets)
      /\ Len(Tail(q)) = Len(q) - 1
      /\ \A i \in 1 .. Len(Tail(q)) : Tail(q)[i] = q[i + 1]
  BY <1>1, HeadTailProperties
<1>5. /\ pending' \in [Sessions -> Seq(Sessions \X Packets)]
      /\ pending'[s] = Tail(q)
      /\ \A t \in Sessions : t # s => pending'[t] = <<>>
  <2>1. \A t \in Sessions : t # s => thread[t] # "locked"
    BY <1>1, NoneAssumption DEF Inv, LockHeld
  <2>2. \A t \in Sessions : t # s => pending[t] = <<>>
    BY <2>1 DEF Inv, QuietUnlocked
  <2> QED BY <2>2, <1>2, <1>4 DEF Inv, TypeOK
<1> HIDE DEF m, packet
<1>6. /\ wire' \in [Sessions -> Seq(Packets \cup Responses)]
      /\ \A t \in Sessions : Len(wire'[t]) <= Window
      /\ \/ UNCHANGED chats
         \/ /\ packet.id = "RoomChat"
            /\ chats' = [chats EXCEPT ![m] = Append(@, packet.number)]
  BY <1>2, <1>3, WriteTypes DEF Inv
<1>7. packet.id = "RoomChat" =>
        /\ packet.number \in Nat /\ packet.number = requests - 1
        /\ \A k \in DOMAIN chats[m] : chats[m][k] < requests - 1
        /\ \A j \in DOMAIN q : j # 1 => q[j][1] # m
  <2> SUFFICES ASSUME packet.id = "RoomChat"
               PROVE  /\ packet.number \in Nat /\ packet.number = requests - 1
                      /\ \A k \in DOMAIN chats[m] : chats[m][k] < requests - 1
                      /\ \A j \in DOMAIN q : j # 1 => q[j][1] # m
    OBVIOUS
  <2>1. packet.number \in Nat
    BY <1>3 DEF Packets
  <2>2. 1 \in DOMAIN q /\ q[1][1] = m /\ q[1][2] = packet
    BY <1>1, <1>3
  <2> HIDE DEF q
  <2>3. \A i \in DOMAIN q : q[i][2].id = "RoomChat" =>
            /\ q[i][2].number = requests - 1
            /\ \A k \in DOMAIN chats[q[i][1]] : chats[q[i][1]][k] < requests - 1
            /\ \A j \in DOMAIN q : j # i => q[j][1] # q[i][1]
    BY DEF q, Inv, ChatsToCome
  <2> QED BY <2>1, <2>2, <2>3
<1>8. /\ chats' \in [Sessions -> Seq(Nat)]
      /\ \A t \in Sessions : t # m => chats'[t] = chats[t]
      /\ packet.id # "RoomChat" => chats' = chats
  <2>1. chats \in [Sessions -> Seq(Nat)]
    BY DEF Inv, TypeOK
  <2>2. CASE UNCHANGED chats
    BY <2>1, <2>2
  <2>3. CASE /\ packet.id = "RoomChat"
             /\ chats' = [chats EXCEPT ![m] = Append(@, packet.number)]
    <3>1. Append(chats[m], packet.number) \in Seq(Nat)
      BY <2>1, <2>3, <1>3, <1>7
    <3> QED BY <2>1, <2>3, <3>1
  <2> QED BY <2>2, <2>3, <1>6
<1>9. TypeOK'
  BY <1>2, <1>5, <1>6, <1>8 DEF Inv, TypeOK
<1>10. LockHeld' /\ QuietUnlocked' /\ AnswerReady'
  BY <1>1, <1>2, <1>5 DEF Inv, LockHeld, QuietUnlocked, AnswerReady
<1>11. NamedWhenAccepted' /\ NamesAreOwned' /\ RoomsAgree'
  BY <1>2 DEF Inv, NamedWhenAccepted, NamesAreOwned, RoomsAgree, Live
<1>12. ChatsIncrease'
  <2>1. CASE UNCHANGED chats
    BY <2>1, <1>2 DEF Inv, ChatsIncrease
  <2>2. CASE /\ packet.id = "RoomChat"
             /\ chats' = [chats EXCEPT ![m] = Append(@, packet.number)]
    <3> DEFINE old == chats[m]
               new == Append(old, packet.number)
    <3>1. old \in Seq(Nat) /\ chats'[m] = new
      BY <2>2, <1>3 DEF Inv, TypeOK
    <3>2. /\ new \in Seq(Nat) /\ Len(new) = Len(old) + 1 /\ Len(old) \in Nat
          /\ \A i \in 1 .. Len(old) : new[i] = old[i]
          /\ new[Len(old) + 1] = packet.number
      BY <3>1, <2>2, <1>7
    <3>3. \A i \in DOMAIN old : \A j \in DOMAIN old : j < i => old[j] < old[i]
      BY <1>3 DEF Inv, ChatsIncrease
    <3>4. \A i \in DOMAIN old : old[i] < requests - 1
      BY <2>2, <1>7
    <3> HIDE DEF new, old
    <3>5. ASSUME NEW i \in DOMAIN new
          PROVE  new[i] < requests /\ \A j \in DOMAIN new : j < i => new[j] < new[i]
      <4>1. DOMAIN new = 1 .. Len(old) + 1 /\ DOMAIN old = 1 .. Len(old)
        BY <3>1, <3>2
      <4>2. CASE i \in DOMAIN old
        <5>1. new[i] = old[i] /\ old[i] \in Nat /\ old[i] < requests - 1 /\ i \in Nat
          BY <4>1, <4>2, <3>1, <3>2, <3>4
        <5>2. ASSUME NEW j \in DOMAIN new, j < i PROVE new[j] < new[i]
          <6>1. j \in DOMAIN old /\ new[j] = old[j]
            BY <5>2, <4>1, <4>2, <3>2
          <6> QED BY <6>1, <5>1, <5>2, <4>2, <3>3
        <5> QED BY <5>1, <5>2, <1>1
      <4>3. CASE i = Len(old) + 1
        <5>1. new[i] = requests - 1
          BY <4>3, <3>2, <2>2, <1>7
        <5>2. ASSUME NEW j \in DOMAIN new, j < i PROVE new[j] < new[i]
          <6>1. j \in DOMAIN old /\ new[j] = old[j]
            BY <5>2, <4>1, <4>3, <3>2
          <6> QED BY <6>1, <5>1, <3>4
        <5> QED BY <5>1, <5>2, <1>1
      <4> QED BY <4>1, <4>2, <4>3, <3>2
    <3> QED BY <3>1, <3>5, <1>2, <1>8 DEF Inv, ChatsIncrease
  <2> QED BY <2>1, <2>2, <1>6
<1>13. ChatsToCome'
  <2> SUFFICES ASSUME NEW t \in Sessions, NEW i \in DOMAIN pending'[t],
                      pending'[t][i][2].id = "RoomChat"
               PROVE  /\ pending'[t][i][2].number = requests' - 1
                      /\ \A k \in DOMAIN chats'[pending'[t][i][1]] :
                            chats'[pending'[t][i][1]][k] < requests' - 1
                      /\ \A j \in DOMAIN pending'[t] : j # i => pending'[t][j][1] # pending'[t][i][1]
    BY DEF ChatsToCome
  <2>1. t = s /\ pending'[t] = Tail(q)
    BY <1>5
  <2>2. i \in 1 .. Len(q) - 1 /\ i + 1 \in DOMAIN q /\ pending'[t][i] = q[i + 1] /\ i + 1 # 1
    BY <2>1, <1>1, <1>4
  <2>3. \A j \in DOMAIN pending'[t] : j + 1 \in DOMAIN q /\ pending'[t][j] = q[j + 1] /\ j \in Nat
    BY <2>1, <1>1, <1>4
  <2>4. /\ q[i + 1][2].number = requests - 1
        /\ \A k \in DOMAIN chats[q[i + 1][1]] : chats[q[i + 1][1]][k] < requests - 1
        /\ \A j \in DOMAIN q : j # i + 1 => q[j][1] # q[i + 1][1]
    BY <2>2 DEF Inv, ChatsToCome
  <2>5. q[i + 1][1] \in Sessions /\ chats'[q[i + 1][1]] = chats[q[i + 1][1]]
    <3>1. q[i + 1][1] \in Sessions
      BY <2>2, <1>1
    <3>2. packet.id = "RoomChat" => q[i + 1][1] # m
      BY <2>2, <1>7
    <3> QED BY <3>1, <3>2, <1>8
  <2> HIDE DEF q
  <2>6. \A j \in DOMAIN pending'[t] : j # i => pending'[t][j][1] # pending'[t][i][1]
    BY <2>2, <2>3, <2>4
  <2> QED BY <2>2, <2>4, <2>5, <2>6, <1>2
<1> QED BY <1>9, <1>10, <1>11, <1>12, <1>13 DEF Inv

\* The lock is released when everything was sent.
LEMMA UnlockInv ==
    ASSUME Inv, NEW s \in Sessions, Unlock(s)
    PROVE  Inv'
<1> USE DEF Unlock, sessions
<1>1. TypeOK'
  BY DEF Inv, TypeOK
<1>2. globalLock = s /\ globalLock' = None /\ thread' = [thread EXCEPT ![s] = after[s]]
  BY DEF Inv, LockHeld
<1>3. after[s] \in {"read", "respond", "closed"}
  BY DEF Inv, TypeOK
<1>4. LockHeld'
  BY <1>2, <1>3, NoneAssumption DEF Inv, TypeOK, LockHeld
<1>5. QuietUnlocked' /\ AnswerReady'
  BY <1>2, <1>3 DEF Inv, TypeOK, QuietUnlocked, AnswerReady
<1>6. NamedWhenAccepted'
  BY <1>2, <1>3 DEF Inv, TypeOK, NamedWhenAccepted
<1>7. NamesAreOwned'
  BY DEF Inv, NamesAreOwned, Live
<1>8. RoomsAgree'
  <2>1. \A t \in Sessions : Live(t)' <=> Live(t)
    BY <1>2, <1>3 DEF Inv, TypeOK, Live
  <2> QED BY <2>1 DEF Inv, RoomsAgree
<1>9. ChatsIncrease' /\ ChatsToCome'
  BY ZenonT(30) DEF Inv, ChatsIncrease, ChatsToCome
<1> QED BY <1>1, <1>4, <1>5, <1>6, <1>7, <1>8, <1>9 DEF Inv

\* The response is no chat, and the tables stay.
LEMMA RespondInv ==
    ASSUME Inv, NEW s \in Sessions, Respond(s)
    PROVE  Inv'
<1>1. /\ thread[s] = "respond" /\ Write(s, response[s])
      /\ response' = [response EXCEPT ![s] = None]
      /\ UNCHANGED <<globalLock, after, pending, loggedInUsers, rooms, Username, CurrentRoom,
                     up, reading, requests>>
  BY DEF Respond, sessions
<1>2. PICK next \in {"read", "closing"} : thread' = [thread EXCEPT ![s] = next]
  BY DEF Respond
<1>3. response[s] \in Responses
  BY <1>1 DEF Inv, AnswerReady
<1>4. response[s].id # "RoomChat"
  BY <1>3 DEF Responses
<1>5. /\ wire' \in [Sessions -> Seq(Packets \cup Responses)]
      /\ \A t \in Sessions : Len(wire'[t]) <= Window
      /\ UNCHANGED chats
  BY <1>1, <1>3, <1>4, WriteTypes DEF Inv
<1>6. TypeOK'
  BY <1>1, <1>2, <1>5 DEF Inv, TypeOK
<1>7. LockHeld' /\ QuietUnlocked' /\ AnswerReady'
  BY <1>1, <1>2 DEF Inv, TypeOK, LockHeld, QuietUnlocked, AnswerReady
<1>8. NamedWhenAccepted' /\ NamesAreOwned' /\ RoomsAgree'
  BY <1>1, <1>2 DEF Inv, TypeOK, NamedWhenAccepted, NamesAreOwned, RoomsAgree, Live
<1>9. ChatsIncrease' /\ ChatsToCome'
  BY <1>1, <1>5 DEF Inv, ChatsIncrease, ChatsToCome
<1> QED BY <1>6, <1>7, <1>8, <1>9 DEF Inv

\* Clients only take packets from their own streams.
LEMMA ClientInv ==
    ASSUME Inv, NEW s \in Sessions, ClientReads(s) \/ ClientCloses(s)
    PROVE  Inv'
<1>1. /\ up' \in [Sessions -> BOOLEAN] /\ reading' \in [Sessions -> BOOLEAN]
      /\ wire' \in [Sessions -> Seq(Packets \cup Responses)]
      /\ \A t \in Sessions : Len(wire'[t]) <= Window
      /\ UNCHANGED <<chats, globalLock, thread, after, pending, response, loggedInUsers, rooms,
                     Username, CurrentRoom, requests>>
  <2>1. CASE ClientReads(s)
    <3>1. /\ Tail(wire[s]) \in Seq(Packets \cup Responses)
          /\ Len(Tail(wire[s])) = Len(wire[s]) - 1 /\ Len(wire[s]) \in Nat
      BY <2>1 DEF ClientReads, Inv, TypeOK
    <3>2. Head(wire[s]) \in Packets \cup Responses
      BY <2>1 DEF ClientReads, Inv, TypeOK
    <3>3. StillReading(Head(wire[s])) \subseteq BOOLEAN
      <4>1. \A packet \in Packets \cup Responses : packet.id = "LoginResponse" => packet.ok \in BOOLEAN
        BY DEF Packets, Responses
      <4>2. \A packet : (~ FromClients(packet)) \in BOOLEAN
        BY Zenon
      <4> QED BY <3>2, <4>1, <4>2 DEF StillReading
    <3>4. reading' \in [Sessions -> BOOLEAN]
      BY <2>1, <3>3 DEF ClientReads, Inv, TypeOK
    <3> QED BY <3>1, <3>4, <2>1, BoundsAssumption DEF ClientReads, control, sessions, Inv, TypeOK
  <2>2. CASE ClientCloses(s)
    BY <2>2, BoundsAssumption DEF ClientCloses, control, sessions, Inv, TypeOK
  <2> QED BY <2>1, <2>2
<1>2. TypeOK'
  BY <1>1 DEF Inv, TypeOK
<1>3. LockHeld' /\ QuietUnlocked' /\ AnswerReady'
  BY <1>1 DEF Inv, LockHeld, QuietUnlocked, AnswerReady
<1>4. NamedWhenAccepted' /\ NamesAreOwned' /\ RoomsAgree'
  BY <1>1 DEF Inv, NamedWhenAccepted, NamesAreOwned, RoomsAgree, Live
<1>5. ChatsIncrease' /\ ChatsToCome'
  BY <1>1, ZenonT(30) DEF Inv, ChatsIncrease, ChatsToCome
<1> QED BY <1>2, <1>3, <1>4, <1>5 DEF Inv

-----------------------------------------------------------------------------
(***************************************************************************)
(* Every step of the server keeps the invariant, and every step of the     *)
(* system of windows and other clients is a step of the server.            *)
(***************************************************************************)
\* Before the first client everything is empty.
LEMMA InitInv == Init => Inv
<1> SUFFICES ASSUME Init PROVE Inv
  OBVIOUS
<1> USE DEF Init
<1>1. TypeOK
  BY BoundsAssumption, EmptySeq DEF TypeOK
<1>2. LockHeld /\ QuietUnlocked /\ AnswerReady
  BY NoneAssumption DEF LockHeld, QuietUnlocked, AnswerReady
<1>3. NamedWhenAccepted /\ NamesAreOwned
  BY DEF NamedWhenAccepted, NamesAreOwned, Live
<1>4. RoomsAgree
  BY NoneAssumption DEF RoomsAgree, Live
<1>5. ChatsIncrease /\ ChatsToCome
  BY DEF ChatsIncrease, ChatsToCome
<1> QED BY <1>1, <1>2, <1>3, <1>4, <1>5 DEF Inv

\* Nothing happens.
LEMMA StutterInv == Inv /\ UNCHANGED vars => Inv'
<1> SUFFICES ASSUME Inv, UNCHANGED vars PROVE Inv'
  OBVIOUS
<1> USE DEF Inv, vars, sessions, network, control
<1>1. TypeOK'
  BY DEF TypeOK
<1>2. LockHeld' /\ QuietUnlocked' /\ AnswerReady'
  BY DEF LockHeld, QuietUnlocked, AnswerReady
<1>3. NamedWhenAccepted' /\ NamesAreOwned' /\ RoomsAgree'
  BY DEF NamedWhenAccepted, NamesAreOwned, RoomsAgree, Live
<1>4. ChatsIncrease' /\ ChatsToCome'
  BY DEF ChatsIncrease, ChatsToCome
<1> QED BY <1>1, <1>2, <1>3, <1>4

\* Every step of the server and of its clients.
LEMMA StepInv == Inv /\ [Next]_vars => Inv'
<1> SUFFICES ASSUME Inv, Next PROVE Inv'
  BY StutterInv
<1>1. PICK s \in Sessions :
        \/ Accept(s)
        \/ \E name \in Names \cup {None} : HandleLogin(s, name)
        \/ \E room \in Rooms : HandleRoomJoin(s, room)
        \/ HandleRoomChat(s)
        \/ \E target \in Names : HandlePrivateChat(s, target)
        \/ LeaveLoop(s)
        \/ HandleDisconnect(s)
        \/ SendLocked(s)
        \/ Unlock(s)
        \/ Respond(s)
        \/ ClientReads(s)
        \/ ClientCloses(s)
  BY DEF Next
<1> QED BY <1>1, AcceptInv, HandleLoginInv, HandleRoomJoinInv, HandleRoomChatInv,
           HandlePrivateChatInv, LeaveLoopInv, HandleDisconnectInv, SendLockedInv,
           UnlockInv, RespondInv, ClientInv

\* A packet that the window handles is read, or closes the client's end.
LEMMA ReceiveIsServerStep ==
    ASSUME TypeOK, NEW s \in Sessions, Receive(s)
    PROVE  ClientReads(s) \/ ClientCloses(s)
<1>1. up' = [up EXCEPT ![s] = up'[s]] /\ up'[s] \in BOOLEAN
  BY DEF Receive, HandleNetPacket, TypeOK
<1>2. CASE up'[s]
  <2>1. up[s] = TRUE /\ up'[s] = TRUE
    BY <1>1, <1>2 DEF Receive, TypeOK
  <2>2. up' = [up EXCEPT ![s] = up[s]] /\ up \in [Sessions -> BOOLEAN]
    BY <1>1, <2>1 DEF TypeOK
  <2>3. up' = up
    BY <2>2
  <2>4. PICK packet \in Packets \cup Responses : packet = Head(wire[s])
    BY DEF Receive, TypeOK
  <2>5. packet.id = "LoginResponse" => packet.ok = TRUE
    <3>1. packet.id = "LoginResponse" => packet.ok \in BOOLEAN
      BY <2>4 DEF Packets, Responses
    <3>2. up'[s] = ~ (packet.id = "LoginResponse" /\ ~ packet.ok)
      BY <2>4 DEF Receive, HandleNetPacket, TypeOK
    <3> QED BY <3>1, <3>2, <1>2
  <2>6. TRUE \in StillReading(packet)
    BY <2>5 DEF StillReading
  <2>7. reading' = [reading EXCEPT ![s] = TRUE]
    <3>1. reading' = reading /\ reading[s] = TRUE /\ reading \in [Sessions -> BOOLEAN]
      BY DEF Receive, TypeOK
    <3> QED BY <3>1
  <2> QED BY <1>2, <2>3, <2>4, <2>6, <2>7 DEF Receive, ClientReads
<1>3. CASE ~ up'[s]
  <2>1. up' = [up EXCEPT ![s] = FALSE]
    BY <1>1, <1>3
  <2> QED BY <1>3, <2>1 DEF Receive, ClientCloses
<1> QED BY <1>1, <1>2, <1>3

\* What windows and other clients do is, for the server, one of its steps.
LEMMA ClientsStepIsServerStep ==
    ASSUME TypeOK, [ClientsNext]_allVars
    PROVE  [Next]_vars
<1>1. CASE UNCHANGED allVars
  BY <1>1 DEF allVars
<1>2. CASE ClientsNext
  <2>1. PICK s \in Sessions :
          \/ OtherClient(s)
          \/ OnLogin(s)
          \/ \E name \in Names \cup {None} : LoginRequest(s, name)
          \/ \E room \in Rooms : OnJoinRoom(s, room)
          \/ OnSendChat(s)
          \/ \E target \in Names : OnSendPM(s, target)
          \/ Broadcast(s)
          \/ ServerStep(s)
          \/ Receive(s)
          \/ CloseWindow(s)
    BY <1>2 DEF ClientsNext
  <2>2. CASE OtherClient(s)
    BY <2>2 DEF OtherClient, Next
  <2>3. CASE OnLogin(s) \/ Broadcast(s) \/ ServerStep(s) \/ CloseWindow(s)
    BY <2>3 DEF OnLogin, Broadcast, ServerStep, CloseWindow, Next
  <2>4. CASE \/ \E name \in Names \cup {None} : LoginRequest(s, name)
             \/ \E room \in Rooms : OnJoinRoom(s, room)
             \/ OnSendChat(s)
             \/ \E target \in Names : OnSendPM(s, target)
    BY <2>4 DEF LoginRequest, OnJoinRoom, OnSendChat, OnSendPM, Next
  <2>5. CASE Receive(s)
    BY <2>5, ReceiveIsServerStep DEF Next
  <2> QED BY <2>1, <2>2, <2>3, <2>4, <2>5
<1> QED BY <1>1, <1>2

\* The server alone, with clients that send what they like.
THEOREM ServerInvariance == Spec => []Inv
<1> QED BY InitInv, StepInv, PTL DEF Spec

\* The server with windows and other clients at work on it.
THEOREM Invariance == ClientsSpec => []Inv
<1>1. ClientsInit => Inv
  BY InitInv DEF ClientsInit
<1>2. Inv /\ [ClientsNext]_allVars => Inv'
  BY ClientsStepIsServerStep, StepInv DEF Inv
<1> QED BY <1>1, <1>2, PTL DEF ClientsSpec

-----------------------------------------------------------------------------
(***************************************************************************)
(* The theorems.                                                           *)
(***************************************************************************)
\* Every variable of the server keeps its type, and SendPacket never writes
\* more than the receiver's window takes.
THEOREM TypeCorrect == ClientsSpec => []TypeOK
<1>1. Inv => TypeOK
  BY DEF Inv
<1> QED BY <1>1, Invariance, PTL

\* HandleLogin and HandleDisconnect, on any number of threads, never give a name
\* to two live sessions nor take one away from its owner.
THEOREM NamesOwned == ClientsSpec => []NamesAreOwned
<1>1. Inv => NamesAreOwned
  BY DEF Inv
<1> QED BY <1>1, Invariance, PTL

\* HandleRoomJoin, LeaveCurrentRoom and HandleDisconnect keep the room table and
\* the sessions' CurrentRoom in agreement.
THEOREM RoomsConsistent == ClientsSpec => []RoomsAgree
<1>1. Inv => RoomsAgree
  BY DEF Inv
<1> QED BY <1>1, Invariance, PTL

\* Because HandleRoomChat tells the room with globalLock held, any two clients
\* see the chats that both receive in one order.
THEOREM ChatOrder == ClientsSpec => []SameChatOrder
<1>1. ASSUME Inv PROVE SameChatOrder
  <2> SUFFICES ASSUME NEW s \in Sessions, NEW t \in Sessions,
                      NEW i \in DOMAIN chats[s], NEW j \in DOMAIN chats[s],
                      NEW k \in DOMAIN chats[t], NEW l \in DOMAIN chats[t],
                      chats[s][i] = chats[t][k], chats[s][j] = chats[t][l]
               PROVE  i < j <=> k < l
    BY DEF SameChatOrder
  <2>1. chats[s] \in Seq(Nat) /\ chats[t] \in Seq(Nat)
    BY <1>1 DEF Inv, TypeOK
  <2>2. ASSUME NEW q \in Seq(Nat), NEW n \in DOMAIN q PROVE n \in Nat /\ q[n] \in Nat
    OBVIOUS
  <2>3. /\ i \in Nat /\ j \in Nat /\ k \in Nat /\ l \in Nat
        /\ chats[s][i] \in Nat /\ chats[s][j] \in Nat
    BY <2>1, <2>2
  <2>4. /\ i < j => chats[s][i] < chats[s][j]
        /\ j < i => chats[s][j] < chats[s][i]
        /\ k < l => chats[t][k] < chats[t][l]
        /\ l < k => chats[t][l] < chats[t][k]
    BY <1>1 DEF Inv, ChatsIncrease
  <2> QED BY <2>3, <2>4
<1> QED BY <1>1, Invariance, PTL
-----------------------------------------------------------------------------
(***************************************************************************)
(* Lists and those whom they show.                                         *)
(***************************************************************************)
\* SetToSeq leaves no element out.
LEMMA NumberedAll ==
    ASSUME NEW S, IsFiniteSet(S)
    PROVE  {SetToSeq(S)[i] : i \in DOMAIN SetToSeq(S)} = S
<1>1. Cardinality(S) \in Nat /\ ExistsBijection(1 .. Cardinality(S), S)
  BY FS_CardinalityType
<1>2. PICK f \in [1 .. Cardinality(S) -> S] : IsInjective(f)
  BY <1>1 DEF ExistsBijection, Bijection, Injection
<1>3. SetToSeq(S) \in [1 .. Cardinality(S) -> S] /\ IsInjective(SetToSeq(S))
  BY <1>2 DEF SetToSeq
<1>4. PICK n : n = Cardinality(S)
  OBVIOUS
<1>5. PICK q : q = SetToSeq(S)
  OBVIOUS
<1>6. q \in Injection(1 .. n, S)
  BY <1>3, <1>4, <1>5 DEF Injection
<1>7. IsFiniteSet(1 .. n) /\ Cardinality(1 .. n) = n
  BY <1>1, <1>4, FS_Interval
<1>8. q \in Surjection(1 .. n, S)
  BY <1>4, <1>6, <1>7, FS_Injection
<1> QED BY <1>5, <1>8 DEF Surjection

\* The list shows those of whom a session was told, told being their names: each
\* of them has one row, which is its name but for the case.
Shows(list, told) ==
    \E g \in Bijection(DOMAIN list, DOMAIN told) :
        \A i \in DOMAIN list : SameText(list[i], told[g[i]])

\* A row is added for one who was not told of before.
LEMMA RowAdded ==
    ASSUME NEW E, NEW list \in Seq(E), NEW told, Shows(list, told),
           NEW x, x \notin DOMAIN told, NEW e \in E
    PROVE  Append(list, e) \in Seq(E) /\ Shows(Append(list, e), With(told, x, e))
<1>1. PICK q : q = Append(list, e)
  OBVIOUS
<1>2. PICK n \in Nat : n = Len(list)
  OBVIOUS
<1>3. /\ q \in Seq(E) /\ Len(q) = n + 1 /\ q[n + 1] = e
      /\ \A i \in 1 .. n : q[i] = list[i]
  BY <1>1, <1>2, AppendProperties
<1>4. /\ DOMAIN list = 1 .. n
      /\ DOMAIN q = (1 .. n) \cup {n + 1}
      /\ n + 1 \notin 1 .. n
  BY <1>2, <1>3
<1>5. PICK S : S = DOMAIN told
  OBVIOUS
<1>6. PICK g \in Bijection(1 .. n, S) : \A i \in 1 .. n : SameText(list[i], told[g[i]])
  BY <1>4, <1>5 DEF Shows
<1>7. /\ g \in [1 .. n -> S]
      /\ \A i, j \in 1 .. n : g[i] = g[j] => i = j
      /\ \A t \in S : \E i \in 1 .. n : g[i] = t
  BY <1>6 DEF Bijection, Injection, Surjection, IsInjective
<1>8. PICK new : new = With(told, x, e)
  OBVIOUS
<1>9. /\ DOMAIN new = S \cup {x}
      /\ new[x] = e
      /\ \A t \in S : new[t] = told[t]
  BY <1>5, <1>8 DEF With
<1>10. PICK h : h = [i \in DOMAIN q |-> IF i = n + 1 THEN x ELSE g[i]]
  OBVIOUS
<1>11. /\ DOMAIN h = DOMAIN q
       /\ h[n + 1] = x
       /\ \A i \in 1 .. n : h[i] = g[i]
  BY <1>4, <1>10
<1>12. h \in [DOMAIN q -> DOMAIN new]
  BY <1>4, <1>7, <1>9, <1>10
<1>13. ASSUME NEW i \in DOMAIN q, NEW j \in DOMAIN q, h[i] = h[j] PROVE i = j
  <2>1. \A k \in 1 .. n : h[k] \in S /\ h[k] # x
    BY <1>5, <1>7, <1>11
  <2> QED BY <2>1, <1>4, <1>7, <1>11, <1>13
<1>14. \A t \in DOMAIN new : \E i \in DOMAIN q : h[i] = t
  BY <1>4, <1>7, <1>9, <1>11
<1>15. h \in Bijection(DOMAIN q, DOMAIN new)
  BY <1>11, <1>12, <1>13, <1>14 DEF Bijection, Injection, Surjection, IsInjective
<1>16. \A i \in DOMAIN q : SameText(q[i], new[h[i]])
  <2>1. \A i \in 1 .. n : q[i] = list[i] /\ new[h[i]] = told[g[i]]
    BY <1>3, <1>7, <1>9, <1>11
  <2>2. q[n + 1] = new[h[n + 1]]
    BY <1>3, <1>9, <1>11
  <2> QED BY <2>1, <2>2, <1>4, <1>6 DEF SameText
<1>17. Shows(q, new)
  BY <1>15, <1>16 DEF Shows
<1> QED BY <1>1, <1>3, <1>8, <1>17

\* The sequence without its entry at k.
LEMMA EntryRemoved ==
    ASSUME NEW E, NEW list \in Seq(E), NEW k \in 1 .. Len(list)
    PROVE  \E q \in Seq(E) :
              /\ RemoveAt(list, k) = q /\ Len(q) = Len(list) - 1
              /\ \A i \in 1 .. Len(list) - 1 : q[i] = IF i < k THEN list[i] ELSE list[i + 1]
<1> PICK n \in Nat : n = Len(list)
  OBVIOUS
<1> PICK q : q = RemoveAt(list, k)
  OBVIOUS
<1>1. n \in Nat /\ k \in Nat /\ 1 <= k /\ k <= n /\ DOMAIN list = 1 .. n
  OBVIOUS
<1>2. q = SubSeq(list, 1, k - 1) \o SubSeq(list, k + 1, n)
  BY DEF RemoveAt
<1>3. PICK a : a = SubSeq(list, 1, k - 1)
  OBVIOUS
<1>4. PICK b : b = SubSeq(list, k + 1, n)
  OBVIOUS
<1>5. \A i \in 1 .. n : list[i] \in E
  BY <1>1
<1>6. a \in Seq(E) /\ Len(a) = k - 1 /\ \A i \in 1 .. k - 1 : a[i] = list[i]
  <2>1. \A i \in 1 .. k - 1 : list[i] \in E
    BY <1>1, <1>5
  <2>2. 1 \in Int /\ k - 1 \in Int
    BY <1>1
  <2>3. /\ a \in Seq(E)
        /\ Len(a) = IF 1 <= k - 1 THEN (k - 1) - 1 + 1 ELSE 0
        /\ \A i \in 1 .. (k - 1) - 1 + 1 : a[i] = list[1 + i - 1]
    BY <2>1, <2>2, <1>3, SubSeqProperties
  <2> QED BY <2>3, <1>1
<1>7. b \in Seq(E) /\ Len(b) = n - k /\ \A i \in 1 .. n - k : b[i] = list[k + i]
  <2>1. \A i \in k + 1 .. n : list[i] \in E
    BY <1>1, <1>5
  <2>2. k + 1 \in Int /\ n \in Int
    BY <1>1
  <2>3. /\ b \in Seq(E)
        /\ Len(b) = IF k + 1 <= n THEN n - (k + 1) + 1 ELSE 0
        /\ \A i \in 1 .. n - (k + 1) + 1 : b[i] = list[(k + 1) + i - 1]
    BY <2>1, <2>2, <1>4, SubSeqProperties
  <2>4. Len(b) = n - k
    BY <2>3, <1>1
  <2>5. ASSUME NEW i \in 1 .. n - k PROVE b[i] = list[k + i]
    <3>1. i \in 1 .. n - (k + 1) + 1 /\ (k + 1) + i - 1 = k + i
      BY <1>1
    <3> QED BY <2>3, <3>1
  <2> QED BY <2>3, <2>4, <2>5
<1>8. /\ q \in Seq(E) /\ Len(q) = (k - 1) + (n - k)
      /\ \A i \in 1 .. (k - 1) + (n - k) : q[i] = IF i <= k - 1 THEN a[i] ELSE b[i - (k - 1)]
  <2>1. q = a \o b
    BY <1>2, <1>3, <1>4
  <2>2. a \in Seq(E) /\ b \in Seq(E)
    BY <1>6, <1>7
  <2>3. /\ a \o b \in Seq(E) /\ Len(a \o b) = Len(a) + Len(b)
        /\ \A i \in 1 .. Len(a) + Len(b) :
              (a \o b)[i] = IF i <= Len(a) THEN a[i] ELSE b[i - Len(a)]
    BY <2>2, ConcatProperties, Zenon
  <2>4. Len(a) = k - 1 /\ Len(b) = n - k
    BY <1>6, <1>7
  <2> QED BY <2>1, <2>3, <2>4
<1>9. Len(q) = n - 1
  BY <1>8, <1>6, <1>7, <1>1
<1>10. ASSUME NEW i \in 1 .. n - 1
       PROVE  q[i] = IF i < k THEN list[i] ELSE list[i + 1]
  <2> PICK d : d = i - (k - 1)
    OBVIOUS
  <2>0. i \in 1 .. (k - 1) + (n - k)
    BY <1>1
  <2>1. CASE i < k
    <3>1. i <= k - 1 /\ i \in 1 .. k - 1
      BY <2>1, <1>1
    <3> QED BY <2>0, <2>1, <3>1, <1>8, <1>6
  <2>2. CASE i >= k
    <3>1. d \in 1 .. n - k /\ k + d = i + 1 /\ ~ (i <= k - 1)
      BY <2>2, <1>1
    <3>2. q[i] = b[d]
      BY <2>0, <3>1, <1>8
    <3>3. b[d] = list[i + 1]
      BY <3>1, <1>7
    <3> QED BY <3>2, <3>3, <2>2, <1>1
  <2> QED BY <2>1, <2>2, <1>1
<1> QED BY <1>8, <1>9, <1>10

\* The list without the row that LB_FINDSTRINGEXACT finds.
RowRemoved(list, e) == RemoveFirstMatch(list, LAMBDA row : SameText(row, e))

\* The row that is removed is one that matches.
LEMMA MatchRemoved ==
    ASSUME NEW E, NEW list \in Seq(E), NEW e, NEW j \in 1 .. Len(list), SameText(list[j], e)
    PROVE  \E k \in 1 .. Len(list) :
              /\ SameText(list[k], e)
              /\ RowRemoved(list, e) = RemoveAt(list, k)
<1>1. PICK I : I = {i \in 1 .. Len(list) : SameText(list[i], e)}
  OBVIOUS
<1>2. I \subseteq Nat /\ I # {}
  BY <1>1
<1> DEFINE R == OpToRel(<, Nat)
<1>3. IsWellFoundedOn(R, Nat) /\ \A x, y \in Nat : y < x => <<y, x>> \in R
  BY NatLessThanWellFounded DEF OpToRel
<1> HIDE DEF R
<1>4. PICK k \in I : \A i \in I : k <= i
  <2>1. PICK k \in I : \A i \in I : ~ (<<i, k>> \in R)
    BY <1>2, <1>3, WFMin
  <2>2. \A i \in I : ~ (i < k)
    BY <1>2, <1>3, <2>1
  <2> QED BY <1>2, <2>2
<1>5. Min(I) \in I
  BY <1>4 DEF Min
<1>6. SelectInSeq(list, LAMBDA row : SameText(row, e)) = Min(I)
  BY <1>1, <1>2 DEF SelectInSeq
<1>7. RowRemoved(list, e) = RemoveAt(list, Min(I))
  BY <1>6 DEF RowRemoved, RemoveFirstMatch
<1> QED BY <1>1, <1>5, <1>7

\* One of those told of is gone, and with it the first row that has its name but for
\* the case.  If that was the row of another, the row left over is as good for that one.
LEMMA RowDeleted ==
    ASSUME NEW E, NEW list \in Seq(E), NEW told, Shows(list, told),
           NEW x \in DOMAIN told, NEW e, e = told[x],
           NEW q, q = RowRemoved(list, e)
    PROVE  q \in Seq(E) /\ Shows(q, Without(told, x))
<1>1. PICK n \in Nat : n = Len(list)
  OBVIOUS
<1>2. DOMAIN list = 1 .. n
  BY <1>1
<1>3. PICK S : S = DOMAIN told
  OBVIOUS
<1>4. PICK g \in Bijection(1 .. n, S) : \A i \in 1 .. n : SameText(list[i], told[g[i]])
  BY <1>2, <1>3 DEF Shows
<1>5. /\ g \in [1 .. n -> S]
      /\ \A i, j \in 1 .. n : g[i] = g[j] => i = j
      /\ \A t \in S : \E i \in 1 .. n : g[i] = t
  BY <1>4 DEF Bijection, Injection, Surjection, IsInjective
<1>6. PICK r \in 1 .. n : g[r] = x
  BY <1>3, <1>5
<1>7. PICK k \in 1 .. n : SameText(list[k], told[x]) /\ q = RemoveAt(list, k)
  <2>1. SameText(list[r], e) /\ r \in 1 .. Len(list)
    BY <1>1, <1>4, <1>6
  <2>2. \E k \in 1 .. Len(list) : /\ SameText(list[k], e)
                                 /\ RowRemoved(list, e) = RemoveAt(list, k)
    BY <2>1, MatchRemoved
  <2> QED BY <2>2, <1>1
<1>8. /\ q \in Seq(E) /\ DOMAIN q = 1 .. n - 1
      /\ \A i \in 1 .. n - 1 : q[i] = IF i < k THEN list[i] ELSE list[i + 1]
  <2>1. k \in 1 .. Len(list)
    BY <1>1
  <2>2. PICK p \in Seq(E) :
           /\ RemoveAt(list, k) = p /\ Len(p) = Len(list) - 1
           /\ \A i \in 1 .. Len(list) - 1 : p[i] = IF i < k THEN list[i] ELSE list[i + 1]
    BY <2>1, EntryRemoved
  <2>3. p = q
    BY <2>2, <1>7
  <2> QED BY <2>2, <2>3, <1>1
<1>9. PICK new : new = Without(told, x)
  OBVIOUS
<1>10. DOMAIN new = S \ {x} /\ \A t \in S \ {x} : new[t] = told[t]
  BY <1>3, <1>9 DEF Without
<1>11. PICK of : of = [i \in 1 .. n |-> IF g[i] = x THEN g[k] ELSE g[i]]
  OBVIOUS
<1>12. /\ \A i \in 1 .. n : i # k => of[i] \in S \ {x} /\ SameText(list[i], told[of[i]])
       /\ \A i, j \in 1 .. n : i # k /\ j # k /\ of[i] = of[j] => i = j
       /\ \A t \in S \ {x} : \E i \in 1 .. n : i # k /\ of[i] = t
  <2>1. \A i \in 1 .. n : of[i] = IF g[i] = x THEN g[k] ELSE g[i]
    BY <1>11
  <2>2. ASSUME NEW i \in 1 .. n, i # k PROVE of[i] \in S \ {x} /\ SameText(list[i], told[of[i]])
    <3>1. CASE g[i] = x
      <4>1. of[i] = g[k] /\ g[k] # x /\ g[k] \in S
        BY <2>1, <2>2, <3>1, <1>5
      <4>2. /\ SameText(list[i], told[x])
            /\ SameText(list[k], told[x])
            /\ SameText(list[k], told[g[k]])
        BY <3>1, <1>4, <1>7
      <4> QED BY <4>1, <4>2 DEF SameText
    <3>2. CASE g[i] # x
      BY <2>1, <3>2, <1>4, <1>5
    <3> QED BY <3>1, <3>2
  <2>3. ASSUME NEW i \in 1 .. n, NEW j \in 1 .. n, i # k, j # k, of[i] = of[j] PROVE i = j
    <3>1. g[i] # g[k] /\ g[j] # g[k]
      BY <2>3, <1>5
    <3> QED BY <2>1, <2>3, <3>1, <1>5
  <2>4. ASSUME NEW t \in S \ {x} PROVE \E i \in 1 .. n : i # k /\ of[i] = t
    <3>1. PICK i \in 1 .. n : g[i] = t
      BY <1>5
    <3>2. CASE i = k
      <4>1. r # k /\ of[r] = t
        BY <2>1, <3>1, <3>2, <1>6
      <4> QED BY <4>1
    <3>3. CASE i # k
      <4>1. of[i] = t
        BY <2>1, <3>1
      <4> QED BY <3>3, <4>1
    <3> QED BY <3>2, <3>3
  <2> QED BY <2>2, <2>3, <2>4
<1>13. PICK from : from = [i \in 1 .. n - 1 |-> IF i < k THEN i ELSE i + 1]
  OBVIOUS
<1>14. /\ \A i \in 1 .. n - 1 : from[i] \in 1 .. n /\ from[i] # k /\ q[i] = list[from[i]]
       /\ \A i, j \in 1 .. n - 1 : from[i] = from[j] => i = j
       /\ \A m \in 1 .. n : m # k => \E i \in 1 .. n - 1 : from[i] = m
  <2>1. \A i \in 1 .. n - 1 : from[i] = IF i < k THEN i ELSE i + 1
    BY <1>13
  <2>2. \A i \in 1 .. n - 1 : from[i] \in 1 .. n /\ from[i] # k
    BY <2>1
  <2>3. \A i \in 1 .. n - 1 : q[i] = list[from[i]]
    BY <2>1, <1>8
  <2>4. \A i, j \in 1 .. n - 1 : from[i] = from[j] => i = j
    BY <2>1
  <2>5. ASSUME NEW m \in 1 .. n, m # k PROVE \E i \in 1 .. n - 1 : from[i] = m
    <3>1. CASE m < k
      <4>1. m \in 1 .. n - 1
        BY <3>1
      <4> QED BY <4>1, <3>1, <2>1
    <3>2. CASE m > k
      <4>1. m - 1 \in 1 .. n - 1 /\ ~ (m - 1 < k) /\ (m - 1) + 1 = m
        BY <3>2
      <4> QED BY <4>1, <2>1
    <3> QED BY <3>1, <3>2, <2>5
  <2> QED BY <2>2, <2>3, <2>4, <2>5
<1>15. PICK h : h = [i \in 1 .. n - 1 |-> of[from[i]]]
  OBVIOUS
<1>16. DOMAIN h = 1 .. n - 1 /\ \A i \in 1 .. n - 1 : h[i] = of[from[i]]
  BY <1>15
<1>17. h \in [1 .. n - 1 -> S \ {x}]
  BY <1>12, <1>14, <1>15
<1>18. ASSUME NEW i \in 1 .. n - 1, NEW j \in 1 .. n - 1, h[i] = h[j] PROVE i = j
  <2>1. of[from[i]] = of[from[j]]
    BY <1>16, <1>18
  <2>2. /\ from[i] \in 1 .. n /\ from[i] # k
        /\ from[j] \in 1 .. n /\ from[j] # k
    BY <1>14
  <2>3. from[i] = from[j]
    BY <2>1, <2>2, <1>12
  <2> QED BY <2>3, <1>14
<1>19. ASSUME NEW t \in S \ {x} PROVE \E i \in 1 .. n - 1 : h[i] = t
  <2>1. PICK m \in 1 .. n : m # k /\ of[m] = t
    BY <1>12
  <2>2. PICK i \in 1 .. n - 1 : from[i] = m
    BY <2>1, <1>14
  <2> QED BY <2>1, <2>2, <1>16
<1>20. h \in Bijection(1 .. n - 1, S \ {x})
  BY <1>16, <1>17, <1>18, <1>19 DEF Bijection, Injection, Surjection, IsInjective
<1>21. ASSUME NEW i \in 1 .. n - 1 PROVE SameText(q[i], new[h[i]])
  <2>1. q[i] = list[from[i]] /\ h[i] = of[from[i]]
    BY <1>14, <1>16
  <2>2. from[i] \in 1 .. n /\ from[i] # k
    BY <1>14
  <2>3. of[from[i]] \in S \ {x} /\ SameText(list[from[i]], told[of[from[i]]])
    BY <1>12, <2>2
  <2>4. new[h[i]] = told[of[from[i]]]
    BY <1>10, <2>1, <2>3
  <2> QED BY <2>1, <2>3, <2>4 DEF SameText
<1>22. Shows(q, new)
  BY <1>8, <1>10, <1>20, <1>21 DEF Shows
<1> QED BY <1>8, <1>9, <1>22

\* A list of different names shows those who have them, if no two have one name.
LEMMA RowsFilled ==
    ASSUME NEW list, NEW told, IsInjective(list), Range(list) = Range(told), IsInjective(told)
    PROVE  Shows(list, told)
<1>1. PICK g : g = [i \in DOMAIN list |-> CHOOSE t \in DOMAIN told : told[t] = list[i]]
  OBVIOUS
<1>2. \A i \in DOMAIN list : g[i] \in DOMAIN told /\ told[g[i]] = list[i]
  <2>1. \A i \in DOMAIN list : \E t \in DOMAIN told : told[t] = list[i]
    BY DEF Range
  <2> QED BY <2>1, <1>1
<1>3. DOMAIN g = DOMAIN list /\ g \in [DOMAIN list -> DOMAIN told]
  BY <1>1, <1>2
<1>4. \A i, j \in DOMAIN list : g[i] = g[j] => i = j
  BY <1>2 DEF IsInjective
<1>5. ASSUME NEW t \in DOMAIN told PROVE \E i \in DOMAIN list : g[i] = t
  <2>1. PICK i \in DOMAIN list : list[i] = told[t]
    BY DEF Range
  <2> QED BY <2>1, <1>2 DEF IsInjective
<1>6. g \in Bijection(DOMAIN list, DOMAIN told)
  BY <1>3, <1>4, <1>5 DEF Bijection, Injection, Surjection, IsInjective
<1> QED BY <1>2, <1>6 DEF Shows, SameText

-----------------------------------------------------------------------------
(***************************************************************************)
(* What becomes of a list when the packets on its way are handled.         *)
(***************************************************************************)
\* HandleNetPacket applied to a list that is not that of a session.
After(list, packet) ==
    CASE packet.id = "RoomJoinResponse" -> SetToSeq(packet.users)
      [] packet.id = "UserEntered"      -> Append(list, packet.name)
      [] packet.id = "UserLeft"         -> RowRemoved(list, packet.name)
      [] OTHER                          -> list

\* The list will be last once the packets are handled, one after the other.
Becomes(list, packets, last) ==
    \E h :
        /\ h[0] = list
        /\ \A i \in 1 .. Len(packets) : h[i] = After(h[i - 1], packets[i])
        /\ last = h[Len(packets)]

\* With nothing to handle the list stays as it is.
LEMMA NothingToHandle ==
    ASSUME NEW list, NEW last
    PROVE  Becomes(list, <<>>, last) <=> last = list
<1>1. Len(<<>>) = 0 /\ 1 .. 0 = {} /\ 0 .. 0 = {0}
  OBVIOUS
<1>2. Becomes(list, <<>>, list)
  <2> DEFINE h == [i \in 0 .. 0 |-> list]
  <2>1. h[0] = list
    BY <1>1
  <2> HIDE DEF h
  <2> QED BY <1>1, <2>1 DEF Becomes
<1>3. ASSUME Becomes(list, <<>>, last) PROVE last = list
  BY <1>3, <1>1 DEF Becomes
<1> QED BY <1>2, <1>3

\* One more packet is on its way.
LEMMA OneMoreToHandle ==
    ASSUME NEW E, NEW packets \in Seq(E), NEW packet \in E, NEW list, NEW last,
           Becomes(list, packets, last)
    PROVE  Becomes(list, Append(packets, packet), After(last, packet))
<1>1. PICK n \in Nat : n = Len(packets)
  OBVIOUS
<1>2. PICK h :
        /\ h[0] = list
        /\ \A i \in 1 .. n : h[i] = After(h[i - 1], packets[i])
        /\ last = h[n]
  BY <1>1 DEF Becomes
<1>3. PICK q : q = Append(packets, packet)
  OBVIOUS
<1>4. /\ Len(q) = n + 1 /\ q[n + 1] = packet
      /\ \A i \in 1 .. n : q[i] = packets[i]
  BY <1>1, <1>3, AppendProperties
<1>5. PICK new : new = After(last, packet)
  OBVIOUS
<1>6. PICK g : g = [i \in 0 .. n + 1 |-> IF i = n + 1 THEN new ELSE h[i]]
  OBVIOUS
<1>7. /\ g[n + 1] = new
      /\ \A i \in 0 .. n : g[i] = h[i]
  BY <1>2, <1>5, <1>6
<1>8. ASSUME NEW i \in 1 .. n + 1 PROVE g[i] = After(g[i - 1], q[i])
  <2>1. CASE i \in 1 .. n
    <3>1. i \in 0 .. n /\ i - 1 \in 0 .. n
      BY <2>1
    <3>2. g[i] = h[i] /\ g[i - 1] = h[i - 1] /\ q[i] = packets[i]
      BY <3>1, <2>1, <1>4, <1>7
    <3> QED BY <3>2, <2>1, <1>2
  <2>2. CASE i = n + 1
    <3>1. i - 1 = n /\ n \in 0 .. n
      BY <2>2
    <3>2. g[i] = new /\ g[i - 1] = last /\ q[i] = packet
      BY <3>1, <2>2, <1>2, <1>4, <1>7
    <3> QED BY <3>2, <1>5
  <2> QED BY <2>1, <2>2
<1>9. g[0] = list
  BY <1>2, <1>7
<1>10. Becomes(list, q, new)
  BY <1>4, <1>7, <1>8, <1>9 DEF Becomes
<1> QED BY <1>3, <1>5, <1>10

\* The first packet on its way is handled.
LEMMA OneHandled ==
    ASSUME NEW E, NEW packets \in Seq(E), NEW list, NEW last,
           packets # <<>>, Becomes(list, packets, last)
    PROVE  Becomes(After(list, Head(packets)), Tail(packets), last)
<1>1. PICK n \in Nat : n = Len(packets)
  OBVIOUS
<1>2. PICK h :
        /\ h[0] = list
        /\ \A i \in 1 .. n : h[i] = After(h[i - 1], packets[i])
        /\ last = h[n]
  BY <1>1 DEF Becomes
<1>3. PICK q : q = Tail(packets)
  OBVIOUS
<1>4. /\ n # 0 /\ n - 1 \in Nat /\ Len(q) = n - 1
      /\ \A i \in 1 .. n - 1 : q[i] = packets[i + 1]
      /\ Head(packets) = packets[1]
  BY <1>1, <1>3, HeadTailProperties
<1>5. PICK new : new = After(list, Head(packets))
  OBVIOUS
<1>6. h[1] = new
  <2>1. h[1] = After(h[1 - 1], packets[1])
    BY <1>2, <1>4
  <2>2. 1 - 1 = 0 /\ 1 \in 0 .. n
    BY <1>4
  <2> QED BY <2>1, <2>2, <1>2, <1>4, <1>5
<1>7. PICK g : g = [i \in 0 .. n - 1 |-> h[i + 1]]
  OBVIOUS
<1>8. \A i \in 0 .. n - 1 : g[i] = h[i + 1]
  BY <1>2, <1>4, <1>7
<1>9. ASSUME NEW i \in 1 .. n - 1 PROVE g[i] = After(g[i - 1], q[i])
  <2>1. i + 1 \in 1 .. n /\ i \in 0 .. n - 1 /\ i - 1 \in 0 .. n - 1 /\ (i + 1) - 1 = i /\ (i - 1) + 1 = i
    BY <1>4
  <2>2. h[i + 1] = After(h[(i + 1) - 1], packets[i + 1])
    BY <2>1, <1>2
  <2>3. g[i] = h[i + 1] /\ g[i - 1] = h[i] /\ q[i] = packets[i + 1]
    BY <2>1, <1>4, <1>8
  <2> QED BY <2>1, <2>2, <2>3
<1>10. g[0] = new /\ g[n - 1] = last
  <2>1. 0 \in 0 .. n - 1 /\ n - 1 \in 0 .. n - 1 /\ 0 + 1 = 1 /\ (n - 1) + 1 = n
    BY <1>4
  <2> QED BY <2>1, <1>2, <1>6, <1>8
<1>11. Becomes(new, q, last)
  BY <1>4, <1>8, <1>9, <1>10 DEF Becomes
<1> QED BY <1>3, <1>5, <1>11

-----------------------------------------------------------------------------
(***************************************************************************)
(* What a session was told of its room, counting what is on its way.       *)
(***************************************************************************)

\* The locked section of t has still to send s a packet of this kind.
Tells(t, s, kind) == \E i \in DOMAIN pending[t] : pending[t][i][1] = s /\ pending[t][i][2].id = kind

\* Those of whom s was told, or will be by what is on its way, that they are in
\* its room: a UserLeft that is not sent yet leaves them in, a UserEntered that is
\* not sent yet leaves them out.
Told(s) ==
    {t \in Sessions \ {s} :
        \/ Tells(t, s, "UserLeft")
        \/ CurrentRoom[t] = CurrentRoom[s] /\ ~ Tells(t, s, "UserEntered")}

\* Their names.
ToldNames(s) == [t \in Told(s) |-> Username[t]]

\* A section that tells of a move sends the name of the one who moves, to others,
\* and to each at most one UserLeft and then at most one UserEntered.
MovesInOrder ==
    \A t \in Sessions : \A i \in DOMAIN pending[t] :
        pending[t][i][2].id \in {"UserLeft", "UserEntered"} =>
            /\ pending[t][i][2].name = Username[t]
            /\ pending[t][i][1] # t
            /\ \A j \in DOMAIN pending[t] :
                  i < j /\ pending[t][j][1] = pending[t][i][1] =>
                      pending[t][i][2].id = "UserLeft" /\ pending[t][j][2].id = "UserEntered"

\* Who is told that t entered is in the same room; who is only told that it left
\* is not.
MovesAgree ==
    \A t, m \in Sessions :
        /\ Tells(t, m, "UserEntered") => CurrentRoom[t] = CurrentRoom[m]
        /\ Tells(t, m, "UserLeft") =>
              (Tells(t, m, "UserEntered") <=> CurrentRoom[t] = CurrentRoom[m])

\* Nobody in a room is told of two sessions by one name.
ToldApart ==
    \A s \in Sessions : CurrentRoom[s] # None =>
        \A t, u \in Told(s) : Username[t] # None /\ (Username[t] = Username[u] => t = u)

\* ToEach leaves nobody out.
LEMMA ToEachAll ==
    ASSUME NEW members \in SUBSET Sessions, NEW packet, NEW m
    PROVE  (\E i \in DOMAIN ToEach(members, packet) : ToEach(members, packet)[i][1] = m)
              <=> m \in members
<1> DEFINE S == {<<x, packet>> : x \in members}
           f == [x \in members |-> <<x, packet>>]
<1>1. IsFiniteSet(members)
  BY FS_Subset, SessionsAssumption
<1>2. f \in Surjection(members, S)
  BY DEF Surjection
<1>3. IsFiniteSet(S)
  BY <1>1, <1>2, FS_Surjection
<1>4. PICK q : q = SetToSeq(S)
  OBVIOUS
<1>5. {q[i] : i \in DOMAIN q} = S
  BY <1>3, <1>4, NumberedAll
<1>6. ToEach(members, packet) = q
  BY <1>4 DEF ToEach
<1>7. ASSUME NEW i \in DOMAIN q PROVE q[i][1] \in members
  <2>1. q[i] \in S
    BY <1>5
  <2> QED BY <2>1
<1>8. ASSUME m \in members PROVE \E i \in DOMAIN q : q[i][1] = m
  <2>1. <<m, packet>> \in S
    BY <1>8
  <2>2. PICK i \in DOMAIN q : q[i] = <<m, packet>>
    BY <2>1, <1>5
  <2> QED BY <2>2
<1> QED BY <1>6, <1>7, <1>8

\* The UserLeft of s: for the others in its room, each of them once.
LEMMA UserLeftSent ==
    ASSUME TypeOK, RoomsAgree, NEW s \in Sessions, NEW q, q = UserLeft(s)
    PROVE  /\ q \in Seq(Sessions \X Packets)
           /\ \A i \in DOMAIN q : q[i][2].id = "UserLeft" /\ q[i][2].name = Username[s]
           /\ \A i, j \in DOMAIN q : j # i => q[j][1] # q[i][1]
           /\ \A m \in Sessions : (\E i \in DOMAIN q : q[i][1] = m) <=>
                 m # s /\ CurrentRoom[s] # None /\ CurrentRoom[m] = CurrentRoom[s]
<1> DEFINE packet == [id |-> "UserLeft", name |-> Username[s]]
<1>1. packet \in Packets
  BY DEF TypeOK, Packets
<1>2. Staying(s) \in SUBSET Sessions
  BY StayingType
<1>3. \A m \in Sessions : m \in Staying(s) <=>
         m # s /\ CurrentRoom[s] # None /\ CurrentRoom[m] = CurrentRoom[s]
  BY StayingType DEF Staying, TypeOK, RoomsAgree
<1>4. packet.id = "UserLeft" /\ packet.name = Username[s]
  OBVIOUS
<1>5. q = ToEach(Staying(s), packet)
  BY DEF UserLeft
<1> HIDE DEF packet
<1>6. /\ q \in Seq(Sessions \X Packets)
      /\ \A i \in DOMAIN q : q[i][2] = packet
      /\ \A i, j \in DOMAIN q : j # i => q[j][1] # q[i][1]
  BY <1>1, <1>2, <1>5, ToEachOnce
<1>7. \A m \in Sessions : (\E i \in DOMAIN q : q[i][1] = m) <=> m \in Staying(s)
  BY <1>2, <1>5, ToEachAll
<1> QED BY <1>3, <1>4, <1>6, <1>7

\* The room table after LeaveCurrentRoom, and whom a join finds in the room.
RoomsLeft(s)    == IF CurrentRoom[s] = None THEN rooms ELSE RoomsWithout(s)
Others(s, room) == IF room \in DOMAIN RoomsLeft(s) THEN RoomsLeft(s)[room] ELSE {}

\* They are those whose CurrentRoom it is.
LEMMA OthersInRoom ==
    ASSUME Inv, NEW s \in Sessions, NEW room \in Rooms, NEW others, others = Others(s, room)
    PROVE  /\ others \in SUBSET Sessions
           /\ \A m \in Sessions : m \in others <=> m # s /\ CurrentRoom[m] = room
<1>0. PICK left : left = RoomsLeft(s)
  OBVIOUS
<1>1. /\ DOMAIN left \subseteq DOMAIN rooms
      /\ \A r \in DOMAIN left : left[r] # {} /\ left[r] = rooms[r] \ {s}
      /\ \A r \in DOMAIN rooms : \A t \in rooms[r] : t # s => r \in DOMAIN left
  <2>1. CASE CurrentRoom[s] = None
    <3>1. \A r \in DOMAIN rooms : rooms[r] # {} /\ s \notin rooms[r]
      BY <2>1, NoneAssumption DEF Inv, TypeOK, RoomsAgree
    <3> QED BY <2>1, <3>1, <1>0 DEF RoomsLeft
  <2>2. CASE CurrentRoom[s] # None
    BY <2>2, <1>0, RoomsWithoutShape DEF RoomsLeft
  <2> QED BY <2>1, <2>2
<1>2. others \in SUBSET Sessions
  BY <1>0, <1>1 DEF Inv, TypeOK, Others
<1>3. ASSUME NEW m \in Sessions PROVE m \in others <=> m # s /\ CurrentRoom[m] = room
  <2>1. (room \in DOMAIN rooms /\ m \in rooms[room]) <=> CurrentRoom[m] = room
    BY DEF Inv, RoomsAgree
  <2> QED BY <1>0, <1>1, <2>1 DEF Others
<1> QED BY <1>2, <1>3

-----------------------------------------------------------------------------
(***************************************************************************)
(* What the locked sections of a join and of a disconnect tell whom.       *)
(***************************************************************************)
\* While globalLock is free nobody is about to be told anything.
LEMMA NobodyTells ==
    ASSUME Inv, globalLock = None
    PROVE  \A t, m \in Sessions, kind \in {"UserLeft", "UserEntered"} : ~ Tells(t, m, kind)
BY FreeLock DEF Tells

\* What the locked section of a join tells whom.
LEMMA JoinTells ==
    ASSUME Inv, NEW s \in Sessions, NEW room \in Rooms, HandleRoomJoin(s, room)
    PROVE  /\ MovesInOrder'
           /\ \A t, m \in Sessions, kind \in {"UserLeft", "UserEntered"} :
                 t # s => ~ Tells(t, m, kind)'
           /\ \A m \in Sessions : Tells(s, m, "UserLeft")' <=>
                 m # s /\ CurrentRoom[s] # None /\ CurrentRoom[m] = CurrentRoom[s]
           /\ \A m \in Sessions : Tells(s, m, "UserEntered")' <=> m # s /\ CurrentRoom[m] = room
<1>0. TypeOK /\ RoomsAgree
  BY DEF Inv
<1>2. PICK others : others = Others(s, room)
  OBVIOUS
<1>3. PICK entered : entered = [id |-> "UserEntered", name |-> Username[s]]
  OBVIOUS
<1>4. entered \in Packets /\ entered.id = "UserEntered" /\ entered.name = Username[s]
  BY <1>0, <1>3 DEF Packets, TypeOK
<1>5. /\ others \in SUBSET Sessions
      /\ \A m \in Sessions : m \in others <=> m # s /\ CurrentRoom[m] = room
  BY <1>2, OthersInRoom
<1>6. PICK a : a = UserLeft(s)
  OBVIOUS
<1>7. PICK b : b = ToEach(others, entered)
  OBVIOUS
<1>8. PICK q : q = a \o b
  OBVIOUS
<1>9. globalLock = None /\ Locked(s, q, "respond") /\ UNCHANGED Username
  BY <1>2, <1>3, <1>6, <1>7, <1>8 DEF HandleRoomJoin, Begin, Others, RoomsLeft
<1>10. /\ a \in Seq(Sessions \X Packets)
       /\ \A i \in DOMAIN a : a[i][2].id = "UserLeft" /\ a[i][2].name = Username[s]
       /\ \A i, j \in DOMAIN a : j # i => a[j][1] # a[i][1]
       /\ \A m \in Sessions : (\E i \in DOMAIN a : a[i][1] = m) <=>
             m # s /\ CurrentRoom[s] # None /\ CurrentRoom[m] = CurrentRoom[s]
  BY <1>0, <1>6, UserLeftSent
<1>11. /\ b \in Seq(Sessions \X Packets)
       /\ \A i \in DOMAIN b : b[i][2] = entered
       /\ \A i, j \in DOMAIN b : j # i => b[j][1] # b[i][1]
  <2>1. others \in SUBSET Sessions /\ entered \in Packets
    BY <1>4, <1>5
  <2> QED BY <2>1, <1>7, ToEachOnce, Zenon
<1>12. \A m \in Sessions : (\E i \in DOMAIN b : b[i][1] = m) <=> m # s /\ CurrentRoom[m] = room
  BY <1>5, <1>7, ToEachAll
<1>13. PICK n \in Nat : n = Len(a) /\ DOMAIN a = 1 .. n
  BY <1>10
<1>14. PICK k \in Nat : k = Len(b) /\ DOMAIN b = 1 .. k
  BY <1>11
<1>15. /\ q \in Seq(Sessions \X Packets) /\ Len(q) = n + k /\ DOMAIN q = 1 .. n + k
       /\ \A i \in 1 .. n + k : q[i] = IF i <= n THEN a[i] ELSE b[i - n]
  BY <1>8, <1>10, <1>11, <1>13, <1>14, ConcatProperties
<1>16. pending' = [t \in Sessions |-> IF t = s THEN q ELSE <<>>]
  BY <1>9, <1>15, LockedControl
<1>17. ASSUME NEW i \in 1 .. n + k
       PROVE  \/ i \in 1 .. n /\ q[i] = a[i] /\ q[i][2].id = "UserLeft" /\ q[i][2].name = Username[s]
              \/ /\ i - n \in 1 .. k /\ q[i] = b[i - n]
                 /\ q[i][2].id = "UserEntered" /\ q[i][2].name = Username[s]
  <2>1. CASE i <= n
    <3>1. i \in 1 .. n /\ q[i] = a[i]
      BY <2>1, <1>15
    <3> QED BY <3>1, <1>10, <1>13
  <2>2. CASE i > n
    <3>1. i - n \in 1 .. k /\ q[i] = b[i - n]
      BY <2>2, <1>15
    <3> QED BY <3>1, <1>4, <1>11, <1>14
  <2> QED BY <2>1, <2>2
<1>18. ASSUME NEW m \in Sessions
       PROVE  (\E i \in DOMAIN q : q[i][1] = m /\ q[i][2].id = "UserLeft") <=>
                  (\E i \in DOMAIN a : a[i][1] = m)
  <2>1. ASSUME NEW i \in DOMAIN a, a[i][1] = m
        PROVE  i \in DOMAIN q /\ q[i][1] = m /\ q[i][2].id = "UserLeft"
    <3>1. i \in 1 .. n + k /\ i <= n
      BY <1>13, <1>15
    <3> QED BY <3>1, <2>1, <1>10, <1>15
  <2>2. ASSUME NEW i \in DOMAIN q, q[i][1] = m, q[i][2].id = "UserLeft"
        PROVE  \E j \in DOMAIN a : a[j][1] = m
    BY <2>2, <1>13, <1>15, <1>17
  <2> QED BY <2>1, <2>2
<1>19. ASSUME NEW m \in Sessions
       PROVE  (\E i \in DOMAIN q : q[i][1] = m /\ q[i][2].id = "UserEntered") <=>
                  (\E i \in DOMAIN b : b[i][1] = m)
  <2>1. ASSUME NEW i \in DOMAIN b, b[i][1] = m
        PROVE  \E j \in DOMAIN q : q[j][1] = m /\ q[j][2].id = "UserEntered"
    <3>1. i + n \in 1 .. n + k /\ ~ (i + n <= n) /\ (i + n) - n = i
      BY <1>14
    <3>2. q[i + n] = b[i]
      BY <3>1, <1>15
    <3> QED BY <3>1, <3>2, <2>1, <1>4, <1>11, <1>15
  <2>2. ASSUME NEW i \in DOMAIN q, q[i][1] = m, q[i][2].id = "UserEntered"
        PROVE  \E j \in DOMAIN b : b[j][1] = m
    BY <2>2, <1>14, <1>15, <1>17
  <2> QED BY <2>1, <2>2
<1>20. MovesInOrder'
  <2> SUFFICES ASSUME NEW i \in DOMAIN q
               PROVE  /\ q[i][2].name = Username[s]
                      /\ q[i][1] # s
                      /\ \A j \in DOMAIN q : i < j /\ q[j][1] = q[i][1] =>
                            q[i][2].id = "UserLeft" /\ q[j][2].id = "UserEntered"
    BY <1>9, <1>16 DEF MovesInOrder
  <2>1. q[i][2].name = Username[s]
    BY <1>15, <1>17
  <2>2. q[i] \in Sessions \X Packets
    BY <1>15
  <2>3. q[i][1] # s
    <3>1. PICK m \in Sessions : m = q[i][1]
      BY <2>2
    <3>2. (\E j \in DOMAIN a : a[j][1] = m) \/ (\E j \in DOMAIN b : b[j][1] = m)
      BY <3>1, <1>13, <1>14, <1>15, <1>17
    <3> QED BY <3>1, <3>2, <1>10, <1>12
  <2>4. ASSUME NEW j \in DOMAIN q, i < j, q[j][1] = q[i][1]
        PROVE  q[i][2].id = "UserLeft" /\ q[j][2].id = "UserEntered"
    <3>1. CASE j <= n
      <4>1. i \in DOMAIN a /\ j \in DOMAIN a /\ i # j /\ q[i] = a[i] /\ q[j] = a[j]
        BY <3>1, <2>4, <1>13, <1>15
      <4> QED BY <4>1, <2>4, <1>10
    <3>2. CASE i > n
      <4>1. i - n \in DOMAIN b /\ j - n \in DOMAIN b /\ i - n # j - n
        BY <3>2, <2>4, <1>14, <1>15
      <4>2. q[i] = b[i - n] /\ q[j] = b[j - n]
        BY <3>2, <2>4, <1>15
      <4> QED BY <4>1, <4>2, <2>4, <1>11
    <3>3. CASE i <= n /\ j > n
      <4>1. i \in 1 .. n + k /\ j \in 1 .. n + k /\ i \in 1 .. n /\ j \notin 1 .. n /\ i - n \notin 1 .. k
        BY <3>3, <1>15
      <4> QED BY <4>1, <1>17
    <3>4. i <= n \/ i > n
      BY <1>15
    <3>5. j <= n \/ j > n
      BY <1>15
    <3> QED BY <3>1, <3>2, <3>3, <3>4, <3>5
  <2> QED BY <2>1, <2>3, <2>4
<1>21. ASSUME NEW t \in Sessions, NEW m \in Sessions, NEW kind \in {"UserLeft", "UserEntered"}
       PROVE  Tells(t, m, kind)' <=>
                t = s /\ \E i \in DOMAIN q : q[i][1] = m /\ q[i][2].id = kind
  BY <1>16 DEF Tells
<1> QED BY <1>10, <1>12, <1>18, <1>19, <1>20, <1>21

\* What the locked section of a disconnect tells whom.
LEMMA DisconnectTells ==
    ASSUME Inv, NEW s \in Sessions, HandleDisconnect(s)
    PROVE  /\ MovesInOrder'
           /\ \A t, m \in Sessions, kind \in {"UserLeft", "UserEntered"} :
                 t # s => ~ Tells(t, m, kind)'
           /\ \A m \in Sessions : Tells(s, m, "UserLeft")' <=>
                 m # s /\ CurrentRoom[s] # None /\ CurrentRoom[m] = CurrentRoom[s]
           /\ \A m \in Sessions : ~ Tells(s, m, "UserEntered")'
<1>0. TypeOK /\ RoomsAgree
  BY DEF Inv
<1>1. PICK q : q = UserLeft(s)
  OBVIOUS
<1>2. globalLock = None /\ Locked(s, q, "closed") /\ UNCHANGED Username
  BY <1>1 DEF HandleDisconnect
<1>3. /\ q \in Seq(Sessions \X Packets)
      /\ \A i \in DOMAIN q : q[i][2].id = "UserLeft" /\ q[i][2].name = Username[s]
      /\ \A i, j \in DOMAIN q : j # i => q[j][1] # q[i][1]
      /\ \A m \in Sessions : (\E i \in DOMAIN q : q[i][1] = m) <=>
            m # s /\ CurrentRoom[s] # None /\ CurrentRoom[m] = CurrentRoom[s]
  BY <1>0, <1>1, UserLeftSent
<1>4. pending' = [t \in Sessions |-> IF t = s THEN q ELSE <<>>]
  BY <1>2, <1>3, LockedControl
<1>5. ASSUME NEW t \in Sessions, NEW m \in Sessions, NEW kind \in {"UserLeft", "UserEntered"}
      PROVE  Tells(t, m, kind)' <=> t = s /\ \E i \in DOMAIN q : q[i][1] = m /\ q[i][2].id = kind
  BY <1>4 DEF Tells
<1>6. MovesInOrder'
  <2> SUFFICES ASSUME NEW i \in DOMAIN q
               PROVE  /\ q[i][2].name = Username[s]
                      /\ q[i][1] # s
                      /\ \A j \in DOMAIN q : ~ (i < j /\ q[j][1] = q[i][1])
    BY <1>2, <1>4 DEF MovesInOrder
  <2>1. q[i] \in Sessions \X Packets /\ i \in Nat
    BY <1>3
  <2>2. \A j \in DOMAIN q : i < j => i # j
    BY <2>1, <1>3
  <2> QED BY <2>1, <2>2, <1>3
<1> QED BY <1>3, <1>5, <1>6

-----------------------------------------------------------------------------
(***************************************************************************)
(* How what a session was told changes.                                    *)
(***************************************************************************)
\* Whoever is in a room has a name.
NamedInRoom == \A s \in Sessions : CurrentRoom[s] # None => Username[s] # None

\* The names told stay the same, and apart, while the sessions told of and their
\* names do.
LEMMA SameNamesTold ==
    ASSUME NEW m \in Sessions, Told(m)' = Told(m), \A t \in Told(m) : Username'[t] = Username[t]
    PROVE  ToldNames(m)' = ToldNames(m)
BY DEF ToldNames

\* A step that tells nobody of a move and moves nobody.
LEMMA SameTold ==
    ASSUME UNCHANGED CurrentRoom,
           \A t, m \in Sessions, kind \in {"UserLeft", "UserEntered"} :
               Tells(t, m, kind)' <=> Tells(t, m, kind)
    PROVE  \A m \in Sessions : Told(m)' = Told(m)
BY DEF Told

\* A join: the others were told of the same names as before, the one who joins
\* of those in the room.
LEMMA JoinTold ==
    ASSUME Inv, Inv', ToldApart, NamedInRoom', NEW s \in Sessions, NEW room \in Rooms,
           HandleRoomJoin(s, room)
    PROVE  /\ MovesInOrder' /\ MovesAgree' /\ ToldApart'
           /\ \A m \in Sessions : m # s /\ CurrentRoom[m] # None => ToldNames(m)' = ToldNames(m)
           /\ \A t \in Sessions : t \in Told(s)' <=> t # s /\ CurrentRoom[t] = room
<1>1. /\ globalLock = None /\ UNCHANGED Username
      /\ CurrentRoom' = [CurrentRoom EXCEPT ![s] = room]
  BY DEF HandleRoomJoin, Begin
<1>2. /\ CurrentRoom \in [Sessions -> Rooms \cup {None}]
      /\ CurrentRoom'[s] = room
      /\ \A t \in Sessions : t # s => CurrentRoom'[t] = CurrentRoom[t]
  BY <1>1 DEF Inv, TypeOK
<1>3. \A t, m \in Sessions, kind \in {"UserLeft", "UserEntered"} : ~ Tells(t, m, kind)
  BY <1>1, NobodyTells
<1>4. /\ MovesInOrder'
      /\ \A t, m \in Sessions, kind \in {"UserLeft", "UserEntered"} : t # s => ~ Tells(t, m, kind)'
      /\ \A m \in Sessions : Tells(s, m, "UserLeft")' <=>
            m # s /\ CurrentRoom[s] # None /\ CurrentRoom[m] = CurrentRoom[s]
      /\ \A m \in Sessions : Tells(s, m, "UserEntered")' <=> m # s /\ CurrentRoom[m] = room
  BY JoinTells
<1>5. MovesAgree'
  BY <1>2, <1>4 DEF MovesAgree
<1>6. ASSUME NEW m \in Sessions, m # s, CurrentRoom[m] # None PROVE Told(m)' = Told(m)
  <2>1. ASSUME NEW t \in Sessions, t # m PROVE t \in Told(m)' <=> t \in Told(m)
    <3>1. CASE t = s
      BY <3>1, <2>1, <1>6, <1>2, <1>3, <1>4 DEF Told
    <3>2. CASE t # s
      BY <3>2, <2>1, <1>6, <1>2, <1>3, <1>4 DEF Told
    <3> QED BY <3>1, <3>2
  <2> QED BY <2>1 DEF Told
<1>7. ASSUME NEW t \in Sessions PROVE t \in Told(s)' <=> t # s /\ CurrentRoom[t] = room
  BY <1>2, <1>4 DEF Told
<1>8. ToldApart'
  <2> SUFFICES ASSUME NEW m \in Sessions, CurrentRoom'[m] # None,
                      NEW t \in Told(m)', NEW u \in Told(m)'
               PROVE  Username'[t] # None /\ (Username'[t] = Username'[u] => t = u)
    BY DEF ToldApart
  <2>1. CASE m # s
    <3>1. CurrentRoom[m] # None
      BY <2>1, <1>2
    <3> QED BY <2>1, <3>1, <1>1, <1>6 DEF ToldApart
  <2>2. CASE m = s
    <3>1. t \in Sessions /\ u \in Sessions /\ CurrentRoom'[t] = room /\ CurrentRoom'[u] = room
      BY <2>2, <1>2, <1>7 DEF Told
    <3>2. room # None
      BY NoneAssumption
    <3>3. /\ Username'[t] # None
          /\ Username'[u] # None
          /\ Live(t)' /\ Live(u)'
      BY <3>1, <3>2 DEF NamedInRoom, Inv, RoomsAgree
    <3> QED BY <3>1, <3>3 DEF Inv, NamesAreOwned
  <2> QED BY <2>1, <2>2
<1>9. ASSUME NEW m \in Sessions, m # s, CurrentRoom[m] # None PROVE ToldNames(m)' = ToldNames(m)
  BY <1>1, <1>6, <1>9, SameNamesTold
<1> QED BY <1>4, <1>5, <1>7, <1>8, <1>9

\* A disconnect: the others were told of the same names as before.
LEMMA DisconnectTold ==
    ASSUME Inv, ToldApart, NEW s \in Sessions, HandleDisconnect(s)
    PROVE  /\ MovesInOrder' /\ MovesAgree' /\ ToldApart'
           /\ \A m \in Sessions : m # s /\ CurrentRoom[m] # None => ToldNames(m)' = ToldNames(m)
<1>1. /\ globalLock = None /\ UNCHANGED Username
      /\ CurrentRoom' = [CurrentRoom EXCEPT ![s] = None]
  BY DEF HandleDisconnect
<1>2. /\ CurrentRoom \in [Sessions -> Rooms \cup {None}]
      /\ CurrentRoom'[s] = None
      /\ \A t \in Sessions : t # s => CurrentRoom'[t] = CurrentRoom[t]
  BY <1>1 DEF Inv, TypeOK
<1>3. \A t, m \in Sessions, kind \in {"UserLeft", "UserEntered"} : ~ Tells(t, m, kind)
  BY <1>1, NobodyTells
<1>4. /\ MovesInOrder'
      /\ \A t, m \in Sessions, kind \in {"UserLeft", "UserEntered"} : t # s => ~ Tells(t, m, kind)'
      /\ \A m \in Sessions : Tells(s, m, "UserLeft")' <=>
            m # s /\ CurrentRoom[s] # None /\ CurrentRoom[m] = CurrentRoom[s]
      /\ \A m \in Sessions : ~ Tells(s, m, "UserEntered")'
  BY DisconnectTells
<1>5. MovesAgree'
  BY <1>2, <1>4 DEF MovesAgree
<1>6. ASSUME NEW m \in Sessions, m # s, CurrentRoom[m] # None PROVE Told(m)' = Told(m)
  <2>1. ASSUME NEW t \in Sessions, t # m PROVE t \in Told(m)' <=> t \in Told(m)
    <3>1. CASE t = s
      BY <3>1, <2>1, <1>6, <1>2, <1>3, <1>4 DEF Told
    <3>2. CASE t # s
      BY <3>2, <2>1, <1>6, <1>2, <1>3, <1>4 DEF Told
    <3> QED BY <3>1, <3>2
  <2> QED BY <2>1 DEF Told
<1>7. ToldApart'
  BY <1>1, <1>2, <1>6 DEF ToldApart
<1>8. ASSUME NEW m \in Sessions, m # s, CurrentRoom[m] # None PROVE ToldNames(m)' = ToldNames(m)
  BY <1>1, <1>6, <1>8, SameNamesTold
<1> QED BY <1>4, <1>5, <1>7, <1>8

\* A packet of the section is sent: its receiver is told of one less, one more or
\* the same, and all others of the same.
LEMMA BroadcastTold ==
    ASSUME Inv, MovesInOrder, MovesAgree, ToldApart, NamedInRoom, NEW s \in Sessions, NEW m, NEW packet,
           SendLocked(s), m = Head(pending[s])[1], packet = Head(pending[s])[2]
    PROVE  /\ MovesInOrder' /\ MovesAgree' /\ ToldApart'
           /\ m \in Sessions /\ packet \in Packets
           /\ \A x \in Sessions : x # m => ToldNames(x)' = ToldNames(x)
           /\ packet.id \notin {"UserLeft", "UserEntered"} => ToldNames(m)' = ToldNames(m)
           /\ packet.id = "UserLeft" =>
                 /\ s \in DOMAIN ToldNames(m) /\ ToldNames(m)[s] = packet.name
                 /\ ToldNames(m)' = Without(ToldNames(m), s)
           /\ packet.id = "UserEntered" =>
                 /\ s \notin DOMAIN ToldNames(m)
                 /\ ToldNames(m)' = With(ToldNames(m), s, packet.name)
<1>1. PICK q \in Seq(Sessions \X Packets) : q = pending[s] /\ q # <<>>
  BY DEF SendLocked, Inv, TypeOK
<1>2. PICK n \in Nat : n = Len(q) /\ DOMAIN q = 1 .. n /\ n >= 1
  BY <1>1
<1>3. q[1] = <<m, packet>> /\ m \in Sessions /\ packet \in Packets
  BY <1>1, <1>2
<1>4. PICK rest : rest = Tail(q)
  OBVIOUS
<1>5. /\ rest \in Seq(Sessions \X Packets)
      /\ DOMAIN rest = 1 .. n - 1
      /\ \A i \in 1 .. n - 1 : rest[i] = q[i + 1]
  BY <1>1, <1>2, <1>4, HeadTailProperties
<1>6. /\ UNCHANGED <<Username, CurrentRoom>>
      /\ pending' = [t \in Sessions |-> IF t = s THEN rest ELSE <<>>]
      /\ pending = [t \in Sessions |-> IF t = s THEN q ELSE <<>>]
  BY <1>1, <1>4 DEF SendLocked, sessions, Inv, TypeOK, QuietUnlocked, LockHeld
<1>7. \A t, x \in Sessions, kind \in {"UserLeft", "UserEntered"} :
         t # s => ~ Tells(t, x, kind) /\ ~ Tells(t, x, kind)'
  BY <1>6 DEF Tells
<1>8. ASSUME NEW x \in Sessions, NEW kind \in {"UserLeft", "UserEntered"}
      PROVE  /\ Tells(s, x, kind) <=> (x = m /\ packet.id = kind) \/ Tells(s, x, kind)'
             /\ x = m /\ packet.id = kind => ~ Tells(s, x, kind)'
             /\ x = m /\ packet.id = "UserEntered" => ~ Tells(s, x, kind)'
  <2>1. Tells(s, x, kind) <=> \E i \in 1 .. n : q[i][1] = x /\ q[i][2].id = kind
    BY <1>2, <1>6 DEF Tells
  <2>2. Tells(s, x, kind)' <=> \E i \in 1 .. n - 1 : rest[i][1] = x /\ rest[i][2].id = kind
    BY <1>5, <1>6 DEF Tells
  <2>3. Tells(s, x, kind)' <=> \E i \in 2 .. n : q[i][1] = x /\ q[i][2].id = kind
    <3>1. ASSUME NEW i \in 1 .. n - 1, rest[i][1] = x, rest[i][2].id = kind
          PROVE  i + 1 \in 2 .. n /\ q[i + 1][1] = x /\ q[i + 1][2].id = kind
      BY <3>1, <1>5
    <3>2. ASSUME NEW i \in 2 .. n, q[i][1] = x, q[i][2].id = kind
          PROVE  i - 1 \in 1 .. n - 1 /\ rest[i - 1][1] = x /\ rest[i - 1][2].id = kind
      <4>1. i - 1 \in 1 .. n - 1 /\ (i - 1) + 1 = i
        OBVIOUS
      <4>2. rest[i - 1] = q[i]
        BY <4>1, <1>5
      <4> QED BY <4>1, <4>2, <3>2
    <3> QED BY <3>1, <3>2, <2>2
  <2>4. ASSUME x = m, packet.id \in {"UserLeft", "UserEntered"}, NEW i \in 2 .. n, q[i][1] = x
        PROVE  packet.id = "UserLeft" /\ q[i][2].id = "UserEntered"
    <3>1. 1 \in DOMAIN pending[s] /\ i \in DOMAIN pending[s] /\ 1 < i
      BY <1>1, <1>2
    <3>2. pending[s][1][2].id \in {"UserLeft", "UserEntered"} /\ pending[s][i][1] = pending[s][1][1]
      BY <2>4, <1>1, <1>3
    <3>3. pending[s][1][2].id = "UserLeft" /\ pending[s][i][2].id = "UserEntered"
      BY <3>1, <3>2 DEF MovesInOrder
    <3> QED BY <3>3, <1>1, <1>3
  <2>5. 1 .. n = {1} \cup (2 .. n)
    BY <1>2
  <2>6. Tells(s, x, kind) <=> (x = m /\ packet.id = kind) \/ Tells(s, x, kind)'
    <3>1. q[1][1] = m /\ q[1][2] = packet
      BY <1>3
    <3>2. Tells(s, x, kind) <=> (q[1][1] = x /\ q[1][2].id = kind)
                                   \/ \E i \in 2 .. n : q[i][1] = x /\ q[i][2].id = kind
      BY <2>1, <2>5, Zenon
    <3> QED BY <3>1, <3>2, <2>3
  <2> QED BY <2>3, <2>4, <2>6
<1>9. MovesInOrder'
  <2> SUFFICES ASSUME NEW i \in 1 .. n - 1, rest[i][2].id \in {"UserLeft", "UserEntered"}
               PROVE  /\ rest[i][2].name = Username[s]
                      /\ rest[i][1] # s
                      /\ \A j \in 1 .. n - 1 : i < j /\ rest[j][1] = rest[i][1] =>
                            rest[i][2].id = "UserLeft" /\ rest[j][2].id = "UserEntered"
    BY <1>5, <1>6 DEF MovesInOrder
  <2>1. i + 1 \in 1 .. n /\ rest[i] = q[i + 1]
    BY <1>2, <1>5
  <2>2. \A j \in 1 .. n - 1 : i < j => j + 1 \in 1 .. n /\ i + 1 < j + 1 /\ rest[j] = q[j + 1]
    BY <1>2, <1>5
  <2>3. \A k \in DOMAIN q : q[k][2].id \in {"UserLeft", "UserEntered"} =>
            /\ q[k][2].name = Username[s]
            /\ q[k][1] # s
            /\ \A j \in DOMAIN q : k < j /\ q[j][1] = q[k][1] =>
                  q[k][2].id = "UserLeft" /\ q[j][2].id = "UserEntered"
    BY <1>1 DEF MovesInOrder
  <2>4. rest[i][2].name = Username[s] /\ rest[i][1] # s
    BY <2>1, <2>3, <1>2
  <2>5. ASSUME NEW j \in 1 .. n - 1, i < j, rest[j][1] = rest[i][1]
        PROVE  rest[i][2].id = "UserLeft" /\ rest[j][2].id = "UserEntered"
    <3>1. i + 1 \in DOMAIN q /\ j + 1 \in DOMAIN q /\ i + 1 < j + 1
      BY <2>1, <2>2, <2>5, <1>2
    <3>2. rest[i] = q[i + 1] /\ rest[j] = q[j + 1]
      BY <2>1, <2>2, <2>5
    <3> QED BY <3>1, <3>2, <2>3, <2>5
  <2> QED BY <2>4, <2>5
<1>10. MovesAgree'
  BY <1>6, <1>7, <1>8 DEF MovesAgree
<1>11. ASSUME NEW x \in Sessions, x # m \/ packet.id \notin {"UserLeft", "UserEntered"}
       PROVE  Told(x)' = Told(x)
  <2>1. \A t \in Sessions, kind \in {"UserLeft", "UserEntered"} : Tells(t, x, kind)' <=> Tells(t, x, kind)
    BY <1>7, <1>8, <1>11
  <2> QED BY <2>1, <1>6 DEF Told
<1>12. packet.id \in {"UserLeft", "UserEntered"} => packet.name = Username[s] /\ m # s
  BY <1>1, <1>2, <1>3 DEF MovesInOrder
<1>13. ASSUME packet.id = "UserLeft" PROVE s \in Told(m) /\ Told(m)' = Told(m) \ {s}
  <2>1. Tells(s, m, "UserLeft") /\ ~ Tells(s, m, "UserLeft")'
    BY <1>3, <1>8, <1>13
  <2>2. Tells(s, m, "UserEntered")' <=> Tells(s, m, "UserEntered")
    BY <1>3, <1>8, <1>13
  <2>3. Tells(s, m, "UserEntered") <=> CurrentRoom[s] = CurrentRoom[m]
    BY <2>1, <1>3 DEF MovesAgree
  <2> QED BY <2>1, <2>2, <2>3, <1>3, <1>6, <1>7, <1>12, <1>13 DEF Told
<1>14. ASSUME packet.id = "UserEntered"
       PROVE  /\ s \notin Told(m) /\ Told(m)' = Told(m) \cup {s}
              /\ \A t \in Told(m)' : t \in Sessions /\ CurrentRoom[t] = CurrentRoom[m]
  <2>1. Tells(s, m, "UserEntered") /\ ~ Tells(s, m, "UserEntered")'
    BY <1>3, <1>8, <1>14
  <2>2. ~ Tells(s, m, "UserLeft") /\ ~ Tells(s, m, "UserLeft")'
    BY <1>3, <1>8, <1>14
  <2>3. CurrentRoom[s] = CurrentRoom[m]
    BY <2>1, <1>3 DEF MovesAgree
  <2> QED BY <2>1, <2>2, <2>3, <1>3, <1>6, <1>7, <1>12, <1>14 DEF Told
<1>15. ASSUME packet.id = "UserEntered", CurrentRoom[m] # None, NEW t \in Told(m)', NEW u \in Told(m)'
       PROVE  Username[t] # None /\ (Username[t] = Username[u] => t = u)
  <2>1. /\ t \in Sessions /\ CurrentRoom[t] = CurrentRoom[m]
        /\ u \in Sessions /\ CurrentRoom[u] = CurrentRoom[m]
    BY <1>14, <1>15
  <2>2. Username[t] # None /\ Username[u] # None /\ Live(t) /\ Live(u)
    BY <2>1, <1>15 DEF NamedInRoom, Inv, RoomsAgree
  <2> QED BY <2>1, <2>2 DEF Inv, NamesAreOwned
<1>16. ToldApart'
  <2> SUFFICES ASSUME NEW x \in Sessions, CurrentRoom[x] # None,
                      NEW t \in Told(x)', NEW u \in Told(x)'
               PROVE  Username[t] # None /\ (Username[t] = Username[u] => t = u)
    BY <1>6 DEF ToldApart
  <2>1. CASE x # m \/ packet.id \notin {"UserLeft", "UserEntered"}
    BY <2>1, <1>11 DEF ToldApart
  <2>2. CASE x = m /\ packet.id = "UserLeft"
    BY <2>2, <1>13 DEF ToldApart
  <2>3. CASE x = m /\ packet.id = "UserEntered"
    BY <2>3, <1>15
  <2> QED BY <2>1, <2>2, <2>3
<1>17. \A x \in Sessions : x # m \/ packet.id \notin {"UserLeft", "UserEntered"} =>
          ToldNames(x)' = ToldNames(x)
  BY <1>6, <1>11 DEF ToldNames
<1>18. ASSUME packet.id = "UserLeft"
       PROVE  /\ s \in DOMAIN ToldNames(m) /\ ToldNames(m)[s] = packet.name
              /\ ToldNames(m)' = Without(ToldNames(m), s)
  <2>1. ToldNames(m)' = [t \in Told(m) \ {s} |-> Username[t]]
    BY <1>6, <1>13, <1>18 DEF ToldNames
  <2> QED BY <2>1, <1>12, <1>13, <1>18 DEF ToldNames, Without
<1>19. ASSUME packet.id = "UserEntered"
       PROVE  /\ s \notin DOMAIN ToldNames(m)
              /\ ToldNames(m)' = With(ToldNames(m), s, packet.name)
  <2>1. ToldNames(m)' = [t \in Told(m) \cup {s} |-> Username[t]]
    BY <1>6, <1>14, <1>19 DEF ToldNames
  <2> QED BY <2>1, <1>12, <1>14, <1>19 DEF ToldNames, With
<1> QED BY <1>3, <1>9, <1>10, <1>16, <1>17, <1>18, <1>19

-----------------------------------------------------------------------------
(***************************************************************************)
(* The inductive invariant of the lists, where every client is a window.   *)
(***************************************************************************)
\* The variables of the windows have their types.
WindowTypes ==
    /\ window \in [Sessions -> {"none", "off", "connected", "waiting", "lobby", "room"}]
    /\ raced \in [Sessions -> BOOLEAN]
    /\ listUsers = [s \in Sessions |-> listUsers[s]]

\* The server has done what the packet says.
Earned(s, packet) ==
    /\ packet.id = "LoginResponse" /\ packet.ok => Username[s] # None
    /\ packet.id = "RoomJoinResponse" => CurrentRoom[s] # None

\* The window of s is no further than the server is, and its connection is there
\* until the window is closed.
WindowState(s) ==
    /\ up[s] <=> window[s] # "off"
    /\ up[s] /\ CurrentRoom[s] # None => window[s] \in {"lobby", "room"}
    /\ CurrentRoom[s] # None => Username[s] # None
    /\ window[s] \in {"lobby", "room"} => Username[s] # None
    /\ window[s] = "room" => CurrentRoom[s] # None
    /\ thread[s] = "closing" \/ (thread[s] = "locked" /\ after[s] = "closed") => ~ up[s]
    /\ thread[s] = "absent" => response[s] = None
    /\ ~ up[s] => wire[s] = <<>>
    /\ up[s] /\ response[s] # None => Earned(s, response[s])
    /\ up[s] => \A i \in DOMAIN wire[s] : Earned(s, wire[s][i])

\* The response of a join is still to be sent.
Joining(s) == response[s] # None /\ response[s].id = "RoomJoinResponse"

\* last, which the list of s will be when its packets are handled, shows those of
\* whom s was told; the response of a join is going to fill it with their names.
Right(s, last) ==
    up[s] /\ CurrentRoom[s] # None /\ ~ raced[s] =>
        IF Joining(s) THEN response[s].users = Range(ToldNames(s))
        ELSE last \in Seq(Names \cup {None}) /\ Shows(last, ToldNames(s))

\* The packets on their way to s make its list right.
ListAgrees(s) ==
    \E last : Becomes(listUsers[s], wire[s], last) /\ Right(s, last)

\* All of this, of every session.
ListsFollow ==
    /\ MovesInOrder /\ MovesAgree /\ ToldApart
    /\ \A s \in Sessions : WindowState(s)
    /\ \A s \in Sessions : ListAgrees(s)

\* What WindowState says of a session depends on this much.
LEMMA SameWindowState ==
    ASSUME NEW x \in Sessions, WindowState(x),
           up'[x] = up[x], window'[x] = window[x], CurrentRoom'[x] = CurrentRoom[x],
           Username'[x] = Username[x], thread'[x] = thread[x], after'[x] = after[x],
           response'[x] = response[x], wire'[x] = wire[x]
    PROVE  WindowState(x)'
BY Zenon DEF WindowState, Earned

\* And what ListAgrees says: the stream and the list, and while the session is
\* connected and in a room what it was told.
LEMMA SameList ==
    ASSUME NEW x \in Sessions, ListAgrees(x),
           listUsers'[x] = listUsers[x], wire'[x] = wire[x],
           up'[x] /\ CurrentRoom'[x] # None =>
               /\ up[x] /\ CurrentRoom[x] # None
               /\ raced'[x] = raced[x] /\ response'[x] = response[x]
               /\ ToldNames(x)' = ToldNames(x)
    PROVE  ListAgrees(x)'
<1>1. PICK last : Becomes(listUsers[x], wire[x], last) /\ Right(x, last)
  BY DEF ListAgrees
<1>2. Becomes(listUsers[x], wire[x], last)'
  BY <1>1 DEF Becomes
<1>3. Right(x, last)'
  <2> SUFFICES ASSUME up'[x], CurrentRoom'[x] # None, ~ raced'[x]
               PROVE  IF Joining(x)' THEN response'[x].users = Range(ToldNames(x)')
                      ELSE last \in Seq(Names \cup {None}) /\ Shows(last, ToldNames(x)')
    BY DEF Right
  <2>1. /\ up[x] /\ CurrentRoom[x] # None /\ ~ raced[x]
        /\ response'[x] = response[x] /\ ToldNames(x)' = ToldNames(x)
    OBVIOUS
  <2>2. Joining(x)' <=> Joining(x)
    BY <2>1 DEF Joining
  <2> QED BY <2>1, <2>2, <1>1 DEF Right
<1> QED BY <1>2, <1>3 DEF ListAgrees

\* A step that leaves pending and the sessions' fields alone.
LEMMA NothingMoves ==
    ASSUME UNCHANGED <<Username, CurrentRoom, pending>>, MovesInOrder, MovesAgree, ToldApart
    PROVE  /\ MovesInOrder' /\ MovesAgree' /\ ToldApart'
           /\ \A m \in Sessions : ToldNames(m)' = ToldNames(m)
<1>1. \A t, m, kind : Tells(t, m, kind)' <=> Tells(t, m, kind)
  BY DEF Tells
<1>2. \A m \in Sessions : Told(m)' = Told(m)
  BY <1>1, SameTold
<1>3. MovesInOrder'
  BY DEF MovesInOrder
<1>4. MovesAgree'
  BY <1>1 DEF MovesAgree
<1>5. ToldApart'
  BY <1>2 DEF ToldApart
<1> QED BY <1>2, <1>3, <1>4, <1>5 DEF ToldNames

\* A section that tells of no move, and moves nobody.
LEMMA QuietSection ==
    ASSUME Inv, globalLock = None, NEW s \in Sessions,
           NEW packets \in Seq(Sessions \X Packets), NEW next \in {"read", "respond", "closed"},
           \A i \in DOMAIN packets : packets[i][2].id \notin {"UserLeft", "UserEntered"},
           Locked(s, packets, next), UNCHANGED CurrentRoom,
           \A t \in Sessions : CurrentRoom[t] # None => Username'[t] = Username[t],
           MovesAgree, ToldApart
    PROVE  /\ MovesInOrder' /\ MovesAgree' /\ ToldApart'
           /\ \A m \in Sessions : CurrentRoom[m] # None => ToldNames(m)' = ToldNames(m)
<1>1. pending' = [t \in Sessions |-> IF t = s THEN packets ELSE <<>>]
  BY LockedControl
<1>2. \A t, m \in Sessions, kind \in {"UserLeft", "UserEntered"} : ~ Tells(t, m, kind)
  BY NobodyTells
<1>3. \A t, m \in Sessions, kind \in {"UserLeft", "UserEntered"} : ~ Tells(t, m, kind)'
  BY <1>1 DEF Tells
<1>4. \A m \in Sessions : Told(m)' = Told(m)
  BY <1>2, <1>3, SameTold
<1>5. ASSUME NEW t \in Sessions, NEW i \in DOMAIN pending'[t]
      PROVE  pending'[t][i][2].id \notin {"UserLeft", "UserEntered"}
  <2>1. CASE t = s
    BY <2>1, <1>1, <1>5
  <2>2. CASE t # s
    BY <2>2, <1>1, <1>5
  <2> QED BY <2>1, <2>2
<1>6. MovesInOrder' /\ MovesAgree'
  BY <1>3, <1>5 DEF MovesInOrder, MovesAgree
<1>7. ASSUME NEW m \in Sessions, CurrentRoom[m] # None, NEW t \in Told(m)
      PROVE  Username'[t] = Username[t]
  BY <1>2, <1>7 DEF Told
<1>8. ToldApart'
  BY <1>4, <1>7 DEF ToldApart
<1>9. \A m \in Sessions : CurrentRoom[m] # None => ToldNames(m)' = ToldNames(m)
  BY <1>4, <1>7, SameNamesTold
<1> QED BY <1>6, <1>8, <1>9

-----------------------------------------------------------------------------
(***************************************************************************)
(* One lemma per action: what the user clicks.                             *)
(***************************************************************************)
\* A session that connects is in no room, and nothing is on its way to it.
LEMMA OnLoginLists ==
    ASSUME Inv, WindowTypes, ListsFollow, NEW s \in Sessions, OnLogin(s)
    PROVE  ListsFollow'
<1>1. /\ window[s] = "off" /\ thread[s] = "absent"
      /\ window' = [window EXCEPT ![s] = "connected"]
      /\ thread' = [thread EXCEPT ![s] = "read"]
      /\ up' = [up EXCEPT ![s] = TRUE]
      /\ UNCHANGED <<after, pending, response, Username, CurrentRoom, wire, listUsers, raced>>
  BY DEF OnLogin, Accept, sessions
<1>2. WindowState(s) /\ CurrentRoom[s] = None
  BY <1>1 DEF ListsFollow, Inv, RoomsAgree, Live
<1>3. /\ window'[s] = "connected" /\ thread'[s] = "read" /\ up'[s] = TRUE
      /\ \A x \in Sessions : x # s =>
            window'[x] = window[x] /\ thread'[x] = thread[x] /\ up'[x] = up[x]
  BY <1>1 DEF Inv, TypeOK, WindowTypes
<1>4. MovesInOrder' /\ MovesAgree' /\ ToldApart' /\ \A m \in Sessions : ToldNames(m)' = ToldNames(m)
  BY <1>1, NothingMoves DEF ListsFollow
<1>5. WindowState(s)'
  <2>1. response'[s] = None /\ wire'[s] = <<>>
    BY <1>1, <1>2 DEF WindowState
  <2> QED BY <2>1, <1>1, <1>2, <1>3 DEF WindowState
<1>6. ASSUME NEW x \in Sessions, x # s PROVE WindowState(x)'
  BY <1>1, <1>3, <1>6, SameWindowState DEF ListsFollow
<1>7. ASSUME NEW x \in Sessions PROVE ListAgrees(x)'
  BY <1>1, <1>2, <1>3, <1>4, SameList DEF ListsFollow
<1> QED BY <1>1, <1>4, <1>5, <1>6, <1>7 DEF ListsFollow

\* A login gives a name to a session that is in no room, so nobody was told of it.
LEMMA LoginRequestLists ==
    ASSUME Inv, WindowTypes, ListsFollow, NEW s \in Sessions, NEW name \in Names \cup {None},
           LoginRequest(s, name)
    PROVE  ListsFollow'
<1>1. PICK answer : answer = [id |-> "LoginResponse", ok |-> ~ Refused(name)]
  OBVIOUS
<1>2. /\ window[s] = "connected" /\ globalLock = None /\ thread[s] = "read"
      /\ Locked(s, <<>>, "respond")
      /\ window' = [window EXCEPT ![s] = "waiting"]
      /\ response' = [response EXCEPT ![s] = answer]
      /\ UNCHANGED <<CurrentRoom, up, wire, listUsers, raced>>
  BY <1>1 DEF LoginRequest, HandleLogin, Begin, network
<1>3. /\ answer \in Responses /\ answer # None /\ answer.id = "LoginResponse"
      /\ answer.ok = ~ Refused(name)
  <2>1. answer \in Responses /\ answer.id = "LoginResponse"
    BY <1>1 DEF Responses
  <2>2. answer.ok = ~ Refused(name)
    BY <1>1
  <2> QED BY <2>1, <2>2, ResponsesAssumption
<1>4. /\ \A x \in Sessions : x # s => Username'[x] = Username[x]
      /\ ~ Refused(name) => Username'[s] = name /\ name # None
      /\ Refused(name) => Username'[s] = Username[s]
  BY NoneAssumption DEF LoginRequest, HandleLogin, Refused, Inv, TypeOK
<1>5. WindowState(s) /\ up[s] = TRUE /\ CurrentRoom[s] = None
  BY <1>2 DEF ListsFollow, WindowState, Inv, TypeOK
<1>6. <<>> \in Seq(Sessions \X Packets) /\ DOMAIN <<>> = {}
  BY EmptySeq
<1>7. /\ thread' = [t \in Sessions |-> IF t = s THEN "locked" ELSE thread[t]]
      /\ after' = [t \in Sessions |-> IF t = s THEN "respond" ELSE after[t]]
  BY <1>2, <1>6, LockedControl
<1>8. /\ MovesInOrder' /\ MovesAgree' /\ ToldApart'
      /\ \A m \in Sessions : CurrentRoom[m] # None => ToldNames(m)' = ToldNames(m)
  <2>1. \A t \in Sessions : CurrentRoom[t] # None => Username'[t] = Username[t]
    BY <1>4, <1>5
  <2>2. \A i \in DOMAIN <<>> : <<>>[i][2].id \notin {"UserLeft", "UserEntered"}
    BY <1>6
  <2>3. UNCHANGED CurrentRoom /\ MovesAgree /\ ToldApart
    BY <1>2 DEF ListsFollow
  <2> QED BY <2>1, <2>2, <2>3, <1>2, <1>6, QuietSection
<1>9. /\ window'[s] = "waiting" /\ response'[s] = answer
      /\ \A x \in Sessions : x # s => window'[x] = window[x] /\ response'[x] = response[x]
  BY <1>2 DEF Inv, TypeOK, WindowTypes
<1>10. WindowState(s)'
  <2>1. Earned(s, answer)'
    BY <1>3, <1>4 DEF Earned
  <2>2. (\A i \in DOMAIN wire[s] : Earned(s, wire[s][i]))'
    <3>1. Username[s] # None => Username'[s] # None
      BY <1>4
    <3>2. \A i \in DOMAIN wire[s] : Earned(s, wire[s][i])
      BY <1>5, Zenon DEF WindowState
    <3> QED BY <3>1, <3>2, <1>2 DEF Earned
  <2>3. thread'[s] = "locked" /\ after'[s] = "respond"
    BY <1>7
  <2>4. up'[s] = TRUE /\ CurrentRoom'[s] = None
    BY <1>2, <1>5
  <2> QED BY <2>1, <2>2, <2>3, <2>4, <1>9 DEF WindowState
<1>11. ASSUME NEW x \in Sessions, x # s PROVE WindowState(x)'
  BY <1>2, <1>4, <1>7, <1>9, <1>11, SameWindowState DEF ListsFollow
<1>12. ASSUME NEW x \in Sessions PROVE ListAgrees(x)'
  <2>1. CASE x = s
    BY <2>1, <1>2, <1>5, SameList DEF ListsFollow
  <2>2. CASE x # s
    BY <2>2, <1>2, <1>8, <1>9, SameList DEF ListsFollow
  <2> QED BY <2>1, <2>2
<1> QED BY <1>2, <1>8, <1>10, <1>11, <1>12 DEF ListsFollow

\* The response of a join names whom the session finds in the room, which is what
\* it was told; the others are told of the move by what the section sends.
LEMMA OnJoinRoomLists ==
    ASSUME Inv, Inv', WindowTypes, ListsFollow, NEW s \in Sessions, NEW room \in Rooms,
           OnJoinRoom(s, room)
    PROVE  ListsFollow'
<1>1. PICK others : others = Others(s, room)
  OBVIOUS
<1>2. PICK answer : answer = [id |-> "RoomJoinResponse", users |-> {Username[m] : m \in others} \ {None}]
  OBVIOUS
<1>3. PICK packets : packets = UserLeft(s) \o ToEach(others, [id |-> "UserEntered", name |-> Username[s]])
  OBVIOUS
<1>4. /\ window[s] \in {"lobby", "room"} /\ globalLock = None
      /\ HandleRoomJoin(s, room)
      /\ Locked(s, packets, "respond")
      /\ response' = [response EXCEPT ![s] = answer]
      /\ CurrentRoom' = [CurrentRoom EXCEPT ![s] = room]
      /\ raced' = [raced EXCEPT ![s] = FALSE]
      /\ UNCHANGED <<Username, up, wire, window, listUsers>>
  BY <1>1, <1>2, <1>3 DEF OnJoinRoom, HandleRoomJoin, Begin, Others, RoomsLeft, network
<1>5. /\ others \in SUBSET Sessions
      /\ \A m \in Sessions : m \in others <=> m # s /\ CurrentRoom[m] = room
  BY <1>1, OthersInRoom
<1>6. WindowState(s) /\ Username[s] # None /\ up[s] = TRUE
  BY <1>4 DEF ListsFollow, WindowState, Inv, TypeOK
<1>7. /\ \A x \in Sessions : x # s =>
            /\ response'[x] = response[x] /\ CurrentRoom'[x] = CurrentRoom[x]
            /\ raced'[x] = raced[x] /\ thread'[x] = thread[x] /\ after'[x] = after[x]
      /\ response'[s] = answer /\ CurrentRoom'[s] = room /\ raced'[s] = FALSE
      /\ thread'[s] = "locked" /\ after'[s] = "respond"
  BY <1>4 DEF Inv, TypeOK, WindowTypes, Locked
<1>8. room # None
  BY NoneAssumption
<1>9. answer.id = "RoomJoinResponse" /\ answer.users = {Username[m] : m \in others} \ {None}
  BY <1>2
<1>10. answer # None
  <2>1. answer \in Responses
    <3>1. answer.users \in SUBSET Names
      BY <1>5, <1>9 DEF Inv, TypeOK
    <3> QED BY <3>1, <1>2 DEF Responses
  <2> QED BY <2>1, ResponsesAssumption
<1>11. WindowState(s)'
  <2>1. Earned(s, answer)'
    BY <1>7, <1>8, <1>9 DEF Earned
  <2>2. (\A i \in DOMAIN wire[s] : Earned(s, wire[s][i]))'
    BY <1>4, <1>6, <1>7, <1>8 DEF WindowState, Earned
  <2>3. up'[s] = TRUE /\ window'[s] \in {"lobby", "room"} /\ Username'[s] # None
    BY <1>4, <1>6
  <2> QED BY <2>1, <2>2, <2>3, <1>7, <1>8 DEF WindowState
<1>12. ASSUME NEW x \in Sessions, x # s PROVE WindowState(x)'
  BY <1>4, <1>7, <1>12, SameWindowState DEF ListsFollow
<1>13. NamedInRoom'
  BY <1>11, <1>12 DEF NamedInRoom, WindowState
<1>14. /\ MovesInOrder' /\ MovesAgree' /\ ToldApart'
       /\ \A m \in Sessions : m # s /\ CurrentRoom[m] # None => ToldNames(m)' = ToldNames(m)
       /\ \A t \in Sessions : t \in Told(s)' <=> t # s /\ CurrentRoom[t] = room
  BY <1>4, <1>13, JoinTold DEF ListsFollow
<1>15. ASSUME NEW x \in Sessions, x # s PROVE ListAgrees(x)'
  BY <1>4, <1>7, <1>14, <1>15, SameList DEF ListsFollow
<1>16. Told(s)' = others
  BY <1>5, <1>14 DEF Told
<1>17. Range(ToldNames(s)') = answer.users
  <2>1. \A m \in others : Username[m] # None
    BY <1>5, <1>8 DEF ListsFollow, WindowState
  <2>2. ToldNames(s)' = [m \in others |-> Username[m]]
    BY <1>4, <1>16 DEF ToldNames
  <2> QED BY <2>1, <2>2, <1>9 DEF Range
<1>18. ListAgrees(s)'
  <2>1. PICK last : Becomes(listUsers[s], wire[s], last)
    BY DEF ListsFollow, ListAgrees
  <2>2. Becomes(listUsers[s], wire[s], last)'
    BY <2>1, <1>4 DEF Becomes
  <2>3. Joining(s)' /\ response'[s].users = Range(ToldNames(s)')
    BY <1>7, <1>9, <1>10, <1>17 DEF Joining
  <2>4. Right(s, last)'
    BY <2>3 DEF Right
  <2> QED BY <2>2, <2>4, <1>7 DEF ListAgrees
<1> QED BY <1>4, <1>11, <1>12, <1>14, <1>15, <1>18 DEF ListsFollow

\* A section that tells of no move and has no response.
LEMMA ChatLists ==
    ASSUME Inv, ListsFollow, NEW s \in Sessions,
           globalLock = None, thread[s] = "read",
           NEW packets \in Seq(Sessions \X Packets),
           \A i \in DOMAIN packets : packets[i][2].id \notin {"UserLeft", "UserEntered"},
           Locked(s, packets, "read"),
           UNCHANGED <<response, Username, CurrentRoom, up, wire, window, listUsers, raced>>
    PROVE  ListsFollow'
<1>1. /\ MovesInOrder' /\ MovesAgree' /\ ToldApart'
      /\ \A m \in Sessions : CurrentRoom[m] # None => ToldNames(m)' = ToldNames(m)
  BY QuietSection DEF ListsFollow
<1>2. /\ thread' = [t \in Sessions |-> IF t = s THEN "locked" ELSE thread[t]]
      /\ after' = [t \in Sessions |-> IF t = s THEN "read" ELSE after[t]]
  BY LockedControl
<1>3. WindowState(s)'
  <2>1. thread'[s] = "locked" /\ after'[s] = "read"
    BY <1>2
  <2> QED BY <2>1, Zenon DEF ListsFollow, WindowState, Earned
<1>4. ASSUME NEW x \in Sessions, x # s PROVE WindowState(x)'
  <2>1. thread'[x] = thread[x] /\ after'[x] = after[x]
    BY <1>2, <1>4
  <2> QED BY <2>1, SameWindowState DEF ListsFollow
<1>5. ASSUME NEW x \in Sessions PROVE ListAgrees(x)'
  BY <1>1, SameList DEF ListsFollow
<1> QED BY <1>1, <1>3, <1>4, <1>5 DEF ListsFollow

\* A chat to the room.
LEMMA OnSendChatLists ==
    ASSUME Inv, ListsFollow, NEW s \in Sessions, OnSendChat(s)
    PROVE  ListsFollow'
<1> DEFINE members == rooms[CurrentRoom[s]]
           packet  == Chat(s)
<1>1. packet \in Packets /\ packet.id = "RoomChat"
  BY DEF Chat, Packets, Inv, TypeOK
<1>2. members \in SUBSET Sessions
  BY DEF OnSendChat, HandleRoomChat, Inv, TypeOK, RoomsAgree
<1>3. PICK packets : packets = ToEach(members, packet)
  OBVIOUS
<1>4. /\ globalLock = None /\ thread[s] = "read" /\ Locked(s, packets, "read")
      /\ UNCHANGED <<response, Username, CurrentRoom, up, wire, window, listUsers, raced>>
  BY <1>3 DEF OnSendChat, HandleRoomChat, Begin, sessions, network, ui
<1> HIDE DEF packet, members
<1>5. packets \in Seq(Sessions \X Packets) /\ \A i \in DOMAIN packets : packets[i][2] = packet
  BY <1>1, <1>2, <1>3, ToEachOnce
<1>6. \A i \in DOMAIN packets : packets[i][2].id \notin {"UserLeft", "UserEntered"}
  BY <1>1, <1>5
<1> QED BY <1>4, <1>5, <1>6, ChatLists

\* A private chat.
LEMMA OnSendPMLists ==
    ASSUME Inv, ListsFollow, NEW s \in Sessions, NEW target \in Names, OnSendPM(s, target)
    PROVE  ListsFollow'
<1>1. PICK packet : packet = [id |-> "PrivateChat", name |-> Username[s], target |-> target]
  OBVIOUS
<1>2. PICK to : to = IF target \in DOMAIN loggedInUsers
                     THEN << <<loggedInUsers[target], packet>> >> ELSE <<>>
  OBVIOUS
<1>3. packet \in Packets /\ packet.id = "PrivateChat"
  BY <1>1 DEF Packets, Inv, TypeOK
<1>4. /\ globalLock = None /\ thread[s] = "read" /\ Locked(s, Append(to, <<s, packet>>), "read")
      /\ UNCHANGED <<response, Username, CurrentRoom, up, wire, window, listUsers, raced>>
  BY <1>1, <1>2 DEF OnSendPM, HandlePrivateChat, Begin, sessions, network, ui
<1>5. to \in Seq(Sessions \X Packets) /\ \A i \in DOMAIN to : to[i][2] = packet
  <2>1. CASE target \in DOMAIN loggedInUsers
    <3>1. PICK first : first = <<loggedInUsers[target], packet>>
      OBVIOUS
    <3>2. first \in Sessions \X Packets /\ first[2] = packet
      BY <2>1, <3>1, <1>3 DEF Inv, TypeOK
    <3>3. to = <<first>>
      BY <2>1, <3>1, <1>2
    <3> QED BY <3>2, <3>3
  <2>2. CASE target \notin DOMAIN loggedInUsers
    BY <2>2, <1>2, EmptySeq
  <2> QED BY <2>1, <2>2
<1>6. PICK packets : packets = Append(to, <<s, packet>>)
  OBVIOUS
<1>7. packets \in Seq(Sessions \X Packets) /\ \A i \in DOMAIN packets : packets[i][2] = packet
  BY <1>3, <1>5, <1>6
<1>8. \A i \in DOMAIN packets : packets[i][2].id \notin {"UserLeft", "UserEntered"}
  BY <1>3, <1>7
<1> QED BY <1>4, <1>6, <1>7, <1>8, ChatLists

-----------------------------------------------------------------------------
(***************************************************************************)
(* One lemma per action: the broadcasts.                                   *)
(***************************************************************************)
\* What Write does to the streams.
LEMMA Written ==
    ASSUME TypeOK, NEW m \in Sessions, NEW packet, Write(m, packet)
    PROVE  /\ up[m] => wire'[m] = Append(wire[m], packet)
           /\ ~ up[m] => wire'[m] = wire[m]
           /\ \A x \in Sessions : x # m => wire'[x] = wire[x]
<1>1. CASE up[m]
  BY <1>1 DEF Write, TypeOK
<1>2. CASE ~ up[m]
  BY <1>2 DEF Write, TypeOK
<1> QED BY <1>1, <1>2

\* A stream with one packet more is earned when that packet is.
LEMMA EarnedOneMore ==
    ASSUME TypeOK, NEW m \in Sessions, NEW packet \in Packets \cup Responses,
           \A i \in DOMAIN wire[m] : Earned(m, wire[m][i]), Earned(m, packet),
           wire'[m] = Append(wire[m], packet), Username'[m] = Username[m], CurrentRoom'[m] = CurrentRoom[m]
    PROVE  (\A i \in DOMAIN wire[m] : Earned(m, wire[m][i]))'
<1>1. PICK q \in Seq(Packets \cup Responses) : q = wire[m]
  BY DEF TypeOK
<1>2. PICK n \in Nat : n = Len(q) /\ DOMAIN q = 1 .. n
  BY <1>1
<1>3. PICK r : r = Append(q, packet)
  OBVIOUS
<1>4. /\ DOMAIN r = (1 .. n) \cup {n + 1}
      /\ r[n + 1] = packet
      /\ \A i \in 1 .. n : r[i] = q[i]
  BY <1>1, <1>2, <1>3, AppendProperties
<1>5. \A i \in DOMAIN r : Earned(m, r[i])
  BY <1>1, <1>2, <1>4
<1>6. wire'[m] = r
  BY <1>1, <1>3
<1> QED BY <1>5, <1>6 DEF Earned

\* A packet of a locked section reaches the stream of its receiver: the receiver's
\* list is going to change just as what it was told does, unless the packet
\* overtakes the response of a join.
LEMMA BroadcastLists ==
    ASSUME Inv, WindowTypes, AllWindows, ListsFollow, NEW s \in Sessions, Broadcast(s)
    PROVE  ListsFollow'
<1>1. PICK m : m = Head(pending[s])[1]
  OBVIOUS
<1>2. PICK packet : packet = Head(pending[s])[2]
  OBVIOUS
<1>3. /\ SendLocked(s) /\ Write(m, packet)
      /\ raced' = [raced EXCEPT ![m] = @ \/ Overtakes(m, packet)]
      /\ UNCHANGED <<window, listUsers, thread, after, response, Username, CurrentRoom, up>>
  BY <1>1, <1>2 DEF Broadcast, SendLocked, sessions
<1>4. NamedInRoom
  BY DEF ListsFollow, WindowState, NamedInRoom
<1>5. /\ MovesInOrder' /\ MovesAgree' /\ ToldApart'
      /\ m \in Sessions /\ packet \in Packets
      /\ \A x \in Sessions : x # m => ToldNames(x)' = ToldNames(x)
      /\ packet.id \notin {"UserLeft", "UserEntered"} => ToldNames(m)' = ToldNames(m)
      /\ packet.id = "UserLeft" =>
            /\ s \in DOMAIN ToldNames(m) /\ ToldNames(m)[s] = packet.name
            /\ ToldNames(m)' = Without(ToldNames(m), s)
      /\ packet.id = "UserEntered" =>
            /\ s \notin DOMAIN ToldNames(m)
            /\ ToldNames(m)' = With(ToldNames(m), s, packet.name)
  BY <1>1, <1>2, <1>3, <1>4, BroadcastTold DEF ListsFollow
<1>6. /\ up[m] => wire'[m] = Append(wire[m], packet)
      /\ ~ up[m] => wire'[m] = wire[m]
      /\ \A x \in Sessions : x # m => wire'[x] = wire[x]
  BY <1>3, <1>5, Written DEF Inv
<1>7. /\ \A x \in Sessions : x # m => raced'[x] = raced[x]
      /\ raced'[m] = (raced[m] \/ Overtakes(m, packet))
  BY <1>3, <1>5 DEF WindowTypes
<1>8. ASSUME NEW x \in Sessions, x # m PROVE WindowState(x)' /\ ListAgrees(x)'
  <2>1. WindowState(x)'
    BY <1>3, <1>6, <1>8, SameWindowState DEF ListsFollow
  <2>2. ListAgrees(x)'
    BY <1>3, <1>5, <1>6, <1>7, <1>8, SameList DEF ListsFollow
  <2> QED BY <2>1, <2>2
<1>9. CASE ~ up[m]
  <2>1. WindowState(m)'
    BY <1>3, <1>5, <1>6, <1>9, SameWindowState DEF ListsFollow
  <2>2. ListAgrees(m)'
    BY <1>3, <1>5, <1>6, <1>9, SameList DEF ListsFollow
  <2> QED BY <2>1, <2>2, <1>5, <1>8 DEF ListsFollow
<1>10. CASE up[m]
  <2>1. packet.id \notin {"LoginResponse", "RoomJoinResponse"}
    BY <1>5 DEF Packets
  <2>2. WindowState(m)
    BY <1>5 DEF ListsFollow
  <2>3. (\A i \in DOMAIN wire[m] : Earned(m, wire[m][i]))'
    <3>1. \A i \in DOMAIN wire[m] : Earned(m, wire[m][i])
      BY <2>2, <1>10, Zenon DEF WindowState
    <3>2. Earned(m, packet)
      BY <2>1 DEF Earned
    <3> QED BY <3>1, <3>2, <1>3, <1>5, <1>6, <1>10, EarnedOneMore DEF Inv
  <2>4. WindowState(m)'
    <3>1. up'[m]
      BY <1>3, <1>10
    <3>2. response'[m] # None => Earned(m, response[m])'
      BY <2>2, <1>3, <1>10, Zenon DEF WindowState, Earned
    <3> QED BY <3>1, <3>2, <2>2, <2>3, <1>3 DEF WindowState
  <2>5. PICK last : Becomes(listUsers[m], wire[m], last) /\ Right(m, last)
    BY <1>5 DEF ListsFollow, ListAgrees
  <2>6. PICK new : new = After(last, packet)
    OBVIOUS
  <2>7. Becomes(listUsers[m], wire[m], new)'
    <3>1. wire[m] \in Seq(Packets \cup Responses)
      BY <1>5 DEF Inv, TypeOK
    <3>2. Becomes(listUsers[m], Append(wire[m], packet), new)
      BY <3>1, <2>5, <2>6, <1>5, OneMoreToHandle
    <3>3. listUsers'[m] = listUsers[m] /\ wire'[m] = Append(wire[m], packet)
      BY <1>3, <1>6, <1>10
    <3> QED BY <3>2, <3>3 DEF Becomes
  <2>8. Right(m, new)'
    <3> SUFFICES ASSUME CurrentRoom[m] # None, ~ raced'[m]
                 PROVE  IF Joining(m)' THEN response'[m].users = Range(ToldNames(m)')
                        ELSE new \in Seq(Names \cup {None}) /\ Shows(new, ToldNames(m)')
      BY <1>3 DEF Right
    <3>1. ~ raced[m] /\ ~ Overtakes(m, packet)
      BY <1>7
    <3>2. Joining(m)' <=> Joining(m)
      BY <1>3 DEF Joining
    <3>3. CASE Joining(m)
      <4>1. packet.id \notin {"UserLeft", "UserEntered"}
        BY <3>1, <3>3, <1>5 DEF Overtakes, Joining, AllWindows
      <4>2. response[m].users = Range(ToldNames(m))
        BY <3>1, <3>3, <2>5, <1>10 DEF Right
      <4> QED BY <4>1, <4>2, <3>2, <3>3, <1>3, <1>5
    <3>4. CASE ~ Joining(m)
      <4>1. last \in Seq(Names \cup {None}) /\ Shows(last, ToldNames(m))
        BY <3>1, <3>4, <2>5, <1>10 DEF Right
      <4>2. CASE packet.id = "UserLeft"
        <5> PICK e : e = packet.name
          OBVIOUS
        <5>1. new = RowRemoved(last, e)
          BY <4>2, <2>6 DEF After
        <5>2. /\ s \in DOMAIN ToldNames(m) /\ e = ToldNames(m)[s]
              /\ ToldNames(m)' = Without(ToldNames(m), s)
          BY <4>2, <1>5
        <5>3. new \in Seq(Names \cup {None}) /\ Shows(new, Without(ToldNames(m), s))
          BY <5>1, <5>2, <4>1, RowDeleted
        <5> QED BY <5>2, <5>3, <3>2, <3>4
      <4>3. CASE packet.id = "UserEntered"
        <5>1. new = Append(last, packet.name) /\ packet.name \in Names \cup {None}
          BY <4>3, <2>6, <1>5 DEF After, Packets
        <5>2. s \notin DOMAIN ToldNames(m) /\ ToldNames(m)' = With(ToldNames(m), s, packet.name)
          BY <4>3, <1>5
        <5>3. new \in Seq(Names \cup {None}) /\ Shows(new, With(ToldNames(m), s, packet.name))
          BY <5>1, <5>2, <4>1, RowAdded
        <5> QED BY <5>2, <5>3, <3>2, <3>4
      <4>4. CASE packet.id \notin {"UserLeft", "UserEntered"}
        <5>1. new = last
          BY <4>4, <2>1, <2>6 DEF After
        <5> QED BY <5>1, <4>1, <4>4, <3>2, <3>4, <1>5
      <4> QED BY <4>2, <4>3, <4>4
    <3> QED BY <3>3, <3>4
  <2>9. ListAgrees(m)'
    BY <2>7, <2>8 DEF ListAgrees
  <2> QED BY <2>4, <2>9, <1>5, <1>8 DEF ListsFollow
<1> QED BY <1>9, <1>10

-----------------------------------------------------------------------------
(***************************************************************************)
(* One lemma per action: the server's other steps, and the window's.       *)
(***************************************************************************)
\* The loop of a client that is gone ends, or the lock is released.
LEMMA ControlLists ==
    ASSUME Inv, ListsFollow, NEW s \in Sessions,
           (LeaveLoop(s) /\ ~ up[s]) \/ Unlock(s), UNCHANGED ui
    PROVE  ListsFollow'
<1>1. /\ thread[s] \in {"read", "locked"}
      /\ \A x \in Sessions : x # s => thread'[x] = thread[x] /\ up'[x] = up[x]
      /\ UNCHANGED <<after, pending, response, Username, CurrentRoom, wire, window, listUsers, raced>>
  BY DEF LeaveLoop, Unlock, sessions, network, ui, Inv, TypeOK
<1>2. WindowState(s)
  BY DEF ListsFollow
<1>3. up'[s] = up[s] /\ thread'[s] # "absent" /\ thread'[s] # "locked" /\ (thread'[s] = "closing" => ~ up[s])
  <2>1. CASE LeaveLoop(s) /\ ~ up[s]
    BY <2>1 DEF LeaveLoop, network, Inv, TypeOK
  <2>2. CASE Unlock(s)
    <3>1. /\ thread[s] = "locked" /\ thread'[s] = after[s]
          /\ after[s] \in {"read", "respond", "closed"}
          /\ up[s] \in BOOLEAN /\ up'[s] = (up[s] /\ after[s] # "closed")
      BY <2>2 DEF Unlock, Inv, TypeOK
    <3>2. after[s] = "closed" => ~ up[s]
      BY <3>1, <1>2, Zenon DEF WindowState
    <3>3. up'[s] = up[s]
      BY <3>1, <3>2
    <3> QED BY <3>1, <3>3
  <2> QED BY <2>1, <2>2
<1>4. /\ MovesInOrder' /\ MovesAgree' /\ ToldApart'
      /\ \A m \in Sessions : ToldNames(m)' = ToldNames(m)
  BY <1>1, NothingMoves DEF ListsFollow
<1>5. WindowState(s)'
  BY <1>1, <1>2, <1>3, Zenon DEF WindowState, Earned
<1>6. ASSUME NEW x \in Sessions, x # s PROVE WindowState(x)'
  BY <1>1, <1>6, SameWindowState DEF ListsFollow
<1>7. ASSUME NEW x \in Sessions PROVE ListAgrees(x)'
  BY <1>1, <1>3, <1>4, SameList DEF ListsFollow
<1> QED BY <1>4, <1>5, <1>6, <1>7 DEF ListsFollow

\* A session that disconnects is in no room, and the others are told.
LEMMA DisconnectLists ==
    ASSUME Inv, ListsFollow, NEW s \in Sessions, HandleDisconnect(s), UNCHANGED ui
    PROVE  ListsFollow'
<1>1. /\ thread[s] = "closing" /\ globalLock = None
      /\ CurrentRoom' = [CurrentRoom EXCEPT ![s] = None]
      /\ UNCHANGED <<response, Username, up, wire, window, listUsers, raced>>
  BY DEF HandleDisconnect, network, ui
<1>2. /\ \A x \in Sessions : x # s =>
            thread'[x] = thread[x] /\ after'[x] = after[x] /\ CurrentRoom'[x] = CurrentRoom[x]
      /\ thread'[s] = "locked" /\ CurrentRoom'[s] = None
  BY <1>1 DEF HandleDisconnect, Locked, Inv, TypeOK
<1>3. WindowState(s) /\ ~ up[s]
  BY <1>1, Zenon DEF ListsFollow, WindowState
<1>4. /\ MovesInOrder' /\ MovesAgree' /\ ToldApart'
      /\ \A m \in Sessions : m # s /\ CurrentRoom[m] # None => ToldNames(m)' = ToldNames(m)
  BY DisconnectTold DEF ListsFollow
<1>5. WindowState(s)'
  <2>1. window[s] = "off" /\ wire[s] = <<>>
    BY <1>3 DEF WindowState
  <2>2. ~ up'[s] /\ window'[s] = "off" /\ wire'[s] = <<>>
    BY <2>1, <1>1, <1>3
  <2> QED BY <2>2, <1>2 DEF WindowState
<1>6. ASSUME NEW x \in Sessions, x # s PROVE WindowState(x)'
  BY <1>1, <1>2, <1>6, SameWindowState DEF ListsFollow
<1>7. ASSUME NEW x \in Sessions PROVE ListAgrees(x)'
  <2>1. CASE x = s
    BY <2>1, <1>1, <1>2, SameList DEF ListsFollow
  <2>2. CASE x # s
    BY <2>2, <1>1, <1>2, <1>4, SameList DEF ListsFollow
  <2> QED BY <2>1, <2>2
<1> QED BY <1>4, <1>5, <1>6, <1>7 DEF ListsFollow

\* The response of a join fills the list anew with what the session was told.
LEMMA RespondLists ==
    ASSUME Inv, ListsFollow, NEW s \in Sessions, Respond(s), UNCHANGED ui
    PROVE  ListsFollow'
<1>1. /\ thread[s] = "respond" /\ Write(s, response[s])
      /\ response' = [response EXCEPT ![s] = None]
      /\ UNCHANGED <<after, pending, Username, CurrentRoom, up, window, listUsers, raced>>
  BY DEF Respond, sessions, ui
<1>2. /\ thread'[s] \in {"read", "closing"} /\ (up[s] => thread'[s] = "read")
      /\ \A x \in Sessions : x # s => thread'[x] = thread[x]
  BY DEF Respond, Inv, TypeOK
<1>3. PICK packet \in Responses : packet = response[s]
  BY <1>1 DEF Inv, AnswerReady
<1>4. packet # None
  BY <1>3, ResponsesAssumption
<1>5. response'[s] = None /\ \A x \in Sessions : x # s => response'[x] = response[x]
  BY <1>1 DEF Inv, TypeOK
<1>6. /\ up[s] => wire'[s] = Append(wire[s], packet)
      /\ ~ up[s] => wire'[s] = wire[s]
      /\ \A x \in Sessions : x # s => wire'[x] = wire[x]
  BY <1>1, <1>3, Written DEF Inv
<1>7. /\ MovesInOrder' /\ MovesAgree' /\ ToldApart'
      /\ \A m \in Sessions : ToldNames(m)' = ToldNames(m)
  BY <1>1, NothingMoves DEF ListsFollow
<1>8. ASSUME NEW x \in Sessions, x # s PROVE WindowState(x)' /\ ListAgrees(x)'
  <2>1. WindowState(x)'
    BY <1>1, <1>2, <1>5, <1>6, <1>8, SameWindowState DEF ListsFollow
  <2>2. ListAgrees(x)'
    BY <1>1, <1>5, <1>6, <1>7, <1>8, SameList DEF ListsFollow
  <2> QED BY <2>1, <2>2
<1>9. WindowState(s)
  BY DEF ListsFollow
<1>10. CASE ~ up[s]
  <2>1. WindowState(s)'
    <3>1. ~ up'[s] /\ wire'[s] = <<>> /\ window'[s] = "off" /\ window[s] = "off"
      BY <1>1, <1>6, <1>9, <1>10 DEF WindowState
    <3> QED BY <3>1, <1>1, <1>2, <1>5, <1>9 DEF WindowState
  <2>2. ListAgrees(s)'
    BY <1>1, <1>6, <1>10, SameList DEF ListsFollow
  <2> QED BY <2>1, <2>2, <1>7, <1>8 DEF ListsFollow
<1>11. CASE up[s]
  <2>1. (\A i \in DOMAIN wire[s] : Earned(s, wire[s][i]))'
    <3>1. (\A i \in DOMAIN wire[s] : Earned(s, wire[s][i])) /\ Earned(s, packet)
      BY <1>3, <1>4, <1>9, <1>11, Zenon DEF WindowState
    <3> QED BY <3>1, <1>1, <1>6, <1>11, EarnedOneMore DEF Inv
  <2>2. WindowState(s)'
    <3>1. up'[s] /\ thread'[s] = "read" /\ response'[s] = None
      BY <1>1, <1>2, <1>5, <1>11
    <3> QED BY <3>1, <2>1, <1>1, <1>9, <1>11 DEF WindowState
  <2>3. PICK last : Becomes(listUsers[s], wire[s], last) /\ Right(s, last)
    BY DEF ListsFollow, ListAgrees
  <2>4. PICK new : new = After(last, packet)
    OBVIOUS
  <2>5. Becomes(listUsers[s], wire[s], new)'
    <3>1. wire[s] \in Seq(Packets \cup Responses)
      BY DEF Inv, TypeOK
    <3>2. Becomes(listUsers[s], Append(wire[s], packet), new)
      BY <3>1, <2>3, <2>4, OneMoreToHandle
    <3>3. listUsers'[s] = listUsers[s] /\ wire'[s] = Append(wire[s], packet)
      BY <1>1, <1>6, <1>11
    <3> QED BY <3>2, <3>3 DEF Becomes
  <2>6. Right(s, new)'
    <3> SUFFICES ASSUME CurrentRoom[s] # None, ~ raced[s]
                 PROVE  new \in Seq(Names \cup {None}) /\ Shows(new, ToldNames(s))
      BY <1>1, <1>5, <1>7 DEF Right, Joining
    <3>1. CASE packet.id = "RoomJoinResponse"
      <4>1. PICK told : told = ToldNames(s)
        OBVIOUS
      <4>2. packet.users = Range(told) /\ packet.users \subseteq Names
        BY <4>1, <3>1, <2>3, <1>3, <1>4, <1>11 DEF Right, Joining, Responses
      <4>3. DOMAIN told = Told(s) /\ \A t \in Told(s) : told[t] = Username[t]
        BY <4>1 DEF ToldNames
      <4>4. IsFiniteSet(Range(told))
        <5>1. Told(s) \in SUBSET Sessions
          BY DEF Told
        <5>2. IsFiniteSet(DOMAIN told)
          BY <5>1, <4>3, FS_Subset, SessionsAssumption
        <5>3. told \in Surjection(DOMAIN told, Range(told))
          BY <4>1 DEF Surjection, Range, ToldNames
        <5> QED BY <5>2, <5>3, FS_Surjection
      <4>5. IsInjective(told)
        BY <4>3 DEF IsInjective, ListsFollow, ToldApart
      <4>6. new = SetToSeq(packet.users)
        BY <3>1, <2>4 DEF After
      <4>7. new \in Seq(packet.users) /\ IsInjective(new)
        BY <4>2, <4>4, <4>6, Numbered
      <4>8. Range(new) = packet.users
        BY <4>2, <4>4, <4>6, NumberedAll DEF Range
      <4>9. Shows(new, told)
        BY <4>2, <4>5, <4>7, <4>8, RowsFilled
      <4>10. new \in Seq(Names \cup {None})
        BY <4>2, <4>7, SeqMonotonic
      <4> QED BY <4>1, <4>9, <4>10
    <3>2. CASE packet.id # "RoomJoinResponse"
      <4>1. packet.id = "LoginResponse"
        BY <3>2 DEF Responses
      <4>2. new = last
        BY <4>1, <2>4 DEF After
      <4>3. ~ Joining(s)
        BY <3>2, <1>3 DEF Joining
      <4> QED BY <4>2, <4>3, <2>3, <1>11 DEF Right
    <3> QED BY <3>1, <3>2
  <2>7. ListAgrees(s)'
    BY <2>5, <2>6 DEF ListAgrees
  <2> QED BY <2>2, <2>7, <1>7, <1>8 DEF ListsFollow
<1> QED BY <1>10, <1>11

\* The window is closed.
LEMMA CloseWindowLists ==
    ASSUME Inv, WindowTypes, ListsFollow, NEW s \in Sessions, CloseWindow(s)
    PROVE  ListsFollow'
<1>1. /\ window' = [window EXCEPT ![s] = "off"]
      /\ up' = [up EXCEPT ![s] = FALSE]
      /\ wire' = [wire EXCEPT ![s] = <<>>]
      /\ UNCHANGED <<thread, after, pending, response, Username, CurrentRoom, listUsers, raced>>
  BY DEF CloseWindow, ClientCloses, control, sessions
<1>2. /\ window'[s] = "off" /\ up'[s] = FALSE /\ wire'[s] = <<>>
      /\ \A x \in Sessions : x # s => window'[x] = window[x] /\ up'[x] = up[x] /\ wire'[x] = wire[x]
  BY <1>1 DEF Inv, TypeOK, WindowTypes
<1>3. /\ MovesInOrder' /\ MovesAgree' /\ ToldApart'
      /\ \A m \in Sessions : ToldNames(m)' = ToldNames(m)
  BY <1>1, NothingMoves DEF ListsFollow
<1>4. WindowState(s)'
  BY <1>1, <1>2 DEF ListsFollow, WindowState
<1>5. ASSUME NEW x \in Sessions, x # s PROVE WindowState(x)' /\ ListAgrees(x)'
  <2>1. WindowState(x)'
    BY <1>1, <1>2, <1>5, SameWindowState DEF ListsFollow
  <2>2. ListAgrees(x)'
    BY <1>1, <1>2, <1>3, <1>5, SameList DEF ListsFollow
  <2> QED BY <2>1, <2>2
<1>6. ListAgrees(s)'
  <2>1. Becomes(listUsers[s], wire[s], listUsers[s])'
    <3>1. Becomes(listUsers[s], <<>>, listUsers[s])
      BY NothingToHandle
    <3> QED BY <3>1, <1>1, <1>2 DEF Becomes
  <2>2. Right(s, listUsers[s])'
    BY <1>2 DEF Right
  <2> QED BY <2>1, <2>2 DEF ListAgrees
<1> QED BY <1>3, <1>4, <1>5, <1>6 DEF ListsFollow

\* The window handles the first packet on its way, and goes as far as the server is.
LEMMA ReceiveLists ==
    ASSUME Inv, WindowTypes, ListsFollow, NEW s \in Sessions, Receive(s)
    PROVE  ListsFollow'
<1>1. PICK packet : packet = Head(wire[s])
  OBVIOUS
<1>2. PICK refused \in BOOLEAN : refused <=> (packet.id = "LoginResponse" /\ ~ packet.ok)
  OBVIOUS
<1>3. PICK q \in Seq(Packets \cup Responses) : q = wire[s] /\ q # <<>>
  BY DEF Receive, Inv, TypeOK
<1>4. /\ packet \in Packets \cup Responses /\ packet = q[1] /\ 1 \in DOMAIN q
      /\ Tail(q) \in Seq(Packets \cup Responses)
      /\ \A i \in DOMAIN Tail(q) : i + 1 \in DOMAIN q /\ Tail(q)[i] = q[i + 1]
  BY <1>1, <1>3
<1>5. /\ up[s] /\ HandleNetPacket(s, packet)
      /\ wire' = [wire EXCEPT ![s] = IF up'[s] THEN Tail(q) ELSE <<>>]
      /\ UNCHANGED <<thread, after, pending, response, Username, CurrentRoom, raced>>
  BY <1>1, <1>3 DEF Receive, control, sessions
<1>6. /\ up'[s] = ~ refused
      /\ listUsers'[s] = After(listUsers[s], packet)
      /\ \A x \in Sessions : x # s =>
            window'[x] = window[x] /\ up'[x] = up[x] /\ wire'[x] = wire[x] /\ listUsers'[x] = listUsers[x]
  BY <1>2, <1>5 DEF HandleNetPacket, ShownUsers, After, RowRemoved, Inv, TypeOK, WindowTypes
<1>7. /\ window'[s] = IF refused THEN "off"
                      ELSE IF packet.id = "LoginResponse" THEN "lobby"
                      ELSE IF packet.id = "RoomJoinResponse" THEN "room" ELSE window[s]
      /\ wire'[s] = IF up'[s] THEN Tail(q) ELSE <<>>
  <2>1. window'[s] = CASE packet.id = "LoginResponse"    -> IF refused THEN "off" ELSE "lobby"
                       [] packet.id = "RoomJoinResponse" -> "room"
                       [] OTHER                          -> window[s]
    BY <1>2, <1>5 DEF HandleNetPacket, WindowTypes
  <2>2. wire'[s] = IF up'[s] THEN Tail(q) ELSE <<>>
    BY <1>5 DEF Inv, TypeOK
  <2>3. refused => packet.id = "LoginResponse"
    BY <1>2
  <2> QED BY <2>1, <2>2, <2>3
<1>8. /\ MovesInOrder' /\ MovesAgree' /\ ToldApart'
      /\ \A m \in Sessions : ToldNames(m)' = ToldNames(m)
  BY <1>5, NothingMoves DEF ListsFollow
<1>9. ASSUME NEW x \in Sessions, x # s PROVE WindowState(x)' /\ ListAgrees(x)'
  <2>1. WindowState(x)'
    BY <1>5, <1>6, <1>9, SameWindowState DEF ListsFollow
  <2>2. ListAgrees(x)'
    BY <1>5, <1>6, <1>8, <1>9, SameList DEF ListsFollow
  <2> QED BY <2>1, <2>2
<1>10. WindowState(s) /\ Earned(s, packet) /\ \A i \in DOMAIN q : Earned(s, q[i])
  <2>1. WindowState(s)
    BY DEF ListsFollow
  <2>2. \A i \in DOMAIN q : Earned(s, q[i])
    BY <2>1, <1>3, <1>5, Zenon DEF WindowState
  <2> QED BY <2>1, <2>2, <1>4
<1>11. CASE refused
  <2>1. up'[s] = FALSE /\ window'[s] = "off" /\ wire'[s] = <<>>
    BY <1>6, <1>7, <1>11
  <2>2. WindowState(s)'
    BY <2>1, <1>5, <1>10 DEF WindowState
  <2>3. ListAgrees(s)'
    <3>1. Becomes(listUsers[s], wire[s], listUsers[s])'
      <4>1. PICK l : l = listUsers'[s]
        OBVIOUS
      <4>2. Becomes(l, <<>>, l)
        BY NothingToHandle
      <4> QED BY <4>1, <4>2, <2>1 DEF Becomes
    <3>2. Right(s, listUsers[s])'
      BY <2>1 DEF Right
    <3> QED BY <3>1, <3>2 DEF ListAgrees
  <2> QED BY <2>2, <2>3, <1>8, <1>9 DEF ListsFollow
<1>12. CASE ~ refused
  <2>1. up'[s] = TRUE /\ wire'[s] = Tail(q)
    BY <1>6, <1>7, <1>12
  <2>2. (\A i \in DOMAIN wire[s] : Earned(s, wire[s][i]))'
    BY <2>1, <1>4, <1>5, <1>10 DEF Earned
  <2>3. WindowState(s)'
    <3>1. response'[s] # None => Earned(s, response[s])'
      BY <1>5, <1>10, Zenon DEF WindowState, Earned
    <3>2. thread'[s] = "closing" \/ (thread'[s] = "locked" /\ after'[s] = "closed") => FALSE
      BY <1>5, <1>10, Zenon DEF WindowState
    <3>3. thread'[s] = "absent" => response'[s] = None
      BY <1>5, <1>10, Zenon DEF WindowState
    <3>4. CurrentRoom'[s] # None => Username'[s] # None /\ window[s] \in {"lobby", "room"}
      BY <1>5, <1>10, Zenon DEF WindowState
    <3>5. CASE packet.id = "LoginResponse"
      <4>1. window'[s] = "lobby" /\ Username[s] # None
        BY <3>5, <1>2, <1>7, <1>10, <1>12 DEF Earned
      <4> QED BY <4>1, <3>1, <3>2, <3>3, <3>4, <2>1, <2>2, <1>5 DEF WindowState
    <3>6. CASE packet.id = "RoomJoinResponse"
      <4>1. window'[s] = "room" /\ CurrentRoom[s] # None
        BY <3>6, <1>7, <1>10, <1>12 DEF Earned
      <4> QED BY <4>1, <3>1, <3>2, <3>3, <3>4, <2>1, <2>2, <1>5 DEF WindowState
    <3>7. CASE packet.id \notin {"LoginResponse", "RoomJoinResponse"}
      <4>1. window'[s] = window[s]
        BY <3>7, <1>7, <1>12
      <4>2. /\ window[s] # "off"
            /\ window[s] \in {"lobby", "room"} => Username[s] # None
            /\ window[s] = "room" => CurrentRoom[s] # None
        BY <1>5, <1>10, Zenon DEF WindowState
      <4> QED BY <4>1, <4>2, <3>1, <3>2, <3>3, <3>4, <2>1, <2>2, <1>5 DEF WindowState
    <3> QED BY <3>5, <3>6, <3>7
  <2>4. PICK last : Becomes(listUsers[s], wire[s], last) /\ Right(s, last)
    BY DEF ListsFollow, ListAgrees
  <2>5. Becomes(After(listUsers[s], packet), Tail(q), last)
    BY <2>4, <1>1, <1>3, OneHandled
  <2>6. Becomes(listUsers[s], wire[s], last)'
    BY <2>1, <2>5, <1>6 DEF Becomes
  <2>7. Right(s, last)'
    BY <2>4, <1>5, <1>8 DEF Right, Joining
  <2> QED BY <2>3, <2>6, <2>7, <1>8, <1>9 DEF ListsFollow, ListAgrees
<1> QED BY <1>11, <1>12

-----------------------------------------------------------------------------
(***************************************************************************)
(* The lists follow the rooms.                                             *)
(***************************************************************************)
\* The windows keep their types, and a session never becomes that of a window.
LEMMA WindowTypesStep ==
    ASSUME Inv, WindowTypes, NEW s \in Sessions,
           \/ OtherClient(s)
           \/ OnLogin(s)
           \/ \E name \in Names \cup {None} : LoginRequest(s, name)
           \/ \E room \in Rooms : OnJoinRoom(s, room)
           \/ OnSendChat(s)
           \/ \E target \in Names : OnSendPM(s, target)
           \/ Broadcast(s)
           \/ ServerStep(s)
           \/ Receive(s)
           \/ CloseWindow(s)
    PROVE  WindowTypes' /\ (AllWindows' => AllWindows)
<1>1. CASE OtherClient(s) \/ OnSendChat(s) \/ (\E target \in Names : OnSendPM(s, target)) \/ ServerStep(s)
  BY <1>1 DEF OtherClient, OnSendChat, OnSendPM, ServerStep, ui, WindowTypes, AllWindows
<1>2. CASE OnLogin(s) \/ (\E name \in Names \cup {None} : LoginRequest(s, name)) \/ CloseWindow(s)
  BY <1>2 DEF OnLogin, LoginRequest, CloseWindow, WindowTypes, AllWindows
<1>3. CASE \E room \in Rooms : OnJoinRoom(s, room)
  BY <1>3 DEF OnJoinRoom, WindowTypes, AllWindows
<1>4. CASE Broadcast(s)
  <2>1. PICK m : m = Head(pending[s])[1]
    OBVIOUS
  <2>2. PICK b \in BOOLEAN : b <=> Overtakes(m, Head(pending[s])[2])
    OBVIOUS
  <2>3. raced' = [raced EXCEPT ![m] = @ \/ b]
    BY <1>4, <2>1, <2>2 DEF Broadcast
  <2>4. raced' \in [Sessions -> BOOLEAN]
    BY <2>3 DEF WindowTypes
  <2> QED BY <1>4, <2>4 DEF Broadcast, WindowTypes, AllWindows
<1>5. CASE Receive(s)
  <2>1. PICK w, l : /\ window' = [window EXCEPT ![s] = w]
                    /\ w \in {"off", "lobby", "room", window[s]}
                    /\ listUsers' = [listUsers EXCEPT ![s] = l]
                    /\ UNCHANGED raced
    BY <1>5 DEF Receive, HandleNetPacket
  <2>2. window[s] # "none"
    BY <1>5 DEF Receive
  <2> QED BY <2>1, <2>2 DEF WindowTypes, AllWindows
<1> QED BY <1>1, <1>2, <1>3, <1>4, <1>5

\* The inductive invariant.
ListInv ==
    /\ Inv
    /\ WindowTypes
    /\ AllWindows => ListsFollow

\* At the start nobody is told anything and every list is empty.
LEMMA InitLists == ClientsInit => ListInv
<1> SUFFICES ASSUME ClientsInit PROVE ListInv
  OBVIOUS
<1>1. Init /\ Inv
  BY InitInv DEF ClientsInit
<1>2. PICK W \in WindowSets : window = [s \in Sessions |-> IF s \in W THEN "off" ELSE "none"]
  BY DEF ClientsInit
<1>3. WindowTypes
  BY <1>2 DEF ClientsInit, WindowTypes
<1>4. ASSUME AllWindows PROVE ListsFollow
  <2>1. \A t, m \in Sessions, kind \in {"UserLeft", "UserEntered"} : ~ Tells(t, m, kind)
    BY <1>1, NobodyTells DEF Init
  <2>2. MovesInOrder /\ MovesAgree /\ ToldApart
    BY <1>1, <2>1 DEF Init, MovesInOrder, MovesAgree, ToldApart
  <2>3. ASSUME NEW s \in Sessions PROVE WindowState(s)
    <3>1. window[s] = "off" /\ up[s] = FALSE
      BY <1>1, <1>2, <1>4 DEF Init, AllWindows
    <3> QED BY <3>1, <1>1 DEF Init, WindowState
  <2>4. ASSUME NEW s \in Sessions PROVE ListAgrees(s)
    <3>1. Becomes(listUsers[s], wire[s], listUsers[s])
      BY <1>1, NothingToHandle DEF Init
    <3>2. Right(s, listUsers[s])
      BY <1>1 DEF Init, Right
    <3> QED BY <3>1, <3>2 DEF ListAgrees
  <2> QED BY <2>2, <2>3, <2>4 DEF ListsFollow
<1> QED BY <1>1, <1>3, <1>4 DEF ListInv

\* Nothing happens.
LEMMA StutterLists == ListInv /\ UNCHANGED allVars => ListInv'
<1> SUFFICES ASSUME ListInv, UNCHANGED allVars PROVE ListInv'
  OBVIOUS
<1>1. /\ UNCHANGED vars
      /\ UNCHANGED <<window, listUsers, raced>>
      /\ UNCHANGED <<thread, after, pending, response, Username, CurrentRoom, up, wire>>
  BY DEF allVars, ui, vars, sessions, network, control
<1>2. Inv'
  BY <1>1, StutterInv DEF ListInv
<1>3. WindowTypes' /\ (AllWindows' <=> AllWindows)
  BY <1>1 DEF ListInv, WindowTypes, AllWindows
<1>4. ASSUME AllWindows PROVE ListsFollow'
  <2>1. ListsFollow
    BY <1>4 DEF ListInv
  <2>2. /\ MovesInOrder' /\ MovesAgree' /\ ToldApart'
        /\ \A m \in Sessions : ToldNames(m)' = ToldNames(m)
    BY <1>1, <2>1, NothingMoves DEF ListsFollow
  <2>3. ASSUME NEW x \in Sessions PROVE WindowState(x)' /\ ListAgrees(x)'
    <3>1. WindowState(x)'
      BY <1>1, <2>1, SameWindowState DEF ListsFollow
    <3>2. ListAgrees(x)'
      BY <1>1, <2>1, <2>2, SameList DEF ListsFollow
    <3> QED BY <3>1, <3>2
  <2> QED BY <2>2, <2>3 DEF ListsFollow
<1> QED BY <1>2, <1>3, <1>4 DEF ListInv

\* Every step of the windows, of the server and of other clients.
LEMMA StepLists == ListInv /\ [ClientsNext]_allVars => ListInv'
<1> SUFFICES ASSUME ListInv, ClientsNext PROVE ListInv'
  BY StutterLists
<1>1. Inv /\ Inv' /\ WindowTypes
  BY ClientsStepIsServerStep, StepInv DEF ListInv, Inv
<1>2. PICK s \in Sessions :
        \/ OtherClient(s)
        \/ OnLogin(s)
        \/ \E name \in Names \cup {None} : LoginRequest(s, name)
        \/ \E room \in Rooms : OnJoinRoom(s, room)
        \/ OnSendChat(s)
        \/ \E target \in Names : OnSendPM(s, target)
        \/ Broadcast(s)
        \/ ServerStep(s)
        \/ Receive(s)
        \/ CloseWindow(s)
  BY DEF ClientsNext
<1>3. WindowTypes' /\ (AllWindows' => AllWindows)
  BY <1>1, <1>2, WindowTypesStep
<1>4. ASSUME AllWindows PROVE ListsFollow'
  <2>1. ListsFollow
    BY <1>4 DEF ListInv
  <2>2. ~ OtherClient(s)
    BY <1>4 DEF AllWindows, OtherClient
  <2>3. CASE OnLogin(s)
    BY <2>1, <2>3, <1>1, OnLoginLists
  <2>4. CASE \E name \in Names \cup {None} : LoginRequest(s, name)
    BY <2>1, <2>4, <1>1, LoginRequestLists
  <2>5. CASE \E room \in Rooms : OnJoinRoom(s, room)
    BY <2>1, <2>5, <1>1, OnJoinRoomLists
  <2>6. CASE OnSendChat(s)
    BY <2>1, <2>6, <1>1, OnSendChatLists
  <2>7. CASE \E target \in Names : OnSendPM(s, target)
    BY <2>1, <2>7, <1>1, OnSendPMLists
  <2>8. CASE Broadcast(s)
    BY <2>1, <2>8, <1>1, <1>4, BroadcastLists
  <2>9. CASE ServerStep(s)
    <3>1. UNCHANGED ui
      BY <2>9 DEF ServerStep
    <3>2. CASE (LeaveLoop(s) /\ ~ up[s]) \/ Unlock(s)
      BY <3>1, <3>2, <2>1, <1>1, ControlLists
    <3>3. CASE HandleDisconnect(s)
      BY <3>1, <3>3, <2>1, <1>1, DisconnectLists
    <3>4. CASE Respond(s)
      BY <3>1, <3>4, <2>1, <1>1, RespondLists
    <3> QED BY <3>2, <3>3, <3>4, <2>9 DEF ServerStep
  <2>10. CASE Receive(s)
    BY <2>1, <2>10, <1>1, ReceiveLists
  <2>11. CASE CloseWindow(s)
    BY <2>1, <2>11, <1>1, CloseWindowLists
  <2> QED BY <1>2, <2>2, <2>3, <2>4, <2>5, <2>6, <2>7, <2>8, <2>9, <2>10, <2>11
<1> QED BY <1>1, <1>3, <1>4 DEF ListInv

\* A list that is right, with nothing under way, shows the room.
LEMMA RightListShows ==
    ASSUME ListInv, AllWindows, NEW s \in Sessions, window[s] = "room", Settled(s), ~ raced[s]
    PROVE  RowsOf(listUsers[s], OthersOf(s))
<1>1. ListsFollow /\ Inv
  BY DEF ListInv
<1>2. WindowState(s)
  BY <1>1 DEF ListsFollow
<1>3. up[s] /\ CurrentRoom[s] # None
  BY <1>2 DEF WindowState
<1>4. PICK list : list = listUsers[s]
  OBVIOUS
<1>5. Shows(list, ToldNames(s))
  <2>1. PICK last : Becomes(listUsers[s], wire[s], last) /\ Right(s, last)
    BY <1>1 DEF ListsFollow, ListAgrees
  <2>2. last = list
    BY <2>1, <1>4, NothingToHandle DEF Settled
  <2>3. ~ Joining(s)
    BY DEF Settled, Joining
  <2> QED BY <2>1, <2>2, <2>3, <1>3 DEF Right
<1>6. PICK others : others = OthersOf(s) /\ others = rooms[CurrentRoom[s]] \ {s}
  BY DEF OthersOf
<1>7. Told(s) = others
  <2>1. \A t \in Sessions, kind \in {"UserLeft", "UserEntered"} : ~ Tells(t, s, kind)
    BY DEF Settled, Tells
  <2>2. \A t \in Sessions : t \in Told(s) <=> t # s /\ CurrentRoom[t] = CurrentRoom[s]
    BY <2>1 DEF Told
  <2>3. /\ CurrentRoom[s] \in Rooms /\ CurrentRoom[s] \in DOMAIN rooms
        /\ rooms[CurrentRoom[s]] \subseteq Sessions
    BY <1>1, <1>3 DEF Inv, TypeOK, RoomsAgree
  <2>4. \A t \in Sessions : t \in others <=> t # s /\ CurrentRoom[t] = CurrentRoom[s]
    BY <2>3, <1>1, <1>6 DEF Inv, RoomsAgree
  <2>5. Told(s) \subseteq Sessions /\ others \subseteq Sessions
    BY <2>3, <1>6 DEF Told
  <2> QED BY <2>2, <2>4, <2>5
<1>8. DOMAIN ToldNames(s) = others /\ \A t \in others : ToldNames(s)[t] = Username[t]
  BY <1>7 DEF ToldNames
<1>9. PICK g \in Bijection(DOMAIN list, others) :
         \A i \in DOMAIN list : SameText(list[i], ToldNames(s)[g[i]])
  BY <1>5, <1>8 DEF Shows
<1>10. \A i \in DOMAIN list : g[i] \in others
  BY <1>9 DEF Bijection, Injection
<1>11. \A i \in DOMAIN list : SameText(list[i], Username[g[i]])
  BY <1>8, <1>9, <1>10
<1> QED BY <1>4, <1>6, <1>9, <1>11 DEF RowsOf

\* Where every client is a window of samples/ChatClient: whoever moves from room to
\* room or disconnects, once every packet is handled the list that HandleNetPacket
\* keeps has one row for each of the others in the room and no row more, each with a
\* name that LB_FINDSTRINGEXACT takes for that member's, unless somebody entered or
\* left between the locked section and the response of the join.
THEOREM ListShowsRoom == ClientsSpec => []ListFollowsRoom
<1>1. ListInv => ListFollowsRoom
  BY RightListShows DEF ListFollowsRoom, InRoom
<1> QED BY <1>1, InitLists, StepLists, PTL DEF ClientsSpec
=============================================================================
