-------------------------- MODULE RoomServiceProofs --------------------------
(***************************************************************************)
(* The room service implements the set of open rooms, for any clients and  *)
(* any room ids.                                                           *)
(***************************************************************************)
EXTENDS RoomService, MemoryRepositoryProofs

(* Every step of the service is a step of the repository or leaves it alone. *)
LEMMA ServiceStepIsRoomsStep == [RoomServiceNext]_roomServiceVars => [RoomsNext]_roomVars
<1> SUFFICES ASSUME [RoomServiceNext]_roomServiceVars
             PROVE  [RoomsNext]_roomVars
  OBVIOUS
<1>1. ASSUME NEW first \in Client, NEW second \in Client, CreateRoom(first, second)
      PROVE  RoomsNext \/ UNCHANGED roomVars
  BY <1>1 DEF CreateRoom, CreateWithID, Refuses, RoomsNext
<1>2. ASSUME NEW c \in Client, FindRoomByClientID(c)
      PROVE  UNCHANGED roomVars
  BY <1>2 DEF FindRoomByClientID
<1>3. ASSUME NEW r \in RoomID, CloseRoom(r)
      PROVE  RoomsNext
  BY <1>3 DEF CloseRoom, RoomsNext
<1>4. ASSUME NEW clients, RoomContextEnded(clients)
      PROVE  UNCHANGED roomVars
  BY <1>4 DEF RoomContextEnded, Refuses
<1>5. CASE UNCHANGED roomServiceVars
  BY <1>5 DEF roomServiceVars, roomVars
<1>6. QED
  BY <1>1, <1>2, <1>3, <1>4, <1>5 DEF RoomServiceNext

(* The maps agree over every sequence of calls to the service. *)
THEOREM ServiceRoomsInv == RoomServiceSpec => []RoomsInv
<1>1. RoomServiceInit => RoomsInv
  BY RoomsInitInv DEF RoomServiceInit
<1>2. RoomsInv /\ [RoomServiceNext]_roomServiceVars => RoomsInv'
  BY ServiceStepIsRoomsStep, RoomsNextInv
<1>3. QED
  BY <1>1, <1>2, PTL DEF RoomServiceSpec

-----------------------------------------------------------------------------
(* The open rooms are the entries of the room map. *)
LEMMA OpenMeaning ==
  \A room : room \in OpenNow <=> \E r \in RoomID : rooms[r] # {} /\ room = Room(r, rooms[r])
BY DEF OpenNow

LEMMA RoomFields ==
  ASSUME NEW r, NEW clients
  PROVE  Room(r, clients).id = r /\ Room(r, clients).clients = clients
BY DEF Room

(* An id is taken when the room map has it. *)
LEMMA TakenMeaning ==
  ASSUME NEW r \in RoomID
  PROVE  Registry!Taken(r) <=> rooms[r] # {}
BY OpenMeaning, RoomFields DEF Registry!Taken

(* The index has an entry for exactly the clients of the open rooms. *)
LEMMA OccupiedMeaning ==
  ASSUME RoomsInv, NEW c \in Client
  PROVE  Registry!Occupied(c) <=> InRoom(c)
<1>1. Registry!Occupied(c) <=> \E r \in RoomID : c \in rooms[r]
  <2>1. ASSUME NEW r \in RoomID, c \in rooms[r]
        PROVE  Registry!Occupied(c)
    <3>1. Room(r, rooms[r]) \in OpenNow
      BY <2>1, OpenMeaning
    <3>2. QED
      BY <2>1, <3>1, RoomFields DEF Registry!Occupied
  <2>2. ASSUME NEW room \in OpenNow, c \in room.clients
        PROVE  \E r \in RoomID : c \in rooms[r]
    BY <2>2, OpenMeaning, RoomFields
  <2>3. QED
    BY <2>1, <2>2 DEF Registry!Occupied
<1>2. InRoom(c) <=> \E r \in RoomID : clientsRooms[c] = r
  BY NoneIsNoRoom DEF InRoom, RoomsInv, RoomsTypeOK
<1>3. QED
  BY <1>1, <1>2 DEF RoomsInv, RoomIndex

(* The answers of the two specifications are the same records. *)
LEMMA SameAnswer ==
  ASSUME NEW clients, NEW outcome, NEW returned, RoomReturns(clients, outcome, returned)
  PROVE  Registry!Returns(clients, outcome, returned)
BY DEF RoomReturns, Registry!Returns

(* What leaves the maps alone leaves the open rooms alone. *)
LEMMA SameRooms == UNCHANGED roomVars => UNCHANGED OpenNow
BY DEF roomVars, OpenNow

(* The empty maps are no open room. *)
LEMMA ServiceInitIsRoomsInit == RoomServiceInit => Registry!RoomsInit
BY DEF RoomServiceInit, RoomsInit, Registry!RoomsInit, OpenNow

-----------------------------------------------------------------------------
(* A created room joins the open ones: the id was free, and by the index the
   clients were in no room. *)
LEMMA CreateOpens ==
  ASSUME RoomsInv, NEW r \in RoomID, NEW first \in Client, NEW second \in Client,
         Create(r, first, second),
         RoomReturns({first, second}, "room", {Room(r, {first, second})})
  PROVE  Registry!Open(r, {first, second})
<1> DEFINE pair == {first, second}
<1>1. rooms[r] = {} /\ rooms' = [rooms EXCEPT ![r] = pair] /\ pair # {}
  BY DEF Create
<1>2. ~Registry!Taken(r)
  BY <1>1, TakenMeaning
<1>3. \A c \in pair : ~Registry!Occupied(c)
  BY OccupiedMeaning DEF Create
<1>4. \A x \in RoomID : rooms'[x] = IF x = r THEN pair ELSE rooms[x]
  BY <1>1 DEF RoomsInv, RoomsTypeOK
<1>5. OpenNow' = OpenNow \cup {Room(r, pair)}
  <2> HIDE DEF pair
  <2>1. ASSUME NEW room
        PROVE  room \in OpenNow' <=> room \in OpenNow \cup {Room(r, pair)}
    <3>1. room \in OpenNow' <=> \E x \in RoomID : rooms'[x] # {} /\ room = Room(x, rooms'[x])
      BY DEF OpenNow, Room
    <3>2. QED
      BY <3>1, OpenMeaning, <1>1, <1>4
  <2>2. QED
    BY <2>1
<1>6. Registry!Room(r, pair) = Room(r, pair)
  BY DEF Registry!Room, Room
<1>7. QED
  BY <1>2, <1>3, <1>5, <1>6, SameAnswer DEF Registry!Open

(* A closed room leaves the open ones, and a missing one leaves none. *)
LEMMA DeleteCloses ==
  ASSUME RoomsInv, NEW r \in RoomID, Delete(r), RoomReturns({}, "closed", {})
  PROVE  Registry!Close(r)
<1>1. \A x \in RoomID : rooms'[x] = IF x = r THEN {} ELSE rooms[x]
  BY DEF Delete, RoomsInv, RoomsTypeOK
<1>2. OpenNow' = { room \in OpenNow : room.id # r }
  <2>1. ASSUME NEW room
        PROVE  room \in OpenNow' <=> room \in OpenNow /\ room.id # r
    <3>1. room \in OpenNow' <=> \E x \in RoomID : rooms'[x] # {} /\ room = Room(x, rooms'[x])
      BY DEF OpenNow, Room
    <3>2. QED
      BY <3>1, OpenMeaning, RoomFields, <1>1
  <2>2. QED
    BY <2>1
<1>3. QED
  BY <1>2, SameAnswer DEF Registry!Close

(* Every branch of CreateRoom is the answer the open rooms give. *)
LEMMA CreateRoomIsRoomsStep ==
  ASSUME RoomsInv, NEW first \in Client, NEW second \in Client,
         CreateRoom(first, second)
  PROVE  Registry!RoomsNext
<1> DEFINE pair == {first, second}
<1>1. CASE first = second /\ Refuses({first}, "same_client")
  <2>1. Registry!RefuseAlone(first)
    BY <1>1, SameAnswer, SameRooms DEF Refuses, Registry!RefuseAlone
  <2>2. QED
    BY <2>1 DEF Registry!RoomsNext
<1>2. CASE first # second /\ Refuses(pair, "no_id")
  <2>1. Registry!Fail(pair)
    BY <1>2, SameAnswer, SameRooms DEF Refuses, Registry!Fail
  <2>2. QED
    BY <2>1 DEF Registry!RoomsNext
<1>3. ASSUME first # second, NEW r \in RoomID, CreateWithID(r, first, second)
      PROVE  Registry!RoomsNext
  <2>1. pair \in Registry!ConnectedClientsPair
    BY <1>3 DEF Registry!ConnectedClientsPair
  <2>2. CASE Create(r, first, second) /\ RoomReturns(pair, "room", {Room(r, pair)})
    BY <2>1, <2>2, CreateOpens DEF Registry!RoomsNext
  <2>3. CASE rooms[r] # {} /\ Refuses(pair, "room_exists")
    <3>1. Registry!RefuseID(r, pair)
      BY <2>3, TakenMeaning, SameAnswer, SameRooms DEF Refuses, Registry!RefuseID
    <3>2. QED
      BY <2>1, <3>1 DEF Registry!RoomsNext
  <2>4. CASE /\ rooms[r] = {} /\ (InRoom(first) \/ InRoom(second))
             /\ Refuses(pair, "client_in_room")
    <3>1. ~Registry!Taken(r)
      BY <2>4, TakenMeaning
    <3>2. \E c \in pair : Registry!Occupied(c)
      BY <2>4, OccupiedMeaning
    <3>3. Registry!RefuseClient(r, pair)
      BY <2>4, <3>1, <3>2, SameAnswer, SameRooms DEF Refuses, Registry!RefuseClient
    <3>4. QED
      BY <2>1, <3>3 DEF Registry!RoomsNext
  <2>5. QED
    BY <1>3, <2>2, <2>3, <2>4 DEF CreateWithID
<1>4. QED
  BY <1>1, <1>2, <1>3 DEF CreateRoom

(* A client is told of the room it is in.  By the index the entry names a room
   that is there, so the invalid index is never reported. *)
LEMMA FindRoomIsRoomsStep ==
  ASSUME RoomsInv, NEW c \in Client, FindRoomByClientID(c)
  PROVE  Registry!RoomsNext
<1> DEFINE r == clientsRooms[c]
<1>1. UNCHANGED OpenNow
  BY SameRooms DEF FindRoomByClientID
<1>2. CASE ~InRoom(c)
  <2>1. Registry!Returns({c}, "no_room", {})
    BY <1>2, SameAnswer DEF FindRoomByClientID
  <2>2. ~Registry!Occupied(c)
    BY <1>2, OccupiedMeaning
  <2>3. Registry!Find(c)
    BY <1>1, <2>1, <2>2 DEF Registry!Find
  <2>4. QED
    BY <2>3 DEF Registry!RoomsNext
<1>3. CASE InRoom(c)
  <2>1. r \in RoomID /\ c \in rooms[r]
    BY <1>3 DEF InRoom, RoomsInv, RoomsTypeOK, RoomIndex
  <2>2. Registry!Returns({c}, "room", {Room(r, rooms[r])})
    BY <1>3, <2>1, SameAnswer DEF FindRoomByClientID, FoundRoom
  <2>3. Room(r, rooms[r]) \in OpenNow /\ c \in Room(r, rooms[r]).clients
    BY <2>1 DEF OpenNow, Room
  <2>4. Registry!Find(c)
    BY <1>1, <2>2, <2>3 DEF Registry!Find
  <2>5. QED
    BY <2>4 DEF Registry!RoomsNext
<1>4. QED
  BY <1>2, <1>3

(* A call whose context has ended changes nothing. *)
LEMMA ContextEndedIsRoomsStep ==
  ASSUME NEW clients \in SUBSET Client, RoomContextEnded(clients)
  PROVE  Registry!RoomsNext
<1>1. Registry!Fail(clients)
  BY SameAnswer, SameRooms DEF RoomContextEnded, Refuses, Registry!Fail
<1>2. QED
  BY <1>1 DEF Registry!RoomsNext

-----------------------------------------------------------------------------
(* Every call to the room service does and returns what the set of open rooms
   promises. *)
THEOREM ServiceImplementsOpenRooms == RoomServiceSpec => ImplementsOpenRooms
<1>1. RoomsInv /\ [RoomServiceNext]_roomServiceVars
        => [Registry!RoomsNext]_<<OpenNow, roomAnswer>>
  <2> SUFFICES ASSUME RoomsInv, [RoomServiceNext]_roomServiceVars
               PROVE  Registry!RoomsNext \/ UNCHANGED <<OpenNow, roomAnswer>>
    OBVIOUS
  <2>1. ASSUME NEW first \in Client, NEW second \in Client, CreateRoom(first, second)
        PROVE  Registry!RoomsNext
    BY <2>1, CreateRoomIsRoomsStep
  <2>2. ASSUME NEW c \in Client, FindRoomByClientID(c)
        PROVE  Registry!RoomsNext
    BY <2>2, FindRoomIsRoomsStep
  <2>3. ASSUME NEW r \in RoomID, CloseRoom(r)
        PROVE  Registry!RoomsNext
    BY <2>3, DeleteCloses DEF CloseRoom, Registry!RoomsNext
  <2>4. ASSUME NEW clients \in SUBSET Client, RoomContextEnded(clients)
        PROVE  Registry!RoomsNext
    BY <2>4, ContextEndedIsRoomsStep
  <2>5. CASE UNCHANGED roomServiceVars
    BY <2>5, SameRooms DEF roomServiceVars, roomVars
  <2>6. QED
    BY <2>1, <2>2, <2>3, <2>4, <2>5 DEF RoomServiceNext
<1>2. QED
  BY <1>1, ServiceInitIsRoomsInit, ServiceRoomsInv, PTL
     DEF RoomServiceSpec, ImplementsOpenRooms, Registry!RoomsSpec
=============================================================================
