----------------------------- MODULE RoomService -----------------------------
(***************************************************************************)
(* The room service over the in-memory repository, with what its calls     *)
(* return.  The service looks at the context, and the repository looks     *)
(* again under its lock: a call with a context that has ended is one step. *)
(***************************************************************************)
EXTENDS RoomRepository

VARIABLE roomAnswer   \* room or error of the last call, and the clients it was made for

roomServiceVars == <<rooms, clientsRooms, roomAnswer>>

Room(r, clients) == [id |-> r, clients |-> clients]

RoomReturns(clients, outcome, returned) ==
  roomAnswer' = [clients |-> clients, outcome |-> outcome, rooms |-> returned]

Refuses(clients, error) == RoomReturns(clients, error, {}) /\ UNCHANGED roomVars

RoomServiceInit ==
  RoomsInit /\ roomAnswer = [clients |-> {}, outcome |-> "none", rooms |-> {}]

\* Faulty variant: only the first client is looked up.
CreateForFirst(r, first, second) ==
  IF rooms[r] # {}
  THEN Refuses({first, second}, "room_exists")
  ELSE IF InRoom(first)
       THEN Refuses({first, second}, "client_in_room")
       ELSE /\ rooms' = [rooms EXCEPT ![r] = {first, second}]
            /\ clientsRooms' = [c \in Client |->
                                  IF c \in {first, second} THEN r ELSE clientsRooms[c]]
            /\ RoomReturns({first, second}, "room", {Room(r, {first, second})})

\* The repository looks at the id first and at the clients then.
CreateWithID(r, first, second) ==
  \/ /\ Create(r, first, second)
     /\ RoomReturns({first, second}, "room", {Room(r, {first, second})})
  \/ rooms[r] # {} /\ Refuses({first, second}, "room_exists")
  \/ /\ rooms[r] = {} /\ (InRoom(first) \/ InRoom(second))
     /\ Refuses({first, second}, "client_in_room")

\* NewConnectedClientsPair, then the id generator, then the repository.
CreateRoom(first, second) ==
  \/ first = second /\ Refuses({first}, "same_client")
  \/ first # second /\ Refuses({first, second}, "no_id")
  \/ first # second /\ \E r \in RoomID : CreateWithID(r, first, second)

\* FindByClientID: the index has an entry and names a room, errInvalidRoomIndex otherwise.
FindRoomByClientID(c) ==
  LET r == FoundRoom(c) IN
  /\ IF ~InRoom(c) THEN RoomReturns({c}, "no_room", {})
     ELSE IF rooms[r] = {} THEN RoomReturns({c}, "invalid_room_index", {})
     ELSE RoomReturns({c}, "room", {Room(r, rooms[r])})
  /\ UNCHANGED roomVars

CloseRoom(r) == Delete(r) /\ RoomReturns({}, "closed", {})

\* Any call with a context that has ended.
RoomContextEnded(clients) == Refuses(clients, "context_ended")

RoomServiceNext ==
  \/ \E first, second \in Client : CreateRoom(first, second)
  \/ \E c \in Client : FindRoomByClientID(c)
  \/ \E r \in RoomID : CloseRoom(r)
  \/ \E first, second \in Client : RoomContextEnded({first, second})
  \/ RoomContextEnded({})

RoomServiceSpec == RoomServiceInit /\ [][RoomServiceNext]_roomServiceVars

-----------------------------------------------------------------------------
OpenNow == { Room(r, rooms[r]) : r \in { x \in RoomID : rooms[x] # {} } }

Registry == INSTANCE OpenRooms WITH open <- OpenNow, answer <- roomAnswer

(* The two maps are one set of open rooms: the index alone decides who may get a room
   and it decides as the rooms would, a client is told of the room it is in and never
   of an invalid index, and closing a room frees both its clients and nobody else. *)
ImplementsOpenRooms == Registry!RoomsSpec
=============================================================================
