--------------------------- MODULE RoomRepository ---------------------------
(***************************************************************************)
(* The in-memory room repository: two maps that must agree, each operation *)
(* under one mutex.                                                        *)
(***************************************************************************)
EXTENDS Domain

CONSTANT RoomID

ASSUME NoneIsNoRoom == None \notin RoomID

VARIABLES rooms,         \* rooms[r]: the two clients of room r, {} when r is absent
          clientsRooms   \* clientsRooms[c]: the room of c, None when it has none

RoomsInit == /\ rooms = [r \in RoomID |-> {}]
             /\ clientsRooms = [c \in Client |-> None]

InRoom(c) == clientsRooms[c] # None

\* Faulty variant: the first client's id is written into both places.
CreateFirstTwice(r, first, second) ==
  /\ first # second
  /\ rooms[r] = {}
  /\ ~InRoom(first) /\ ~InRoom(second)
  /\ rooms' = [rooms EXCEPT ![r] = {first}]
  /\ clientsRooms' = [clientsRooms EXCEPT ![first] = r]

\* Create of a valid room (ConnectedClients refuses a client paired with itself);
\* otherwise ErrRoomAlreadyExists or ErrClientAlreadyInRoom and no change.
Create(r, first, second) ==
  /\ first # second
  /\ rooms[r] = {}
  /\ ~InRoom(first) /\ ~InRoom(second)
  /\ rooms' = [rooms EXCEPT ![r] = {first, second}]
  /\ clientsRooms' = [c \in Client |->
                        IF c \in {first, second} THEN r ELSE clientsRooms[c]]

\* Faulty variant: one of the two clients stays in the index.
DeleteOneEntry(r) ==
  /\ rooms' = [rooms EXCEPT ![r] = {}]
  /\ \/ rooms[r] = {} /\ UNCHANGED clientsRooms
     \/ \E c \in rooms[r] : clientsRooms' = [clientsRooms EXCEPT ![c] = None]

\* Delete: the room goes, and with it whatever room its clients are indexed under.
Delete(r) ==
  /\ rooms' = [rooms EXCEPT ![r] = {}]
  /\ clientsRooms' = [c \in Client |->
                        IF c \in rooms[r] THEN None ELSE clientsRooms[c]]

\* FindByClientID: the room of c as the index has it.
FoundRoom(c) == clientsRooms[c]

\* Service.OtherClientID of a room.
IsOtherClient(r, c, other) == other \in rooms[r] \ {c}

RoomsNext ==
  \/ \E r \in RoomID, first, second \in Client : Create(r, first, second)
  \/ \E r \in RoomID : Delete(r)

roomVars == <<rooms, clientsRooms>>

RoomsSpec == RoomsInit /\ [][RoomsNext]_roomVars

-----------------------------------------------------------------------------
RoomsTypeOK == /\ rooms \in [RoomID -> ConnectedClientsPair \cup {{}}]
               /\ clientsRooms \in [Client -> RoomID \cup {None}]

(* The two maps agree in both directions.  FindByClientID's errInvalidRoomIndex
   is unreachable, and Delete, which drops a member's index entry without
   looking at it, never drops the entry of another room. *)
RoomIndex ==
  \A r \in RoomID, c \in Client : c \in rooms[r] <=> clientsRooms[c] = r

RoomsInv == RoomsTypeOK /\ RoomIndex

(* A client is in at most one room. *)
RoomsDisjoint ==
  \A r, s \in RoomID : rooms[r] \cap rooms[s] # {} => r = s
=============================================================================
