------------------------------ MODULE OpenRooms ------------------------------
(***************************************************************************)
(* What the room service promises, whatever stores the rooms: a set of     *)
(* open rooms of two clients each, no two of which share an id or a        *)
(* client, and what each call returns.                                     *)
(***************************************************************************)
EXTENDS Domain

CONSTANT RoomID

VARIABLES open,    \* the open rooms
          answer   \* what the last call returned, and for whom it was made

Room(r, clients) == [id |-> r, clients |-> clients]

Returns(clients, outcome, returned) ==
  answer' = [clients |-> clients, outcome |-> outcome, rooms |-> returned]

RoomsInit == open = {} /\ answer = [clients |-> {}, outcome |-> "none", rooms |-> {}]

Taken(r) == \E room \in open : room.id = r
Occupied(c) == \E room \in open : c \in room.clients

\* Two clients without a room get one, under an id no open room has.
Open(r, pair) ==
  /\ ~Taken(r) /\ \A c \in pair : ~Occupied(c)
  /\ open' = open \cup {Room(r, pair)}
  /\ Returns(pair, "room", {Room(r, pair)})

\* A repeated id is refused, and so is a client that has a room.
RefuseID(r, pair) == Taken(r) /\ Returns(pair, "room_exists", {}) /\ UNCHANGED open

RefuseClient(r, pair) == /\ ~Taken(r) /\ \E c \in pair : Occupied(c)
                         /\ Returns(pair, "client_in_room", {})
                         /\ UNCHANGED open

\* A client is no partner of its own.
RefuseAlone(c) == Returns({c}, "same_client", {}) /\ UNCHANGED open

\* The client hears of the open room it is in, or that there is none.
Find(c) == /\ \/ \E room \in open : c \in room.clients /\ Returns({c}, "room", {room})
              \/ ~Occupied(c) /\ Returns({c}, "no_room", {})
           /\ UNCHANGED open

\* The room is closed for both its clients; closing it again is no error.
Close(r) == /\ open' = { room \in open : room.id # r }
            /\ Returns({}, "closed", {})

\* The context of the call has ended, or no id could be drawn.
Fail(clients) == /\ \E error \in {"context_ended", "no_id"} : Returns(clients, error, {})
                 /\ UNCHANGED open

RoomsNext ==
  \/ \E r \in RoomID, pair \in ConnectedClientsPair :
       Open(r, pair) \/ RefuseID(r, pair) \/ RefuseClient(r, pair)
  \/ \E c \in Client : RefuseAlone(c) \/ Find(c)
  \/ \E r \in RoomID : Close(r)
  \/ \E clients \in SUBSET Client : Fail(clients)

RoomsSpec == RoomsInit /\ [][RoomsNext]_<<open, answer>>
=============================================================================
