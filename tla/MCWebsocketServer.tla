-------------------------- MODULE MCWebsocketServer --------------------------
EXTENDS ServerProperties

\* Clients, room ids and the two languages are interchangeable.
ServerSymmetry ==
  Permutations(Client) \cup Permutations(RoomID) \cup Permutations(Language)

\* Two reachable states to start from: everybody is connected, idle, and has read
\* its messages...
Idle == /\ registry = Client
        /\ ctxDone = [c \in Client |-> FALSE]
        /\ outbound = [c \in Client |-> <<>>]
        /\ sending = {}
        /\ pc = [c \in Client |-> "read"]
        /\ frame = [c \in Client |-> NoFrame]

\* ...one client waits for a partner and the others have asked for nothing;
OneWaitingInit ==
  \E wu \in WaitingUser :
    /\ Idle /\ RoomsInit
    /\ queue = <<wu>>
    /\ searchRequestID = [c \in Client |-> IF c = wu.client THEN <<c, 1>> ELSE None]
    /\ received = [c \in Client |-> IF c = wu.client THEN 1 ELSE 0]
    /\ pairOf = [r \in RoomID |-> {}]

\* ...two clients have been matched and the others have asked for nothing.
RoomOpenInit ==
  \E r \in RoomID : \E members \in ConnectedClientsPair :
    /\ Idle /\ QueueInit
    /\ rooms = [x \in RoomID |-> IF x = r THEN members ELSE {}]
    /\ clientsRooms = [c \in Client |-> IF c \in members THEN r ELSE None]
    /\ searchRequestID = [c \in Client |-> None]
    /\ received = [c \in Client |-> IF c \in members THEN 1 ELSE 0]
    /\ pairOf = rooms

OneWaitingSpec == OneWaitingInit /\ [][Next]_vars
RoomOpenSpec == RoomOpenInit /\ [][Next]_vars
=============================================================================
