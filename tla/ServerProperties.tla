--------------------------- MODULE ServerProperties ---------------------------
(***************************************************************************)
(* What the server promises across its goroutines.                         *)
(***************************************************************************)
EXTENDS WebsocketServer

SessionsTypeOK ==
  /\ registry \subseteq Client
  /\ ctxDone \in [Client -> BOOLEAN]
  /\ searchRequestID \in [Client -> RequestID \cup {None}]
  /\ outbound \in [Client -> Seq(Message)]
  /\ \A c \in Client : Len(outbound[c]) <= OutboundCap
  /\ sending \subseteq Client

HandlersTypeOK == pc \in [Client -> Label] /\ frame \in [Client -> Frame]

HistoryTypeOK == /\ received \in [Client -> 0 .. MaxCommands]
                 /\ pairOf \in [RoomID -> ConnectedClientsPair \cup {{}}]

(* The state of every component is well formed, and no channel ever holds more
   than its capacity. *)
TypeOK == QueueTypeOK /\ RoomsTypeOK /\ SessionsTypeOK /\ HandlersTypeOK /\ HistoryTypeOK

-----------------------------------------------------------------------------
(* The handler of d has created a room whose partner has not been told of it
   yet, and will find the partner's session ended and close the room. *)
WillClose(d, r) ==
  /\ frame[d].room = r
  /\ \/ pc[d] = "closeUndelivered"
     \/ pc[d] = "sendPartnerMatch" /\ d \notin sending

(* A client that has left leaves nobody in a room with it: cleanUp looks for
   the client's room once, and a room created for it after that look is closed
   by its creator, because the creator checks the partner's session only after
   the room exists. *)
NoOrphanRoom ==
  \A r \in RoomID, c \in Client :
    c \in rooms[r] /\ pc[c] = "gone" => \E d \in rooms[r] \ {c} : WillClose(d, r)

(* The handler of d has drawn client c and not yet asked its session. *)
HasDrawn(d, c) == pc[d] \in {"matched", "getPartner", "takeRequest"} /\ frame[d].partner = c

(* A search is never forgotten: while an idle client's session holds the
   request id of a search, the client is in the queue, or a handler has drawn it
   and will take that id.  find_partner, cancel_search, matches and clean-ups
   change the queue and the id in different critical sections. *)
SearchNotForgotten ==
  \A c \in Client :
    pc[c] = "read" /\ searchRequestID[c] # None
      => QueuedAt(c) # {} \/ \E d \in Client : HasDrawn(d, c)

(* A waiting request is handed to one match: no two handlers hold the same
   taken request id, and none holds one whose owner's session still offers it. *)
OneMatcherPerRequest ==
  \A d \in Client :
    frame[d].partnerReq # None =>
      /\ \A e \in Client : frame[e].partnerReq = frame[d].partnerReq => d = e
      /\ \A c \in Client : searchRequestID[c] # frame[d].partnerReq

(* Whatever handler wrote it, a message that answers a request answers one that
   its receiver sent, and each participant hears of a match under its own id. *)
OwnRequestID ==
  \A c \in Client : \A i \in DOMAIN outbound[c] :
    outbound[c][i].req # None => outbound[c][i].req[1] = c

(* A connection that has ended is in no shared structure that a search or a
   delivery could find it in, though other handlers were at work on both
   while it cleaned up. *)
GoneLeavesNothing ==
  \A c \in Client : pc[c] = "gone" => c \notin registry /\ QueuedAt(c) = {}

(* A room's messages stay in it: match_found and receive_message reach only the
   two clients the id was generated for, and a message being delivered goes
   from one of them to the other, whatever id the sender has named. *)
RoomConfinement ==
  /\ \A c \in Client : \A i \in DOMAIN outbound[c] :
       outbound[c][i].room # None => c \in pairOf[outbound[c][i].room]
  /\ \A c \in Client :
       pc[c] = "deliver" => pairOf[frame[c].room] = {c, frame[c].partner}

-----------------------------------------------------------------------------
\* The inductive invariant.
PartnerLabels == {"matched", "getPartner", "takeRequest", "CreateRoom", "sendOwnError",
                  "sendPartnerError"}
RoomLabels == {"sendPartnerMatch", "closeUndelivered", "sendOwnMatch", "closeUnsent",
               "getRecipient", "deliver", "closeUnavailable"}
SendLabels == {"reply", "sendOwnError", "sendPartnerError", "sendPartnerMatch",
               "sendOwnMatch", "deliver"}
LeftLabels == {"unregister", "dropRequest", "dequeue", "findOwnRoom", "closeOwnRoom", "gone"}

(* What the locals of c's handler are at each point of it: a search has a pair, a
   drawn partner is a client, a handler that has a room is one of the two clients
   the room was generated for and its partner is the other, and nothing is sent
   or left running once the handler is past it. *)
Control(c) ==
  /\ pc[c] = "FindPartner" => frame[c].pair \in LanguagePair
  /\ pc[c] \in PartnerLabels => frame[c].partner \in Client
  /\ pc[c] \in RoomLabels =>
       /\ frame[c].room \in RoomID /\ frame[c].partner \in Client \ {c}
       /\ pairOf[frame[c].room] = {c, frame[c].partner}
  /\ pc[c] = "closeOwnRoom" => frame[c].room \in RoomID
  /\ pc[c] = "reply" => frame[c].answer \in MessageType \ {"match_found", "receive_message"}
  /\ c \in sending => pc[c] \in SendLabels
  /\ pc[c] \in LeftLabels => ctxDone[c]

(* A room holds the clients its id was generated for, or it has been closed. *)
RoomsOfPairs == \A r \in RoomID : rooms[r] \in {{}, pairOf[r]}

MessagesConfined ==
  \A c \in Client : \A i \in DOMAIN outbound[c] :
    outbound[c][i].room # None => c \in pairOf[outbound[c][i].room]

(* NoOrphanRoom, from the moment cleanUp has looked for the client's room: it is
   closing that very room, or the other client will. *)
LeftRoomsWillClose ==
  \A r \in RoomID : \A c \in rooms[r] :
    pc[c] \in {"closeOwnRoom", "gone"} =>
      \/ pc[c] = "closeOwnRoom" /\ frame[c].room = r
      \/ \E d \in rooms[r] \ {c} : WillClose(d, r)

Inv == /\ QueueInv /\ RoomsInv
       /\ SessionsTypeOK /\ HandlersTypeOK /\ HistoryTypeOK
       /\ \A c \in Client : Control(c)
       /\ RoomsOfPairs /\ MessagesConfined /\ LeftRoomsWillClose

-----------------------------------------------------------------------------
\* The inductive invariant of the searches, on top of Inv.
RequestsOf(c) == {c} \X (1 .. received[c])

Unregistered == {"offline", "dropRequest", "dequeue", "findOwnRoom", "closeOwnRoom", "gone"}
Dequeued == {"findOwnRoom", "closeOwnRoom", "gone"}

\* Where a handler of c is between its change of the queue and that of the id.
Unsettled == {"FindPartner", "searchFailed", "matched", "clearRequest", "cleanUp"} \cup LeftLabels

(* Request ids are where their client's messages have put them: the one a session
   offers and the one a handler answers are of its own client, and a taken one is
   of the drawn partner. *)
KnownRequests(c) ==
  /\ searchRequestID[c] # None => searchRequestID[c] \in RequestsOf(c)
  /\ frame[c].req # None => frame[c].req \in RequestsOf(c)
  /\ frame[c].partnerReq # None =>
       frame[c].partner \in Client /\ frame[c].partnerReq \in RequestsOf(frame[c].partner)
  /\ pc[c] \in {"FindPartner", "findRoom"} => frame[c].partnerReq = None

(* The registry holds the sessions between their registration and cleanUp's. *)
Registered(c) == c \in registry <=> pc[c] \notin Unregistered

(* SearchNotForgotten, at every point where the client's own handler is not
   itself changing the queue or the id; and a client whose cleanUp has left the
   queue does not wait. *)
SearchClaimed(c) ==
  /\ pc[c] = "offline" => searchRequestID[c] = None
  /\ pc[c] \notin Unsettled /\ searchRequestID[c] # None
       => QueuedAt(c) # {} \/ \E d \in Client : HasDrawn(d, c)
  /\ pc[c] \in Dequeued => QueuedAt(c) = {}

SearchInv == /\ OwnRequestID /\ OneMatcherPerRequest
             /\ \A c \in Client : KnownRequests(c) /\ Registered(c) /\ SearchClaimed(c)

-----------------------------------------------------------------------------
(* Every handler comes back to its loop or the connection ends, also when its
   own or its partner's channel is full and nobody drains it. *)
HandlersReturn ==
  \A c \in Client : pc[c] \notin {"offline", "read", "gone"} ~> pc[c] \in {"read", "gone"}

(* Once the context of a session has ended, by its own clean-up or by a failed
   write, the session cleans up to the end. *)
SessionsEnd == \A c \in Client : ctxDone[c] ~> pc[c] = "gone"

MustTell(c, p, id) ==
  /\ pc[c] \in {"CreateRoom", "sendOwnError", "sendPartnerError", "sendPartnerMatch"}
  /\ frame[c].partner = p
  /\ frame[c].partnerReq = id

Told(p, id) ==
  \E i \in DOMAIN outbound[p] :
    outbound[p][i].req = id /\ outbound[p][i].type \in {"match_found", "error"}

(* A request taken from a waiting client is not lost: the client hears of the
   match or of the failure, unless its session ends or its channel is full. *)
TakenRequestAnswered ==
  \A p \in Client : \A c \in Client \ {p} : \A id \in {p} \X (1 .. MaxCommands) :
    MustTell(c, p, id) ~> Told(p, id) \/ ctxDone[p] \/ Len(outbound[p]) = OutboundCap

-----------------------------------------------------------------------------
\* What the documentation says of the order of a client's messages.
(* docs/api/websocket.md:83: search_waiting says that no partner has been found
   yet, so it does not follow the match_found of the same request. *)
WaitingBeforeMatch ==
  \A c \in Client : \A i, j \in DOMAIN outbound[c] :
    i < j /\ outbound[c][i].type = "match_found" /\ outbound[c][i].req = outbound[c][j].req
      => outbound[c][j].type # "search_waiting"

(* docs/api/websocket.md:96: search_cancelled confirms that the search has been
   cancelled, so no earlier search of the client is matched after it. *)
NoMatchAfterCancel ==
  \A c \in Client : \A i, j \in DOMAIN outbound[c] :
    i < j /\ outbound[c][i].type = "search_cancelled" /\ outbound[c][j].type = "match_found"
      => outbound[c][j].req[2] > outbound[c][i].req[2]

(* docs/api/websocket.md:108: both participants of a found pair get match_found,
   so a drawn client that is still connected and idle, and has only searched,
   has a request id to be told under. *)
DrawnClientCanBeTold ==
  \A d \in Client :
    pc[d] = "takeRequest" /\ pc[frame[d].partner] = "read"
      => searchRequestID[frame[d].partner] # None
=============================================================================
