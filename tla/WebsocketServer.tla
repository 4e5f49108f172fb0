--------------------------- MODULE WebsocketServer ---------------------------
(***************************************************************************)
(* The websocket handler over the in-memory repositories, as app.New wires *)
(* them.  Every connection has a client id of its own, so Client is the    *)
(* set of connections; pc[c] says what the goroutine that runs ServeHTTP   *)
(* for c does next and frame[c] holds that handler's local variables.      *)
(* One action is one critical section of a shared object: repository,      *)
(* registry, session mutex, channel or context.                            *)
(***************************************************************************)
EXTENDS MemoryQueue, RoomRepository, ClientSession

CONSTANTS MaxCommands,     \* bound: the messages one client sends
          TotalCommands,   \* bound: the messages all clients send together
          Commands         \* the kinds of message clients send

ASSUME BoundsNat == MaxCommands \in Nat /\ TotalCommands \in Nat
ASSUME KnownCommands ==
  Commands \subseteq {"find_partner", "cancel_search", "send_message", "invalid"}

VARIABLES pc, frame,
          received,   \* received[c]: messages read from c, which numbers its request ids
          pairOf      \* pairOf[r]: the clients r was generated for, {} while r is unused

handlerVars == <<pc, frame>>
historyVars == <<received, pairOf>>
vars == <<queue, rooms, clientsRooms, registry, ctxDone, searchRequestID, outbound,
          sending, pc, frame, received, pairOf>>

RequestID == Client \X (1 .. MaxCommands)
MessageType ==
  {"match_found", "search_waiting", "search_cancelled", "receive_message", "error"}
Message == [type : MessageType, req : RequestID \cup {None}, room : RoomID \cup {None}]

Label == {"offline", "read", "FindPartner", "searchFailed", "matched", "getPartner",
          "takeRequest", "CreateRoom", "sendOwnError", "sendPartnerError",
          "sendPartnerMatch", "closeUndelivered", "sendOwnMatch", "closeUnsent",
          "CancelSearch", "clearRequest", "findRoom", "getRecipient", "deliver",
          "closeUnavailable", "reply", "cleanUp", "unregister", "dropRequest",
          "dequeue", "findOwnRoom", "closeOwnRoom", "gone"}

\* The local variables of a handler: its request, the search's pair, the partner
\* (or the recipient) and its taken request, the room, the answer, a saved error.
Frame == [req : RequestID \cup {None}, pair : LanguagePair \cup {None},
          partner : Client \cup {None}, partnerReq : RequestID \cup {None},
          room : RoomID \cup {None}, answer : MessageType \cup {None}, failed : BOOLEAN]

NoFrame == [req |-> None, pair |-> None, partner |-> None, partnerReq |-> None,
            room |-> None, answer |-> None, failed |-> FALSE]

Init == /\ QueueInit /\ RoomsInit /\ SessionsInit
        /\ pc = [c \in Client |-> "offline"]
        /\ frame = [c \in Client |-> NoFrame]
        /\ received = [c \in Client |-> 0]
        /\ pairOf = [r \in RoomID |-> {}]

-----------------------------------------------------------------------------
\* Control flow of one goroutine.
Goto(c, label) == pc' = [pc EXCEPT ![c] = label] /\ UNCHANGED frame

GotoWith(c, label, f) ==
  pc' = [pc EXCEPT ![c] = label] /\ frame' = [frame EXCEPT ![c] = f]

\* The handler returns nil: the loop checks the session's context before it reads.
Return(c) == GotoWith(c, IF ctxDone[c] THEN "cleanUp" ELSE "read", NoFrame)

\* The handler returns an error: ServeHTTP returns and its deferred cleanUp runs.
Abort(c) == GotoWith(c, "cleanUp", NoFrame)

Answer(c, type) == GotoWith(c, "reply", [frame[c] EXCEPT !.answer = type])

\* sendWithContext by the handler of c on the session of t.
SendTo(c, t, by, type, req, room, OnSent, OnFailed) ==
  /\ \/ BeginSend(c, t, by) /\ UNCHANGED handlerVars
     \/ EndSend(c, t, [type |-> type, req |-> req, room |-> room]) /\ OnSent
     \/ FailSend(c, t, by) /\ OnFailed
  /\ UNCHANGED <<queue, rooms, clientsRooms, registry, ctxDone, searchRequestID,
                 received, pairOf>>

Send(c, t, type, req, room, OnSent, OnFailed) ==
  SendTo(c, t, t, type, req, room, OnSent, OnFailed)

-----------------------------------------------------------------------------
\* ServeHTTP: accept the connection, register the session, start writeLoop.
Connect(c) ==
  /\ pc[c] = "offline"
  /\ Register(c)
  /\ Goto(c, "read")
  /\ UNCHANGED <<queue, rooms, clientsRooms, ctxDone, searchRequestID, outbound,
                 sending, received, pairOf>>

\* ReadMessage returned a message of this kind.
Receive(c, command) ==
  /\ pc[c] = "read"
  /\ command \in Commands
  /\ received[c] < MaxCommands /\ SumFunction(received) < TotalCommands
  /\ received' = [received EXCEPT ![c] = @ + 1]
  /\ UNCHANGED <<queue, rooms, clientsRooms, registry, ctxDone, outbound, sending, pairOf>>

NewRequest(c) == <<c, received[c] + 1>>

\* handleFindPartner up to the search: the payload is valid, the request id is stored.
ReceiveFindPartner(c, pair) ==
  /\ Receive(c, "find_partner")
  /\ SetSearchRequestID(c, NewRequest(c))
  /\ GotoWith(c, "FindPartner", [NoFrame EXCEPT !.req = NewRequest(c), !.pair = pair])

ReceiveCancelSearch(c) ==
  /\ Receive(c, "cancel_search")
  /\ GotoWith(c, "CancelSearch", [NoFrame EXCEPT !.req = NewRequest(c)])
  /\ UNCHANGED searchRequestID

\* handleSendMessage up to the service: a client names a room it has heard of or
\* an id that is no room's.
ReceiveSendMessage(c, r) ==
  /\ Receive(c, "send_message")
  /\ GotoWith(c, "findRoom", [NoFrame EXCEPT !.req = NewRequest(c), !.room = r])
  /\ UNCHANGED searchRequestID

\* Unknown type or a payload the handlers refuse, or no request id to answer under.
ReceiveInvalid(c) ==
  /\ Receive(c, "invalid")
  /\ \E id \in {NewRequest(c), None} :
       GotoWith(c, "reply", [NoFrame EXCEPT !.req = id, !.answer = "error"])
  /\ UNCHANGED searchRequestID

\* Faulty variant: nobody closes the connection of a session that has ended.
ReadFailsByClient(c) ==
  /\ pc[c] = "read" /\ ~ctxDone[c]
  /\ Goto(c, "cleanUp")
  /\ UNCHANGED <<queue, rooms, clientsRooms, registry, ctxDone, searchRequestID,
                 outbound, sending, received, pairOf>>

\* ReadMessage returns an error: the client left or the connection was closed.
ReadFails(c) ==
  /\ pc[c] = "read"
  /\ Goto(c, "cleanUp")
  /\ UNCHANGED <<queue, rooms, clientsRooms, registry, ctxDone, searchRequestID,
                 outbound, sending, received, pairOf>>

Reply(c) ==
  /\ pc[c] = "reply"
  /\ Send(c, c, frame[c].answer, frame[c].req, None, Return(c), Abort(c))

-----------------------------------------------------------------------------
\* handleFindPartner.
Search(c) == [client |-> c, pair |-> frame[c].pair]

\* FindPartner: not matched, the search waits.
FindPartnerWaits(c) ==
  /\ pc[c] = "FindPartner"
  /\ ~ctxDone[c]
  /\ Enqueue(Search(c)) \/ RepeatSearch(Search(c))
  /\ Answer(c, "search_waiting")
  /\ UNCHANGED <<rooms, clientsRooms, sessionVars, historyVars>>

\* FindPartner: the session ended, or the client already waits with another pair.
FindPartnerFails(c) ==
  /\ pc[c] = "FindPartner"
  /\ IF ctxDone[c] THEN UNCHANGED queue ELSE RejectOtherPair(Search(c))
  /\ Goto(c, "searchFailed")
  /\ UNCHANGED <<rooms, clientsRooms, sessionVars, historyVars>>

ClearFailedSearch(c) ==
  /\ pc[c] = "searchFailed"
  /\ ClearSearchRequestID(c)
  /\ Answer(c, "error")
  /\ UNCHANGED <<queue, rooms, clientsRooms, registry, ctxDone, outbound, sending,
                 historyVars>>

FindPartnerMatches(c) ==
  /\ pc[c] = "FindPartner"
  /\ ~ctxDone[c]
  /\ \E partner \in Client :
       /\ TakePartner(Search(c), partner)
       /\ GotoWith(c, "matched", [frame[c] EXCEPT !.partner = partner])
  /\ UNCHANGED <<rooms, clientsRooms, sessionVars, historyVars>>

ClearMatchedSearch(c) ==
  /\ pc[c] = "matched"
  /\ ClearSearchRequestID(c)
  /\ Goto(c, "getPartner")
  /\ UNCHANGED <<queue, rooms, clientsRooms, registry, ctxDone, outbound, sending,
                 historyVars>>

\* The partner's session is looked up; a partner that is leaving is dropped.
GetPartner(c) ==
  /\ pc[c] = "getPartner"
  /\ \/ frame[c].partner \in registry /\ Goto(c, "takeRequest")
     \/ frame[c].partner \notin registry /\ Answer(c, "error")
  /\ UNCHANGED <<queue, rooms, clientsRooms, sessionVars, historyVars>>

\* Faulty variant: the request id is read and left in the session.
PeekRequest(c) ==
  LET taken == searchRequestID[frame[c].partner] IN
  /\ pc[c] = "takeRequest"
  /\ \/ taken # None /\ GotoWith(c, "CreateRoom", [frame[c] EXCEPT !.partnerReq = taken])
     \/ taken = None /\ Answer(c, "error")
  /\ UNCHANGED <<queue, rooms, clientsRooms, sessionVars, historyVars>>

\* takeSearchRequestID of the partner's session: read and cleared at once.
TakeRequest(c) ==
  LET partner == frame[c].partner
      taken == searchRequestID[partner] IN
  /\ pc[c] = "takeRequest"
  /\ ClearSearchRequestID(partner)
  /\ \/ taken # None /\ GotoWith(c, "CreateRoom", [frame[c] EXCEPT !.partnerReq = taken])
     \/ taken = None /\ Answer(c, "error")
  /\ UNCHANGED <<queue, rooms, clientsRooms, registry, ctxDone, outbound, sending,
                 historyVars>>

\* CreateRoom with an id nobody has used.
CreateRoom(c) ==
  /\ pc[c] = "CreateRoom"
  /\ ~ctxDone[c]
  /\ \E r \in RoomID :
       /\ pairOf[r] = {}
       /\ Create(r, c, frame[c].partner)
       /\ pairOf' = [pairOf EXCEPT ![r] = {c, frame[c].partner}]
       /\ GotoWith(c, "sendPartnerMatch", [frame[c] EXCEPT !.room = r])
  /\ UNCHANGED <<queue, sessionVars, received>>

\* Faulty variant: only the caller hears of the failure.
CreateRoomFailsAlone(c) ==
  /\ pc[c] = "CreateRoom"
  /\ ctxDone[c] \/ InRoom(c) \/ InRoom(frame[c].partner)
  /\ Answer(c, "error")
  /\ UNCHANGED <<queue, rooms, clientsRooms, sessionVars, historyVars>>

\* CreateRoom returns an error: the session ended or a client is in a room already.
CreateRoomFails(c) ==
  /\ pc[c] = "CreateRoom"
  /\ ctxDone[c] \/ InRoom(c) \/ InRoom(frame[c].partner)
  /\ Goto(c, "sendOwnError")
  /\ UNCHANGED <<queue, rooms, clientsRooms, sessionVars, historyVars>>

\* Both sides hear of the failure; an error of either send is returned at the end.
SendOwnError(c) ==
  /\ pc[c] = "sendOwnError"
  /\ Send(c, c, "error", frame[c].req, None,
          Goto(c, "sendPartnerError"),
          GotoWith(c, "sendPartnerError", [frame[c] EXCEPT !.failed = TRUE]))

SendPartnerError(c) ==
  /\ pc[c] = "sendPartnerError"
  /\ Send(c, frame[c].partner, "error", frame[c].partnerReq, None,
          IF frame[c].failed THEN Abort(c) ELSE Return(c),
          Abort(c))

\* Faulty variants: the partner hears of the match under the caller's request id;
\* the room of a partner that cannot be told stays open.
SendPartnerOwnRequest(c) ==
  /\ pc[c] = "sendPartnerMatch"
  /\ Send(c, frame[c].partner, "match_found", frame[c].req, frame[c].room,
          Goto(c, "sendOwnMatch"),
          Goto(c, "closeUndelivered"))

SendPartnerMatchOrLeave(c) ==
  /\ pc[c] = "sendPartnerMatch"
  /\ Send(c, frame[c].partner, "match_found", frame[c].partnerReq, frame[c].room,
          Goto(c, "sendOwnMatch"),
          Answer(c, "error"))

SendPartnerMatch(c) ==
  /\ pc[c] = "sendPartnerMatch"
  /\ Send(c, frame[c].partner, "match_found", frame[c].partnerReq, frame[c].room,
          Goto(c, "sendOwnMatch"),
          Goto(c, "closeUndelivered"))

SendOwnMatch(c) ==
  /\ pc[c] = "sendOwnMatch"
  /\ Send(c, c, "match_found", frame[c].req, frame[c].room,
          Return(c),
          Goto(c, "closeUnsent"))

\* closeRoomWithTimeout, on a context of its own.
CloseRoom(c) ==
  /\ Delete(frame[c].room)
  /\ UNCHANGED <<queue, sessionVars, historyVars>>

CloseUndelivered(c) ==
  /\ pc[c] = "closeUndelivered"
  /\ CloseRoom(c)
  /\ Answer(c, "error")

CloseUnsent(c) ==
  /\ pc[c] = "closeUnsent"
  /\ CloseRoom(c)
  /\ Abort(c)

-----------------------------------------------------------------------------
\* handleCancelSearch.
CancelSearch(c) ==
  /\ pc[c] = "CancelSearch"
  /\ \/ ctxDone[c] /\ UNCHANGED queue /\ Answer(c, "error")
     \/ ~ctxDone[c] /\ RemoveFromQueue(c) /\ Goto(c, "clearRequest")
  /\ UNCHANGED <<rooms, clientsRooms, sessionVars, historyVars>>

\* Faulty variant: the queue entry is gone and the request id stays.
KeepCancelledRequest(c) ==
  /\ pc[c] = "clearRequest"
  /\ Answer(c, "search_cancelled")
  /\ UNCHANGED <<queue, rooms, clientsRooms, sessionVars, historyVars>>

ClearCancelledRequest(c) ==
  /\ pc[c] = "clearRequest"
  /\ ClearSearchRequestID(c)
  /\ Answer(c, "search_cancelled")
  /\ UNCHANGED <<queue, rooms, clientsRooms, registry, ctxDone, outbound, sending,
                 historyVars>>

-----------------------------------------------------------------------------
\* handleSendMessage: SendMessage finds the sender's room and compares its id.

\* Faulty variant: any room id is accepted from a client that is in some room.
FindAnyRoom(c) ==
  LET found == FoundRoom(c)
      usable == ~ctxDone[c] /\ found # None /\ frame[c].room # None IN
  /\ pc[c] = "findRoom"
  /\ \/ /\ usable
        /\ \E recipient \in Client :
             /\ IsOtherClient(found, c, recipient)
             /\ GotoWith(c, "getRecipient", [frame[c] EXCEPT !.partner = recipient])
     \/ ~usable /\ Answer(c, "error")
  /\ UNCHANGED <<queue, rooms, clientsRooms, sessionVars, historyVars>>

FindRoom(c) ==
  LET found == FoundRoom(c)
      usable == ~ctxDone[c] /\ found # None /\ found = frame[c].room IN
  /\ pc[c] = "findRoom"
  /\ \/ /\ usable
        /\ \E recipient \in Client :
             /\ IsOtherClient(found, c, recipient)
             /\ GotoWith(c, "getRecipient", [frame[c] EXCEPT !.partner = recipient])
     \/ ~usable /\ Answer(c, "error")
  /\ UNCHANGED <<queue, rooms, clientsRooms, sessionVars, historyVars>>

\* Delivery failed.  A sender whose own session ended only hears of it; otherwise
\* the recipient is unavailable and the room is closed.
Undelivered(c) == IF ctxDone[c] THEN Answer(c, "error") ELSE Goto(c, "closeUnavailable")

\* Deliver looks the recipient's session up.
GetRecipient(c) ==
  /\ pc[c] = "getRecipient"
  /\ IF ~ctxDone[c] /\ frame[c].partner \in registry THEN Goto(c, "deliver")
                                                    ELSE Undelivered(c)
  /\ UNCHANGED <<queue, rooms, clientsRooms, sessionVars, historyVars>>

\* Deliver sends with the context of the sender.
Deliver(c) ==
  /\ pc[c] = "deliver"
  /\ SendTo(c, frame[c].partner, c, "receive_message", None, frame[c].room,
            Return(c), Undelivered(c))

CloseUnavailable(c) ==
  /\ pc[c] = "closeUnavailable"
  /\ CloseRoom(c)
  /\ Answer(c, "error")

-----------------------------------------------------------------------------
\* cleanUp, deferred by ServeHTTP.

\* Faulty variant: the session's context is not cancelled.
CleanUpWithoutCancel(c) ==
  /\ pc[c] = "cleanUp"
  /\ Goto(c, "unregister")
  /\ UNCHANGED <<queue, rooms, clientsRooms, sessionVars, historyVars>>

CleanUp(c) ==
  /\ pc[c] = "cleanUp"
  /\ Cancel(c)
  /\ Goto(c, "unregister")
  /\ UNCHANGED <<queue, rooms, clientsRooms, registry, searchRequestID, outbound, sending,
                 historyVars>>

CleanUpRegistry(c) ==
  /\ pc[c] = "unregister"
  /\ Unregister(c)
  /\ Goto(c, "dropRequest")
  /\ UNCHANGED <<queue, rooms, clientsRooms, ctxDone, searchRequestID, outbound, sending,
                 historyVars>>

CleanUpRequest(c) ==
  /\ pc[c] = "dropRequest"
  /\ ClearSearchRequestID(c)
  /\ Goto(c, "dequeue")
  /\ UNCHANGED <<queue, rooms, clientsRooms, registry, ctxDone, outbound, sending,
                 historyVars>>

\* Faulty variant: CancelSearch gets the session's context, which has ended.
CleanUpSearchCancelled(c) ==
  /\ pc[c] = "dequeue"
  /\ Goto(c, "findOwnRoom")
  /\ UNCHANGED <<queue, rooms, clientsRooms, sessionVars, historyVars>>

CleanUpSearch(c) ==
  /\ pc[c] = "dequeue"
  /\ RemoveFromQueue(c)
  /\ Goto(c, "findOwnRoom")
  /\ UNCHANGED <<rooms, clientsRooms, sessionVars, historyVars>>

\* Faulty variant: the lookup gets the session's context, which has ended.
FindOwnRoomCancelled(c) ==
  /\ pc[c] = "findOwnRoom"
  /\ Goto(c, "gone")
  /\ UNCHANGED <<queue, rooms, clientsRooms, sessionVars, historyVars>>

FindOwnRoom(c) ==
  /\ pc[c] = "findOwnRoom"
  /\ \/ /\ FoundRoom(c) # None
        /\ GotoWith(c, "closeOwnRoom", [NoFrame EXCEPT !.room = FoundRoom(c)])
     \/ FoundRoom(c) = None /\ Goto(c, "gone")
  /\ UNCHANGED <<queue, rooms, clientsRooms, sessionVars, historyVars>>

CloseOwnRoom(c) ==
  /\ pc[c] = "closeOwnRoom"
  /\ CloseRoom(c)
  /\ GotoWith(c, "gone", NoFrame)

-----------------------------------------------------------------------------
\* What the client does to a session that waits in ReadMessage.
ClientStep(c) ==
  \/ Connect(c)
  \/ \E pair \in LanguagePair : ReceiveFindPartner(c, pair)
  \/ ReceiveCancelSearch(c)
  \/ \E r \in { x \in RoomID : pairOf[x] # {} } \cup {None} : ReceiveSendMessage(c, r)
  \/ ReceiveInvalid(c)
  \/ ReadFails(c)

\* What the goroutine of c does on its own.
HandlerStep(c) ==
  \/ Reply(c)
  \/ FindPartnerWaits(c) \/ FindPartnerFails(c) \/ ClearFailedSearch(c)
  \/ FindPartnerMatches(c) \/ ClearMatchedSearch(c) \/ GetPartner(c) \/ TakeRequest(c)
  \/ CreateRoom(c) \/ CreateRoomFails(c) \/ SendOwnError(c) \/ SendPartnerError(c)
  \/ SendPartnerMatch(c) \/ SendOwnMatch(c) \/ CloseUndelivered(c) \/ CloseUnsent(c)
  \/ CancelSearch(c) \/ ClearCancelledRequest(c)
  \/ FindRoom(c) \/ GetRecipient(c) \/ Deliver(c) \/ CloseUnavailable(c)
  \/ CleanUp(c) \/ CleanUpRegistry(c) \/ CleanUpRequest(c) \/ CleanUpSearch(c)
  \/ FindOwnRoom(c) \/ CloseOwnRoom(c)

WriterStep(c) ==
  /\ WriteNext(c) \/ WriteFails(c)
  /\ UNCHANGED <<queue, rooms, clientsRooms, handlerVars, historyVars>>

\* Every connection has ended: the behaviour may stop here and nowhere else.
Terminated == (\A c \in Client : pc[c] = "gone") /\ UNCHANGED vars

Next == \/ \E c \in Client : ClientStep(c) \/ HandlerStep(c) \/ WriterStep(c)
        \/ Terminated

Spec == Init /\ [][Next]_vars

\* The scheduler runs every goroutine that can proceed; a blocked send can always
\* proceed, by its timeout.  When a session's context has ended its writeLoop closes
\* the connection, so ReadMessage fails.  Nothing is assumed of clients or of writes.
FairSpec == /\ Spec
            /\ \A c \in Client : /\ WF_vars(HandlerStep(c))
                                 /\ WF_vars(ctxDone[c] /\ ReadFails(c))
=============================================================================
