---------------------------- MODULE ServerProofs ----------------------------
(***************************************************************************)
(* The websocket server, for any clients, languages, room ids and bounds.  *)
(***************************************************************************)
EXTENDS ServerProperties, MemoryRepositoryProofs

\* What a step of one goroutine leaves to the others.
Others(c) ==
  /\ \A e \in Client \ {c} : /\ pc'[e] = pc[e] /\ frame'[e] = frame[e]
                             /\ e \in sending' <=> e \in sending
  /\ \A e \in Client : ctxDone[e] => ctxDone'[e]
  /\ \A r \in RoomID : pairOf[r] # {} => pairOf'[r] = pairOf[r]

\* A step of c keeps the handlers well formed and the control of c right.
StepOK(c) == HandlersTypeOK' /\ Others(c) /\ Control(c)'

(* Moving one program counter changes that one only. *)
LEMMA Move ==
  ASSUME HandlersTypeOK, NEW c \in Client, NEW label \in Label, NEW f \in Frame,
         GotoWith(c, label, f)
  PROVE  /\ HandlersTypeOK'
         /\ pc'[c] = label /\ frame'[c] = f
         /\ \A e \in Client \ {c} : pc'[e] = pc[e] /\ frame'[e] = frame[e]
BY DEF HandlersTypeOK, GotoWith

(* The same for a move that keeps the locals. *)
LEMMA GotoMoves ==
  ASSUME HandlersTypeOK, NEW c \in Client, NEW label \in Label, Goto(c, label)
  PROVE  /\ HandlersTypeOK'
         /\ pc'[c] = label /\ frame'[c] = frame[c]
         /\ \A e \in Client \ {c} : pc'[e] = pc[e] /\ frame'[e] = frame[e]
BY DEF HandlersTypeOK, Goto

(* The empty frame is a frame. *)
LEMMA NoFrameType == NoFrame \in Frame
BY DEF NoFrame, Frame

(* A handler about to answer stands at "reply" with that answer. *)
LEMMA AnswerMoves ==
  ASSUME HandlersTypeOK, NEW c \in Client, NEW type \in MessageType, Answer(c, type)
  PROVE  /\ HandlersTypeOK'
         /\ pc'[c] = "reply" /\ frame'[c] = [frame[c] EXCEPT !.answer = type]
         /\ frame'[c].answer = type
         /\ \A e \in Client \ {c} : pc'[e] = pc[e] /\ frame'[e] = frame[e]
<1>1. frame[c] \in Frame
  BY DEF HandlersTypeOK
<1>2. /\ [frame[c] EXCEPT !.answer = type] \in Frame
      /\ [frame[c] EXCEPT !.answer = type].answer = type
  BY <1>1 DEF Frame
<1>3. "reply" \in Label
  BY DEF Label
<1>4. QED
  BY <1>2, <1>3, Move DEF Answer

(* Control of the goroutines that did not step. *)
LEMMA OthersControl ==
  ASSUME \A e \in Client : Control(e), NEW c \in Client, Others(c), Control(c)'
  PROVE  \A e \in Client : Control(e)'
<1> SUFFICES ASSUME NEW e \in Client \ {c}
             PROVE  Control(e)'
  OBVIOUS
<1>1. Control(e)
  OBVIOUS
<1>2. pc[e] \in RoomLabels => pairOf'[frame[e].room] = pairOf[frame[e].room]
  BY <1>1 DEF Control, Others
<1>3. QED
  BY <1>1, <1>2 DEF Control, Others

-----------------------------------------------------------------------------
\* The error or acknowledgement a handler ends with, wherever it stood.
Answers == MessageType \ {"match_found", "receive_message"}

(* Going to answer keeps the control of the handler. *)
LEMMA AnswerOK ==
  ASSUME Inv, NEW c \in Client, NEW type \in Answers, Answer(c, type),
         UNCHANGED <<ctxDone, pairOf>>, sending' \in {sending, sending \ {c}}
  PROVE  StepOK(c)
<1>1. type \in MessageType /\ HandlersTypeOK
  BY DEF Answers, Inv
<1>2. /\ HandlersTypeOK'
      /\ pc'[c] = "reply" /\ frame'[c].answer = type
      /\ \A e \in Client \ {c} : pc'[e] = pc[e] /\ frame'[e] = frame[e]
  BY <1>1, AnswerMoves
<1>3. Control(c)'
  BY <1>2 DEF Control, Answers, PartnerLabels, RoomLabels, SendLabels, LeftLabels
<1>4. QED
  BY <1>2, <1>3 DEF StepOK, Others

(* The answers the handlers give are of that kind. *)
LEMMA AnswerLiterals ==
  "error" \in Answers /\ "search_waiting" \in Answers /\ "search_cancelled" \in Answers
BY DEF Answers, MessageType

(* Handlers come home with nothing held. *)
LEMMA ReturnOK ==
  ASSUME Inv, NEW c \in Client, Return(c) \/ Abort(c),
         UNCHANGED <<ctxDone, pairOf>>, sending' = sending \ {c}
  PROVE  StepOK(c)
<1>1. PICK label \in {"read", "cleanUp"} : GotoWith(c, label, NoFrame)
  BY DEF Return, Abort
<1>2. label \in Label /\ HandlersTypeOK
  BY DEF Label, Inv
<1>3. /\ HandlersTypeOK' /\ pc'[c] = label
      /\ \A e \in Client \ {c} : pc'[e] = pc[e] /\ frame'[e] = frame[e]
  BY <1>1, <1>2, NoFrameType, Move
<1>4. c \notin sending' /\ \A e \in Client \ {c} : e \in sending' <=> e \in sending
  OBVIOUS
<1>5. Control(c)'
  BY <1>3, <1>4 DEF Control, PartnerLabels, RoomLabels, SendLabels, LeftLabels
<1>6. QED
  BY <1>3, <1>4, <1>5 DEF StepOK, Others

(* A step to the next label that keeps the locals. *)
LEMMA GotoOK ==
  ASSUME Inv, NEW c \in Client, NEW label \in Label, Goto(c, label),
         \A e \in Client \ {c} : e \in sending' <=> e \in sending,
         \A e \in Client : ctxDone[e] => ctxDone'[e],
         \A r \in RoomID : pairOf[r] # {} => pairOf'[r] = pairOf[r],
         label # "FindPartner", label # "closeOwnRoom", label # "reply",
         label \in PartnerLabels => pc[c] \in PartnerLabels,
         label \in RoomLabels => pc[c] \in RoomLabels,
         c \in sending' => label \in SendLabels,
         label \in LeftLabels => ctxDone'[c]
  PROVE  StepOK(c)
<1>1. HandlersTypeOK /\ Control(c)
  BY DEF Inv
<1>2. /\ HandlersTypeOK'
      /\ pc'[c] = label /\ frame'[c] = frame[c]
      /\ \A e \in Client \ {c} : pc'[e] = pc[e] /\ frame'[e] = frame[e]
  BY <1>1, GotoMoves
<1>3. pc[c] \in RoomLabels => pairOf'[frame[c].room] = pairOf[frame[c].room]
  BY <1>1 DEF Control
<1>4. Control(c)'
  BY <1>1, <1>2, <1>3 DEF Control
<1>5. QED
  BY <1>2, <1>4 DEF StepOK, Others

(* Setting one local variable of a handler keeps its frame well formed. *)
LEMMA FrameUpdates ==
  ASSUME NEW f \in Frame
  PROVE  /\ \A p \in Client : /\ [f EXCEPT !.partner = p] \in Frame
                             /\ [f EXCEPT !.partner = p].partner = p
                             /\ [f EXCEPT !.partner = p].room = f.room
         /\ \A r \in RoomID : /\ [f EXCEPT !.room = r] \in Frame
                             /\ [f EXCEPT !.room = r].room = r
                             /\ [f EXCEPT !.room = r].partner = f.partner
         /\ \A id \in RequestID : /\ [f EXCEPT !.partnerReq = id] \in Frame
                                 /\ [f EXCEPT !.partnerReq = id].partner = f.partner
         /\ /\ [f EXCEPT !.failed = TRUE] \in Frame
            /\ [f EXCEPT !.failed = TRUE].partner = f.partner
BY DEF Frame

-----------------------------------------------------------------------------
(* Steps that touch neither a channel nor a room. *)
LEMMA SearchSteps ==
  ASSUME Inv, NEW c \in Client,
         \/ FindPartnerWaits(c) \/ FindPartnerFails(c) \/ ClearFailedSearch(c)
         \/ FindPartnerMatches(c) \/ ClearMatchedSearch(c) \/ GetPartner(c)
         \/ TakeRequest(c) \/ CreateRoomFails(c)
  PROVE  StepOK(c)
<1> USE DEF sessionVars, historyVars
<1>a. HandlersTypeOK /\ Control(c) /\ frame[c] \in Frame
  BY DEF Inv, HandlersTypeOK
<1>1. CASE FindPartnerWaits(c)
  BY <1>1, AnswerOK, AnswerLiterals DEF FindPartnerWaits
<1>2. CASE FindPartnerFails(c)
  <2>1. "searchFailed" \in Label /\ c \notin sending
    BY <1>2, <1>a DEF Label, FindPartnerFails, Control, SendLabels
  <2>2. QED
    BY <1>2, <2>1, GotoOK DEF FindPartnerFails, PartnerLabels, RoomLabels, LeftLabels
<1>3. CASE ClearFailedSearch(c)
  BY <1>3, AnswerOK, AnswerLiterals DEF ClearFailedSearch
<1>4. CASE FindPartnerMatches(c)
  <2>1. PICK p \in Client : GotoWith(c, "matched", [frame[c] EXCEPT !.partner = p])
    BY <1>4 DEF FindPartnerMatches
  <2>2. c \notin sending /\ "matched" \in Label
    BY <1>4, <1>a DEF Label, FindPartnerMatches, Control, SendLabels
  <2> DEFINE f == [frame[c] EXCEPT !.partner = p]
  <2>3. f \in Frame /\ f.partner = p /\ GotoWith(c, "matched", f)
    BY <1>a, <2>1, FrameUpdates
  <2> HIDE DEF f
  <2>4. /\ HandlersTypeOK' /\ pc'[c] = "matched" /\ frame'[c].partner = p
        /\ \A e \in Client \ {c} : pc'[e] = pc[e] /\ frame'[e] = frame[e]
    BY <1>a, <2>2, <2>3, Move
  <2>5. UNCHANGED <<ctxDone, sending, pairOf>>
    BY <1>4 DEF FindPartnerMatches
  <2>6. Control(c)'
    BY <2>2, <2>4, <2>5 DEF Control, PartnerLabels, RoomLabels, SendLabels, LeftLabels
  <2>7. QED
    BY <2>4, <2>5, <2>6 DEF StepOK, Others
<1>5. CASE ClearMatchedSearch(c)
  <2>1. /\ "getPartner" \in Label /\ c \notin sending
        /\ pc[c] \in PartnerLabels
    BY <1>5, <1>a DEF Label, ClearMatchedSearch, Control, SendLabels, PartnerLabels
  <2>2. QED
    BY <1>5, <2>1, GotoOK DEF ClearMatchedSearch, RoomLabels, LeftLabels
<1>6. CASE GetPartner(c)
  <2>1. /\ "takeRequest" \in Label /\ c \notin sending
        /\ pc[c] \in PartnerLabels
    BY <1>6, <1>a DEF Label, GetPartner, Control, SendLabels, PartnerLabels
  <2>2. CASE Goto(c, "takeRequest")
    BY <1>6, <2>1, <2>2, GotoOK DEF GetPartner, RoomLabels, LeftLabels
  <2>3. QED
    BY <1>6, <2>2, AnswerOK, AnswerLiterals DEF GetPartner
<1>7. CASE TakeRequest(c)
  <2> DEFINE taken == searchRequestID[frame[c].partner]
             f == [frame[c] EXCEPT !.partnerReq = taken]
  <2>1. /\ "CreateRoom" \in Label /\ c \notin sending /\ frame[c].partner \in Client
    BY <1>7, <1>a DEF Label, TakeRequest, Control, SendLabels, PartnerLabels
  <2>2. CASE taken # None /\ GotoWith(c, "CreateRoom", f)
    <3>1. taken \in RequestID
      BY <2>1, <2>2 DEF Inv, SessionsTypeOK
    <3>2. f \in Frame /\ f.partner \in Client
      BY <1>a, <2>1, <3>1, FrameUpdates
    <3> HIDE DEF f, taken
    <3>3. /\ HandlersTypeOK' /\ pc'[c] = "CreateRoom" /\ frame'[c] = f
          /\ \A e \in Client \ {c} : pc'[e] = pc[e] /\ frame'[e] = frame[e]
      BY <1>a, <2>1, <2>2, <3>2, Move
    <3>4. UNCHANGED <<ctxDone, sending, pairOf>>
      BY <1>7 DEF TakeRequest
    <3>5. Control(c)'
      BY <2>1, <3>2, <3>3, <3>4
      DEF Control, PartnerLabels, RoomLabels, SendLabels, LeftLabels
    <3>6. QED
      BY <3>3, <3>4, <3>5 DEF StepOK, Others
  <2>3. CASE Answer(c, "error")
    BY <1>7, <2>3, AnswerOK, AnswerLiterals DEF TakeRequest
  <2>4. QED
    BY <1>7, <2>2, <2>3 DEF TakeRequest
<1>8. CASE CreateRoomFails(c)
  <2>1. /\ "sendOwnError" \in Label /\ c \notin sending
        /\ pc[c] \in PartnerLabels
    BY <1>8, <1>a DEF Label, CreateRoomFails, Control, SendLabels, PartnerLabels
  <2>2. QED
    BY <1>8, <2>1, GotoOK DEF CreateRoomFails, RoomLabels, LeftLabels
<1>9. QED
  BY <1>1, <1>2, <1>3, <1>4, <1>5, <1>6, <1>7, <1>8

(* The recipient of a message is the other client of the room the sender named:
   the room is one of its pair, and a pair has two members. *)
LEMMA RecipientOfRoom ==
  ASSUME Inv, NEW c \in Client, NEW r \in RoomID, FoundRoom(c) = r,
         NEW other, IsOtherClient(r, c, other)
  PROVE  other \in Client \ {c} /\ pairOf[r] = {c, other}
<1>1. c \in rooms[r] /\ other \in rooms[r] \ {c}
  BY DEF Inv, RoomsInv, RoomIndex, FoundRoom, IsOtherClient
<1>2. rooms[r] \in ConnectedClientsPair /\ rooms[r] = pairOf[r]
  BY <1>1 DEF Inv, RoomsInv, RoomsTypeOK, RoomsOfPairs
<1>3. QED
  BY <1>1, <1>2 DEF ConnectedClientsPair

(* Cancelling, and finding the recipient of a message, keep the control. *)
LEMMA MessageSteps ==
  ASSUME Inv, NEW c \in Client,
         \/ CancelSearch(c) \/ ClearCancelledRequest(c) \/ FindRoom(c) \/ GetRecipient(c)
  PROVE  StepOK(c)
<1> USE DEF sessionVars, historyVars
<1>a. HandlersTypeOK /\ Control(c) /\ frame[c] \in Frame
  BY DEF Inv, HandlersTypeOK
<1>1. CASE CancelSearch(c)
  <2>1. /\ "clearRequest" \in Label /\ c \notin sending
    BY <1>1, <1>a DEF Label, CancelSearch, Control, SendLabels
  <2>2. CASE Goto(c, "clearRequest")
    BY <1>1, <2>1, <2>2, GotoOK DEF CancelSearch, PartnerLabels, RoomLabels, LeftLabels
  <2>3. QED
    BY <1>1, <2>2, AnswerOK, AnswerLiterals DEF CancelSearch
<1>2. CASE ClearCancelledRequest(c)
  BY <1>2, AnswerOK, AnswerLiterals DEF ClearCancelledRequest
<1>3. CASE FindRoom(c)
  <2>1. CASE Answer(c, "error")
    BY <1>3, <2>1, AnswerOK, AnswerLiterals DEF FindRoom
  <2>2. ASSUME NEW other \in Client, FoundRoom(c) # None, FoundRoom(c) = frame[c].room,
               IsOtherClient(FoundRoom(c), c, other),
               GotoWith(c, "getRecipient", [frame[c] EXCEPT !.partner = other])
        PROVE  StepOK(c)
    <3>1. /\ frame[c].room \in RoomID
          /\ other \in Client \ {c} /\ pairOf[frame[c].room] = {c, other}
      BY <2>2, RecipientOfRoom DEF Inv, RoomsInv, RoomsTypeOK, FoundRoom
    <3>2. "getRecipient" \in Label /\ c \notin sending
      BY <1>3, <1>a DEF Label, FindRoom, Control, SendLabels
    <3> DEFINE f == [frame[c] EXCEPT !.partner = other]
    <3>3. f \in Frame /\ f.partner = other /\ f.room = frame[c].room
          /\ GotoWith(c, "getRecipient", f)
      BY <1>a, <2>2, FrameUpdates
    <3> HIDE DEF f
    <3>4. /\ HandlersTypeOK' /\ pc'[c] = "getRecipient" /\ frame'[c] = f
          /\ \A e \in Client \ {c} : pc'[e] = pc[e] /\ frame'[e] = frame[e]
      BY <1>a, <3>2, <3>3, Move
    <3>5. UNCHANGED <<ctxDone, sending, pairOf>>
      BY <1>3 DEF FindRoom
    <3>6. Control(c)'
      BY <3>1, <3>2, <3>3, <3>4, <3>5
      DEF Control, PartnerLabels, RoomLabels, SendLabels, LeftLabels
    <3>7. QED
      BY <3>4, <3>5, <3>6 DEF StepOK, Others
  <2>3. QED
    BY <1>3, <2>1, <2>2 DEF FindRoom
<1>4. CASE GetRecipient(c)
  <2>1. /\ "deliver" \in Label /\ "closeUnavailable" \in Label
        /\ c \notin sending /\ pc[c] \in RoomLabels
    BY <1>4, <1>a DEF Label, GetRecipient, Control, SendLabels, RoomLabels
  <2>2. CASE Answer(c, "error")
    BY <1>4, <2>2, AnswerOK, AnswerLiterals DEF GetRecipient
  <2>3. CASE Goto(c, "deliver")
    BY <1>4, <2>1, <2>3, GotoOK DEF GetRecipient, PartnerLabels, LeftLabels
  <2>4. CASE Goto(c, "closeUnavailable")
    BY <1>4, <2>1, <2>4, GotoOK DEF GetRecipient, PartnerLabels, LeftLabels
  <2>5. QED
    BY <1>4, <2>2, <2>3, <2>4 DEF GetRecipient, Undelivered
<1>5. QED
  BY <1>1, <1>2, <1>3, <1>4

(* The steps of cleanUp up to the look at the room index keep the control. *)
LEMMA CleanUpSteps ==
  ASSUME Inv, NEW c \in Client,
         \/ CleanUp(c) \/ CleanUpRegistry(c) \/ CleanUpRequest(c) \/ CleanUpSearch(c)
         \/ FindOwnRoom(c)
  PROVE  StepOK(c)
<1> USE DEF sessionVars, historyVars
<1>a. HandlersTypeOK /\ Control(c) /\ ctxDone \in [Client -> BOOLEAN]
  BY DEF Inv, SessionsTypeOK
<1>b. /\ c \notin sending
      /\ pc[c] # "cleanUp" => ctxDone[c]
      /\ {"unregister", "dropRequest", "dequeue", "findOwnRoom", "closeOwnRoom", "gone"}
           \subseteq Label
  BY <1>a DEF CleanUp, CleanUpRegistry, CleanUpRequest, CleanUpSearch, FindOwnRoom,
              Control, SendLabels, LeftLabels, Label
<1>1. CASE CleanUp(c)
  <2>1. ctxDone'[c] /\ \A e \in Client : ctxDone[e] => ctxDone'[e]
    BY <1>1, <1>a DEF CleanUp, Cancel
  <2>2. QED
    BY <1>1, <1>b, <2>1, GotoOK DEF CleanUp, PartnerLabels, RoomLabels
<1>2. CASE CleanUpRegistry(c)
  BY <1>2, <1>b, GotoOK DEF CleanUpRegistry, PartnerLabels, RoomLabels
<1>3. CASE CleanUpRequest(c)
  BY <1>3, <1>b, GotoOK DEF CleanUpRequest, PartnerLabels, RoomLabels
<1>4. CASE CleanUpSearch(c)
  BY <1>4, <1>b, GotoOK DEF CleanUpSearch, PartnerLabels, RoomLabels
<1>5. CASE FindOwnRoom(c)
  <2>1. CASE Goto(c, "gone")
    BY <1>5, <1>b, <2>1, GotoOK DEF FindOwnRoom, PartnerLabels, RoomLabels
  <2>2. CASE /\ FoundRoom(c) # None
             /\ GotoWith(c, "closeOwnRoom", [NoFrame EXCEPT !.room = FoundRoom(c)])
    <3> DEFINE f == [NoFrame EXCEPT !.room = FoundRoom(c)]
    <3>1. FoundRoom(c) \in RoomID
      BY <2>2 DEF Inv, RoomsInv, RoomsTypeOK, FoundRoom
    <3>2. f \in Frame /\ f.room \in RoomID
      BY <3>1, NoFrameType, FrameUpdates
    <3> HIDE DEF f
    <3>3. /\ HandlersTypeOK' /\ pc'[c] = "closeOwnRoom" /\ frame'[c] = f
          /\ \A e \in Client \ {c} : pc'[e] = pc[e] /\ frame'[e] = frame[e]
      BY <1>a, <1>b, <2>2, <3>2, Move DEF f
    <3>4. UNCHANGED <<ctxDone, sending, pairOf>> /\ ctxDone[c]
      BY <1>5, <1>b DEF FindOwnRoom
    <3>5. Control(c)'
      BY <1>b, <3>2, <3>3, <3>4 DEF Control, PartnerLabels, RoomLabels, SendLabels
    <3>6. QED
      BY <3>3, <3>4, <3>5 DEF StepOK, Others
  <2>3. QED
    BY <1>5, <2>1, <2>2 DEF FindOwnRoom
<1>6. QED
  BY <1>1, <1>2, <1>3, <1>4, <1>5

(* The frames a handler starts with. *)
LEMMA FirstFrames ==
  ASSUME NEW id \in RequestID \cup {None}
  PROVE  /\ \A p \in LanguagePair :
              /\ [NoFrame EXCEPT !.req = id, !.pair = p] \in Frame
              /\ [NoFrame EXCEPT !.req = id, !.pair = p].pair = p
         /\ [NoFrame EXCEPT !.req = id] \in Frame
         /\ \A r \in RoomID \cup {None} : [NoFrame EXCEPT !.req = id, !.room = r] \in Frame
         /\ [NoFrame EXCEPT !.req = id, !.answer = "error"] \in Frame
         /\ [NoFrame EXCEPT !.req = id, !.answer = "error"].answer = "error"
<1>1. NoFrame \in Frame /\ "error" \in MessageType
  BY NoFrameType DEF MessageType
<1>2. QED
  BY <1>1 DEF NoFrame, Frame

(* The id of a new message is a request id, and the count stays in its bound. *)
LEMMA NewRequestType ==
  ASSUME Inv, NEW c \in Client, NEW command, Receive(c, command)
  PROVE  /\ NewRequest(c) \in RequestID
         /\ received' \in [Client -> 0 .. MaxCommands]
<1>1. received[c] \in 0 .. MaxCommands /\ received[c] < MaxCommands
  BY DEF Inv, HistoryTypeOK, Receive
<1>2. received[c] + 1 \in 1 .. MaxCommands
  BY <1>1, BoundsNat
<1>3. QED
  BY <1>2, BoundsNat DEF NewRequest, RequestID, Inv, HistoryTypeOK, Receive

(* Entering a handler sets its locals. *)
LEMMA ReceiveOK ==
  ASSUME Inv, NEW c \in Client, NEW command, Receive(c, command),
         NEW label \in {"FindPartner", "CancelSearch", "findRoom", "reply"},
         NEW f \in Frame, GotoWith(c, label, f),
         label = "FindPartner" => f.pair \in LanguagePair,
         label = "reply" => f.answer = "error"
  PROVE  StepOK(c)
<1>1. HandlersTypeOK /\ label \in Label /\ c \notin sending
  BY DEF Inv, Label, Control, Receive, SendLabels
<1>2. /\ HandlersTypeOK' /\ pc'[c] = label /\ frame'[c] = f
      /\ \A e \in Client \ {c} : pc'[e] = pc[e] /\ frame'[e] = frame[e]
  BY <1>1, Move
<1>3. UNCHANGED <<ctxDone, sending, pairOf>>
  BY DEF Receive
<1>4. Control(c)'
  BY <1>1, <1>2, <1>3
  DEF Control, PartnerLabels, RoomLabels, SendLabels, LeftLabels, MessageType
<1>5. QED
  BY <1>2, <1>3, <1>4 DEF StepOK, Others

(* Connecting, sending a message and leaving keep the control. *)
LEMMA ClientSteps ==
  ASSUME Inv, NEW c \in Client, ClientStep(c)
  PROVE  StepOK(c)
<1>a. HandlersTypeOK /\ Control(c) /\ "read" \in Label /\ "cleanUp" \in Label
  BY DEF Inv, Label
<1>1. CASE Connect(c)
  <2>1. c \notin sending
    BY <1>1, <1>a DEF Connect, Control, SendLabels
  <2>2. QED
    BY <1>1, <1>a, <2>1, GotoOK DEF Connect, PartnerLabels, RoomLabels, LeftLabels
<1>2. ASSUME NEW pair \in LanguagePair, ReceiveFindPartner(c, pair)
      PROVE  StepOK(c)
  <2> DEFINE f == [NoFrame EXCEPT !.req = NewRequest(c), !.pair = pair]
  <2>1. f \in Frame /\ f.pair = pair /\ GotoWith(c, "FindPartner", f)
    BY <1>2, NewRequestType, FirstFrames DEF ReceiveFindPartner
  <2> HIDE DEF f
  <2>2. QED
    BY <1>2, <2>1, ReceiveOK DEF ReceiveFindPartner
<1>3. CASE ReceiveCancelSearch(c)
  <2> DEFINE f == [NoFrame EXCEPT !.req = NewRequest(c)]
  <2>1. f \in Frame /\ GotoWith(c, "CancelSearch", f)
    BY <1>3, NewRequestType, FirstFrames DEF ReceiveCancelSearch
  <2> HIDE DEF f
  <2>2. QED
    BY <1>3, <2>1, ReceiveOK DEF ReceiveCancelSearch
<1>4. ASSUME NEW r \in RoomID \cup {None}, ReceiveSendMessage(c, r)
      PROVE  StepOK(c)
  <2> DEFINE f == [NoFrame EXCEPT !.req = NewRequest(c), !.room = r]
  <2>1. f \in Frame /\ GotoWith(c, "findRoom", f)
    BY <1>4, NewRequestType, FirstFrames DEF ReceiveSendMessage
  <2> HIDE DEF f
  <2>2. QED
    BY <1>4, <2>1, ReceiveOK DEF ReceiveSendMessage
<1>5. CASE ReceiveInvalid(c)
  <2>1. PICK id \in {NewRequest(c), None} :
          GotoWith(c, "reply", [NoFrame EXCEPT !.req = id, !.answer = "error"])
    BY <1>5 DEF ReceiveInvalid
  <2> DEFINE f == [NoFrame EXCEPT !.req = id, !.answer = "error"]
  <2>2. id \in RequestID \cup {None}
    BY <1>5, NewRequestType DEF ReceiveInvalid
  <2>3. f \in Frame /\ f.answer = "error" /\ GotoWith(c, "reply", f)
    BY <2>1, <2>2, FirstFrames
  <2> HIDE DEF f
  <2>4. QED
    BY <1>5, <2>3, ReceiveOK DEF ReceiveInvalid
<1>6. CASE ReadFails(c)
  <2>1. c \notin sending
    BY <1>6, <1>a DEF ReadFails, Control, SendLabels
  <2>2. QED
    BY <1>6, <1>a, <2>1, GotoOK DEF ReadFails, PartnerLabels, RoomLabels, LeftLabels
<1>7. QED
  BY <1>1, <1>2, <1>3, <1>4, <1>5, <1>6 DEF ClientStep

-----------------------------------------------------------------------------
(* Sends.  The select is entered, or the send is over and the handler goes on. *)
LEMMA WaitOK ==
  ASSUME Inv, NEW c \in Client, pc[c] \in SendLabels,
         UNCHANGED <<pc, frame, ctxDone, pairOf>>, sending' = sending \cup {c}
  PROVE  StepOK(c)
<1>1. HandlersTypeOK' /\ Control(c)'
  BY DEF Inv, HandlersTypeOK, Control
<1>2. Others(c)
  BY DEF Others
<1>3. QED
  BY <1>1, <1>2 DEF StepOK

(* A send waits in the select, or is over with one of its two continuations. *)
LEMMA SendOutcome ==
  ASSUME NEW c \in Client, NEW t, NEW by, NEW type, NEW req, NEW room,
         NEW ACTION OnSent, NEW ACTION OnFailed,
         SendTo(c, t, by, type, req, room, OnSent, OnFailed)
  PROVE  /\ UNCHANGED <<ctxDone, pairOf>>
         /\ \/ UNCHANGED <<pc, frame>> /\ sending' = sending \cup {c}
            \/ sending' = sending \ {c} /\ OnSent
            \/ sending' = sending \ {c} /\ OnFailed
BY DEF SendTo, BeginSend, EndSend, FailSend, handlerVars

(* Every send of a handler keeps the control, whatever its outcome. *)
LEMMA SendSteps ==
  ASSUME Inv, NEW c \in Client,
         \/ Reply(c) \/ SendOwnError(c) \/ SendPartnerError(c)
         \/ SendPartnerMatch(c) \/ SendOwnMatch(c) \/ Deliver(c)
  PROVE  StepOK(c)
<1>a. /\ HandlersTypeOK /\ Control(c) /\ frame[c] \in Frame
      /\ {"sendPartnerError", "sendOwnMatch", "closeUndelivered", "closeUnsent",
          "closeUnavailable"} \subseteq Label
  BY DEF Inv, HandlersTypeOK, Label
<1>b. pc[c] \in SendLabels
  BY DEF Reply, SendOwnError, SendPartnerError, SendPartnerMatch, SendOwnMatch, Deliver,
         SendLabels
<1>1. CASE Reply(c)
  <2>1. /\ UNCHANGED <<ctxDone, pairOf>>
        /\ \/ UNCHANGED <<pc, frame>> /\ sending' = sending \cup {c}
           \/ sending' = sending \ {c} /\ Return(c)
           \/ sending' = sending \ {c} /\ Abort(c)
    BY <1>1, SendOutcome DEF Reply, Send
  <2>2. QED
    BY <1>b, <2>1, WaitOK, ReturnOK
<1>2. CASE SendOwnError(c)
  <2> DEFINE f == [frame[c] EXCEPT !.failed = TRUE]
  <2>1. /\ UNCHANGED <<ctxDone, pairOf>>
        /\ \/ UNCHANGED <<pc, frame>> /\ sending' = sending \cup {c}
           \/ sending' = sending \ {c} /\ Goto(c, "sendPartnerError")
           \/ sending' = sending \ {c} /\ GotoWith(c, "sendPartnerError", f)
    BY <1>2, SendOutcome DEF SendOwnError, Send
  <2>2. pc[c] \in PartnerLabels /\ frame[c].partner \in Client
    BY <1>2, <1>a DEF SendOwnError, PartnerLabels, Control
  <2>3. f \in Frame /\ f.partner \in Client
    BY <1>a, <2>2, FrameUpdates
  <2> HIDE DEF f
  <2>4. CASE sending' = sending \ {c} /\ Goto(c, "sendPartnerError")
    BY <1>a, <2>1, <2>2, <2>4, GotoOK DEF RoomLabels, LeftLabels
  <2>5. CASE sending' = sending \ {c} /\ GotoWith(c, "sendPartnerError", f)
    <3>1. /\ HandlersTypeOK' /\ pc'[c] = "sendPartnerError" /\ frame'[c] = f
          /\ \A e \in Client \ {c} : pc'[e] = pc[e] /\ frame'[e] = frame[e]
      BY <1>a, <2>3, <2>5, Move
    <3>2. Control(c)'
      BY <2>3, <2>5, <3>1 DEF Control, PartnerLabels, RoomLabels, LeftLabels
    <3>3. QED
      BY <2>1, <2>5, <3>1, <3>2 DEF StepOK, Others
  <2>6. QED
    BY <1>b, <2>1, <2>4, <2>5, WaitOK
<1>3. CASE SendPartnerError(c)
  <2>1. /\ UNCHANGED <<ctxDone, pairOf>>
        /\ \/ UNCHANGED <<pc, frame>> /\ sending' = sending \cup {c}
           \/ sending' = sending \ {c} /\ (IF frame[c].failed THEN Abort(c) ELSE Return(c))
           \/ sending' = sending \ {c} /\ Abort(c)
    BY <1>3, SendOutcome DEF SendPartnerError, Send
  <2>2. QED
    BY <1>b, <2>1, WaitOK, ReturnOK
<1>4. CASE SendPartnerMatch(c)
  <2>1. /\ UNCHANGED <<ctxDone, pairOf>>
        /\ \/ UNCHANGED <<pc, frame>> /\ sending' = sending \cup {c}
           \/ sending' = sending \ {c} /\ Goto(c, "sendOwnMatch")
           \/ sending' = sending \ {c} /\ Goto(c, "closeUndelivered")
    BY <1>4, SendOutcome DEF SendPartnerMatch, Send
  <2>2. pc[c] \in RoomLabels
    BY <1>4 DEF SendPartnerMatch, RoomLabels
  <2>3. CASE sending' = sending \ {c} /\ Goto(c, "sendOwnMatch")
    BY <1>a, <2>1, <2>2, <2>3, GotoOK DEF PartnerLabels, LeftLabels
  <2>4. CASE sending' = sending \ {c} /\ Goto(c, "closeUndelivered")
    BY <1>a, <2>1, <2>2, <2>4, GotoOK DEF PartnerLabels, LeftLabels
  <2>5. QED
    BY <1>b, <2>1, <2>3, <2>4, WaitOK
<1>5. CASE SendOwnMatch(c)
  <2>1. /\ UNCHANGED <<ctxDone, pairOf>>
        /\ \/ UNCHANGED <<pc, frame>> /\ sending' = sending \cup {c}
           \/ sending' = sending \ {c} /\ Return(c)
           \/ sending' = sending \ {c} /\ Goto(c, "closeUnsent")
    BY <1>5, SendOutcome DEF SendOwnMatch, Send
  <2>2. pc[c] \in RoomLabels
    BY <1>5 DEF SendOwnMatch, RoomLabels
  <2>3. CASE sending' = sending \ {c} /\ Goto(c, "closeUnsent")
    BY <1>a, <2>1, <2>2, <2>3, GotoOK DEF PartnerLabels, LeftLabels
  <2>4. QED
    BY <1>b, <2>1, <2>3, WaitOK, ReturnOK
<1>6. CASE Deliver(c)
  <2>1. /\ UNCHANGED <<ctxDone, pairOf>>
        /\ \/ UNCHANGED <<pc, frame>> /\ sending' = sending \cup {c}
           \/ sending' = sending \ {c} /\ Return(c)
           \/ sending' = sending \ {c} /\ Undelivered(c)
    BY <1>6, SendOutcome DEF Deliver
  <2>2. pc[c] \in RoomLabels
    BY <1>6 DEF Deliver, RoomLabels
  <2>3. CASE sending' = sending \ {c} /\ Goto(c, "closeUnavailable")
    BY <1>a, <2>1, <2>2, <2>3, GotoOK DEF PartnerLabels, LeftLabels
  <2>4. CASE sending' = sending \ {c} /\ Answer(c, "error")
    BY <2>1, <2>4, AnswerOK, AnswerLiterals
  <2>5. QED
    BY <1>b, <2>1, <2>3, <2>4, WaitOK, ReturnOK DEF Undelivered
<1>7. QED
  BY <1>1, <1>2, <1>3, <1>4, <1>5, <1>6

-----------------------------------------------------------------------------
(* Steps that create or close a room. *)
LEMMA CloseSteps ==
  ASSUME Inv, NEW c \in Client,
         \/ CloseUndelivered(c) \/ CloseUnsent(c) \/ CloseUnavailable(c) \/ CloseOwnRoom(c)
  PROVE  StepOK(c) /\ frame[c].room \in RoomID /\ Delete(frame[c].room)
<1>a. /\ HandlersTypeOK /\ Control(c) /\ UNCHANGED <<ctxDone, sending, pairOf>>
      /\ Delete(frame[c].room)
  BY DEF Inv, CloseUndelivered, CloseUnsent, CloseUnavailable, CloseOwnRoom, CloseRoom,
         sessionVars, historyVars
<1>b. frame[c].room \in RoomID
  BY <1>a DEF Control, CloseUndelivered, CloseUnsent, CloseUnavailable, CloseOwnRoom, RoomLabels
<1>c. c \notin sending
  BY <1>a DEF Control, CloseUndelivered, CloseUnsent, CloseUnavailable, CloseOwnRoom, SendLabels
<1>1. CASE CloseUndelivered(c)
  BY <1>1, <1>a, <1>b, AnswerOK, AnswerLiterals DEF CloseUndelivered
<1>2. CASE CloseUnavailable(c)
  BY <1>2, <1>a, <1>b, AnswerOK, AnswerLiterals DEF CloseUnavailable
<1>3. CASE CloseUnsent(c)
  <2>1. Abort(c) /\ sending' = sending \ {c}
    BY <1>3, <1>a, <1>c DEF CloseUnsent
  <2>2. QED
    BY <1>a, <1>b, <2>1, ReturnOK
<1>4. CASE CloseOwnRoom(c)
  <2>1. "gone" \in Label /\ GotoWith(c, "gone", NoFrame) /\ ctxDone[c]
    BY <1>4, <1>a DEF CloseOwnRoom, Label, Control, LeftLabels
  <2>2. /\ HandlersTypeOK' /\ pc'[c] = "gone"
        /\ \A e \in Client \ {c} : pc'[e] = pc[e] /\ frame'[e] = frame[e]
    BY <1>a, <2>1, NoFrameType, Move
  <2>3. Control(c)'
    BY <1>a, <1>c, <2>1, <2>2 DEF Control, PartnerLabels, RoomLabels
  <2>4. QED
    BY <1>a, <1>b, <2>2, <2>3 DEF StepOK, Others
<1>5. QED
  BY <1>1, <1>2, <1>3, <1>4

(* A room is created with an unused id for the creator and its drawn partner. *)
LEMMA CreateStep ==
  ASSUME Inv, NEW c \in Client, CreateRoom(c)
  PROVE  /\ StepOK(c)
         /\ pairOf' \in [RoomID -> ConnectedClientsPair \cup {{}}]
         /\ \E r \in RoomID : /\ pairOf[r] = {} /\ pairOf'[r] = {c, frame[c].partner}
                             /\ Create(r, c, frame[c].partner)
                             /\ pc'[c] = "sendPartnerMatch" /\ frame'[c].room = r
                             /\ c \notin sending'
         /\ frame[c].partner \in Client
<1>a. /\ HandlersTypeOK /\ HistoryTypeOK /\ Control(c) /\ frame[c] \in Frame
      /\ "sendPartnerMatch" \in Label
  BY DEF Inv, HandlersTypeOK, Label
<1>b. frame[c].partner \in Client /\ c \notin sending
  BY <1>a DEF Control, CreateRoom, PartnerLabels, SendLabels
<1> DEFINE partner == frame[c].partner
<1>1. PICK r \in RoomID :
        /\ pairOf[r] = {} /\ Create(r, c, partner)
        /\ pairOf' = [pairOf EXCEPT ![r] = {c, partner}]
        /\ GotoWith(c, "sendPartnerMatch", [frame[c] EXCEPT !.room = r])
  BY DEF CreateRoom
<1> DEFINE f == [frame[c] EXCEPT !.room = r]
<1>2. /\ f \in Frame /\ f.room = r /\ f.partner = partner
      /\ GotoWith(c, "sendPartnerMatch", f)
  BY <1>a, <1>1, FrameUpdates
<1> HIDE DEF f
<1>3. c # partner /\ {c, partner} \in ConnectedClientsPair
  BY <1>b, <1>1 DEF Create, ConnectedClientsPair
<1>4. /\ pairOf' \in [RoomID -> ConnectedClientsPair \cup {{}}]
      /\ pairOf'[r] = {c, partner}
      /\ \A x \in RoomID : pairOf[x] # {} => pairOf'[x] = pairOf[x]
  BY <1>a, <1>1, <1>3 DEF HistoryTypeOK
<1>5. /\ HandlersTypeOK' /\ pc'[c] = "sendPartnerMatch" /\ frame'[c] = f
      /\ \A e \in Client \ {c} : pc'[e] = pc[e] /\ frame'[e] = frame[e]
  BY <1>a, <1>2, Move
<1>6. UNCHANGED <<ctxDone, sending>>
  BY DEF CreateRoom, sessionVars
<1>7. Control(c)'
  BY <1>b, <1>2, <1>3, <1>4, <1>5, <1>6 DEF Control, PartnerLabels, LeftLabels
<1>8. StepOK(c)
  BY <1>4, <1>5, <1>6, <1>7 DEF StepOK, Others
<1>9. QED
  BY <1>b, <1>1, <1>2, <1>4, <1>5, <1>6, <1>8

-----------------------------------------------------------------------------
(* The server runs the queue and the room repository by their own operations. *)
LEMMA QueueStep == Inv /\ [Next]_vars => [QueueNext]_queue
<1> SUFFICES ASSUME Inv, Next
             PROVE  [QueueNext]_queue
  BY DEF vars
<1> USE DEF sessionVars, historyVars, handlerVars
<1>1. ASSUME NEW c \in Client, ClientStep(c)
      PROVE  UNCHANGED queue
  BY <1>1 DEF ClientStep, Connect, ReceiveFindPartner, ReceiveCancelSearch,
              ReceiveSendMessage, ReceiveInvalid, Receive, ReadFails
<1>2. ASSUME NEW c \in Client, HandlerStep(c)
      PROVE  [QueueNext]_queue
  <2>1. CASE FindPartnerWaits(c) \/ FindPartnerFails(c) \/ FindPartnerMatches(c)
    <3>1. Search(c) \in WaitingUser
      BY <2>1 DEF Inv, Control, FindPartnerWaits, FindPartnerFails, FindPartnerMatches,
                  Search, WaitingUser
    <3>2. QED
      BY <2>1, <3>1 DEF FindPartnerWaits, FindPartnerFails, FindPartnerMatches, QueueNext
  <2>2. CASE CancelSearch(c) \/ CleanUpSearch(c)
    BY <2>2 DEF CancelSearch, CleanUpSearch, QueueNext
  <2>3. CASE \/ Reply(c) \/ SendOwnError(c) \/ SendPartnerError(c)
             \/ SendPartnerMatch(c) \/ SendOwnMatch(c) \/ Deliver(c)
    BY <2>3 DEF Reply, SendOwnError, SendPartnerError, SendPartnerMatch, SendOwnMatch,
                Deliver, Send, SendTo
  <2>4. CASE \/ CloseUndelivered(c) \/ CloseUnsent(c) \/ CloseUnavailable(c)
             \/ CloseOwnRoom(c) \/ CreateRoom(c) \/ CreateRoomFails(c)
    BY <2>4 DEF CloseUndelivered, CloseUnsent, CloseUnavailable, CloseOwnRoom, CloseRoom,
                CreateRoom, CreateRoomFails
  <2>5. CASE \/ ClearFailedSearch(c) \/ ClearMatchedSearch(c) \/ GetPartner(c)
             \/ TakeRequest(c) \/ ClearCancelledRequest(c) \/ FindRoom(c)
             \/ GetRecipient(c)
    BY <2>5 DEF ClearFailedSearch, ClearMatchedSearch, GetPartner, TakeRequest,
                ClearCancelledRequest, FindRoom, GetRecipient
  <2>6. CASE \/ CleanUp(c) \/ CleanUpRegistry(c) \/ CleanUpRequest(c) \/ FindOwnRoom(c)
    BY <2>6 DEF CleanUp, CleanUpRegistry, CleanUpRequest, FindOwnRoom
  <2>7. QED
    BY <1>2, <2>1, <2>2, <2>3, <2>4, <2>5, <2>6 DEF HandlerStep
<1>3. ASSUME NEW c \in Client, WriterStep(c)
      PROVE  UNCHANGED queue
  BY <1>3 DEF WriterStep
<1>4. QED
  BY <1>1, <1>2, <1>3 DEF Next, Terminated, vars

(* What a goroutine does to the rooms: nothing, create the room of a drawn
   partner, or close the room it holds. *)
ClosesRoom(c) ==
  CloseUndelivered(c) \/ CloseUnsent(c) \/ CloseUnavailable(c) \/ CloseOwnRoom(c)

(* Only CreateRoom and the closing steps touch the rooms. *)
LEMMA GoroutineRooms ==
  ASSUME NEW c \in Client, ClientStep(c) \/ HandlerStep(c)
  PROVE  \/ UNCHANGED <<rooms, clientsRooms, pairOf>>
         \/ CreateRoom(c)
         \/ ClosesRoom(c) /\ UNCHANGED pairOf
<1> USE DEF sessionVars, historyVars, handlerVars
<1>1. CASE ClientStep(c)
  BY <1>1 DEF ClientStep, Connect, ReceiveFindPartner, ReceiveCancelSearch,
              ReceiveSendMessage, ReceiveInvalid, Receive, ReadFails
<1>2. CASE HandlerStep(c) /\ ~CreateRoom(c)
  <2>1. CASE \/ FindPartnerWaits(c) \/ FindPartnerFails(c) \/ FindPartnerMatches(c)
             \/ CancelSearch(c) \/ CleanUpSearch(c) \/ CreateRoomFails(c)
    BY <2>1 DEF FindPartnerWaits, FindPartnerFails, FindPartnerMatches, CancelSearch,
                CleanUpSearch, CreateRoomFails
  <2>2. CASE \/ Reply(c) \/ SendOwnError(c) \/ SendPartnerError(c)
             \/ SendPartnerMatch(c) \/ SendOwnMatch(c) \/ Deliver(c)
    BY <2>2 DEF Reply, SendOwnError, SendPartnerError, SendPartnerMatch, SendOwnMatch,
                Deliver, Send, SendTo
  <2>3. CASE ClosesRoom(c)
    BY <2>3 DEF ClosesRoom, CloseUndelivered, CloseUnsent, CloseUnavailable, CloseOwnRoom,
                CloseRoom
  <2>4. CASE \/ ClearFailedSearch(c) \/ ClearMatchedSearch(c) \/ GetPartner(c)
             \/ TakeRequest(c) \/ ClearCancelledRequest(c) \/ FindRoom(c)
             \/ GetRecipient(c)
    BY <2>4 DEF ClearFailedSearch, ClearMatchedSearch, GetPartner, TakeRequest,
                ClearCancelledRequest, FindRoom, GetRecipient
  <2>5. CASE \/ CleanUp(c) \/ CleanUpRegistry(c) \/ CleanUpRequest(c) \/ FindOwnRoom(c)
    BY <2>5 DEF CleanUp, CleanUpRegistry, CleanUpRequest, FindOwnRoom
  <2>6. QED
    BY <1>2, <2>1, <2>2, <2>3, <2>4, <2>5 DEF HandlerStep, ClosesRoom
<1>3. QED
  BY <1>1, <1>2

(* What a step of the server does to the rooms. *)
LEMMA RoomsStep ==
  ASSUME Next
  PROVE  \/ UNCHANGED <<rooms, clientsRooms, pairOf>>
         \/ \E c \in Client : CreateRoom(c)
         \/ \E c \in Client : ClosesRoom(c) /\ UNCHANGED pairOf
<1>1. ASSUME NEW c \in Client, WriterStep(c)
      PROVE  UNCHANGED <<rooms, clientsRooms, pairOf>>
  BY <1>1 DEF WriterStep, historyVars
<1>2. QED
  BY <1>1, GoroutineRooms DEF Next, Terminated, vars

(* The rooms change only by the repository's own operations. *)
LEMMA RoomsRefined == Inv /\ [Next]_vars => [RoomsNext]_roomVars
<1> SUFFICES ASSUME Inv, Next
             PROVE  [RoomsNext]_roomVars
  BY DEF vars, roomVars
<1>1. ASSUME NEW c \in Client, CreateRoom(c)
      PROVE  RoomsNext
  BY <1>1, CreateStep DEF RoomsNext
<1>2. ASSUME NEW c \in Client, ClosesRoom(c)
      PROVE  RoomsNext
  BY <1>2, CloseSteps DEF RoomsNext, ClosesRoom
<1>3. QED
  BY <1>1, <1>2, RoomsStep DEF roomVars

-----------------------------------------------------------------------------
(* What the handler of c puts into a channel is a message whose room, if it has
   one, was generated for the client that will read it. *)
Enqueued(t, m) ==
  /\ t \in Client /\ m \in Message
  /\ m.room # None => t \in pairOf[m.room]
  /\ Len(outbound[t]) < OutboundCap
  /\ outbound' = [outbound EXCEPT ![t] = Append(@, m)]

(* A send changes one channel at most, by a message for the clients of its room. *)
LEMMA SendEffect ==
  ASSUME SessionsTypeOK, NEW c \in Client, NEW t \in Client, NEW by,
         NEW type \in MessageType, NEW req \in RequestID \cup {None},
         NEW room \in RoomID \cup {None}, room # None => t \in pairOf[room],
         NEW ACTION OnSent, NEW ACTION OnFailed,
         SendTo(c, t, by, type, req, room, OnSent, OnFailed)
  PROVE  /\ UNCHANGED <<registry, ctxDone, searchRequestID, received>>
         /\ sending' \subseteq Client
         /\ UNCHANGED outbound \/ \E m : Enqueued(t, m)
<1> DEFINE m == [type |-> type, req |-> req, room |-> room]
<1>1. /\ UNCHANGED <<registry, ctxDone, searchRequestID, received>>
      /\ sending' \in {sending \cup {c}, sending \ {c}}
      /\ \/ UNCHANGED outbound
         \/ Len(outbound[t]) < OutboundCap /\ outbound' = [outbound EXCEPT ![t] = Append(@, m)]
  BY DEF SendTo, BeginSend, EndSend, FailSend
<1>2. m \in Message /\ m.room = room
  BY DEF Message
<1> HIDE DEF m
<1>3. QED
  BY <1>1, <1>2 DEF Enqueued, SessionsTypeOK

(* The same for every send the handlers make. *)
LEMMA SendEffects ==
  ASSUME Inv, NEW c \in Client,
         \/ Reply(c) \/ SendOwnError(c) \/ SendPartnerError(c)
         \/ SendPartnerMatch(c) \/ SendOwnMatch(c) \/ Deliver(c)
  PROVE  /\ UNCHANGED <<registry, ctxDone, searchRequestID, received>>
         /\ sending' \subseteq Client
         /\ UNCHANGED outbound \/ \E t, m : Enqueued(t, m)
<1>a. /\ SessionsTypeOK /\ Control(c)
      /\ frame[c].req \in RequestID \cup {None} /\ frame[c].partnerReq \in RequestID \cup {None}
      /\ {"error", "match_found", "receive_message"} \subseteq MessageType
      /\ None \in RequestID \cup {None} /\ None \in RoomID \cup {None}
  BY DEF Inv, HandlersTypeOK, Frame, MessageType
<1>1. CASE Reply(c)
  <2>1. frame[c].answer \in MessageType
    BY <1>1, <1>a DEF Reply, Control
  <2>2. QED
    BY <1>1, <1>a, <2>1, SendEffect DEF Reply, Send
<1>2. CASE SendOwnError(c)
  BY <1>2, <1>a, SendEffect DEF SendOwnError, Send
<1>3. CASE SendPartnerError(c)
  <2>1. frame[c].partner \in Client
    BY <1>3, <1>a DEF SendPartnerError, Control, PartnerLabels
  <2>2. QED
    BY <1>3, <1>a, <2>1, SendEffect DEF SendPartnerError, Send
<1>4. CASE SendPartnerMatch(c) \/ SendOwnMatch(c) \/ Deliver(c)
  <2>1. /\ frame[c].room \in RoomID /\ frame[c].room # None
        /\ frame[c].partner \in Client
        /\ pairOf[frame[c].room] = {c, frame[c].partner}
    BY <1>4, <1>a, NoneIsNoRoom DEF SendPartnerMatch, SendOwnMatch, Deliver, Control, RoomLabels
  <2>2. CASE SendPartnerMatch(c)
    BY <2>2, <1>a, <2>1, SendEffect DEF SendPartnerMatch, Send
  <2>3. CASE SendOwnMatch(c)
    BY <2>3, <1>a, <2>1, SendEffect DEF SendOwnMatch, Send
  <2>4. CASE Deliver(c)
    BY <2>4, <1>a, <2>1, SendEffect DEF Deliver
  <2>5. QED
    BY <1>4, <2>2, <2>3, <2>4
<1>5. QED
  BY <1>1, <1>2, <1>3, <1>4

(* Appending a confined message, or reading one, keeps a channel bounded and
   its messages confined. *)
LEMMA EnqueuePreservesChannels ==
  ASSUME SessionsTypeOK, MessagesConfined, NEW t, NEW m, Enqueued(t, m),
         \A r \in RoomID : pairOf[r] # {} => pairOf'[r] = pairOf[r]
  PROVE  /\ outbound' \in [Client -> Seq(Message)]
         /\ \A c \in Client : Len(outbound'[c]) <= OutboundCap
         /\ MessagesConfined'
<1>1. /\ t \in Client /\ m \in Message
      /\ outbound \in [Client -> Seq(Message)] /\ OutboundCap \in Nat
      /\ outbound' = [outbound EXCEPT ![t] = Append(@, m)]
  BY OutboundCapPositive DEF Enqueued, SessionsTypeOK
<1>2. /\ outbound'[t] = Append(outbound[t], m) /\ outbound[t] \in Seq(Message)
      /\ \A c \in Client \ {t} : outbound'[c] = outbound[c]
      /\ outbound' \in [Client -> Seq(Message)]
  BY <1>1
<1>3. /\ Len(outbound'[t]) = Len(outbound[t]) + 1 /\ Len(outbound[t]) \in Nat
      /\ DOMAIN outbound'[t] = DOMAIN outbound[t] \cup {Len(outbound[t]) + 1}
      /\ \A i \in DOMAIN outbound[t] : outbound'[t][i] = outbound[t][i]
      /\ outbound'[t][Len(outbound[t]) + 1] = m
  BY <1>1, <1>2
<1>4. \A c \in Client : Len(outbound'[c]) <= OutboundCap
  BY <1>1, <1>2, <1>3 DEF Enqueued, SessionsTypeOK
<1>5. ASSUME NEW c \in Client, NEW i \in DOMAIN outbound'[c], outbound'[c][i].room # None
      PROVE  c \in pairOf'[outbound'[c][i].room]
  <2>1. outbound'[c][i] \in Message
    BY <1>2
  <2>2. outbound'[c][i].room \in RoomID
    BY <2>1, <1>5 DEF Message
  <2>3. c \in pairOf[outbound'[c][i].room]
    BY <1>2, <1>3, <1>5 DEF Enqueued, MessagesConfined
  <2>4. QED
    BY <2>2, <2>3
<1>6. QED
  BY <1>2, <1>4, <1>5 DEF MessagesConfined

(* Reading a message keeps the channels bounded and their messages confined. *)
LEMMA TailPreservesChannels ==
  ASSUME SessionsTypeOK, MessagesConfined, NEW t \in Client, outbound[t] # <<>>,
         outbound' = [outbound EXCEPT ![t] = Tail(@)], UNCHANGED pairOf
  PROVE  /\ outbound' \in [Client -> Seq(Message)]
         /\ \A c \in Client : Len(outbound'[c]) <= OutboundCap
         /\ MessagesConfined'
<1>1. outbound \in [Client -> Seq(Message)] /\ OutboundCap \in Nat
  BY OutboundCapPositive DEF SessionsTypeOK
<1>2. /\ outbound'[t] = Tail(outbound[t]) /\ outbound[t] \in Seq(Message)
      /\ \A c \in Client \ {t} : outbound'[c] = outbound[c]
      /\ outbound' \in [Client -> Seq(Message)]
  BY <1>1
<1>3. /\ Len(outbound'[t]) = Len(outbound[t]) - 1 /\ Len(outbound[t]) \in Nat \ {0}
      /\ \A i \in DOMAIN outbound'[t] : /\ i + 1 \in DOMAIN outbound[t]
                                        /\ outbound'[t][i] = outbound[t][i + 1]
  BY <1>2
<1>4. \A c \in Client : Len(outbound'[c]) <= OutboundCap
  BY <1>1, <1>2, <1>3 DEF SessionsTypeOK
<1>5. MessagesConfined'
  BY <1>2, <1>3 DEF MessagesConfined
<1>6. QED
  BY <1>2, <1>4, <1>5

(* The rest of a session's state under the steps of a goroutine. *)
SessionKept ==
  /\ registry' \subseteq Client
  /\ ctxDone' \in [Client -> BOOLEAN]
  /\ searchRequestID' \in [Client -> RequestID \cup {None}]
  /\ sending' \subseteq Client
  /\ received' \in [Client -> 0 .. MaxCommands]

(* What a client does leaves the channels alone. *)
LEMMA ClientEffects ==
  ASSUME Inv, NEW c \in Client, ClientStep(c)
  PROVE  SessionKept /\ UNCHANGED outbound
<1> USE DEF SessionKept
<1>a. SessionsTypeOK /\ HistoryTypeOK
  BY DEF Inv
<1>1. CASE Connect(c) \/ ReadFails(c)
  BY <1>1, <1>a DEF Connect, ReadFails, Register, SessionsTypeOK, HistoryTypeOK
<1>2. ASSUME NEW pair \in LanguagePair, ReceiveFindPartner(c, pair)
      PROVE  SessionKept /\ UNCHANGED outbound
  <2>1. NewRequest(c) \in RequestID /\ received' \in [Client -> 0 .. MaxCommands]
    BY <1>2, NewRequestType DEF ReceiveFindPartner
  <2>2. QED
    BY <1>2, <1>a, <2>1 DEF ReceiveFindPartner, Receive, SetSearchRequestID, SessionsTypeOK
<1>3. ASSUME NEW command, Receive(c, command), UNCHANGED searchRequestID
      PROVE  SessionKept /\ UNCHANGED outbound
  BY <1>3, <1>a, NewRequestType DEF Receive, SessionsTypeOK
<1>4. QED
  BY <1>1, <1>2, <1>3 DEF ClientStep, ReceiveCancelSearch, ReceiveSendMessage, ReceiveInvalid

(* What a handler does to a channel is to put a confined message into it. *)
LEMMA HandlerEffects ==
  ASSUME Inv, NEW c \in Client, HandlerStep(c)
  PROVE  SessionKept /\ (UNCHANGED outbound \/ \E t, m : Enqueued(t, m))
<1> USE DEF SessionKept, sessionVars, historyVars
<1>a. SessionsTypeOK /\ HistoryTypeOK /\ Control(c)
  BY DEF Inv
<1>1. CASE \/ FindPartnerWaits(c) \/ FindPartnerFails(c) \/ FindPartnerMatches(c)
           \/ GetPartner(c) \/ CreateRoomFails(c) \/ CreateRoom(c) \/ CancelSearch(c)
           \/ FindRoom(c) \/ GetRecipient(c) \/ CleanUpSearch(c) \/ FindOwnRoom(c)
           \/ CloseUndelivered(c) \/ CloseUnsent(c) \/ CloseUnavailable(c) \/ CloseOwnRoom(c)
  <2>1. UNCHANGED <<sessionVars, received>>
    BY <1>1 DEF FindPartnerWaits, FindPartnerFails, FindPartnerMatches, GetPartner,
                CreateRoomFails, CreateRoom, CancelSearch, FindRoom, GetRecipient,
                CleanUpSearch, FindOwnRoom, CloseUndelivered, CloseUnsent,
                CloseUnavailable, CloseOwnRoom, CloseRoom
  <2>2. QED
    BY <1>a, <2>1 DEF SessionsTypeOK, HistoryTypeOK
<1>2. ASSUME NEW t \in Client, ClearSearchRequestID(t),
             UNCHANGED <<registry, ctxDone, outbound, sending, received>>
      PROVE  SessionKept /\ UNCHANGED outbound
  BY <1>2, <1>a DEF ClearSearchRequestID, SetSearchRequestID, SessionsTypeOK, HistoryTypeOK
<1>3. CASE \/ ClearFailedSearch(c) \/ ClearMatchedSearch(c) \/ ClearCancelledRequest(c)
           \/ CleanUpRequest(c)
  BY <1>2, <1>3 DEF ClearFailedSearch, ClearMatchedSearch, ClearCancelledRequest, CleanUpRequest
<1>4. CASE TakeRequest(c)
  BY <1>2, <1>4, <1>a DEF TakeRequest, Control, PartnerLabels
<1>5. CASE CleanUp(c) \/ CleanUpRegistry(c)
  BY <1>5, <1>a DEF CleanUp, CleanUpRegistry, Cancel, Unregister, SessionsTypeOK, HistoryTypeOK
<1>6. CASE \/ Reply(c) \/ SendOwnError(c) \/ SendPartnerError(c)
           \/ SendPartnerMatch(c) \/ SendOwnMatch(c) \/ Deliver(c)
  BY <1>6, <1>a, SendEffects DEF SessionsTypeOK, HistoryTypeOK
<1>7. QED
  BY <1>1, <1>3, <1>4, <1>5, <1>6 DEF HandlerStep

(* Both facts for every step of a goroutine. *)
LEMMA GoroutineOK ==
  ASSUME Inv, NEW c \in Client, ClientStep(c) \/ HandlerStep(c)
  PROVE  /\ StepOK(c)
         /\ SessionKept /\ (UNCHANGED outbound \/ \E t, m : Enqueued(t, m))
<1>1. CASE ClientStep(c)
  BY <1>1, ClientSteps, ClientEffects
<1>2. CASE HandlerStep(c)
  BY <1>2, SearchSteps, MessageSteps, CleanUpSteps, SendSteps, CloseSteps, CreateStep,
     HandlerEffects DEF HandlerStep
<1>3. QED
  BY <1>1, <1>2

(* A writer takes a message from its channel and may end its session. *)
LEMMA WriterOK ==
  ASSUME Inv, NEW c \in Client, WriterStep(c)
  PROVE  /\ SessionsTypeOK' /\ HandlersTypeOK' /\ HistoryTypeOK'
         /\ \A e \in Client : Control(e)'
         /\ MessagesConfined' /\ UNCHANGED <<pc, frame, sending, pairOf>>
<1>a. SessionsTypeOK /\ HandlersTypeOK /\ HistoryTypeOK /\ MessagesConfined
  BY DEF Inv
<1>1. /\ outbound[c] # <<>> /\ outbound' = [outbound EXCEPT ![c] = Tail(@)]
      /\ UNCHANGED <<registry, searchRequestID, sending, pc, frame, received, pairOf>>
      /\ ctxDone' \in [Client -> BOOLEAN] /\ \A e \in Client : ctxDone[e] => ctxDone'[e]
  BY <1>a DEF WriterStep, WriteNext, WriteFails, Writable, Cancel, handlerVars, historyVars,
              SessionsTypeOK
<1>2. SessionsTypeOK' /\ MessagesConfined'
  BY <1>a, <1>1, TailPreservesChannels DEF SessionsTypeOK
<1>3. HandlersTypeOK' /\ HistoryTypeOK'
  BY <1>a, <1>1 DEF HandlersTypeOK, HistoryTypeOK
<1>4. ASSUME NEW e \in Client
      PROVE  Control(e)'
  <2>1. Control(e)
    BY DEF Inv
  <2>2. QED
    BY <1>1, <2>1 DEF Control
<1>5. QED
  BY <1>1, <1>2, <1>3, <1>4

-----------------------------------------------------------------------------
(* The history variables and the channels. *)
LEMMA PairOfType ==
  ASSUME Inv, Next
  PROVE  pairOf' \in [RoomID -> ConnectedClientsPair \cup {{}}]
BY RoomsStep, CreateStep DEF Inv, HistoryTypeOK

(* Every step of a goroutine keeps types, control and confinement. *)
LEMMA GoroutineKeeps ==
  ASSUME Inv, Next, NEW c \in Client, ClientStep(c) \/ HandlerStep(c)
  PROVE  /\ SessionsTypeOK' /\ HandlersTypeOK' /\ HistoryTypeOK'
         /\ \A e \in Client : Control(e)'
         /\ MessagesConfined'
<1>a. SessionsTypeOK /\ HandlersTypeOK /\ HistoryTypeOK /\ MessagesConfined
  BY DEF Inv
<1>1. /\ StepOK(c) /\ SessionKept
      /\ UNCHANGED outbound \/ \E t, m : Enqueued(t, m)
  BY GoroutineOK
<1>2. /\ HandlersTypeOK' /\ \A e \in Client : Control(e)'
      /\ \A r \in RoomID : pairOf[r] # {} => pairOf'[r] = pairOf[r]
  BY <1>1, OthersControl DEF Inv, StepOK, Others
<1>3. HistoryTypeOK'
  BY <1>1, PairOfType DEF HistoryTypeOK, SessionKept
<1>4. SessionsTypeOK' /\ MessagesConfined'
  <2>1. CASE UNCHANGED outbound
    <3>1. SessionsTypeOK'
      BY <1>a, <1>1, <2>1 DEF SessionsTypeOK, SessionKept
    <3>2. ASSUME NEW e \in Client, NEW i \in DOMAIN outbound[e], outbound[e][i].room # None
          PROVE  e \in pairOf'[outbound[e][i].room]
      <4>1. outbound[e][i] \in Message
        BY <1>a DEF SessionsTypeOK
      <4>2. outbound[e][i].room \in RoomID
        BY <4>1, <3>2 DEF Message
      <4>3. QED
        BY <1>a, <1>2, <3>2, <4>2 DEF MessagesConfined
    <3>3. QED
      BY <2>1, <3>1, <3>2 DEF MessagesConfined
  <2>2. ASSUME NEW t, NEW m, Enqueued(t, m)
        PROVE  SessionsTypeOK' /\ MessagesConfined'
    BY <1>a, <1>1, <1>2, <2>2, EnqueuePreservesChannels DEF SessionsTypeOK, SessionKept
  <2>3. QED
    BY <1>1, <2>1, <2>2
<1>5. QED
  BY <1>2, <1>3, <1>4

(* A room is created with the clients its id is generated for. *)
LEMMA RoomsOfPairsKept ==
  ASSUME Inv, Next
  PROVE  RoomsOfPairs'
<1>a. RoomsOfPairs /\ RoomsTypeOK
  BY DEF Inv, RoomsInv
<1>1. ASSUME NEW c \in Client, CreateRoom(c)
      PROVE  RoomsOfPairs'
  <2>1. PICK r \in RoomID : /\ pairOf'[r] = {c, frame[c].partner}
                            /\ Create(r, c, frame[c].partner)
                            /\ pairOf[r] = {}
    BY <1>1, CreateStep
  <2>2. \A x \in RoomID : pairOf[x] # {} => pairOf'[x] = pairOf[x]
    BY <1>1, CreateStep DEF StepOK, Others
  <2>3. rooms'[r] = {c, frame[c].partner} /\ \A x \in RoomID \ {r} : rooms'[x] = rooms[x]
    BY <1>a, <2>1 DEF Create, RoomsTypeOK
  <2>4. QED
    BY <1>a, <2>1, <2>2, <2>3 DEF RoomsOfPairs
<1>2. ASSUME NEW c \in Client, ClosesRoom(c), UNCHANGED pairOf
      PROVE  RoomsOfPairs'
  BY <1>a, <1>2, CloseSteps DEF ClosesRoom, Delete, RoomsOfPairs, RoomsTypeOK
<1>3. QED
  BY <1>a, <1>1, <1>2, RoomsStep DEF RoomsOfPairs

-----------------------------------------------------------------------------
(* LeftRoomsWillClose is the heart of the matter: a client that has looked for
   its room and found none, or is closing it, never gets another that stays. *)
Left(c) == pc[c] \in {"closeOwnRoom", "gone"}

(* The obligation of one room towards one client that has left. *)
Closing(r, c) ==
  \/ pc[c] = "closeOwnRoom" /\ frame[c].room = r
  \/ \E d \in rooms[r] \ {c} : WillClose(d, r)

(* A step of e leaves alone what c and its partner in r hold, unless one of
   them is e. *)
LEMMA ClosingKept ==
  ASSUME NEW e \in Client, Others(e), NEW r \in RoomID, NEW c \in Client \ {e},
         rooms[r] \subseteq Client, rooms'[r] = rooms[r], Closing(r, c), ~WillClose(e, r)
  PROVE  Closing(r, c)'
<1>1. CASE pc[c] = "closeOwnRoom" /\ frame[c].room = r
  BY <1>1 DEF Others, Closing
<1>2. CASE \E d \in rooms[r] \ {c} : WillClose(d, r)
  BY <1>2 DEF Others, Closing, WillClose
<1>3. QED
  BY <1>1, <1>2 DEF Closing

(* A new room is closed by its creator when the partner has left. *)
LEMMA CreateKeepsClosing ==
  ASSUME Inv, NEW e \in Client, CreateRoom(e)
  PROVE  LeftRoomsWillClose'
<1>1. PICK r \in RoomID : /\ Create(r, e, frame[e].partner)
                          /\ pc'[e] = "sendPartnerMatch" /\ frame'[e].room = r
                          /\ e \notin sending'
  BY CreateStep
<1>2. Others(e) /\ RoomsTypeOK /\ LeftRoomsWillClose
  BY CreateStep DEF StepOK, Inv, RoomsInv
<1>3. rooms'[r] = {e, frame[e].partner} /\ \A x \in RoomID \ {r} : rooms'[x] = rooms[x]
  BY <1>1, <1>2 DEF Create, RoomsTypeOK
<1>4. frame[e].partner \in Client /\ \A x \in RoomID : rooms[x] \subseteq Client
  BY <1>2, CreateStep DEF RoomsTypeOK, ConnectedClientsPair
<1>5. ASSUME NEW x \in RoomID, NEW c \in rooms'[x], Left(c)'
      PROVE  Closing(x, c)'
  <2>1. c \in Client /\ c # e
    BY <1>1, <1>3, <1>4, <1>5 DEF Left
  <2>2. CASE x = r
    BY <1>1, <1>3, <2>1, <2>2 DEF Closing, WillClose
  <2>3. CASE x # r
    <3>1. Left(c) /\ c \in rooms[x] /\ Closing(x, c)
      BY <1>2, <1>3, <1>5, <2>1, <2>3 DEF Left, Others, LeftRoomsWillClose, Closing
    <3>2. ~WillClose(e, x)
      BY DEF CreateRoom, WillClose
    <3>3. QED
      BY <1>2, <1>3, <1>4, <2>1, <2>3, <3>1, <3>2, ClosingKept
  <2>4. QED
    BY <2>2, <2>3
<1>6. QED
  BY <1>5 DEF LeftRoomsWillClose, Left, Closing

(* Closing a room leaves the obligations of the other rooms. *)
LEMMA DeleteKeepsClosing ==
  ASSUME Inv, NEW e \in Client, ClosesRoom(e)
  PROVE  LeftRoomsWillClose'
<1> DEFINE q == frame[e].room
<1>1. StepOK(e) /\ q \in RoomID /\ Delete(q)
  BY CloseSteps DEF ClosesRoom
<1>2. /\ Others(e) /\ RoomsTypeOK /\ LeftRoomsWillClose
      /\ HandlersTypeOK
  BY <1>1 DEF StepOK, Inv, RoomsInv
<1>3. rooms'[q] = {} /\ \A x \in RoomID \ {q} : rooms'[x] = rooms[x]
  BY <1>1, <1>2 DEF Delete, RoomsTypeOK
<1>4. \A x \in RoomID : rooms[x] \subseteq Client
  BY <1>2 DEF RoomsTypeOK, ConnectedClientsPair
<1>5. pc'[e] \in {"reply", "cleanUp"} \/ pc[e] = "closeOwnRoom"
  BY <1>2 DEF ClosesRoom, CloseUndelivered, CloseUnsent, CloseUnavailable, CloseOwnRoom,
              Answer, Abort, GotoWith, HandlersTypeOK
<1>6. ASSUME NEW x \in RoomID, NEW c \in rooms'[x], Left(c)'
      PROVE  Closing(x, c)'
  <2>1. x # q /\ c \in rooms[x] /\ c \in Client /\ rooms'[x] = rooms[x]
    BY <1>3, <1>4, <1>6
  <2>2. ~WillClose(e, x)
    BY <2>1 DEF WillClose
  <2>3. Left(c)
    BY <1>2, <1>5, <1>6, <2>1 DEF Left, Others
  <2>4. Closing(x, c)
    BY <1>2, <2>1, <2>3 DEF LeftRoomsWillClose, Left, Closing
  <2>5. CASE c # e
    BY <1>2, <1>4, <2>1, <2>2, <2>4, <2>5, ClosingKept
  <2>6. CASE c = e
    <3>1. PICK d \in rooms[x] \ {e} : WillClose(d, x)
      BY <2>1, <2>4, <2>6 DEF Closing
    <3>2. QED
      BY <1>2, <1>4, <2>1, <2>6, <3>1 DEF Closing, WillClose, Others
  <2>7. QED
    BY <2>5, <2>6
<1>7. QED
  BY <1>6 DEF LeftRoomsWillClose, Left, Closing

(* The look at the index finds the room that the client is in. *)
LEMMA FindKeepsClosing ==
  ASSUME Inv, NEW e \in Client, FindOwnRoom(e)
  PROVE  LeftRoomsWillClose'
<1>1. /\ Others(e) /\ RoomsTypeOK /\ RoomIndex /\ LeftRoomsWillClose /\ HandlersTypeOK
      /\ UNCHANGED rooms
  BY CleanUpSteps DEF StepOK, Inv, RoomsInv, FindOwnRoom
<1>2. \A x \in RoomID : rooms[x] \subseteq Client
  BY <1>1 DEF RoomsTypeOK, ConnectedClientsPair
<1>3. ASSUME NEW x \in RoomID, NEW c \in rooms[x], Left(c)'
      PROVE  Closing(x, c)'
  <2>1. CASE c = e
    <3>1. FoundRoom(e) = x
      BY <1>1, <1>2, <2>1 DEF RoomIndex, FoundRoom
    <3>2. GotoWith(e, "closeOwnRoom", [NoFrame EXCEPT !.room = x])
      BY <3>1, NoneIsNoRoom DEF FindOwnRoom
    <3>3. [NoFrame EXCEPT !.room = x].room = x /\ [NoFrame EXCEPT !.room = x] \in Frame
      BY NoFrameType, FrameUpdates
    <3>4. pc'[e] = "closeOwnRoom" /\ frame'[e].room = x
      BY <1>1, <3>2, <3>3 DEF GotoWith, HandlersTypeOK
    <3>5. QED
      BY <2>1, <3>4 DEF Closing
  <2>2. CASE c # e
    <3>1. c \in Client /\ Left(c)
      BY <1>1, <1>2, <1>3, <2>2 DEF Left, Others
    <3>2. Closing(x, c)
      BY <1>1, <3>1 DEF LeftRoomsWillClose, Left, Closing
    <3>3. ~WillClose(e, x)
      BY DEF FindOwnRoom, WillClose
    <3>4. QED
      BY <1>1, <1>2, <2>2, <3>1, <3>2, <3>3, ClosingKept
  <2>3. QED
    BY <2>1, <2>2
<1>4. QED
  BY <1>1, <1>3 DEF LeftRoomsWillClose, Left, Closing

(* The creator's send to a partner that has left can only fail, and the creator
   goes on to close the room. *)
LEMMA PartnerMatchKeepsClosing ==
  ASSUME Inv, NEW e \in Client, SendPartnerMatch(e)
  PROVE  LeftRoomsWillClose'
<1>1. /\ Others(e) /\ RoomsTypeOK /\ RoomsOfPairs /\ LeftRoomsWillClose /\ HandlersTypeOK
      /\ UNCHANGED rooms
  BY SendSteps DEF StepOK, Inv, RoomsInv, SendPartnerMatch, Send, SendTo
<1>2. \A x \in RoomID : rooms[x] \subseteq Client
  BY <1>1 DEF RoomsTypeOK, ConnectedClientsPair
<1>3. pc[e] = "sendPartnerMatch" /\ pc'[e] \notin {"closeOwnRoom", "gone"}
  BY <1>1 DEF SendPartnerMatch, Send, SendTo, Goto, HandlersTypeOK, handlerVars
<1>4. ASSUME NEW x \in RoomID, NEW c \in rooms[x], Left(c)'
      PROVE  Closing(x, c)'
  <2>1. c \in Client \ {e} /\ Left(c)
    BY <1>1, <1>2, <1>3, <1>4 DEF Left, Others
  <2>2. Closing(x, c)
    BY <1>1, <2>1 DEF LeftRoomsWillClose, Left, Closing
  <2>3. CASE ~WillClose(e, x)
    BY <1>1, <1>2, <2>1, <2>2, <2>3, ClosingKept
  <2>4. CASE WillClose(e, x)
    <3>1. frame[e].room = x /\ e \notin sending
      BY <1>3, <2>4 DEF WillClose
    <3>2. pairOf[x] = {e, frame[e].partner} /\ ctxDone[c]
      BY <1>3, <2>1, <3>1 DEF Inv, Control, RoomLabels, LeftLabels, Left
    <3>3. c = frame[e].partner /\ e \in rooms[x]
      BY <1>1, <1>4, <2>1, <3>2 DEF RoomsOfPairs
    <3>4. Goto(e, "closeUndelivered")
      BY <3>1, <3>2, <3>3 DEF SendPartnerMatch, Send, SendTo, BeginSend, EndSend
    <3>5. pc'[e] = "closeUndelivered" /\ frame'[e].room = x
      BY <1>1, <3>1, <3>4 DEF Goto, HandlersTypeOK
    <3>6. QED
      BY <1>1, <2>1, <3>3, <3>5 DEF Closing, WillClose
  <2>5. QED
    BY <2>3, <2>4
<1>5. QED
  BY <1>1, <1>4 DEF LeftRoomsWillClose, Left, Closing

(* No other step brings a client past its look at the index, or touches what a
   creator owes. *)
LEMMA OtherPcs ==
  ASSUME HandlersTypeOK, NEW e \in Client, ClientStep(e) \/ HandlerStep(e),
         ~CreateRoom(e), ~ClosesRoom(e), ~FindOwnRoom(e), ~SendPartnerMatch(e)
  PROVE  /\ pc'[e] \notin {"closeOwnRoom", "gone"}
         /\ pc[e] \notin {"sendPartnerMatch", "closeUndelivered"}
<1> USE DEF HandlersTypeOK, Goto, GotoWith, Answer, Return, Abort
<1>1. CASE ClientStep(e)
  BY <1>1 DEF ClientStep, Connect, ReceiveFindPartner, ReceiveCancelSearch,
              ReceiveSendMessage, ReceiveInvalid, Receive, ReadFails
<1>2. CASE \/ FindPartnerWaits(e) \/ FindPartnerFails(e) \/ FindPartnerMatches(e)
           \/ CancelSearch(e) \/ CleanUpSearch(e) \/ CreateRoomFails(e)
  BY <1>2 DEF FindPartnerWaits, FindPartnerFails, FindPartnerMatches, CancelSearch,
              CleanUpSearch, CreateRoomFails
<1>3. CASE Reply(e) \/ SendOwnError(e) \/ SendPartnerError(e)
  BY <1>3 DEF Reply, SendOwnError, SendPartnerError, Send, SendTo, handlerVars
<1>4. CASE SendOwnMatch(e) \/ Deliver(e)
  BY <1>4 DEF SendOwnMatch, Deliver, Send, SendTo, handlerVars, Undelivered
<1>5. CASE \/ ClearFailedSearch(e) \/ ClearMatchedSearch(e) \/ GetPartner(e)
           \/ TakeRequest(e) \/ ClearCancelledRequest(e) \/ FindRoom(e)
           \/ GetRecipient(e)
  BY <1>5 DEF ClearFailedSearch, ClearMatchedSearch, GetPartner, TakeRequest,
              ClearCancelledRequest, FindRoom, GetRecipient, Undelivered
<1>6. CASE CleanUp(e) \/ CleanUpRegistry(e) \/ CleanUpRequest(e)
  BY <1>6 DEF CleanUp, CleanUpRegistry, CleanUpRequest
<1>7. QED
  BY <1>1, <1>2, <1>3, <1>4, <1>5, <1>6 DEF HandlerStep, ClosesRoom

(* Every step of a goroutine keeps the obligations towards those who have left. *)
LEMMA GoroutineKeepsClosing ==
  ASSUME Inv, NEW e \in Client, ClientStep(e) \/ HandlerStep(e)
  PROVE  LeftRoomsWillClose'
<1>1. CASE CreateRoom(e) \/ ClosesRoom(e) \/ FindOwnRoom(e) \/ SendPartnerMatch(e)
  BY <1>1, CreateKeepsClosing, DeleteKeepsClosing, FindKeepsClosing, PartnerMatchKeepsClosing
<1>2. CASE ~CreateRoom(e) /\ ~ClosesRoom(e) /\ ~FindOwnRoom(e) /\ ~SendPartnerMatch(e)
  <2>1. /\ Others(e) /\ RoomsTypeOK /\ LeftRoomsWillClose
        /\ UNCHANGED rooms
        /\ pc'[e] \notin {"closeOwnRoom", "gone"}
        /\ pc[e] \notin {"sendPartnerMatch", "closeUndelivered"}
    BY <1>2, GoroutineOK, GoroutineRooms, OtherPcs DEF StepOK, Inv, RoomsInv
  <2>2. \A x \in RoomID : rooms[x] \subseteq Client
    BY <2>1 DEF RoomsTypeOK, ConnectedClientsPair
  <2>3. ASSUME NEW x \in RoomID, NEW c \in rooms[x], Left(c)'
        PROVE  Closing(x, c)'
    <3>1. c \in Client \ {e} /\ Left(c)
      BY <2>1, <2>2, <2>3 DEF Left, Others
    <3>2. Closing(x, c) /\ ~WillClose(e, x)
      BY <2>1, <3>1 DEF LeftRoomsWillClose, Left, Closing, WillClose
    <3>3. QED
      BY <2>1, <2>2, <3>1, <3>2, ClosingKept
  <2>4. QED
    BY <2>1, <2>3 DEF LeftRoomsWillClose, Left, Closing
<1>3. QED
  BY <1>1, <1>2

-----------------------------------------------------------------------------
(* The invariant holds at the start: nobody is connected. *)
LEMMA InitInv == Init => Inv
<1> SUFFICES ASSUME Init
             PROVE  Inv
  OBVIOUS
<1>1. QueueInv /\ RoomsInv
  BY QueueInitInv, RoomsInitInv DEF Init
<1>2. SessionsTypeOK
  BY OutboundCapPositive DEF Init, SessionsInit, SessionsTypeOK
<1>3. HandlersTypeOK
  BY NoFrameType DEF Init, HandlersTypeOK, Label
<1>4. HistoryTypeOK
  BY BoundsNat DEF Init, HistoryTypeOK
<1>5. \A c \in Client : Control(c)
  BY DEF Init, SessionsInit, Control, PartnerLabels, RoomLabels, SendLabels, LeftLabels
<1>6. RoomsOfPairs /\ MessagesConfined /\ LeftRoomsWillClose
  BY DEF Init, RoomsInit, SessionsInit, RoomsOfPairs, MessagesConfined, LeftRoomsWillClose
<1>7. QED
  BY <1>1, <1>2, <1>3, <1>4, <1>5, <1>6 DEF Inv

(* Every step keeps it. *)
LEMMA NextInv == Inv /\ [Next]_vars => Inv'
<1> SUFFICES ASSUME Inv, [Next]_vars
             PROVE  Inv'
  OBVIOUS
<1>1. QueueInv' /\ RoomsInv'
  BY QueueStep, QueueNextInv, RoomsRefined, RoomsNextInv DEF Inv
<1>2. CASE UNCHANGED vars
  BY <1>1, <1>2 DEF Inv, vars, SessionsTypeOK, HandlersTypeOK, HistoryTypeOK, Control,
                    RoomsOfPairs, MessagesConfined, LeftRoomsWillClose, WillClose
<1>3. CASE Next
  <2>1. RoomsOfPairs'
    BY <1>3, RoomsOfPairsKept
  <2>2. ASSUME NEW c \in Client, ClientStep(c) \/ HandlerStep(c)
        PROVE  Inv'
    BY <1>1, <1>3, <2>1, <2>2, GoroutineKeeps, GoroutineKeepsClosing DEF Inv
  <2>3. ASSUME NEW c \in Client, WriterStep(c)
        PROVE  Inv'
    <3>1. UNCHANGED <<rooms, pc, frame, sending>>
      BY <2>3, WriterOK DEF WriterStep
    <3>2. LeftRoomsWillClose'
      BY <3>1 DEF Inv, LeftRoomsWillClose, WillClose
    <3>3. QED
      BY <1>1, <2>1, <2>3, <3>2, WriterOK DEF Inv
  <2>4. QED
    BY <1>2, <1>3, <2>2, <2>3 DEF Next, Terminated
<1>4. QED
  BY <1>2, <1>3

(* The inductive invariant holds in every state the server can reach. *)
THEOREM ServerInv == Spec => []Inv
BY InitInv, NextInv, PTL DEF Spec

(* Every component stays well formed in the composition, and no channel exceeds
   its capacity, for any number of clients and messages. *)
THEOREM ServerTypeCorrect == Spec => []TypeOK
<1>1. Inv => TypeOK
  BY DEF Inv, TypeOK, QueueInv, RoomsInv
<1>2. QED
  BY <1>1, ServerInv, PTL

(* A client that has left leaves nobody in a room with it, however its cleanUp
   races the creation of the room. *)
THEOREM NoOrphanRoomAlways == Spec => []NoOrphanRoom
<1>1. Inv => NoOrphanRoom
  BY DEF Inv, LeftRoomsWillClose, NoOrphanRoom
<1>2. QED
  BY <1>1, ServerInv, PTL

(* match_found and receive_message reach only the clients the room was
   generated for. *)
THEOREM RoomConfinementAlways == Spec => []RoomConfinement
<1>1. Inv => RoomConfinement
  BY DEF Inv, MessagesConfined, RoomConfinement, Control, RoomLabels
<1>2. QED
  BY <1>1, ServerInv, PTL

(* The handlers use the queue only through its operations, so in the server too
   compatible users never both wait and nobody waits twice. *)
THEOREM ServerUsesQueue == Spec => QueueSpec
<1>1. Init => QueueInit
  BY DEF Init
<1>2. QED
  BY <1>1, ServerInv, QueueStep, PTL DEF Spec, QueueSpec

(* The handlers use the rooms only through the repository's operations. *)
THEOREM ServerUsesRooms == Spec => RoomsSpec
<1>1. Init => RoomsInit
  BY DEF Init
<1>2. QED
  BY <1>1, ServerInv, RoomsRefined, PTL DEF Spec, RoomsSpec
=============================================================================
