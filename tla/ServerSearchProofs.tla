-------------------------- MODULE ServerSearchProofs --------------------------
(***************************************************************************)
(* The life of a search across the handlers, for any clients and bounds.   *)
(***************************************************************************)
EXTENDS ServerProofs

(* A request id names its client and counts the messages read from it. *)
LEMMA RequestsOfClient ==
  ASSUME HistoryTypeOK, NEW c \in Client
  PROVE  /\ \A id \in RequestsOf(c) : id[1] = c
         /\ received[c] \in Nat /\ NewRequest(c) \notin RequestsOf(c)
<1>1. received[c] \in Nat
  BY BoundsNat DEF HistoryTypeOK
<1>2. ASSUME NEW id \in RequestsOf(c)
      PROVE  id[1] = c /\ id[2] \in 1 .. received[c]
  BY <1>2 DEF RequestsOf
<1>3. NewRequest(c)[2] = received[c] + 1
  BY DEF NewRequest
<1>4. QED
  BY <1>1, <1>2, <1>3

(* What setting the other locals leaves of the ids of a handler. *)
LEMMA FrameIds ==
  ASSUME NEW f \in Frame, NEW x
  PROVE  /\ [f EXCEPT !.answer = x].req = f.req
         /\ [f EXCEPT !.answer = x].partner = f.partner
         /\ [f EXCEPT !.answer = x].partnerReq = f.partnerReq
         /\ [f EXCEPT !.failed = x].req = f.req
         /\ [f EXCEPT !.failed = x].partner = f.partner
         /\ [f EXCEPT !.failed = x].partnerReq = f.partnerReq
         /\ [f EXCEPT !.room = x].req = f.req
         /\ [f EXCEPT !.room = x].partner = f.partner
         /\ [f EXCEPT !.room = x].partnerReq = f.partnerReq
         /\ [f EXCEPT !.partner = x].req = f.req
         /\ [f EXCEPT !.partner = x].partnerReq = f.partnerReq
         /\ [f EXCEPT !.partnerReq = x].req = f.req
         /\ [f EXCEPT !.partnerReq = x].partner = f.partner
         /\ [f EXCEPT !.partnerReq = x].partnerReq = x
BY DEF Frame

(* The ids of the frames a handler starts and ends with. *)
LEMMA NoFrameIds ==
  ASSUME NEW x, NEW y
  PROVE  /\ NoFrame.req = None /\ NoFrame.partnerReq = None
         /\ [NoFrame EXCEPT !.room = x].req = None
         /\ [NoFrame EXCEPT !.room = x].partnerReq = None
         /\ [NoFrame EXCEPT !.req = x].req = x
         /\ [NoFrame EXCEPT !.req = x].partnerReq = None
         /\ [NoFrame EXCEPT !.req = x, !.pair = y].req = x
         /\ [NoFrame EXCEPT !.req = x, !.pair = y].partnerReq = None
         /\ [NoFrame EXCEPT !.req = x, !.room = y].req = x
         /\ [NoFrame EXCEPT !.req = x, !.room = y].partnerReq = None
         /\ [NoFrame EXCEPT !.req = x, !.answer = y].req = x
         /\ [NoFrame EXCEPT !.req = x, !.answer = y].partnerReq = None
BY DEF NoFrame

-----------------------------------------------------------------------------
(* The registry and the place of the goroutine change together: in Connect and
   in CleanUpRegistry, and nowhere else. *)
LEMMA RegistryStep ==
  ASSUME HandlersTypeOK, NEW c \in Client, ClientStep(c) \/ HandlerStep(c), Registered(c)
  PROVE  Registered(c)' /\ \A e \in Client \ {c} : e \in registry' <=> e \in registry
<1> USE DEF HandlersTypeOK, Goto, GotoWith, Answer, Return, Abort, Registered, Unregistered,
            sessionVars
<1>1. CASE ClientStep(c)
  BY <1>1 DEF ClientStep, Connect, Register, ReceiveFindPartner, ReceiveCancelSearch,
              ReceiveSendMessage, ReceiveInvalid, Receive, ReadFails
<1>2. CASE \/ FindPartnerWaits(c) \/ FindPartnerFails(c) \/ FindPartnerMatches(c)
           \/ CancelSearch(c) \/ CleanUpSearch(c) \/ CreateRoomFails(c) \/ CreateRoom(c)
  BY <1>2 DEF FindPartnerWaits, FindPartnerFails, FindPartnerMatches, CancelSearch,
              CleanUpSearch, CreateRoomFails, CreateRoom
<1>3. CASE Reply(c) \/ SendOwnError(c) \/ SendPartnerError(c)
  BY <1>3 DEF Reply, SendOwnError, SendPartnerError, Send, SendTo, handlerVars
<1>4. CASE SendPartnerMatch(c) \/ SendOwnMatch(c) \/ Deliver(c)
  BY <1>4 DEF SendPartnerMatch, SendOwnMatch, Deliver, Send, SendTo, handlerVars, Undelivered
<1>5. CASE \/ ClearFailedSearch(c) \/ ClearMatchedSearch(c) \/ GetPartner(c)
           \/ TakeRequest(c) \/ ClearCancelledRequest(c) \/ FindRoom(c)
           \/ GetRecipient(c)
  BY <1>5 DEF ClearFailedSearch, ClearMatchedSearch, GetPartner, TakeRequest,
              ClearCancelledRequest, FindRoom, GetRecipient, Undelivered
<1>6. CASE \/ CleanUp(c) \/ CleanUpRegistry(c) \/ CleanUpRequest(c) \/ FindOwnRoom(c)
  BY <1>6 DEF CleanUp, CleanUpRegistry, Unregister, CleanUpRequest, FindOwnRoom
<1>7. CASE CloseUndelivered(c) \/ CloseUnsent(c) \/ CloseUnavailable(c) \/ CloseOwnRoom(c)
  BY <1>7 DEF CloseUndelivered, CloseUnsent, CloseUnavailable, CloseOwnRoom, CloseRoom
<1>8. QED
  BY <1>1, <1>2, <1>3, <1>4, <1>5, <1>6, <1>7 DEF HandlerStep

-----------------------------------------------------------------------------
(* Taking an entry out of the queue takes its client out, and nobody else. *)
LEMMA RemovalIsLocal ==
  ASSUME QueueInv, NEW i \in DOMAIN queue, queue' = RemoveAt(queue, i),
         NEW c \in Client, queue[i].client = c
  PROVE  /\ QueuedAt(c)' = {}
         /\ \A e \in Client \ {c} : /\ QueuedAt(e) # {} => QueuedAt(e)' # {}
                                    /\ QueuedAt(e) = {} => QueuedAt(e)' = {}
<1>1. /\ queue \in Seq(WaitingUser) /\ queue' \in Seq(WaitingUser)
      /\ Len(queue') = Len(queue) - 1
      /\ \A j \in 1 .. Len(queue) - 1 : queue'[j] = queue[IF j < i THEN j ELSE j + 1]
  BY RemoveAtProperties DEF QueueInv, QueueTypeOK
<1>2. /\ Len(queue) \in Nat /\ i \in 1 .. Len(queue)
      /\ DOMAIN queue = 1 .. Len(queue) /\ DOMAIN queue' = 1 .. Len(queue) - 1
  BY <1>1
<1>3. ASSUME NEW j \in DOMAIN queue'
      PROVE  \E k \in DOMAIN queue \ {i} : queue'[j] = queue[k]
  <2>1. CASE j < i
    BY <1>1, <1>2, <2>1
  <2>2. CASE ~(j < i)
    BY <1>1, <1>2, <2>2
  <2>3. QED
    BY <2>1, <2>2
<1>4. ASSUME NEW k \in DOMAIN queue \ {i}
      PROVE  \E j \in DOMAIN queue' : queue'[j] = queue[k]
  <2>1. CASE k < i
    BY <1>1, <1>2, <2>1
  <2>2. CASE k > i
    <3>1. k - 1 \in DOMAIN queue' /\ ~(k - 1 < i) /\ (k - 1) + 1 = k
      BY <1>2, <2>2
    <3>2. queue'[k - 1] = queue[k]
      BY <1>1, <1>2, <3>1
    <3>3. QED
      BY <3>1, <3>2
  <2>3. QED
    BY <1>2, <2>1, <2>2
<1>5. \A k \in DOMAIN queue \ {i} : queue[k].client # c
  BY DEF QueueInv, OneSearchPerClient
<1>6. QED
  BY <1>3, <1>4, <1>5 DEF QueuedAt

(* RemoveFromQueue leaves its client nowhere in the queue. *)
LEMMA RemoveFromQueueEffect ==
  ASSUME QueueInv, NEW c \in Client, RemoveFromQueue(c)
  PROVE  /\ QueuedAt(c)' = {}
         /\ \A e \in Client \ {c} : /\ QueuedAt(e) # {} => QueuedAt(e)' # {}
                                    /\ QueuedAt(e) = {} => QueuedAt(e)' = {}
<1>1. CASE QueuedAt(c) = {} /\ UNCHANGED queue
  BY <1>1 DEF QueuedAt
<1>2. ASSUME NEW i \in QueuedAt(c), queue' = RemoveAt(queue, i)
      PROVE  /\ QueuedAt(c)' = {}
             /\ \A e \in Client \ {c} : /\ QueuedAt(e) # {} => QueuedAt(e)' # {}
                                        /\ QueuedAt(e) = {} => QueuedAt(e)' = {}
  <2>1. i \in DOMAIN queue /\ queue[i].client = c
    BY DEF QueuedAt
  <2>2. QED
    BY <1>2, <2>1, RemovalIsLocal
<1>3. QED
  BY <1>1, <1>2 DEF RemoveFromQueue

(* A search that is queued or stays queued is found there, and moves nobody. *)
LEMMA WaitingIsQueued ==
  ASSUME QueueInv, NEW wu \in WaitingUser, Enqueue(wu) \/ RepeatSearch(wu)
  PROVE  /\ QueuedAt(wu.client)' # {}
         /\ \A e \in Client \ {wu.client} : /\ QueuedAt(e) # {} => QueuedAt(e)' # {}
                                            /\ QueuedAt(e) = {} => QueuedAt(e)' = {}
<1>1. CASE RepeatSearch(wu)
  BY <1>1 DEF RepeatSearch, QueuedAt
<1>2. CASE Enqueue(wu)
  <2>1. /\ DOMAIN queue' = DOMAIN queue \cup {Len(queue) + 1}
        /\ \A i \in DOMAIN queue : queue'[i] = queue[i]
        /\ queue'[Len(queue) + 1] = wu
    BY <1>2 DEF Enqueue, QueueInv, QueueTypeOK
  <2>2. QED
    BY <2>1 DEF QueuedAt
<1>3. QED
  BY <1>1, <1>2

-----------------------------------------------------------------------------
Drawing == {"matched", "getPartner", "takeRequest"}

\* What a step of c leaves alone when it neither changes the queue nor draws.
Calm(c) ==
  /\ UNCHANGED queue
  /\ \A e \in Client \ {c} : searchRequestID'[e] = searchRequestID[e]
  /\ pc[c] \notin Drawing /\ pc'[c] # "offline"
  /\ pc'[c] \in Dequeued => pc[c] \in Dequeued
  /\ pc'[c] \notin Unsettled =>
       \/ searchRequestID'[c] = None
       \/ pc[c] \notin Unsettled /\ searchRequestID'[c] = searchRequestID[c]

(* Most steps are of that kind. *)
LEMMA CalmSteps ==
  ASSUME HandlersTypeOK, SessionsTypeOK, NEW c \in Client, ClientStep(c) \/ HandlerStep(c)
  PROVE  \/ Calm(c)
         \/ ClearMatchedSearch(c) \/ GetPartner(c) \/ TakeRequest(c)
         \/ FindPartnerWaits(c) \/ FindPartnerMatches(c) \/ CancelSearch(c)
         \/ CleanUpSearch(c)
<1> USE DEF HandlersTypeOK, SessionsTypeOK, Goto, GotoWith, Answer, Return, Abort, Calm,
            Drawing, Dequeued, Unsettled, LeftLabels, sessionVars
<1>1. CASE ClientStep(c)
  BY <1>1 DEF ClientStep, Connect, ReceiveFindPartner, ReceiveCancelSearch,
              ReceiveSendMessage, ReceiveInvalid, Receive, ReadFails, SetSearchRequestID
<1>2. CASE FindPartnerFails(c) \/ CreateRoomFails(c) \/ CreateRoom(c)
  BY <1>2 DEF FindPartnerFails, RejectOtherPair, CreateRoomFails, CreateRoom
<1>3. CASE Reply(c) \/ SendOwnError(c) \/ SendPartnerError(c)
  BY <1>3 DEF Reply, SendOwnError, SendPartnerError, Send, SendTo, handlerVars
<1>4. CASE SendPartnerMatch(c) \/ SendOwnMatch(c) \/ Deliver(c)
  BY <1>4 DEF SendPartnerMatch, SendOwnMatch, Deliver, Send, SendTo, handlerVars, Undelivered
<1>5. CASE ClearFailedSearch(c) \/ ClearCancelledRequest(c)
  BY <1>5 DEF ClearFailedSearch, ClearCancelledRequest, ClearSearchRequestID, SetSearchRequestID
<1>6. CASE FindRoom(c) \/ GetRecipient(c)
  BY <1>6 DEF FindRoom, GetRecipient, Undelivered
<1>7. CASE CleanUp(c) \/ CleanUpRegistry(c) \/ CleanUpRequest(c) \/ FindOwnRoom(c)
  BY <1>7 DEF CleanUp, CleanUpRegistry, CleanUpRequest, ClearSearchRequestID,
              SetSearchRequestID, FindOwnRoom
<1>8. CASE CloseUndelivered(c) \/ CloseUnsent(c) \/ CloseUnavailable(c) \/ CloseOwnRoom(c)
  BY <1>8 DEF CloseUndelivered, CloseUnsent, CloseUnavailable, CloseOwnRoom, CloseRoom
<1>9. QED
  BY <1>1, <1>2, <1>3, <1>4, <1>5, <1>6, <1>7, <1>8 DEF HandlerStep

(* They keep every claim. *)
LEMMA CalmKeepsClaims ==
  ASSUME NEW c \in Client, Others(c), Calm(c), \A e \in Client : SearchClaimed(e)
  PROVE  \A e \in Client : SearchClaimed(e)'
<1> SUFFICES ASSUME NEW e \in Client
             PROVE  SearchClaimed(e)'
  OBVIOUS
<1>1. SearchClaimed(e) /\ QueuedAt(e)' = QueuedAt(e)
  BY DEF Calm, QueuedAt
<1>2. \A d \in Client : HasDrawn(d, e) => HasDrawn(d, e)'
  BY DEF Calm, Drawing, HasDrawn, Others
<1>3. CASE e = c
  BY <1>1, <1>2, <1>3 DEF Calm, SearchClaimed
<1>4. CASE e # c
  BY <1>1, <1>2, <1>4 DEF Calm, SearchClaimed, Others
<1>5. QED
  BY <1>3, <1>4

(* The handler that has drawn a search keeps the claim until it has taken the id;
   it gives the claim up only for a partner that has left the registry. *)
LEMMA DrawingKeepsClaims ==
  ASSUME Inv, SearchInv, NEW c \in Client,
         ClearMatchedSearch(c) \/ GetPartner(c) \/ TakeRequest(c)
  PROVE  \A e \in Client : SearchClaimed(e)'
<1> USE DEF Goto, GotoWith, Answer, sessionVars
<1>a. /\ HandlersTypeOK /\ SessionsTypeOK /\ Others(c)
      /\ frame[c] \in Frame /\ frame[c].partner \in Client
  BY SearchSteps DEF StepOK, Inv, HandlersTypeOK, Control, ClearMatchedSearch, GetPartner,
                     TakeRequest, PartnerLabels
<1> SUFFICES ASSUME NEW e \in Client
             PROVE  SearchClaimed(e)'
  OBVIOUS
<1>1. /\ SearchClaimed(e) /\ QueuedAt(e)' = QueuedAt(e)
      /\ Registered(e)
  BY DEF SearchInv, ClearMatchedSearch, GetPartner, TakeRequest, QueuedAt
<1>2. pc'[c] \notin Unsettled /\ pc'[c] # "offline" /\ pc'[c] \notin Dequeued
  BY <1>a DEF ClearMatchedSearch, GetPartner, TakeRequest, Unsettled, LeftLabels, Dequeued,
              HandlersTypeOK
<1>3. \A d \in Client \ {c} : HasDrawn(d, e) => HasDrawn(d, e)'
  BY <1>a DEF HasDrawn, Others
<1>4. /\ searchRequestID'[e] \in {searchRequestID[e], None}
      /\ pc[c] = "matched" => searchRequestID'[c] = None
  BY <1>a DEF ClearMatchedSearch, GetPartner, TakeRequest, ClearSearchRequestID,
              SetSearchRequestID, SessionsTypeOK
<1>5. CASE e = frame[c].partner /\ GetPartner(c)
  <2>1. CASE e \in registry
    <3>1. HasDrawn(c, e)'
      BY <1>a, <1>5, <2>1 DEF GetPartner, HasDrawn, HandlersTypeOK
    <3>2. QED
      BY <1>1, <1>2, <1>4, <3>1, <1>a DEF SearchClaimed, Others
  <2>2. CASE e \notin registry
    <3>1. e # c /\ pc'[e] = pc[e] /\ pc[e] \in Unregistered
      BY <1>1, <1>5, <1>a, <2>2 DEF Registered, Others, GetPartner, Unregistered
    <3>2. QED
      BY <1>1, <1>4, <3>1 DEF SearchClaimed, Unregistered, Unsettled, LeftLabels
  <2>3. QED
    BY <2>1, <2>2
<1>6. CASE e = frame[c].partner /\ ClearMatchedSearch(c)
  <2>1. HasDrawn(c, e)'
    BY <1>a, <1>6 DEF ClearMatchedSearch, HasDrawn, HandlersTypeOK
  <2>2. QED
    BY <1>1, <1>2, <1>4, <2>1, <1>a DEF SearchClaimed, Others
<1>7. CASE e = frame[c].partner /\ TakeRequest(c)
  <2>1. searchRequestID'[e] = None
    BY <1>a, <1>7 DEF TakeRequest, ClearSearchRequestID, SetSearchRequestID, SessionsTypeOK
  <2>2. QED
    BY <1>1, <1>2, <2>1, <1>a DEF SearchClaimed, Others
<1>8. CASE e # frame[c].partner
  <2>1. \A d \in Client : HasDrawn(d, e) => HasDrawn(d, e)'
    BY <1>3, <1>8 DEF HasDrawn
  <2>2. CASE e = c
    <3>1. pc[c] = "matched" \/ pc[c] \notin Unsettled
      BY DEF ClearMatchedSearch, GetPartner, TakeRequest, Unsettled, LeftLabels
    <3>2. QED
      BY <1>1, <1>2, <1>4, <2>1, <2>2, <3>1 DEF SearchClaimed
  <2>3. CASE e # c
    BY <1>1, <1>4, <1>a, <2>1, <2>3 DEF SearchClaimed, Others
  <2>4. QED
    BY <2>2, <2>3
<1>9. QED
  BY <1>5, <1>6, <1>7, <1>8

(* A search that waits, a match, a cancellation and a clean-up change the queue
   and keep the claims: who leaves the queue by a match is drawn. *)
LEMMA QueueKeepsClaims ==
  ASSUME Inv, SearchInv, NEW c \in Client,
         FindPartnerWaits(c) \/ FindPartnerMatches(c) \/ CancelSearch(c) \/ CleanUpSearch(c)
  PROVE  \A e \in Client : SearchClaimed(e)'
<1> USE DEF Goto, GotoWith, Answer, sessionVars
<1>a. /\ HandlersTypeOK /\ QueueInv /\ Others(c) /\ UNCHANGED searchRequestID
      /\ \A e \in Client : SearchClaimed(e)
      /\ frame[c] \in Frame
  BY SearchSteps, MessageSteps, CleanUpSteps
  DEF StepOK, Inv, SearchInv, HandlersTypeOK, FindPartnerWaits, FindPartnerMatches,
      CancelSearch, CleanUpSearch
<1>b. \A d, e \in Client : d # c /\ HasDrawn(d, e) => HasDrawn(d, e)'
  BY <1>a DEF HasDrawn, Others
<1>c. \A e \in Client : ~HasDrawn(c, e)
  BY DEF HasDrawn, FindPartnerWaits, FindPartnerMatches, CancelSearch, CleanUpSearch
<1> SUFFICES ASSUME NEW e \in Client
             PROVE  SearchClaimed(e)'
  OBVIOUS
<1>d. \A d \in Client : HasDrawn(d, e) => HasDrawn(d, e)'
  BY <1>b, <1>c
<1>1. CASE FindPartnerWaits(c)
  <2>1. Search(c) \in WaitingUser /\ Search(c).client = c
    BY <1>1 DEF Inv, Control, FindPartnerWaits, Search, WaitingUser
  <2>2. Enqueue(Search(c)) \/ RepeatSearch(Search(c))
    BY <1>1 DEF FindPartnerWaits
  <2> DEFINE wu == Search(c)
  <2>3. /\ QueuedAt(c)' # {}
        /\ \A x \in Client \ {c} : /\ QueuedAt(x) # {} => QueuedAt(x)' # {}
                                   /\ QueuedAt(x) = {} => QueuedAt(x)' = {}
    <3>1. PICK wu1 \in WaitingUser : wu1 = Search(c)
      BY <2>1
    <3>2. wu1.client = c /\ (Enqueue(wu1) \/ RepeatSearch(wu1))
      BY <2>1, <2>2, <3>1
    <3>3. /\ QueuedAt(wu1.client)' # {}
          /\ \A x \in Client \ {wu1.client} : /\ QueuedAt(x) # {} => QueuedAt(x)' # {}
                                              /\ QueuedAt(x) = {} => QueuedAt(x)' = {}
      BY <1>a, <3>2, WaitingIsQueued
    <3>4. QED
      BY <3>2, <3>3
  <2>4. pc'[c] = "reply"
    BY <1>1, <1>a DEF FindPartnerWaits, HandlersTypeOK
  <2>5. QED
    BY <1>a, <1>d, <2>3, <2>4 DEF SearchClaimed, Others, Dequeued
<1>2. CASE FindPartnerMatches(c)
  <2>1. PICK partner \in Client :
          /\ TakePartner(Search(c), partner)
          /\ GotoWith(c, "matched", [frame[c] EXCEPT !.partner = partner])
    BY <1>2 DEF FindPartnerMatches
  <2>2. /\ QueuedAt(partner)' = {}
        /\ \A x \in Client \ {partner} : /\ QueuedAt(x) # {} => QueuedAt(x)' # {}
                                         /\ QueuedAt(x) = {} => QueuedAt(x)' = {}
    <3>1. PICK i \in DOMAIN queue : partner = queue[i].client /\ queue' = RemoveAt(queue, i)
      BY <2>1 DEF TakePartner, CompatibleAt
    <3>2. QED
      BY <1>a, <3>1, RemovalIsLocal
  <2>3. /\ pc'[c] = "matched" /\ HasDrawn(c, partner)'
    <3>1. [frame[c] EXCEPT !.partner = partner].partner = partner
      BY <1>a, FrameUpdates
    <3>2. QED
      BY <1>a, <2>1, <3>1 DEF HasDrawn, HandlersTypeOK
  <2>4. CASE e = partner
    BY <1>a, <2>2, <2>3, <2>4 DEF SearchClaimed, Others, Unsettled, Dequeued
  <2>5. CASE e # partner
    BY <1>a, <1>d, <2>2, <2>3, <2>5 DEF SearchClaimed, Others, Unsettled, Dequeued
  <2>6. QED
    BY <2>4, <2>5
<1>3. CASE CancelSearch(c) /\ UNCHANGED queue
  <2>1. pc'[c] \in {"reply", "clearRequest"} /\ pc[c] = "CancelSearch"
    BY <1>3, <1>a DEF CancelSearch, HandlersTypeOK
  <2>2. QueuedAt(e)' = QueuedAt(e)
    BY <1>3 DEF QueuedAt
  <2>3. QED
    BY <1>a, <1>d, <2>1, <2>2 DEF SearchClaimed, Others, Unsettled, Dequeued, LeftLabels
<1>4. CASE /\ CancelSearch(c) \/ CleanUpSearch(c)
           /\ RemoveFromQueue(c)
           /\ pc'[c] \in {"clearRequest", "findOwnRoom"}
  BY <1>a, <1>d, <1>4, RemoveFromQueueEffect
  DEF SearchClaimed, Others, Unsettled, Dequeued, LeftLabels
<1>5. QED
  BY <1>a, <1>1, <1>2, <1>3, <1>4 DEF CancelSearch, CleanUpSearch, HandlersTypeOK

(* Every step of a goroutine keeps the claims. *)
LEMMA GoroutineKeepsClaims ==
  ASSUME Inv, SearchInv, NEW c \in Client, ClientStep(c) \/ HandlerStep(c)
  PROVE  \A e \in Client : SearchClaimed(e)'
<1>1. /\ HandlersTypeOK /\ SessionsTypeOK /\ Others(c) /\ \A e \in Client : SearchClaimed(e)
  BY GoroutineOK DEF Inv, SearchInv, StepOK
<1>2. QED
  BY <1>1, CalmSteps, CalmKeepsClaims, DrawingKeepsClaims, QueueKeepsClaims

-----------------------------------------------------------------------------
\* What a step of c does to the ids its handler holds: nothing, unless no taken
\* id is held; takes the drawn partner's; drops them; or starts with a new one.
Keeps(c) ==
  /\ frame'[c].req = frame[c].req /\ frame'[c].partnerReq = frame[c].partnerReq
  /\ frame[c].partnerReq # None => frame'[c].partner = frame[c].partner

Takes(c) ==
  /\ frame[c].partner \in Client /\ searchRequestID[frame[c].partner] # None
  /\ frame'[c].req = frame[c].req /\ frame'[c].partner = frame[c].partner
  /\ frame'[c].partnerReq = searchRequestID[frame[c].partner]
  /\ searchRequestID' = [searchRequestID EXCEPT ![frame[c].partner] = None]

Drops(c) == frame'[c].req = None /\ frame'[c].partnerReq = None

Starts(c) ==
  /\ frame'[c].req \in {NewRequest(c), None} /\ frame'[c].partnerReq = None
  /\ received' = [received EXCEPT ![c] = @ + 1]

\* What a step does to the ids the sessions offer.
Offers(c) ==
  \/ UNCHANGED searchRequestID
  \/ \E t \in Client : searchRequestID' = [searchRequestID EXCEPT ![t] = None]
  \/ Starts(c) /\ searchRequestID' = [searchRequestID EXCEPT ![c] = NewRequest(c)]

IDStep(c) ==
  /\ \/ UNCHANGED received /\ (Keeps(c) \/ Takes(c) \/ Drops(c))
     \/ Starts(c)
  /\ Offers(c)
  /\ pc'[c] \in {"FindPartner", "findRoom"} => frame'[c].partnerReq = None

(* The messages of a client. *)
LEMMA ClientIDs ==
  ASSUME HandlersTypeOK, HistoryTypeOK, NEW c \in Client, ClientStep(c)
  PROVE  IDStep(c)
<1> USE DEF HandlersTypeOK, Goto, GotoWith, IDStep, Starts, Keeps, Offers
<1>1. CASE Connect(c) \/ ReadFails(c)
  BY <1>1 DEF Connect, ReadFails
<1>2. ASSUME NEW pair \in LanguagePair, ReceiveFindPartner(c, pair)
      PROVE  IDStep(c)
  BY <1>2, NoFrameIds DEF ReceiveFindPartner, Receive, SetSearchRequestID
<1>3. CASE ReceiveCancelSearch(c)
  BY <1>3, NoFrameIds DEF ReceiveCancelSearch, Receive
<1>4. ASSUME NEW r, ReceiveSendMessage(c, r)
      PROVE  IDStep(c)
  BY <1>4, NoFrameIds DEF ReceiveSendMessage, Receive
<1>5. CASE ReceiveInvalid(c)
  BY <1>5, NoFrameIds DEF ReceiveInvalid, Receive
<1>6. QED
  BY <1>1, <1>2, <1>3, <1>4, <1>5 DEF ClientStep

(* Going on, answering and returning neither take an id nor make one up. *)
LEMMA GotoKeeps ==
  ASSUME HandlersTypeOK, NEW c \in Client, NEW label, Goto(c, label)
  PROVE  Keeps(c) /\ pc'[c] = label
BY DEF HandlersTypeOK, Goto, Keeps

(* The same for an answer. *)
LEMMA AnswerKeeps ==
  ASSUME HandlersTypeOK, NEW c \in Client, NEW type, Answer(c, type)
  PROVE  Keeps(c) /\ pc'[c] = "reply"
<1>1. frame[c] \in Frame
  BY DEF HandlersTypeOK
<1> DEFINE f == [frame[c] EXCEPT !.answer = type]
<1>2. f.req = frame[c].req /\ f.partner = frame[c].partner /\ f.partnerReq = frame[c].partnerReq
  BY <1>1, FrameIds
<1>3. pc'[c] = "reply" /\ frame'[c] = f
  BY DEF HandlersTypeOK, Answer, GotoWith
<1> HIDE DEF f
<1>4. QED
  BY <1>2, <1>3 DEF Keeps

(* A handler that returns drops the ids it holds. *)
LEMMA ReturnDrops ==
  ASSUME HandlersTypeOK, NEW c \in Client, Return(c) \/ Abort(c)
  PROVE  Drops(c) /\ pc'[c] \in {"read", "cleanUp"}
BY NoFrameIds DEF HandlersTypeOK, Return, Abort, GotoWith, Drops

(* A handler that sets the partner, the room or the saved error keeps its ids:
   when it sets the partner it holds no taken id. *)
LEMMA LocalsKept ==
  ASSUME HandlersTypeOK, NEW c \in Client, NEW label, NEW x,
         \/ GotoWith(c, label, [frame[c] EXCEPT !.room = x])
         \/ GotoWith(c, label, [frame[c] EXCEPT !.failed = x])
         \/ /\ GotoWith(c, label, [frame[c] EXCEPT !.partner = x])
            /\ frame[c].partnerReq = None
  PROVE  Keeps(c) /\ pc'[c] = label
<1>1. frame[c] \in Frame
  BY DEF HandlersTypeOK
<1>2. ASSUME NEW f, GotoWith(c, label, f),
             f.req = frame[c].req, f.partnerReq = frame[c].partnerReq,
             frame[c].partnerReq # None => f.partner = frame[c].partner
      PROVE  Keeps(c) /\ pc'[c] = label
  <2>1. pc'[c] = label /\ frame'[c] = f
    BY <1>2 DEF HandlersTypeOK, GotoWith
  <2>2. QED
    BY <1>2, <2>1 DEF Keeps
<1> DEFINE r == [frame[c] EXCEPT !.room = x]
           e == [frame[c] EXCEPT !.failed = x]
           p == [frame[c] EXCEPT !.partner = x]
<1>3. /\ r.req = frame[c].req /\ r.partnerReq = frame[c].partnerReq
      /\ r.partner = frame[c].partner
      /\ e.req = frame[c].req /\ e.partnerReq = frame[c].partnerReq
      /\ e.partner = frame[c].partner
      /\ p.req = frame[c].req /\ p.partnerReq = frame[c].partnerReq
  BY <1>1, FrameIds
<1>4. \/ GotoWith(c, label, r) \/ GotoWith(c, label, e)
      \/ GotoWith(c, label, p) /\ frame[c].partnerReq = None
  OBVIOUS
<1> HIDE DEF r, e, p
<1>5. QED
  BY <1>2, <1>3, <1>4

(* The sends. *)
LEMMA SendIDs ==
  ASSUME Inv, NEW c \in Client,
         \/ Reply(c) \/ SendOwnError(c) \/ SendPartnerError(c)
         \/ SendPartnerMatch(c) \/ SendOwnMatch(c) \/ Deliver(c)
  PROVE  IDStep(c)
<1>a. HandlersTypeOK /\ UNCHANGED <<searchRequestID, received>>
  BY SendEffects DEF Inv
<1>b. pc[c] \in SendLabels
  BY DEF Reply, SendOwnError, SendPartnerError, SendPartnerMatch, SendOwnMatch, Deliver,
         SendLabels
<1>1. \/ UNCHANGED <<pc, frame>>
      \/ Return(c) \/ Abort(c)
      \/ \E label \in Label \ {"FindPartner", "findRoom"} :
           \/ Goto(c, label)
           \/ GotoWith(c, label, [frame[c] EXCEPT !.failed = TRUE])
      \/ Answer(c, "error")
  BY DEF Reply, SendOwnError, SendPartnerError, SendPartnerMatch, SendOwnMatch, Deliver,
         Send, SendTo, Undelivered, Label, handlerVars
<1>2. CASE UNCHANGED <<pc, frame>>
  BY <1>a, <1>b, <1>2 DEF IDStep, Keeps, Offers, SendLabels
<1>3. QED
  BY <1>a, <1>1, <1>2, ReturnDrops, GotoKeeps, LocalsKept, AnswerKeeps DEF IDStep, Offers

(* The other steps of a handler. *)
LEMMA HandlerIDs ==
  ASSUME Inv, NEW c \in Client, KnownRequests(c), HandlerStep(c)
  PROVE  IDStep(c)
<1> USE DEF IDStep, Offers, sessionVars, historyVars
<1>a. /\ HandlersTypeOK
      /\ pc[c] \in {"FindPartner", "findRoom"} => frame[c].partnerReq = None
  BY DEF Inv, KnownRequests
<1>1. CASE FindPartnerWaits(c) \/ FindPartnerFails(c) \/ CreateRoomFails(c)
  BY <1>1, <1>a, AnswerKeeps, GotoKeeps
  DEF FindPartnerWaits, FindPartnerFails, CreateRoomFails
<1>2. CASE FindPartnerMatches(c) \/ CreateRoom(c)
  <2>1. UNCHANGED <<searchRequestID, received>>
    BY <1>2 DEF FindPartnerMatches, CreateRoom
  <2>2. PICK x : \/ /\ pc[c] = "FindPartner"
                    /\ GotoWith(c, "matched", [frame[c] EXCEPT !.partner = x])
                 \/ GotoWith(c, "sendPartnerMatch", [frame[c] EXCEPT !.room = x])
    BY <1>2 DEF FindPartnerMatches, CreateRoom
  <2>3. Keeps(c) /\ pc'[c] \in {"matched", "sendPartnerMatch"}
    BY <1>a, <2>2, LocalsKept
  <2>4. QED
    BY <2>1, <2>3
<1>3. CASE \/ ClearFailedSearch(c) \/ ClearMatchedSearch(c) \/ ClearCancelledRequest(c)
           \/ CleanUpRequest(c)
  BY <1>3, <1>a, AnswerKeeps, GotoKeeps
  DEF ClearFailedSearch, ClearMatchedSearch, ClearCancelledRequest, CleanUpRequest,
      ClearSearchRequestID, SetSearchRequestID
<1>4. CASE GetPartner(c) \/ CancelSearch(c) \/ GetRecipient(c)
  BY <1>4, <1>a, AnswerKeeps, GotoKeeps DEF GetPartner, CancelSearch, GetRecipient, Undelivered
<1>5. CASE FindRoom(c)
  <2>1. UNCHANGED <<searchRequestID, received>> /\ pc[c] = "findRoom"
    BY <1>5 DEF FindRoom
  <2>2. \/ Answer(c, "error")
        \/ \E x : GotoWith(c, "getRecipient", [frame[c] EXCEPT !.partner = x])
    BY <1>5 DEF FindRoom
  <2>3. Keeps(c) /\ pc'[c] \in {"reply", "getRecipient"}
    BY <1>a, <2>1, <2>2, AnswerKeeps, LocalsKept
  <2>4. QED
    BY <2>1, <2>3
<1>6. CASE TakeRequest(c)
  <2> DEFINE p == frame[c].partner
             f == [frame[c] EXCEPT !.partnerReq = searchRequestID[p]]
  <2>1. /\ p \in Client /\ UNCHANGED received
        /\ searchRequestID' = [searchRequestID EXCEPT ![p] = None]
    BY <1>6 DEF TakeRequest, Inv, Control, PartnerLabels, ClearSearchRequestID,
                SetSearchRequestID
  <2>2. CASE Answer(c, "error")
    BY <2>1, <2>2, <1>a, AnswerKeeps
  <2>3. CASE searchRequestID[p] # None /\ GotoWith(c, "CreateRoom", f)
    <3>1. f.req = frame[c].req /\ f.partner = p /\ f.partnerReq = searchRequestID[p]
      BY <1>a, FrameIds DEF HandlersTypeOK
    <3> HIDE DEF f
    <3>2. pc'[c] = "CreateRoom" /\ frame'[c] = f
      BY <1>a, <2>3 DEF HandlersTypeOK, GotoWith
    <3>3. Takes(c)
      BY <2>1, <2>3, <3>1, <3>2 DEF Takes
    <3>4. QED
      BY <2>1, <3>2, <3>3
  <2>4. QED
    BY <1>6, <2>2, <2>3 DEF TakeRequest
<1>7. CASE CloseUndelivered(c) \/ CloseUnsent(c) \/ CloseUnavailable(c)
  BY <1>7, <1>a, AnswerKeeps, ReturnDrops
  DEF CloseUndelivered, CloseUnsent, CloseUnavailable, CloseRoom
<1>8. CASE CleanUp(c) \/ CleanUpRegistry(c) \/ CleanUpSearch(c)
  BY <1>8, <1>a, GotoKeeps DEF CleanUp, CleanUpRegistry, CleanUpSearch
<1>9. CASE FindOwnRoom(c) \/ CloseOwnRoom(c)
  <2>1. UNCHANGED <<searchRequestID, received>>
    BY <1>9 DEF FindOwnRoom, CloseOwnRoom, CloseRoom
  <2>2. CASE Goto(c, "gone")
    BY <1>a, <2>1, <2>2, GotoKeeps
  <2>3. CASE ~Goto(c, "gone")
    BY <1>9, <1>a, <2>1, <2>3, NoFrameIds
    DEF FindOwnRoom, CloseOwnRoom, GotoWith, Drops, HandlersTypeOK
  <2>4. QED
    BY <2>2, <2>3
<1>10. QED
  BY <1>1, <1>2, <1>3, <1>4, <1>5, <1>6, <1>7, <1>8, <1>9, SendIDs DEF HandlerStep

(* Ids are handed over, never copied: each stays where its client's messages have
   put it, and a taken one is in one place. *)
LEMMA IDsKept ==
  ASSUME Inv, SearchInv, NEW c \in Client, Others(c), IDStep(c)
  PROVE  OneMatcherPerRequest' /\ \A e \in Client : KnownRequests(e)'
<1>a. /\ \A e \in Client : KnownRequests(e)
      /\ HistoryTypeOK /\ SessionsTypeOK
      /\ \A e \in Client \ {c} : pc'[e] = pc[e] /\ frame'[e] = frame[e]
  BY DEF SearchInv, Inv, Others
<1>b. \A e \in Client : \A id \in RequestsOf(e) : id[1] = e
  BY <1>a, RequestsOfClient
<1>1. \A e \in Client : RequestsOf(e) \subseteq RequestsOf(e)'
  <2>1. \A e \in Client : received[e] \in Nat /\ received'[e] \in {received[e], received[e] + 1}
    BY <1>a, RequestsOfClient DEF IDStep, Starts, HistoryTypeOK
  <2>2. QED
    BY <2>1 DEF RequestsOf
<1>2. Starts(c) => NewRequest(c) \in RequestsOf(c)' /\ NewRequest(c) \notin RequestsOf(c)
  <2>1. Starts(c) => received'[c] = received[c] + 1 /\ received[c] \in Nat
    BY <1>a, RequestsOfClient DEF Starts, HistoryTypeOK
  <2>2. Starts(c) => NewRequest(c) \in {c} \X (1 .. received'[c])
    BY <2>1 DEF NewRequest
  <2>3. QED
    BY <1>a, <2>2, RequestsOfClient DEF RequestsOf
<1>3. \A e \in Client :
        \/ searchRequestID'[e] \in {searchRequestID[e], None}
        \/ e = c /\ Starts(c) /\ searchRequestID'[e] = NewRequest(c)
  BY <1>a DEF IDStep, Offers, SessionsTypeOK
<1>4. ASSUME NEW e \in Client
      PROVE  KnownRequests(e)'
  <2>1. searchRequestID'[e] # None => searchRequestID'[e] \in RequestsOf(e)'
    BY <1>a, <1>1, <1>2, <1>3 DEF KnownRequests
  <2>2. CASE e # c
    BY <1>a, <1>1, <2>1, <2>2 DEF KnownRequests
  <2>3. CASE e = c
    <3>1. frame'[c].req # None => frame'[c].req \in RequestsOf(c)'
      BY <1>a, <1>1, <1>2 DEF KnownRequests, IDStep, Keeps, Takes, Drops, Starts
    <3>2. frame'[c].partnerReq # None =>
            /\ frame'[c].partner \in Client
            /\ frame'[c].partnerReq \in RequestsOf(frame'[c].partner)
      BY <1>a DEF KnownRequests, IDStep, Keeps, Takes, Drops, Starts
    <3>3. QED
      BY <1>1, <2>1, <2>3, <3>1, <3>2 DEF KnownRequests, IDStep, RequestsOf
  <2>4. QED
    BY <2>2, <2>3
<1>5. OneMatcherPerRequest'
  <2>1. \A d \in Client \ {c} : frame'[d].partnerReq = frame[d].partnerReq
    BY <1>a
  <2>2. \A d \in Client : frame[d].partnerReq # None =>
          /\ \A e \in Client : frame[e].partnerReq = frame[d].partnerReq => d = e
          /\ \A e \in Client : searchRequestID[e] # frame[d].partnerReq
    BY DEF SearchInv, OneMatcherPerRequest
  <2>3. ASSUME NEW d \in Client, frame[d].partnerReq # None
        PROVE  frame[d].partnerReq # NewRequest(c)
    <3>1. /\ frame[d].partner \in Client
          /\ frame[d].partnerReq \in RequestsOf(frame[d].partner)
      BY <1>a, <2>3 DEF KnownRequests
    <3>2. NewRequest(c)[1] = c /\ NewRequest(c) \notin RequestsOf(c)
      BY <1>a, RequestsOfClient DEF NewRequest
    <3>3. QED
      BY <1>b, <3>1, <3>2
  <2>4. CASE Takes(c)
    <3> DEFINE p == frame[c].partner
               taken == searchRequestID[p]
    <3>1. /\ p \in Client /\ taken # None /\ frame'[c].partnerReq = taken
          /\ searchRequestID' = [searchRequestID EXCEPT ![p] = None]
      BY <2>4 DEF Takes
    <3>2. ASSUME NEW x \in Client
          PROVE  searchRequestID'[x] # taken
      <4>1. CASE x = p
        BY <1>a, <3>1, <4>1 DEF SessionsTypeOK
      <4>2. CASE x # p
        <5>1. searchRequestID'[x] = searchRequestID[x] /\ taken \in RequestsOf(p)
          BY <1>a, <3>1, <4>2 DEF KnownRequests
        <5>2. searchRequestID[x] = taken => taken \in RequestsOf(x)
          BY <1>a, <3>1 DEF KnownRequests
        <5>3. QED
          BY <1>b, <3>1, <4>2, <5>1, <5>2
      <4>3. QED
        BY <4>1, <4>2
    <3>3. \A d \in Client : frame[d].partnerReq # taken
      BY <2>2, <3>1
    <3>4. \A x \in Client : searchRequestID'[x] \in {searchRequestID[x], None}
      BY <1>a, <3>1 DEF SessionsTypeOK
    <3> HIDE DEF p, taken
    <3>5. QED
      BY <2>1, <2>2, <3>1, <3>2, <3>3, <3>4 DEF OneMatcherPerRequest
  <2>5. CASE ~Takes(c)
    <3>1. \A d \in Client : frame'[d].partnerReq \in {frame[d].partnerReq, None}
      BY <2>1, <2>5 DEF IDStep, Keeps, Drops, Starts
    <3>2. \A x \in Client : \/ searchRequestID'[x] \in {searchRequestID[x], None}
                            \/ searchRequestID'[x] = NewRequest(c)
      BY <1>3
    <3>3. QED
      BY <2>2, <2>3, <3>1, <3>2 DEF OneMatcherPerRequest
  <2>6. QED
    BY <2>4, <2>5
<1>6. QED
  BY <1>4, <1>5

-----------------------------------------------------------------------------
\* What a step does to the channels: nothing, or one message for its reader.
Posts ==
  \/ UNCHANGED outbound
  \/ \E t \in Client, m \in Message :
       /\ m.req # None => m.req[1] = t
       /\ outbound' = [outbound EXCEPT ![t] = Append(@, m)]

(* A send under an id of the receiver, or under none. *)
LEMMA SendPost ==
  ASSUME NEW c \in Client, NEW t \in Client, NEW by,
         NEW type \in MessageType, NEW req \in RequestID \cup {None},
         NEW room \in RoomID \cup {None}, req # None => req[1] = t,
         NEW ACTION OnSent, NEW ACTION OnFailed,
         SendTo(c, t, by, type, req, room, OnSent, OnFailed)
  PROVE  Posts
<1> DEFINE m == [type |-> type, req |-> req, room |-> room]
<1>1. UNCHANGED outbound \/ outbound' = [outbound EXCEPT ![t] = Append(@, m)]
  BY DEF SendTo, BeginSend, EndSend, FailSend
<1>2. m \in Message /\ m.req = req
  BY DEF Message
<1> HIDE DEF m
<1>3. QED
  BY <1>1, <1>2 DEF Posts

(* A handler sends its own request's id to its own client and the taken one to
   the partner; a message of the chat has none. *)
LEMMA SendPosts ==
  ASSUME Inv, \A e \in Client : KnownRequests(e), NEW c \in Client,
         \/ Reply(c) \/ SendOwnError(c) \/ SendPartnerError(c)
         \/ SendPartnerMatch(c) \/ SendOwnMatch(c) \/ Deliver(c)
  PROVE  Posts
<1>a. /\ Control(c) /\ HistoryTypeOK
      /\ frame[c].req \in RequestID \cup {None} /\ frame[c].partnerReq \in RequestID \cup {None}
      /\ {"error", "match_found", "receive_message"} \subseteq MessageType
      /\ None \in RequestID \cup {None} /\ None \in RoomID \cup {None}
  BY DEF Inv, HandlersTypeOK, Frame, MessageType
<1>b. frame[c].req # None => frame[c].req[1] = c
  BY <1>a, RequestsOfClient DEF KnownRequests
<1>c. frame[c].partnerReq # None => frame[c].partnerReq[1] = frame[c].partner
  BY <1>a, RequestsOfClient DEF KnownRequests
<1>1. CASE Reply(c)
  <2>1. frame[c].answer \in MessageType
    BY <1>1, <1>a DEF Reply, Control
  <2>2. QED
    BY <1>1, <1>a, <1>b, <2>1, SendPost DEF Reply, Send
<1>2. CASE SendOwnError(c)
  BY <1>2, <1>a, <1>b, SendPost DEF SendOwnError, Send
<1>3. CASE SendPartnerError(c)
  <2>1. frame[c].partner \in Client
    BY <1>3, <1>a DEF SendPartnerError, Control, PartnerLabels
  <2>2. QED
    BY <1>3, <1>a, <1>c, <2>1, SendPost DEF SendPartnerError, Send
<1>4. CASE SendPartnerMatch(c) \/ SendOwnMatch(c) \/ Deliver(c)
  <2>1. frame[c].room \in RoomID \cup {None} /\ frame[c].partner \in Client
    BY <1>4, <1>a DEF SendPartnerMatch, SendOwnMatch, Deliver, Control, RoomLabels
  <2>2. CASE SendPartnerMatch(c)
    BY <2>2, <1>a, <1>c, <2>1, SendPost DEF SendPartnerMatch, Send
  <2>3. CASE SendOwnMatch(c)
    BY <2>3, <1>a, <1>b, <2>1, SendPost DEF SendOwnMatch, Send
  <2>4. CASE Deliver(c)
    BY <2>4, <1>a, <2>1, SendPost DEF Deliver
  <2>5. QED
    BY <1>4, <2>2, <2>3, <2>4
<1>5. QED
  BY <1>1, <1>2, <1>3, <1>4

(* Only sends touch a channel. *)
LEMMA GoroutinePosts ==
  ASSUME Inv, SearchInv, NEW c \in Client, ClientStep(c) \/ HandlerStep(c)
  PROVE  Posts
<1> USE DEF Posts, sessionVars
<1>1. CASE ClientStep(c)
  BY <1>1, ClientEffects
<1>2. CASE \/ Reply(c) \/ SendOwnError(c) \/ SendPartnerError(c)
           \/ SendPartnerMatch(c) \/ SendOwnMatch(c) \/ Deliver(c)
  BY <1>2, SendPosts DEF SearchInv
<1>3. CASE \/ FindPartnerWaits(c) \/ FindPartnerFails(c) \/ FindPartnerMatches(c)
           \/ GetPartner(c) \/ CreateRoomFails(c) \/ CreateRoom(c) \/ CancelSearch(c)
           \/ FindRoom(c) \/ GetRecipient(c) \/ CleanUpSearch(c) \/ FindOwnRoom(c)
           \/ CloseUndelivered(c) \/ CloseUnsent(c) \/ CloseUnavailable(c) \/ CloseOwnRoom(c)
  BY <1>3 DEF FindPartnerWaits, FindPartnerFails, FindPartnerMatches, GetPartner,
              CreateRoomFails, CreateRoom, CancelSearch, FindRoom, GetRecipient,
              CleanUpSearch, FindOwnRoom, CloseUndelivered, CloseUnsent,
              CloseUnavailable, CloseOwnRoom, CloseRoom
<1>4. CASE \/ ClearFailedSearch(c) \/ ClearMatchedSearch(c) \/ ClearCancelledRequest(c)
           \/ TakeRequest(c) \/ CleanUp(c) \/ CleanUpRegistry(c) \/ CleanUpRequest(c)
  BY <1>4 DEF ClearFailedSearch, ClearMatchedSearch, ClearCancelledRequest, TakeRequest,
              CleanUp, CleanUpRegistry, CleanUpRequest
<1>5. QED
  BY <1>1, <1>2, <1>3, <1>4 DEF HandlerStep

(* Such a message, and a message read, leave only own ids in the channels. *)
LEMMA OwnRequestIDKept ==
  ASSUME SessionsTypeOK, OwnRequestID,
         \/ Posts
         \/ \E t \in Client : outbound[t] # <<>> /\ outbound' = [outbound EXCEPT ![t] = Tail(@)]
  PROVE  OwnRequestID'
<1>a. outbound \in [Client -> Seq(Message)]
  BY DEF SessionsTypeOK
<1>1. CASE UNCHANGED outbound
  BY <1>1 DEF OwnRequestID
<1>2. ASSUME NEW t \in Client, NEW m \in Message, m.req # None => m.req[1] = t,
             outbound' = [outbound EXCEPT ![t] = Append(@, m)]
      PROVE  OwnRequestID'
  <2>1. /\ outbound'[t] = Append(outbound[t], m) /\ outbound[t] \in Seq(Message)
        /\ \A c \in Client \ {t} : outbound'[c] = outbound[c]
    BY <1>a, <1>2
  <2>2. /\ DOMAIN outbound'[t] = DOMAIN outbound[t] \cup {Len(outbound[t]) + 1}
        /\ \A i \in DOMAIN outbound[t] : outbound'[t][i] = outbound[t][i]
        /\ outbound'[t][Len(outbound[t]) + 1] = m
    BY <2>1
  <2>3. QED
    BY <1>2, <2>1, <2>2 DEF OwnRequestID
<1>3. ASSUME NEW t \in Client, outbound[t] # <<>>,
             outbound' = [outbound EXCEPT ![t] = Tail(@)]
      PROVE  OwnRequestID'
  <2>1. /\ outbound'[t] = Tail(outbound[t]) /\ outbound[t] \in Seq(Message)
        /\ \A c \in Client \ {t} : outbound'[c] = outbound[c]
    BY <1>a, <1>3
  <2> DEFINE old == outbound[t]
             new == outbound'[t]
  <2>2. old \in Seq(Message) /\ old # <<>> /\ new = Tail(old)
    BY <1>3, <2>1
  <2> HIDE DEF old, new
  <2>3. /\ Len(old) \in Nat \ {0} /\ Len(new) = Len(old) - 1
        /\ \A i \in DOMAIN new : i + 1 \in DOMAIN old /\ new[i] = old[i + 1]
    BY <2>2
  <2>4. ASSUME NEW c \in Client, NEW i \in DOMAIN outbound'[c],
               outbound'[c][i].req # None
        PROVE  outbound'[c][i].req[1] = c
    <3>1. CASE c = t
      BY <2>3, <2>4, <3>1 DEF OwnRequestID, old, new
    <3>2. CASE c # t
      BY <2>1, <2>4, <3>2 DEF OwnRequestID
    <3>3. QED
      BY <3>1, <3>2
  <2>5. QED
    BY <2>4 DEF OwnRequestID
<1>4. QED
  BY <1>1, <1>2, <1>3 DEF Posts

-----------------------------------------------------------------------------
(* Nobody is connected at the start. *)
LEMMA InitSearchInv == Init => SearchInv
<1> SUFFICES ASSUME Init
             PROVE  SearchInv
  OBVIOUS
<1>1. OwnRequestID /\ OneMatcherPerRequest
  BY NoFrameIds DEF Init, SessionsInit, OwnRequestID, OneMatcherPerRequest
<1>2. ASSUME NEW c \in Client
      PROVE  KnownRequests(c) /\ Registered(c) /\ SearchClaimed(c)
  BY NoFrameIds DEF Init, SessionsInit, QueueInit, KnownRequests, Registered, SearchClaimed,
                    Unregistered, Dequeued, QueuedAt
<1>3. QED
  BY <1>1, <1>2 DEF SearchInv

(* Every step of a goroutine keeps the invariant. *)
LEMMA GoroutineKeepsSearches ==
  ASSUME Inv, SearchInv, NEW c \in Client, ClientStep(c) \/ HandlerStep(c)
  PROVE  SearchInv'
<1>1. /\ HandlersTypeOK /\ HistoryTypeOK /\ SessionsTypeOK /\ Others(c)
      /\ OwnRequestID /\ \A e \in Client : KnownRequests(e) /\ Registered(e)
  BY GoroutineOK DEF Inv, SearchInv, StepOK
<1>2. \A e \in Client : SearchClaimed(e)'
  BY GoroutineKeepsClaims
<1>3. \A e \in Client : Registered(e)'
  BY <1>1, RegistryStep DEF Registered, Others
<1>4. OneMatcherPerRequest' /\ \A e \in Client : KnownRequests(e)'
  BY <1>1, ClientIDs, HandlerIDs, IDsKept
<1>5. OwnRequestID'
  BY <1>1, GoroutinePosts, OwnRequestIDKept
<1>6. QED
  BY <1>2, <1>3, <1>4, <1>5 DEF SearchInv

(* So does every step of the server. *)
LEMMA NextSearchInv == Inv /\ SearchInv /\ [Next]_vars => SearchInv'
<1> SUFFICES ASSUME Inv, SearchInv, [Next]_vars
             PROVE  SearchInv'
  OBVIOUS
<1> USE DEF SearchInv, OneMatcherPerRequest, KnownRequests, RequestsOf, Registered,
            SearchClaimed, QueuedAt, HasDrawn
<1>1. CASE UNCHANGED vars
  BY <1>1 DEF vars, OwnRequestID
<1>2. ASSUME NEW c \in Client, WriterStep(c)
      PROVE  SearchInv'
  <2>1. /\ SessionsTypeOK /\ OwnRequestID
        /\ UNCHANGED <<queue, registry, searchRequestID, pc, frame, received>>
        /\ outbound[c] # <<>> /\ outbound' = [outbound EXCEPT ![c] = Tail(@)]
    BY <1>2 DEF Inv, WriterStep, WriteNext, WriteFails, Writable, handlerVars, historyVars
  <2>2. OwnRequestID'
    BY <2>1, OwnRequestIDKept
  <2>3. QED
    BY <2>1, <2>2
<1>3. QED
  BY <1>1, <1>2, GoroutineKeepsSearches DEF Next, Terminated

(* The invariant of the searches holds in every state the server can reach. *)
THEOREM ServerSearchInv == Spec => []SearchInv
BY InitSearchInv, NextSearchInv, ServerInv, PTL DEF Spec

(* An idle client whose session offers a search's id is in the queue or drawn by
   a handler that will take that id. *)
THEOREM SearchNotForgottenAlways == Spec => []SearchNotForgotten
<1>1. SearchInv => SearchNotForgotten
  BY DEF SearchInv, SearchClaimed, SearchNotForgotten, Unsettled, LeftLabels
<1>2. QED
  BY <1>1, ServerSearchInv, PTL

(* A request id is held by one match at most, and by none while it is offered. *)
THEOREM OneMatcherAlways == Spec => []OneMatcherPerRequest
<1>1. SearchInv => OneMatcherPerRequest
  BY DEF SearchInv
<1>2. QED
  BY <1>1, ServerSearchInv, PTL

(* Every answer carries an id of the client that reads it. *)
THEOREM OwnRequestIDAlways == Spec => []OwnRequestID
<1>1. SearchInv => OwnRequestID
  BY DEF SearchInv
<1>2. QED
  BY <1>1, ServerSearchInv, PTL

(* A client that has gone is in neither the registry nor the queue. *)
THEOREM GoneLeavesNothingAlways == Spec => []GoneLeavesNothing
<1>1. SearchInv => GoneLeavesNothing
  BY DEF SearchInv, Registered, SearchClaimed, GoneLeavesNothing, Unregistered, Dequeued
<1>2. QED
  BY <1>1, ServerSearchInv, PTL
=============================================================================
