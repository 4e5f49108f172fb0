------------------------ MODULE RedisRepositoryProofs ------------------------
(***************************************************************************)
(* The calls of the Redis repository, for any clients, step limit, TTLs,   *)
(* resends and late requests.                                              *)
(***************************************************************************)
EXTENDS RedisRepository, RedisQueueProofs

(* The partner read back from an answer is the one the script wrote into it: a
   queue key spells a pair in order. *)
LEMMA AnswerSpellsPartner ==
  ASSUME NEW u \in WaitingUser
  PROVE  /\ Result(MatchedState(u)).outcome = "matched"
         /\ Result(MatchedState(u)).partner = u
<1>1. MatchedState(u).code = "matched" /\ MatchedState(u).id = u.client
      /\ MatchedState(u).key = QueueKey(u.pair)
  BY DEF MatchedState
<1>2. u.pair \in LanguagePair /\ u = [client |-> u.client, pair |-> u.pair]
  BY UserFacts
<1>3. LanguagePairFromQueueKey(QueueKey(u.pair)) = u.pair
  BY <1>2 DEF LanguagePairFromQueueKey, QueueKey, LanguagePair
<1>4. QED
  BY <1>1, <1>2, <1>3 DEF Result

(* A search names its user, and is no removal. *)
LEMMA RequestKinds ==
  /\ \A u, v : Search(u) = Search(v) => u = v
  /\ \A u, c : Search(u) # Removal(c)
<1>1. /\ \A u : Search(u).op = "MatchOrEnqueue" /\ Search(u).user = u
      /\ \A c : Removal(c).op = "RemoveFromQueue"
  BY DEF Search, Removal
<1>2. QED
  BY <1>1

\* A reservation goes on, and its time as well.
Reserves(c, v) == record[c] = Matched(v) => record'[c] = Matched(v) /\ ttl'[c] = ttl[c]

(* Whatever script runs keeps the store in order; it ends no reservation, and neither
   shortens nor prolongs one. *)
LEMMA RunKeeps ==
  ASSUME StoreInv, NEW request, NEW reply, Run(request, reply)
  PROVE  /\ StoreInv'
         /\ \A c \in Client, v \in WaitingUser : Reserves(c, v)
<1>a. record \in [Client -> Record] /\ ttl \in [Client -> Nat]
  BY DEF StoreInv, StoreTypeOK
<1>b. UNCHANGED store => StoreInv'
  BY DEF store, StoreInv, StoreTypeOK, WaitingIsListed, NoCompatibleRecords,
         ReservationsMirrored, Waits
<1>1. ASSUME NEW wu \in WaitingUser, NEW u \in WaitingUser, TakePartner(wu, u)
      PROVE  StoreInv' /\ \A c \in Client, v \in WaitingUser : Reserves(c, v)
  <2>1. record[wu.client] = Absent /\ Waits(u.client, Mirror(wu.pair))
    BY <1>1 DEF TakePartner, Searches, FirstLive, Live
  <2>2. \A c \in Client : c \notin {wu.client, u.client} =>
          record'[c] = record[c] /\ ttl'[c] = ttl[c]
    BY <1>a, <1>1 DEF TakePartner
  <2>3. QED
    BY <1>1, <2>1, <2>2, TakePartnerInv, RecordKinds DEF Waits, Reserves
<1>2. ASSUME NEW wu \in WaitingUser, Enqueue(wu)
      PROVE  StoreInv' /\ \A c \in Client, v \in WaitingUser : Reserves(c, v)
  <2>1. record[wu.client] = Absent
    BY <1>2 DEF Enqueue, Searches
  <2>2. \A c \in Client : c # wu.client => record'[c] = record[c] /\ ttl'[c] = ttl[c]
    BY <1>a, <1>2 DEF Enqueue
  <2>3. QED
    BY <1>2, <2>1, <2>2, EnqueueInv, RecordKinds DEF Reserves
<1>3. ASSUME NEW wu \in WaitingUser, Continue(wu)
      PROVE  StoreInv' /\ UNCHANGED <<record, ttl>>
  BY <1>3, ContinueInv DEF Continue
<1>4. ASSUME NEW d \in Client, RemoveFromQueue(d)
      PROVE  StoreInv' /\ \A c \in Client, v \in WaitingUser : Reserves(c, v)
  <2>1. StoreInv'
    BY <1>b, <1>4, RemoveFromQueueInv
  <2>2. CASE \E p \in LanguagePair : Waits(d, p)
    <3>1. record' = [record EXCEPT ![d] = Absent] /\ ttl' = [ttl EXCEPT ![d] = 0]
      BY <1>4, <2>2 DEF RemoveFromQueue
    <3>2. \A c \in Client : c # d => record'[c] = record[c] /\ ttl'[c] = ttl[c]
      BY <1>a, <3>1
    <3>3. QED
      BY <2>1, <2>2, <3>2, RecordKinds DEF Waits, Reserves
  <2>3. CASE ~\E p \in LanguagePair : Waits(d, p)
    <3>1. UNCHANGED <<record, ttl>>
      BY <1>4, <2>3 DEF RemoveFromQueue, store
    <3>2. QED
      BY <2>1, <3>1 DEF Reserves
  <2>4. QED
    BY <2>2, <2>3
<1>5. ASSUME UNCHANGED store
      PROVE  StoreInv' /\ UNCHANGED <<record, ttl>>
  BY <1>b, <1>5 DEF store
<1>6. UNCHANGED <<record, ttl>> => \A c \in Client, v \in WaitingUser : Reserves(c, v)
  BY DEF Reserves
<1>7. QED
  BY <1>1, <1>2, <1>3, <1>4, <1>5, <1>6 DEF Run, RetryMatched, RetryWaiting, RejectOtherPair

(* A script that answers with a match leaves the caller reserved for it. *)
LEMMA MatchIsReserved ==
  ASSUME StoreInv, NEW wu \in WaitingUser, NEW reply, Run(Search(wu), reply),
         reply.code = "matched"
  PROVE  \E u \in WaitingUser : reply = MatchedState(u) /\ record'[wu.client] = Matched(u)
<1>1. \A code : Code(code).code = code
  BY DEF Code
<1>2. \E u \in WaitingUser :
        reply = MatchedState(u) /\ (RetryMatched(wu, u) \/ TakePartner(wu, u))
  BY <1>1, RequestKinds DEF Run
<1>3. ASSUME NEW u \in WaitingUser, RetryMatched(wu, u) \/ TakePartner(wu, u)
      PROVE  record'[wu.client] = Matched(u)
  <2>1. record \in [Client -> Record] /\ wu.client \in Client
    BY UserFacts DEF StoreInv, StoreTypeOK
  <2>2. CASE RetryMatched(wu, u)
    BY <2>2 DEF RetryMatched, store
  <2>3. CASE TakePartner(wu, u)
    <3>1. u.client # wu.client
      <4>1. record[wu.client] = Absent /\ Waits(u.client, Mirror(wu.pair))
        BY <2>3 DEF TakePartner, Searches, FirstLive, Live
      <4>2. QED
        BY <4>1, RecordKinds DEF Waits
    <3>2. QED
      BY <2>1, <2>3, <3>1 DEF TakePartner
  <2>4. QED
    BY <1>3, <2>2, <2>3
<1>4. QED
  BY <1>2, <1>3

(* An answer that says "matched" spells one partner. *)
LEMMA MatchedReplies ==
  ASSUME NEW reply \in Replies, reply.code = "matched"
  PROVE  \E u \in WaitingUser : reply = MatchedState(u) /\ Result(reply).partner = u
<1>1. \A code : Code(code).code = code
  BY DEF Code
<1>2. PICK u \in WaitingUser : reply = MatchedState(u)
  BY <1>1 DEF Replies
<1>3. QED
  BY <1>2, AnswerSpellsPartner

(* The result of an answer says "matched" only when the answer does. *)
LEMMA ResultOutcome ==
  ASSUME NEW reply
  PROVE  Result(reply).outcome = "matched" => reply.code = "matched"
BY DEF Result

-----------------------------------------------------------------------------
Underway(c) == call[c].at \in {"check", "sent", "answered"}

(* What a call keeps on its way. *)
LEMMA CallFields ==
  ASSUME RepositoryTypeOK, NEW c \in Client
  PROVE  /\ call[c] \in CallStates
         /\ Underway(c) => call[c].request \in Requests /\ call[c].retries \in 0 .. Retries
         /\ At(c, "answered") => call[c].reply \in Replies /\ call[c].left \in Nat
<1>1. call[c] \in CallStates
  BY DEF RepositoryTypeOK
<1>2. Idle.at = "idle"
  BY DEF Idle
<1>3. CASE call[c] = Idle
  BY <1>1, <1>2, <1>3 DEF Underway, At
<1>4. CASE call[c] \in [at : {"returned"}, result : Results]
  BY <1>1, <1>4 DEF Underway, At
<1>5. CASE call[c] \in [at : {"check", "sent"}, request : Requests, retries : 0 .. Retries]
  BY <1>1, <1>5 DEF Underway, At
<1>6. CASE call[c] \in [at : {"answered"}, request : Requests, retries : 0 .. Retries,
                         reply : Replies, left : Nat]
  BY <1>1, <1>6 DEF Underway, At
<1>7. QED
  BY <1>1, <1>3, <1>4, <1>5, <1>6 DEF CallStates

(* The states a call may go to. *)
LEMMA CallStateKinds ==
  /\ \A request \in Requests, retries \in 0 .. Retries :
       /\ [at |-> "check", request |-> request, retries |-> retries] \in CallStates
       /\ [at |-> "sent", request |-> request, retries |-> retries] \in CallStates
       /\ \A reply \in Replies, left \in Nat :
            [at |-> "answered", request |-> request, retries |-> retries, reply |-> reply,
             left |-> left] \in CallStates
  /\ \A result \in Results : [at |-> "returned", result |-> result] \in CallStates
BY DEF CallStates

(* A checked context lets the request of the call go out. *)
LEMMA CheckedCall ==
  ASSUME RepositoryTypeOK, NEW c \in Client, At(c, "check")
  PROVE  /\ [call[c] EXCEPT !.at = "sent"] \in CallStates
         /\ [call[c] EXCEPT !.at = "sent"].at = "sent"
         /\ [call[c] EXCEPT !.at = "sent"].request = call[c].request
<1>1. call[c] \in CallStates
  BY CallFields
<1>2. Idle.at = "idle"
  BY DEF Idle
<1>3. call[c] \in [at : {"check", "sent"}, request : Requests, retries : 0 .. Retries]
  BY <1>1, <1>2 DEF CallStates, At
<1>4. [call[c] EXCEPT !.at = "sent"] \in
        [at : {"check", "sent"}, request : Requests, retries : 0 .. Retries]
  BY <1>3
<1>5. /\ [call[c] EXCEPT !.at = "sent"].at = "sent"
      /\ [call[c] EXCEPT !.at = "sent"].request = call[c].request
  BY <1>3
<1>6. QED
  BY <1>4, <1>5 DEF CallStates

(* A move changes one call. *)
LEMMA OneCallMoves ==
  ASSUME call \in [Client -> CallStates], NEW c \in Client, NEW next, Moves(c, next)
  PROVE  /\ call'[c] = next
         /\ \A d \in Client : d # c => call'[d] = call[d]
         /\ next \in CallStates => call' \in [Client -> CallStates]
BY DEF Moves

(* What a call may return. *)
LEMMA ResultKinds ==
  /\ \A reply \in Replies : reply.code # "continue" => Result(reply) \in Results
  /\ [outcome |-> "context_ended"] \in Results
  /\ [outcome |-> "redis_error"] \in Results
<1>1. \A code : Code(code).code = code
  BY DEF Code
<1>2. \A reply \in Replies : reply.code # "continue" => reply \in Replies \ {Code("continue")}
  BY <1>1
<1>3. QED
  BY <1>2 DEF Results

(* A step of a call leaves the other calls alone, starts no call and changes no
   request; only Execute leaves an answer on its way, and only Receive turns one
   into a result that says "matched". *)
LEMMA CallStepFacts ==
  ASSUME StoreInv, RepositoryTypeOK, NEW c \in Client, CallStep(c)
  PROVE  /\ RepositoryTypeOK'
         /\ Underway(c)
         /\ \A d \in Client : d # c => call'[d] = call[d]
         /\ call'[c].at \in {"check", "sent", "answered"} => call'[c].request = call[c].request
         /\ call'[c].at = "answered" => Execute(c)
         /\ call'[c].at = "returned" /\ call'[c].result.outcome = "matched" => Receive(c)
<1> USE DEF At
<1>0. /\ call \in [Client -> CallStates] /\ late \subseteq Requests /\ calls \in 0 .. TotalCalls
      /\ Retries \in Nat
  BY CallBounds DEF RepositoryTypeOK
<1>1. CASE CheckContext(c)
  <2>1. UNCHANGED <<late, calls>> /\ Underway(c)
    BY <1>1 DEF CheckContext, Underway
  <2>2. CASE Moves(c, [call[c] EXCEPT !.at = "sent"])
    <3>1. At(c, "check")
      BY <1>1 DEF CheckContext
    <3>2. QED
      BY <1>0, <2>1, <2>2, <3>1, CheckedCall, OneCallMoves DEF RepositoryTypeOK
  <2>3. CASE Return(c, [outcome |-> "context_ended"])
    BY <1>0, <2>1, <2>3, OneCallMoves, CallStateKinds, ResultKinds DEF RepositoryTypeOK, Return
  <2>4. QED
    BY <1>1, <2>2, <2>3 DEF CheckContext
<1>2. CASE Execute(c)
  <2>1. UNCHANGED <<late, calls>> /\ Underway(c)
    BY <1>2 DEF Execute, Underway
  <2> DEFINE time(reply) == IF reply.code = "matched" THEN ttl'[c] ELSE 0
  <2>2. PICK reply \in Replies :
          /\ Run(call[c].request, reply)
          /\ Moves(c, [at |-> "answered", request |-> call[c].request,
                       retries |-> call[c].retries, reply |-> reply, left |-> time(reply)])
    BY <1>2 DEF Execute
  <2>t. time(reply) \in Nat
    BY <2>2, RunKeeps DEF StoreInv, StoreTypeOK
  <2>3. call[c].request \in Requests /\ call[c].retries \in 0 .. Retries
    BY <2>1, CallFields
  <2> DEFINE next == [at |-> "answered", request |-> call[c].request,
                      retries |-> call[c].retries, reply |-> reply, left |-> time(reply)]
  <2>4. Moves(c, next)
    BY <2>2
  <2>5. next \in CallStates
    BY <2>3, <2>t, CallStateKinds
  <2>6. next.at = "answered" /\ next.request = call[c].request
    OBVIOUS
  <2> HIDE DEF next
  <2>7. QED
    BY <1>0, <1>2, <2>1, <2>4, <2>5, <2>6, OneCallMoves DEF RepositoryTypeOK
<1>3. CASE Receive(c)
  <2>1. UNCHANGED <<late, calls>> /\ Underway(c) /\ At(c, "answered")
    BY <1>3 DEF Receive, Underway
  <2>2. call[c].request \in Requests /\ call[c].retries \in 0 .. Retries
        /\ call[c].reply \in Replies
    BY <2>1, CallFields
  <2>3. CASE call[c].reply.code = "continue"
    <3> DEFINE next == [at |-> "check", request |-> call[c].request,
                        retries |-> call[c].retries]
    <3>1. Moves(c, next)
      BY <1>3, <2>3 DEF Receive
    <3>2. next \in CallStates
      BY <2>2, CallStateKinds
    <3>3. next.at = "check" /\ next.request = call[c].request
      OBVIOUS
    <3> HIDE DEF next
    <3>4. QED
      BY <1>0, <2>1, <3>1, <3>2, <3>3, OneCallMoves DEF RepositoryTypeOK
  <2>4. CASE call[c].reply.code # "continue"
    <3>1. Moves(c, [at |-> "returned", result |-> Result(call[c].reply)])
      BY <1>3, <2>4 DEF Receive, Return
    <3>2. Result(call[c].reply) \in Results
      BY <2>2, <2>4, ResultKinds
    <3>3. QED
      BY <1>0, <1>3, <2>1, <3>1, <3>2, OneCallMoves, CallStateKinds DEF RepositoryTypeOK
  <2>5. QED
    BY <2>3, <2>4
<1>4. CASE Resend(c)
  <2>1. UNCHANGED calls /\ Underway(c) /\ call[c].retries > 0
    BY <1>4 DEF Resend, GivesUp, Underway
  <2>2. call[c].request \in Requests /\ call[c].retries \in 0 .. Retries
    BY <2>1, CallFields
  <2>3. late' \subseteq Requests
    BY <1>0, <1>4, <2>2 DEF Resend, GivesUp
  <2>4. call[c].retries - 1 \in 0 .. Retries
    BY <1>0, <2>1, <2>2
  <2> DEFINE next == [at |-> "sent", request |-> call[c].request,
                      retries |-> call[c].retries - 1]
  <2>5. Moves(c, next)
    BY <1>4 DEF Resend
  <2>6. next \in CallStates
    BY <2>2, <2>4, CallStateKinds
  <2>7. next.at = "sent" /\ next.request = call[c].request
    OBVIOUS
  <2> HIDE DEF next
  <2>8. QED
    BY <1>0, <2>1, <2>3, <2>5, <2>6, <2>7, OneCallMoves DEF RepositoryTypeOK
<1>5. CASE Fail(c)
  <2>1. UNCHANGED calls /\ Underway(c)
    BY <1>5 DEF Fail, GivesUp, Underway
  <2>2. call[c].request \in Requests
    BY <2>1, CallFields
  <2>3. late' \subseteq Requests
    BY <1>0, <1>5, <2>2 DEF Fail, GivesUp
  <2>4. Moves(c, [at |-> "returned", result |-> [outcome |-> "redis_error"]])
    BY <1>5 DEF Fail, Return
  <2>5. QED
    BY <1>0, <2>1, <2>3, <2>4, OneCallMoves, CallStateKinds, ResultKinds DEF RepositoryTypeOK
<1>6. QED
  BY <1>1, <1>2, <1>3, <1>4, <1>5 DEF CallStep

(* A call that begins leaves the other calls and the store alone. *)
LEMMA BeginFacts ==
  ASSUME RepositoryTypeOK, NEW c \in Client, NEW request \in Requests, Begin(c, request)
  PROVE  /\ RepositoryTypeOK'
         /\ UNCHANGED store
         /\ ~Underway(c)
         /\ \A d \in Client : d # c => call'[d] = call[d]
         /\ call'[c].at = "check" /\ call'[c].request = request
<1>0. /\ call \in [Client -> CallStates] /\ late \subseteq Requests /\ calls \in 0 .. TotalCalls
      /\ Retries \in Nat /\ TotalCalls \in Nat
  BY CallBounds DEF RepositoryTypeOK
<1>1. UNCHANGED <<store, late>> /\ calls' \in 0 .. TotalCalls
  BY <1>0 DEF Begin
<1>2. ~Underway(c)
  BY DEF Begin, At, Underway
<1> DEFINE next == [at |-> "check", request |-> request, retries |-> Retries]
<1>3. Moves(c, next)
  BY DEF Begin
<1>4. next \in CallStates
  <2>1. Retries \in 0 .. Retries
    BY <1>0
  <2>2. QED
    BY <2>1, CallStateKinds
<1>5. next.at = "check" /\ next.request = request
  OBVIOUS
<1> HIDE DEF next
<1>6. QED
  BY <1>0, <1>1, <1>2, <1>3, <1>4, <1>5, OneCallMoves DEF RepositoryTypeOK

\* What AnswersReserved says of one client.
AnswerReserved(d) ==
  At(d, "answered") /\ call[d].reply.code = "matched" /\ call[d].left > 0 =>
    /\ record[d] = Matched(Result(call[d].reply).partner)
    /\ ttl[d] = call[d].left

(* An answer on its way stays true of a store that keeps reservations. *)
LEMMA AnswersStayReserved ==
  ASSUME RepositoryTypeOK, AnswersReserved, NEW d \in Client, call'[d] = call[d],
         \A v \in WaitingUser : Reserves(d, v)
  PROVE  AnswerReserved(d)'
<1> SUFFICES ASSUME At(d, "answered"), call[d].reply.code = "matched", call[d].left > 0
             PROVE  /\ record'[d] = Matched(Result(call[d].reply).partner)
                    /\ ttl'[d] = call[d].left
  BY DEF AnswerReserved, At
<1>1. record[d] = Matched(Result(call[d].reply).partner) /\ ttl[d] = call[d].left
  BY DEF AnswersReserved
<1>2. Result(call[d].reply).partner \in WaitingUser
  BY CallFields, MatchedReplies
<1>3. QED
  BY <1>1, <1>2 DEF Reserves

(* A match that Execute puts on its way is reserved for the client that asked. *)
LEMMA ExecuteReserves ==
  ASSUME RepositoryInv, NEW c \in Client, Execute(c), call'[c].reply.code = "matched"
  PROVE  /\ record'[c] = Matched(Result(call'[c].reply).partner)
         /\ ttl'[c] = call'[c].left
<1> USE DEF RepositoryInv
<1>1. Underway(c)
  BY DEF Execute, At, Underway
<1> DEFINE request == call[c].request
<1>2. request \in Requests
  BY <1>1, CallFields
<1>3. PICK reply \in Replies :
        /\ Run(request, reply)
        /\ Moves(c, [at |-> "answered", request |-> request,
                     retries |-> call[c].retries, reply |-> reply,
                     left |-> IF reply.code = "matched" THEN ttl'[c] ELSE 0])
  BY DEF Execute
<1>4. /\ call'[c].reply = reply
      /\ call'[c].left = IF reply.code = "matched" THEN ttl'[c] ELSE 0
  BY <1>3, OneCallMoves DEF RepositoryTypeOK
<1>5. PICK wu \in WaitingUser : request = Search(wu)
  <2>1. reply.code # "removed"
    BY <1>4
  <2>2. Code("removed").code = "removed"
    BY DEF Code
  <2>3. ASSUME NEW d \in Client, request = Removal(d)
        PROVE  reply = Code("removed")
    BY <1>3, <2>3, RequestKinds DEF Run
  <2>4. QED
    BY <1>2, <2>1, <2>2, <2>3 DEF Requests
<1>6. wu.client = c
  BY <1>1, <1>5 DEF OwnRequests, Underway
<1>7. \E u \in WaitingUser : reply = MatchedState(u) /\ record'[c] = Matched(u)
  BY <1>3, <1>4, <1>5, <1>6, MatchIsReserved
<1>8. QED
  BY <1>4, <1>7, AnswerSpellsPartner

-----------------------------------------------------------------------------
(* Nothing is reserved, asked or answered in the beginning. *)
LEMMA RepositoryInitInv == RepositoryInit => RepositoryInv
<1> SUFFICES ASSUME RepositoryInit PROVE RepositoryInv
  OBVIOUS
<1>1. \A c \in Client : call[c] = Idle
  BY DEF RepositoryInit
<1>2. Idle.at = "idle"
  BY DEF Idle
<1>3. StoreInv
  BY StoreInitInv DEF RepositoryInit
<1>4. RepositoryTypeOK
  <2>1. Idle \in CallStates
    BY DEF CallStates
  <2>2. QED
    BY <2>1, CallBounds DEF RepositoryInit, RepositoryTypeOK
<1>5. OwnRequests /\ AnswersReserved
  BY <1>1, <1>2 DEF OwnRequests, AnswersReserved, At
<1>6. QED
  BY <1>3, <1>4, <1>5 DEF RepositoryInv

(* A call that begins keeps the invariant. *)
LEMMA BeginInv ==
  ASSUME RepositoryInv, NEW c \in Client, NEW request \in Requests, Begin(c, request),
         \A wu \in WaitingUser : request = Search(wu) => wu.client = c
  PROVE  RepositoryInv'
<1> USE DEF RepositoryInv
<1>1. /\ RepositoryTypeOK' /\ UNCHANGED store
      /\ \A d \in Client : d # c => call'[d] = call[d]
      /\ call'[c].at = "check" /\ call'[c].request = request
  BY BeginFacts
<1>2. StoreInv'
  BY <1>1 DEF store, StoreInv, StoreTypeOK, WaitingIsListed, NoCompatibleRecords,
              ReservationsMirrored, Waits
<1>3. OwnRequests'
  BY <1>1 DEF OwnRequests
<1>4. ASSUME NEW d \in Client
      PROVE  AnswerReserved(d)'
  <2>1. CASE d = c
    BY <1>1, <2>1 DEF AnswerReserved, At
  <2>2. CASE d # c
    BY <1>1, <2>2, AnswersStayReserved DEF store, Reserves
  <2>3. QED
    BY <2>1, <2>2
<1>5. AnswersReserved'
  BY <1>4 DEF AnswersReserved, AnswerReserved
<1>6. QED
  BY <1>1, <1>2, <1>3, <1>5

(* Every step of a call keeps the invariant: the answers to others stay true
   whatever script runs, and its own is true when it is given. *)
LEMMA CallStepInv ==
  ASSUME RepositoryInv, NEW c \in Client, CallStep(c)
  PROVE  RepositoryInv'
<1> USE DEF RepositoryInv
<1>1. /\ RepositoryTypeOK'
      /\ Underway(c)
      /\ \A d \in Client : d # c => call'[d] = call[d]
      /\ call'[c].at \in {"check", "sent", "answered"} => call'[c].request = call[c].request
      /\ call'[c].at = "answered" => Execute(c)
  BY CallStepFacts
<1>2. /\ StoreInv'
      /\ \A d \in Client, v \in WaitingUser : Reserves(d, v)
  <2>1. CASE Execute(c)
    <3>1. PICK reply \in Replies : Run(call[c].request, reply)
      BY <2>1 DEF Execute
    <3>2. QED
      BY <3>1, RunKeeps
  <2>2. CASE UNCHANGED store
    BY <2>2 DEF store, StoreInv, StoreTypeOK, WaitingIsListed, NoCompatibleRecords,
                ReservationsMirrored, Waits, Reserves
  <2>3. QED
    BY <2>1, <2>2 DEF CallStep, CheckContext, Receive, Resend, Fail, GivesUp
<1>3. OwnRequests'
  BY <1>1 DEF OwnRequests, Underway
<1>4. ASSUME NEW d \in Client
      PROVE  AnswerReserved(d)'
  <2>1. CASE d = c
    BY <1>1, <2>1, ExecuteReserves DEF AnswerReserved, At
  <2>2. CASE d # c
    BY <1>1, <1>2, <2>2, AnswersStayReserved
  <2>3. QED
    BY <2>1, <2>2
<1>5. AnswersReserved'
  BY <1>4 DEF AnswersReserved, AnswerReserved
<1>6. QED
  BY <1>1, <1>2, <1>3, <1>5

(* A request that runs after it was given up ends no reservation either. *)
LEMMA RunLateInv ==
  ASSUME RepositoryInv, NEW request \in late, RunLate(request)
  PROVE  RepositoryInv'
<1> USE DEF RepositoryInv
<1>1. PICK reply \in Replies : Run(request, reply)
  BY DEF RunLate
<1>2. /\ StoreInv'
      /\ \A d \in Client, v \in WaitingUser : Reserves(d, v)
  BY <1>1, RunKeeps
<1>3. call' = call /\ calls' = calls /\ late' \subseteq late
  BY DEF RunLate
<1>4. RepositoryTypeOK' /\ OwnRequests'
  BY <1>3 DEF RepositoryTypeOK, OwnRequests
<1>5. \A d \in Client : AnswerReserved(d)'
  BY <1>2, <1>3, AnswersStayReserved
<1>6. AnswersReserved'
  BY <1>5 DEF AnswersReserved, AnswerReserved
<1>7. QED
  BY <1>2, <1>4, <1>6

(* Time takes a call no further; of an answer on its way only the time left changes. *)
LEMMA ElapseFacts ==
  ASSUME RepositoryTypeOK, Elapse
  PROVE  /\ RepositoryTypeOK'
         /\ \A c \in Client :
              /\ call'[c].at = call[c].at
              /\ Underway(c) => call'[c].request = call[c].request
              /\ At(c, "answered") =>
                   /\ call'[c].reply = call[c].reply
                   /\ call'[c].left = IF call[c].left > 0 THEN call[c].left - 1 ELSE 0
<1>1. /\ late' = late /\ calls' = calls
      /\ call' = [c \in Client |-> IF At(c, "answered") /\ call[c].left > 0
                                  THEN [call[c] EXCEPT !.left = @ - 1]
                                  ELSE call[c]]
  BY DEF Elapse
<1>2. ASSUME NEW c \in Client
      PROVE  /\ call'[c] \in CallStates
             /\ call'[c].at = call[c].at
             /\ Underway(c) => call'[c].request = call[c].request
             /\ At(c, "answered") =>
                  /\ call'[c].reply = call[c].reply
                  /\ call'[c].left = IF call[c].left > 0 THEN call[c].left - 1 ELSE 0
  <2>1. call[c] \in CallStates /\ (At(c, "answered") => call[c].left \in Nat)
    BY CallFields
  <2>2. CASE At(c, "answered") /\ call[c].left > 0
    <3> DEFINE next == [call[c] EXCEPT !.left = call[c].left - 1]
    <3>1. call'[c] = next
      BY <1>1, <2>2
    <3>2. Idle.at = "idle"
      BY DEF Idle
    <3>3. call[c] \in [at : {"answered"}, request : Requests, retries : 0 .. Retries,
                       reply : Replies, left : Nat]
      BY <2>1, <2>2, <3>2 DEF CallStates, At
    <3>4. call[c].left - 1 \in Nat
      BY <2>1, <2>2
    <3>5. /\ next \in [at : {"answered"}, request : Requests, retries : 0 .. Retries,
                       reply : Replies, left : Nat]
          /\ next.at = call[c].at /\ next.request = call[c].request
          /\ next.reply = call[c].reply /\ next.left = call[c].left - 1
      BY <3>3, <3>4
    <3> HIDE DEF next
    <3>6. next \in CallStates
      BY <3>5 DEF CallStates
    <3>7. QED
      BY <2>2, <3>1, <3>5, <3>6
  <2>3. CASE ~(At(c, "answered") /\ call[c].left > 0)
    <3>1. call'[c] = call[c]
      BY <1>1, <2>3
    <3>2. At(c, "answered") => call[c].left = 0
      BY <2>1, <2>3
    <3>3. QED
      BY <2>1, <2>3, <3>1, <3>2
  <2>4. QED
    BY <2>2, <2>3
<1>3. call' \in [Client -> CallStates]
  BY <1>1, <1>2
<1>4. QED
  BY <1>1, <1>2, <1>3 DEF RepositoryTypeOK

(* Time ends reservations, and those an answer tells of when their time is over. *)
LEMMA ElapseInv ==
  ASSUME RepositoryInv, Elapse
  PROVE  RepositoryInv'
<1> USE DEF RepositoryInv
<1>1. StoreInv'
  BY TickInv DEF Elapse
<1>2. RepositoryTypeOK'
  BY ElapseFacts
<1>3. OwnRequests'
  <2>1. \A c \in Client : call'[c].at = call[c].at
                         /\ (Underway(c) => call'[c].request = call[c].request)
    BY ElapseFacts
  <2>2. QED
    BY <2>1 DEF OwnRequests, Underway
<1>4. ASSUME NEW d \in Client, At(d, "answered")', call'[d].reply.code = "matched",
             call'[d].left > 0
      PROVE  /\ record'[d] = Matched(Result(call'[d].reply).partner)
             /\ ttl'[d] = call'[d].left
  <2>1. At(d, "answered") /\ call'[d].reply = call[d].reply
        /\ call'[d].left = IF call[d].left > 0 THEN call[d].left - 1 ELSE 0
    BY <1>4, ElapseFacts DEF At
  <2>2. call[d].left \in Nat
    BY <2>1, CallFields
  <2>3. call[d].left > 1 /\ call'[d].left = call[d].left - 1
    <3> DEFINE m == call[d].left
               n == call'[d].left
    <3>1. m \in Nat /\ n > 0 /\ n = IF m > 0 THEN m - 1 ELSE 0
      BY <1>4, <2>1, <2>2
    <3> HIDE DEF m, n
    <3>2. m > 1 /\ n = m - 1
      BY <3>1
    <3>3. QED
      BY <3>2 DEF m, n
  <2>4. /\ record[d] = Matched(Result(call[d].reply).partner)
        /\ ttl[d] = call[d].left
    BY <1>4, <2>1, <2>2, <2>3 DEF AnswersReserved
  <2>5. /\ record'[d] = IF ttl[d] = 1 THEN Absent ELSE record[d]
        /\ ttl'[d] = IF ttl[d] = 0 THEN 0 ELSE ttl[d] - 1
    BY DEF Elapse, Tick
  <2>6. ttl[d] # 1 /\ ttl[d] # 0
    BY <2>2, <2>3, <2>4
  <2>7. QED
    BY <2>1, <2>3, <2>4, <2>5, <2>6
<1>5. AnswersReserved'
  BY <1>4 DEF AnswersReserved
<1>6. QED
  BY <1>1, <1>2, <1>3, <1>5

(* Nothing keeps the invariant by doing nothing. *)
LEMMA RepositoryStutterInv == RepositoryInv /\ UNCHANGED vars => RepositoryInv'
BY DEF vars, RepositoryInv, StoreInv, StoreTypeOK, WaitingIsListed, NoCompatibleRecords,
       ReservationsMirrored, Waits, RepositoryTypeOK, OwnRequests, AnswersReserved, At

(* Every step of the repository keeps the invariant. *)
LEMMA RepositoryNextInv == RepositoryInv /\ [RepositoryNext]_vars => RepositoryInv'
<1> SUFFICES ASSUME RepositoryInv, RepositoryNext PROVE RepositoryInv'
  BY RepositoryStutterInv
<1>1. ASSUME NEW wu \in WaitingUser, Begin(wu.client, Search(wu))
      PROVE  RepositoryInv'
  <2>1. wu.client \in Client /\ Search(wu) \in Requests
    BY UserFacts DEF Requests
  <2>2. \A v \in WaitingUser : Search(wu) = Search(v) => v.client = wu.client
    BY RequestKinds
  <2>3. QED
    BY <1>1, <2>1, <2>2, BeginInv
<1>2. ASSUME NEW c \in Client, Begin(c, Removal(c))
      PROVE  RepositoryInv'
  <2>1. Removal(c) \in Requests
    BY DEF Requests
  <2>2. QED
    BY <1>2, <2>1, RequestKinds, BeginInv
<1>3. ASSUME NEW c \in Client, CallStep(c)
      PROVE  RepositoryInv'
  BY <1>3, CallStepInv
<1>4. ASSUME NEW request \in late, RunLate(request)
      PROVE  RepositoryInv'
  BY <1>4, RunLateInv
<1>5. CASE Elapse
  BY <1>5, ElapseInv
<1>6. QED
  BY <1>1, <1>2, <1>3, <1>4, <1>5 DEF RepositoryNext

(* A step that returns a match returns one that is reserved, on both sides. *)
LEMMA ReturnedMatchIsReserved ==
  ASSUME RepositoryInv, RepositoryNext, NEW c \in Client, At(c, "answered"), call[c].left > 0,
         call'[c].at = "returned", call'[c].result.outcome = "matched"
  PROVE  LET u == call'[c].result.partner IN
         /\ record[c] = Matched(u)
         /\ record[u.client] = Matched([client |-> c, pair |-> Mirror(u.pair)])
<1> USE DEF RepositoryInv
<1>1. Underway(c) /\ call'[c].at # call[c].at
  BY DEF Underway, At
<1>2. CallStep(c)
  <2>1. ASSUME NEW d \in Client, NEW request \in Requests, Begin(d, request)
        PROVE  FALSE
    <3>1. /\ ~Underway(d)
          /\ \A e \in Client : e # d => call'[e] = call[e]
      BY <2>1, BeginFacts
    <3>2. QED
      BY <1>1, <3>1
  <2>2. ASSUME NEW d \in Client, CallStep(d)
        PROVE  d = c
    <3>1. \A e \in Client : e # d => call'[e] = call[e]
      BY <2>2, CallStepFacts
    <3>2. QED
      BY <1>1, <3>1
  <2>3. ASSUME NEW request \in late, RunLate(request)
        PROVE  FALSE
    BY <1>1, <2>3 DEF RunLate
  <2>4. ~Elapse
    BY <1>1, ElapseFacts
  <2>5. /\ \A wu \in WaitingUser : wu.client \in Client /\ Search(wu) \in Requests
        /\ \A d \in Client : Removal(d) \in Requests
    BY UserFacts DEF Requests
  <2>6. QED
    BY <2>1, <2>2, <2>3, <2>4, <2>5 DEF RepositoryNext
<1>3. Receive(c)
  BY <1>2, CallStepFacts
<1>4. Moves(c, [at |-> "returned", result |-> Result(call[c].reply)])
  <2>1. CASE call[c].reply.code = "continue"
    <3> DEFINE next == [at |-> "check", request |-> call[c].request,
                        retries |-> call[c].retries]
    <3>1. Moves(c, next) /\ next.at = "check"
      BY <1>3, <2>1 DEF Receive
    <3> HIDE DEF next
    <3>2. QED
      BY <3>1, OneCallMoves DEF RepositoryTypeOK
  <2>2. CASE call[c].reply.code # "continue"
    BY <1>3, <2>2 DEF Receive, Return
  <2>3. QED
    BY <2>1, <2>2
<1>5. call'[c].result = Result(call[c].reply)
  BY <1>4, OneCallMoves DEF RepositoryTypeOK
<1>6. call[c].reply.code = "matched"
  BY <1>5, ResultOutcome
<1> DEFINE u == Result(call[c].reply).partner
<1>7. u \in WaitingUser
  BY <1>1, <1>6, CallFields, MatchedReplies
<1>8. record[c] = Matched(u)
  BY <1>6 DEF AnswersReserved
<1>9. record[u.client] = Matched([client |-> c, pair |-> Mirror(u.pair)])
  BY <1>7, <1>8 DEF StoreInv, ReservationsMirrored
<1>10. QED
  BY <1>5, <1>8, <1>9

-----------------------------------------------------------------------------
(* The invariant of the calls holds whatever is lost, sent again or run late. *)
THEOREM RepositorySpecInv == RepositorySpec => []RepositoryInv
BY RepositoryInitInv, RepositoryNextInv, PTL DEF RepositorySpec

(* Calls, requests given up and the count of calls keep their types. *)
THEOREM RepositoryTypeCorrect == RepositorySpec => []RepositoryTypeOK
<1>1. RepositoryInv => RepositoryTypeOK
  BY DEF RepositoryInv
<1>2. QED
  BY <1>1, RepositorySpecInv, PTL

(* A match on its way to the caller is reserved for exactly as long as it was when the
   script answered: nothing but that time ends it. *)
THEOREM AnswersReservedAlways == RepositorySpec => []AnswersReserved
<1>1. RepositoryInv => AnswersReserved
  BY DEF RepositoryInv
<1>2. QED
  BY <1>1, RepositorySpecInv, PTL

(* A match that MatchOrEnqueue returns is held by both clients at that moment,
   whatever was lost, sent again or run late before, unless the reservation's own time
   has run out since the script answered. *)
THEOREM MatchReturnedAlways == RepositorySpec => MatchReturnedIsReserved
<1> DEFINE
  Kept == \A c \in Client :
            /\ At(c, "answered") /\ call[c].left > 0
            /\ call'[c].at = "returned" /\ call'[c].result.outcome = "matched"
            => LET u == call'[c].result.partner IN
               /\ record[c] = Matched(u)
               /\ record[u.client] = Matched([client |-> c, pair |-> Mirror(u.pair)])
<1>1. RepositoryInv /\ RepositoryNext => Kept
  BY ReturnedMatchIsReserved
<1>2. RepositoryInv /\ [RepositoryNext]_vars => [Kept]_vars
  BY <1>1
<1>3. QED
  BY <1>2, RepositorySpecInv, PTL DEF RepositorySpec, MatchReturnedIsReserved

-----------------------------------------------------------------------------
(* A script run for a request, the first time, again or late, is a step of the pool. *)
LEMMA RunIsPoolStep ==
  ASSUME StoreInv, NEW request, NEW reply, Run(request, reply)
  PROVE  Pool!PoolNext
<1>1. StoreInv'
  BY RunKeeps
<1>2. ASSUME NEW wu \in WaitingUser, NEW u \in WaitingUser,
             RetryMatched(wu, u) \/ TakePartner(wu, u)
      PROVE  Pool!PoolNext
  <2>1. CASE RetryMatched(wu, u)
    BY <1>1, <2>1, UnchangedForgets DEF RetryMatched, Pool!PoolNext
  <2>2. CASE TakePartner(wu, u)
    BY <1>1, <2>2, TakePartnerMatches, PoolDomain DEF Pool!PoolNext
  <2>3. QED
    BY <1>2, <2>1, <2>2
<1>3. ASSUME NEW wu \in WaitingUser, RetryWaiting(wu) \/ RejectOtherPair(wu)
      PROVE  Pool!PoolNext
  BY <1>1, <1>3, UnchangedForgets DEF RetryWaiting, RejectOtherPair, Pool!PoolNext
<1>4. ASSUME NEW wu \in WaitingUser, Enqueue(wu)
      PROVE  Pool!PoolNext
  BY <1>1, <1>4, EnqueueJoins, PoolDomain DEF Pool!PoolNext
<1>5. ASSUME NEW wu \in WaitingUser, Continue(wu)
      PROVE  Pool!PoolNext
  BY <1>1, <1>5, ContinueForgets DEF Pool!PoolNext
<1>6. ASSUME NEW c \in Client, RemoveFromQueue(c)
      PROVE  Pool!PoolNext
  BY <1>1, <1>6, RemoveFromQueueIsPoolStep
<1>7. QED
  BY <1>2, <1>3, <1>4, <1>5, <1>6 DEF Run

(* Every step of the calls is a step of the pool: what is lost, resent or given up
   changes nothing there. *)
LEMMA RepositoryStepIsPoolStep ==
  ASSUME RepositoryInv, RepositoryInv', [RepositoryNext]_vars
  PROVE  Pool!PoolNext
<1> StoreInv /\ StoreInv'
  BY DEF RepositoryInv
<1>1. ASSUME UNCHANGED store
      PROVE  Pool!PoolNext
  BY <1>1, UnchangedForgets DEF Pool!PoolNext
<1>2. CASE UNCHANGED vars
  BY <1>1, <1>2 DEF vars, store
<1>3. ASSUME NEW c \in Client, NEW request, Begin(c, request)
      PROVE  Pool!PoolNext
  BY <1>1, <1>3 DEF Begin, store
<1>4. ASSUME NEW c \in Client, CallStep(c)
      PROVE  Pool!PoolNext
  <2>1. CASE Execute(c)
    BY <2>1, RunIsPoolStep DEF Execute
  <2>2. CASE CheckContext(c) \/ Receive(c) \/ Resend(c) \/ Fail(c)
    BY <1>1, <2>2 DEF CheckContext, Receive, Resend, Fail, GivesUp, store
  <2>3. QED
    BY <1>4, <2>1, <2>2 DEF CallStep
<1>5. ASSUME NEW request, RunLate(request)
      PROVE  Pool!PoolNext
  BY <1>5, RunIsPoolStep DEF RunLate
<1>6. CASE Elapse
  BY <1>6, TickLapses DEF Elapse, Pool!PoolNext
<1>7. ASSUME NEW wu \in WaitingUser, Begin(wu.client, Search(wu))
      PROVE  Pool!PoolNext
  BY <1>3, <1>7, UserFacts
<1>8. QED
  BY <1>2, <1>3, <1>4, <1>5, <1>6, <1>7 DEF RepositoryNext

(* The calls implement the pool of users and reservations too: a request that is
   resent or runs after its caller gave up joins, matches or cancels at most what a
   call of its own could. *)
THEOREM RepositoryImplementsReservations == RepositorySpec => ImplementsReservations
<1>1. RepositoryInit => Pool!PoolInit
  BY StoreInitIsPoolInit DEF RepositoryInit
<1>2. RepositoryInv /\ RepositoryInv' /\ [RepositoryNext]_vars => Pool!PoolNext
  BY RepositoryStepIsPoolStep
<1>3. QED
  BY <1>1, <1>2, RepositorySpecInv, PTL
     DEF RepositorySpec, ImplementsReservations, Pool!PoolSpec
=============================================================================
