--------------------------- MODULE RedisRepository ---------------------------
(***************************************************************************)
(* Calls of the Redis matchmaking repository, from the first check of the  *)
(* context to the value returned.  A request or its answer may be lost,    *)
(* the Redis client may send the request again, and a request given up may *)
(* still run later; a backend that stops leaves its requests behind in the *)
(* same ways.                                                              *)
(***************************************************************************)
EXTENDS RedisQueue

CONSTANTS Retries,      \* bound: times the requests of one call are sent again
          TotalCalls    \* bound of the model: calls of all clients together

ASSUME CallBounds == Retries \in Nat /\ TotalCalls \in Nat

VARIABLES call,   \* each client's call in progress, or its last one
          late,   \* requests given up that Redis may still run
          calls   \* calls begun

vars == <<line, record, ttl, call, late, calls>>

Search(wu) == [op |-> "MatchOrEnqueue", user |-> wu]
Removal(c) == [op |-> "RemoveFromQueue", user |-> c]

\* clientStateKey and the queue keys: a key spells the two languages in order.
QueueKey(p) == <<p.native, p.learning>>

\* Faulty variant: the codes are read the other way round.
PairOfKeySwapped(k) == [native |-> k[2], learning |-> k[1]]

LanguagePairFromQueueKey(k) == [native |-> k[1], learning |-> k[2]]

\* What a script answers: a code and, for a match, the partner's id and queue key.
Code(code) == [code |-> code]
MatchedState(u) == [code |-> "matched", id |-> u.client, key |-> QueueKey(u.pair)]

Replies == { Code(code) : code \in {"waiting", "another_pair", "continue", "removed"} }
             \cup { MatchedState(u) : u \in WaitingUser }

Requests == { Search(wu) : wu \in WaitingUser } \cup { Removal(c) : c \in Client }

\* What a call returns for the answer: MatchResult or an error.
Result(reply) ==
  IF reply.code = "matched"
  THEN [outcome |-> "matched",
        partner |-> [client |-> reply.id, pair |-> LanguagePairFromQueueKey(reply.key)]]
  ELSE [outcome |-> reply.code]

Results ==
  { Result(reply) : reply \in Replies \ {Code("continue")} }
    \cup [outcome : {"context_ended", "redis_error"}]

Idle == [at |-> "idle"]

RepositoryInit == /\ StoreInit
                  /\ call = [c \in Client |-> Idle]
                  /\ late = {} /\ calls = 0

At(c, where) == call[c].at = where

Moves(c, next) == call' = [call EXCEPT ![c] = next]

Begin(c, request) ==
  /\ At(c, "idle") \/ At(c, "returned")
  /\ calls < TotalCalls /\ calls' = calls + 1
  /\ Moves(c, [at |-> "check", request |-> request, retries |-> Retries])
  /\ UNCHANGED <<store, late>>

Return(c, result) == Moves(c, [at |-> "returned", result |-> result])

\* The context is looked at before every request, those of the loop included.
CheckContext(c) ==
  /\ At(c, "check")
  /\ \/ Moves(c, [call[c] EXCEPT !.at = "sent"])
     \/ Return(c, [outcome |-> "context_ended"])
  /\ UNCHANGED <<store, late, calls>>

\* Redis runs the script of a request and answers.
Run(request, reply) ==
  \/ \E wu \in WaitingUser :
       /\ request = Search(wu)
       /\ \/ \E u \in WaitingUser : /\ RetryMatched(wu, u) \/ TakePartner(wu, u)
                                    /\ reply = MatchedState(u)
          \/ (RetryWaiting(wu) \/ Enqueue(wu)) /\ reply = Code("waiting")
          \/ RejectOtherPair(wu) /\ reply = Code("another_pair")
          \/ Continue(wu) /\ reply = Code("continue")
  \/ \E c \in Client :
       request = Removal(c) /\ RemoveFromQueue(c) /\ reply = Code("removed")

\* left is history: what the reservation the answer tells of has left.
Execute(c) ==
  /\ At(c, "sent")
  /\ \E reply \in Replies :
       /\ Run(call[c].request, reply)
       /\ Moves(c, [at |-> "answered", request |-> call[c].request,
                     retries |-> call[c].retries, reply |-> reply,
                     left |-> IF reply.code = "matched" THEN ttl'[c] ELSE 0])
  /\ UNCHANGED <<late, calls>>

\* Faulty variant: no case for {2}, the answer ends the call.
ReceiveAsLast(c) ==
  /\ At(c, "answered")
  /\ Return(c, Result(call[c].reply))
  /\ UNCHANGED <<store, late, calls>>

\* The answer arrives: {2} goes round the loop, any other ends the call.
Receive(c) ==
  /\ At(c, "answered")
  /\ IF call[c].reply.code = "continue"
     THEN Moves(c, [at |-> "check", request |-> call[c].request, retries |-> call[c].retries])
     ELSE Return(c, Result(call[c].reply))
  /\ UNCHANGED <<store, late, calls>>

\* No answer came: the request may have run, may be lost or may run later.
GivesUp(c) ==
  /\ At(c, "sent") \/ At(c, "answered")
  /\ \/ UNCHANGED late
     \/ At(c, "sent") /\ late' = late \cup {call[c].request}
  /\ UNCHANGED <<store, calls>>

Resend(c) ==
  /\ GivesUp(c)
  /\ call[c].retries > 0
  /\ Moves(c, [at |-> "sent", request |-> call[c].request, retries |-> call[c].retries - 1])

Fail(c) == GivesUp(c) /\ Return(c, [outcome |-> "redis_error"])

RunLate(request) ==
  /\ \E reply \in Replies : Run(request, reply)
  /\ late' = late \ {request}
  /\ UNCHANGED <<call, calls>>

\* Time passes while requests and answers travel: a reservation may end before the
\* call that read it returns.
Elapse ==
  /\ Tick
  /\ call' = [c \in Client |-> IF At(c, "answered") /\ call[c].left > 0
                              THEN [call[c] EXCEPT !.left = @ - 1]
                              ELSE call[c]]
  /\ UNCHANGED <<late, calls>>

CallStep(c) == CheckContext(c) \/ Execute(c) \/ Receive(c) \/ Resend(c) \/ Fail(c)

RepositoryNext ==
  \/ \E wu \in WaitingUser : Begin(wu.client, Search(wu))
  \/ \E c \in Client : Begin(c, Removal(c)) \/ CallStep(c)
  \/ \E request \in late : RunLate(request)
  \/ Elapse

RepositorySpec == RepositoryInit /\ [][RepositoryNext]_vars

\* A goroutine that can go on does, and a request is answered or times out.
FairRepositorySpec == RepositorySpec /\ \A c \in Client : WF_vars(CallStep(c))

-----------------------------------------------------------------------------
CallStates ==
  {Idle} \cup [at : {"check", "sent"}, request : Requests, retries : 0 .. Retries]
         \cup [at : {"answered"}, request : Requests, retries : 0 .. Retries, reply : Replies,
               left : Nat]
         \cup [at : {"returned"}, result : Results]

RepositoryTypeOK == /\ call \in [Client -> CallStates]
                    /\ late \subseteq Requests
                    /\ calls \in 0 .. TotalCalls

(* A call that returns a match names a partner whose reservation is with the
   caller, read back from the queue key it was stored under, unless the time the
   reservation had left when the script answered has passed since: whatever was
   lost, sent again or run late, both records agree with what the caller is told. *)
MatchReturnedIsReserved ==
  [][\A c \in Client :
       /\ At(c, "answered") /\ call[c].left > 0
       /\ call'[c].at = "returned" /\ call'[c].result.outcome = "matched"
       => LET u == call'[c].result.partner IN
          /\ record[c] = Matched(u)
          /\ record[u.client] = Matched([client |-> c, pair |-> Mirror(u.pair)])]_vars

(* What makes it true: a match on its way to the caller is reserved for exactly the
   time it had left when it was read.  No script ends it, before that moment, and
   none puts it off. *)
AnswersReserved ==
  \A c \in Client :
    At(c, "answered") /\ call[c].reply.code = "matched" /\ call[c].left > 0 =>
      /\ record[c] = Matched(Result(call[c].reply).partner)
      /\ ttl[c] = call[c].left

\* A client's searches are its own.
OwnRequests ==
  \A c \in Client, wu \in WaitingUser :
    call[c].at \in {"check", "sent", "answered"} /\ call[c].request = Search(wu) =>
      wu.client = c

RepositoryInv == StoreInv /\ RepositoryTypeOK /\ OwnRequests /\ AnswersReserved

(* Every call returns: the loop over {2} comes to the end of the line, since every
   round takes StepCount entries out of it. *)
CallsReturn ==
  \A c \in Client :
    call[c].at \in {"check", "sent", "answered"} ~> call[c].at = "returned"
=============================================================================
