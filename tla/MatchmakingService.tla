------------------------- MODULE MatchmakingService -------------------------
(***************************************************************************)
(* The matchmaking service over the in-memory queue, with what its calls   *)
(* return: a match is told from a cancellation only by the answer.         *)
(***************************************************************************)
EXTENDS MemoryQueue

VARIABLE answer   \* MatchResult or error of the last call, and who made it

Returns(id, outcome, partner) ==
  answer' = [caller |-> id, outcome |-> outcome, partner |-> partner]

ServiceInit ==
  QueueInit /\ answer = [caller |-> None, outcome |-> "none", partner |-> None]

FindPartner(wu) ==
  \/ (Enqueue(wu) \/ RepeatSearch(wu)) /\ Returns(wu.client, "waiting", None)
  \/ \E partner \in Client :
       TakePartner(wu, partner) /\ Returns(wu.client, "matched", partner)
  \/ RejectOtherPair(wu) /\ Returns(wu.client, "already_queued", None)

CancelSearch(id) == RemoveFromQueue(id) /\ Returns(id, "removed", None)

\* Either call with a context that has ended.
ContextEnded(id) == UNCHANGED queue /\ Returns(id, "context_ended", None)

ServiceNext == \/ \E wu \in WaitingUser : FindPartner(wu)
               \/ \E id \in Client : CancelSearch(id) \/ ContextEnded(id)

ServiceSpec == ServiceInit /\ [][ServiceNext]_<<queue, answer>>

-----------------------------------------------------------------------------
\* One user came earlier than another of its pair when it stands nearer the head.
EarlierIn(q) ==
  { <<q[t[1]], q[t[2]]>> : t \in { s \in (DOMAIN q) \X (DOMAIN q) :
                                   s[1] < s[2] /\ q[s[1]].pair = q[s[2]].pair } }

Pool == INSTANCE WaitingPool WITH waiting <- ToSet(queue), earlier <- EarlierIn(queue)

(* Longest-waiting first: every match hands out the compatible user that no
   compatible user came before and tells the caller of that very user; a repeat,
   a refusal and somebody else's departure leave everyone's place alone. *)
ImplementsPool == Pool!PoolSpec
=============================================================================
