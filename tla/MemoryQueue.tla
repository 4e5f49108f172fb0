----------------------------- MODULE MemoryQueue -----------------------------
(***************************************************************************)
(* The in-memory matchmaking repository.  Each operation holds the mutex   *)
(* from its first statement to its return, so each is one action.          *)
(* MatchOrEnqueue has one action per outcome; a context that has ended     *)
(* makes every operation return an error and change nothing, which callers *)
(* model as their own step.                                                *)
(***************************************************************************)
EXTENDS Domain, Integers, SequencesExt

VARIABLE queue    \* repository.queue, oldest search first

QueueInit == queue = <<>>

QueuedAt(id) == { i \in DOMAIN queue : queue[i].client = id }

CompatibleAt(pair) ==
  { i \in DOMAIN queue : IsCompatibleWith(queue[i].pair, pair) }

\* Faulty variants: the pair is built from one language twice; the client is not
\* looked for in the queue; the queue is not searched for somebody compatible.
EnqueueNativeTwice(wu) ==
  /\ QueuedAt(wu.client) = {}
  /\ CompatibleAt(wu.pair) = {}
  /\ queue' = Append(queue, [wu EXCEPT !.pair.learning = wu.pair.native])

EnqueueAgain(wu) ==
  /\ CompatibleAt(wu.pair) = {}
  /\ queue' = Append(queue, wu)

EnqueueUnmatched(wu) ==
  /\ QueuedAt(wu.client) = {}
  /\ queue' = Append(queue, wu)

\* MatchOrEnqueue, nobody compatible: the search joins the tail.
Enqueue(wu) ==
  /\ QueuedAt(wu.client) = {}
  /\ CompatibleAt(wu.pair) = {}
  /\ queue' = Append(queue, wu)

\* Faulty variant: the scan runs to the end and keeps the last hit.
TakeNewestPartner(wu, partner) ==
  /\ QueuedAt(wu.client) = {}
  /\ \E i \in CompatibleAt(wu.pair) :
       /\ \A j \in CompatibleAt(wu.pair) : i >= j
       /\ partner = queue[i].client
       /\ queue' = RemoveAt(queue, i)

\* MatchOrEnqueue, matched: the compatible search nearest the head leaves the
\* queue and its client is the caller's partner.
TakePartner(wu, partner) ==
  /\ QueuedAt(wu.client) = {}
  /\ \E i \in CompatibleAt(wu.pair) :
       /\ \A j \in CompatibleAt(wu.pair) : i <= j
       /\ partner = queue[i].client
       /\ queue' = RemoveAt(queue, i)

\* MatchOrEnqueue by a client that already waits with the same pair: it waits on.
RepeatSearch(wu) ==
  /\ \E i \in QueuedAt(wu.client) : queue[i].pair = wu.pair
  /\ UNCHANGED queue

\* MatchOrEnqueue by a client that waits with another pair: ErrClientAlreadyQueued.
RejectOtherPair(wu) ==
  /\ \E i \in QueuedAt(wu.client) : queue[i].pair # wu.pair
  /\ UNCHANGED queue

\* RemoveFromQueue: the client's first entry, if it has one.
RemoveFromQueue(id) ==
  \/ /\ QueuedAt(id) = {}
     /\ UNCHANGED queue
  \/ \E i \in QueuedAt(id) : /\ \A j \in QueuedAt(id) : i <= j
                             /\ queue' = RemoveAt(queue, i)

QueueNext ==
  \/ \E wu \in WaitingUser : \/ Enqueue(wu)
                             \/ \E partner \in Client : TakePartner(wu, partner)
                             \/ RepeatSearch(wu)
                             \/ RejectOtherPair(wu)
  \/ \E id \in Client : RemoveFromQueue(id)

QueueSpec == QueueInit /\ [][QueueNext]_queue

-----------------------------------------------------------------------------
QueueTypeOK == queue \in Seq(WaitingUser)

(* A client waits at most once, whatever sequence of searches, repeats and
   cancellations it issues: RemoveFromQueue drops only the first entry, so a
   second one would survive a cancellation. *)
OneSearchPerClient ==
  \A i, j \in DOMAIN queue : queue[i].client = queue[j].client => i = j

(* Two users who could talk to each other never both wait: MatchOrEnqueue
   enqueues only when the whole queue holds nobody compatible. *)
NoCompatibleWaiting ==
  \A i, j \in DOMAIN queue : ~IsCompatibleWith(queue[i].pair, queue[j].pair)

QueueInv == QueueTypeOK /\ OneSearchPerClient /\ NoCompatibleWaiting
=============================================================================
