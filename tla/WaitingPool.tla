----------------------------- MODULE WaitingPool -----------------------------
(***************************************************************************)
(* What the matchmaking service promises, whatever stores the searches: a  *)
(* pool of waiting users and, among those with the same language pair, who *)
(* came earlier, and what each call returns.  A search is given a          *)
(* compatible user no compatible user came before, or waits when nobody is *)
(* compatible.                                                             *)
(***************************************************************************)
EXTENDS Domain

VARIABLES waiting,   \* the users in the pool
          earlier,   \* <<u, v>>: u and v have the same pair and u came first
          answer     \* what the last call returned, and to whom

Returns(id, outcome, partner) ==
  answer' = [caller |-> id, outcome |-> outcome, partner |-> partner]

PoolInit == /\ waiting = {} /\ earlier = {}
            /\ answer = [caller |-> None, outcome |-> "none", partner |-> None]

IsWaiting(id) == \E u \in waiting : u.client = id

Compatible(wu) == { u \in waiting : IsCompatibleWith(u.pair, wu.pair) }

Leave(u) ==
  /\ waiting' = waiting \ {u}
  /\ earlier' = { e \in earlier : e[1] # u /\ e[2] # u }

Stay == UNCHANGED <<waiting, earlier>>

\* Nobody is compatible: the user joins, behind all users of its own pair.
Join(wu) ==
  /\ ~IsWaiting(wu.client)
  /\ Compatible(wu) = {}
  /\ waiting' = waiting \cup {wu}
  /\ earlier' = earlier \cup { <<u, wu>> : u \in { v \in waiting : v.pair = wu.pair } }
  /\ Returns(wu.client, "waiting", None)

\* The user is told of the compatible user that has waited longest, which leaves.
Match(wu) ==
  /\ ~IsWaiting(wu.client)
  /\ \E u \in Compatible(wu) : /\ \A v \in Compatible(wu) : <<v, u>> \notin earlier
                               /\ Leave(u)
                               /\ Returns(wu.client, "matched", u.client)

\* A waiting user asks again: it keeps its place, or its other pair is refused.
Repeat(wu) == wu \in waiting /\ Stay /\ Returns(wu.client, "waiting", None)

RefuseOther(wu) ==
  /\ \E u \in waiting : u.client = wu.client /\ u.pair # wu.pair
  /\ Stay
  /\ Returns(wu.client, "already_queued", None)

\* After a cancellation the client does not wait, whether it did before or not.
Cancel(id) ==
  /\ \/ ~IsWaiting(id) /\ Stay
     \/ \E u \in waiting : u.client = id /\ Leave(u)
  /\ Returns(id, "removed", None)

\* A call whose context has ended has no effect.
Refuse(id) == Stay /\ Returns(id, "context_ended", None)

PoolNext ==
  \/ \E wu \in WaitingUser : Join(wu) \/ Match(wu) \/ Repeat(wu) \/ RefuseOther(wu)
  \/ \E id \in Client : Cancel(id) \/ Refuse(id)

PoolSpec == PoolInit /\ [][PoolNext]_<<waiting, earlier, answer>>
=============================================================================
