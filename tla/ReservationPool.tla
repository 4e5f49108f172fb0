--------------------------- MODULE ReservationPool ---------------------------
(***************************************************************************)
(* What the Redis store promises: waiting users, the order they came in,   *)
(* and reservations of two users each.  Both last a fixed time, and time   *)
(* alone ends them, except that a search may be cancelled.  A user whose   *)
(* search has lapsed may later be taken before users that came before it.  *)
(***************************************************************************)
EXTENDS Domain, Integers

CONSTANTS WaitingTTL,   \* ticks a search lasts
          MatchedTTL    \* ticks a reservation lasts

VARIABLES waiting,   \* the users in the pool
          earlier,   \* <<u, v>>: both wait with the same pair and u came first
          lapsed,    \* users with a lapsed search that is not forgotten
          reserved,  \* the reservations, sets of two users
          left       \* ticks left of a client's search or reservation, 0 without one

PoolInit == /\ waiting = {} /\ earlier = {} /\ lapsed = {} /\ reserved = {}
            /\ left = [c \in Client |-> 0]

Busy(id) == \/ \E u \in waiting : u.client = id
            \/ \E r \in reserved : \E u \in r : u.client = id

Compatible(wu) == { u \in waiting : IsCompatibleWith(u.pair, wu.pair) }

Leave(users) ==
  /\ waiting' = waiting \ users
  /\ earlier' = { e \in earlier : e[1] \notin users /\ e[2] \notin users }

\* Lapsed searches are forgotten at any time, and only time adds one.
Forget == lapsed' \subseteq lapsed

ForgetLapsed == Forget /\ UNCHANGED <<waiting, earlier, reserved, left>>

\* Nobody is compatible: the user joins, behind all users of its own pair.
Join(wu) ==
  /\ ~Busy(wu.client) /\ Compatible(wu) = {}
  /\ waiting' = waiting \cup {wu}
  /\ earlier' = earlier \cup { <<u, wu>> : u \in { v \in waiting : v.pair = wu.pair } }
  /\ left' = [left EXCEPT ![wu.client] = WaitingTTL]
  /\ Forget
  /\ UNCHANGED reserved

\* Two compatible users leave the pool for a reservation.
Match(wu) ==
  /\ ~Busy(wu.client)
  /\ \E u \in Compatible(wu) :
       /\ u \in lapsed \/ \A v \in Compatible(wu) : <<v, u>> \notin earlier
       /\ Leave({u})
       /\ reserved' = reserved \cup {{u, wu}}
       /\ left' = [left EXCEPT ![wu.client] = MatchedTTL, ![u.client] = MatchedTTL]
  /\ Forget

Cancel(u) == /\ u \in waiting /\ Leave({u})
             /\ left' = [left EXCEPT ![u.client] = 0]
             /\ Forget
             /\ UNCHANGED reserved

\* A tick: the searches and the reservations whose time is over end, and no others.
Lapse ==
  LET users == { u \in waiting : left[u.client] = 1 } IN
  /\ Leave(users)
  /\ lapsed' = lapsed \cup users
  /\ reserved' = { r \in reserved : \A u \in r : left[u.client] # 1 }
  /\ left' = [c \in Client |-> IF left[c] = 0 THEN 0 ELSE left[c] - 1]

PoolNext == \/ \E wu \in WaitingUser : Join(wu) \/ Match(wu) \/ Cancel(wu)
            \/ Lapse
            \/ ForgetLapsed

PoolSpec == PoolInit /\ [][PoolNext]_<<waiting, earlier, lapsed, reserved, left>>
=============================================================================
