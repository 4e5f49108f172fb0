----------------------- MODULE MatchmakingServiceProofs -----------------------
(***************************************************************************)
(* The matchmaking service implements the waiting pool, for any clients    *)
(* and any languages.                                                      *)
(***************************************************************************)
EXTENDS MatchmakingService, MemoryRepositoryProofs

(* The refinement.  A pair is in the order exactly when its sides stand in that
   order with the same language pair. *)
LEMMA EarlierMeaning ==
  ASSUME NEW q, NEW u, NEW v
  PROVE  <<u, v>> \in EarlierIn(q) <=>
           \E i, j \in DOMAIN q : /\ i < j /\ q[i].pair = q[j].pair
                                  /\ u = q[i] /\ v = q[j]
<1>1. ASSUME NEW i \in DOMAIN q, NEW j \in DOMAIN q,
             i < j, q[i].pair = q[j].pair, u = q[i], v = q[j]
      PROVE  <<u, v>> \in EarlierIn(q)
  <2>1. <<i, j>> \in { s \in (DOMAIN q) \X (DOMAIN q) :
                        s[1] < s[2] /\ q[s[1]].pair = q[s[2]].pair }
    BY <1>1
  <2>2. <<u, v>> = <<q[<<i, j>>[1]], q[<<i, j>>[2]]>>
    BY <1>1
  <2>3. QED
    BY <2>1, <2>2 DEF EarlierIn
<1>2. ASSUME <<u, v>> \in EarlierIn(q)
      PROVE  \E i, j \in DOMAIN q : /\ i < j /\ q[i].pair = q[j].pair
                                    /\ u = q[i] /\ v = q[j]
  BY <1>2 DEF EarlierIn
<1>3. QED
  BY <1>1, <1>2

(* The order holds pairs only, so two orders that relate the same users are equal. *)
LEMMA EarlierIsRelation ==
  ASSUME NEW q, NEW e \in EarlierIn(q)
  PROVE  e = <<e[1], e[2]>>
BY DEF EarlierIn

(* Appending a user is joining the pool: it comes after all users of its pair. *)
LEMMA EnqueueJoins ==
  ASSUME QueueInv, NEW wu \in WaitingUser, Enqueue(wu), Returns(wu.client, "waiting", None)
  PROVE  Pool!Join(wu)
<1> DEFINE n == Len(queue) + 1
           joined == { <<u, wu>> : u \in { v \in ToSet(queue) : v.pair = wu.pair } }
<1>1. /\ queue \in Seq(WaitingUser)
      /\ queue' = Append(queue, wu)
      /\ \A i \in DOMAIN queue : queue[i].client # wu.client
      /\ \A i \in DOMAIN queue : ~IsCompatibleWith(queue[i].pair, wu.pair)
  BY DEF QueueInv, QueueTypeOK, Enqueue, QueuedAt, CompatibleAt
<1>2. /\ DOMAIN queue = 1 .. Len(queue) /\ Len(queue) \in Nat
      /\ DOMAIN queue' = DOMAIN queue \cup {n}
      /\ \A i \in DOMAIN queue : queue'[i] = queue[i] /\ i < n
      /\ queue'[n] = wu
  BY <1>1
<1> HIDE DEF n
<1>3. ToSet(queue)' = ToSet(queue) \cup {wu}
  BY <1>2 DEF ToSet
<1>4. ASSUME NEW u, NEW v
      PROVE  <<u, v>> \in EarlierIn(queue') <=> <<u, v>> \in EarlierIn(queue) \cup joined
  <2>1. ASSUME <<u, v>> \in EarlierIn(queue')
        PROVE  <<u, v>> \in EarlierIn(queue) \cup joined
    <3>1. PICK i \in DOMAIN queue', j \in DOMAIN queue' :
            i < j /\ queue'[i].pair = queue'[j].pair /\ u = queue'[i] /\ v = queue'[j]
      BY <2>1, EarlierMeaning
    <3>2. i \in DOMAIN queue
      BY <3>1, <1>2 DEF n
    <3>3. CASE j \in DOMAIN queue
      BY <3>1, <3>2, <3>3, <1>2, EarlierMeaning
    <3>4. CASE j = n
      <4>1. u \in ToSet(queue) /\ u.pair = wu.pair /\ v = wu
        BY <3>1, <3>2, <3>4, <1>2 DEF ToSet
      <4>2. QED
        BY <4>1
    <3>5. QED
      BY <3>1, <3>3, <3>4, <1>2
  <2>2. ASSUME <<u, v>> \in EarlierIn(queue)
        PROVE  <<u, v>> \in EarlierIn(queue')
    <3>1. PICK i \in DOMAIN queue, j \in DOMAIN queue :
            i < j /\ queue[i].pair = queue[j].pair /\ u = queue[i] /\ v = queue[j]
      BY <2>2, EarlierMeaning
    <3>2. QED
      BY <3>1, <1>2, EarlierMeaning
  <2>3. ASSUME <<u, v>> \in joined
        PROVE  <<u, v>> \in EarlierIn(queue')
    <3>1. u \in ToSet(queue) /\ u.pair = wu.pair /\ v = wu
      BY <2>3
    <3>2. PICK i \in DOMAIN queue : u = queue[i]
      BY <3>1 DEF ToSet
    <3>3. /\ i \in DOMAIN queue' /\ n \in DOMAIN queue' /\ i < n
          /\ queue'[i] = u /\ queue'[n] = v /\ queue'[i].pair = queue'[n].pair
      BY <3>1, <3>2, <1>2
    <3>4. QED
      BY <3>3, EarlierMeaning
  <2>4. QED
    BY <2>1, <2>2, <2>3
<1>5. EarlierIn(queue') = EarlierIn(queue) \cup joined
  <2>1. \A e \in joined : e = <<e[1], e[2]>>
    OBVIOUS
  <2>2. \A e \in EarlierIn(queue') \cup EarlierIn(queue) : e = <<e[1], e[2]>>
    BY EarlierIsRelation
  <2> HIDE DEF joined
  <2>3. QED
    BY <1>4, <2>1, <2>2
<1>6. ~Pool!IsWaiting(wu.client) /\ Pool!Compatible(wu) = {}
  BY <1>1 DEF Pool!IsWaiting, Pool!Compatible, Pool!IsCompatibleWith, IsCompatibleWith, ToSet
<1>7. QED
  BY <1>3, <1>5, <1>6 DEF Pool!Join, Pool!Returns, Returns, EarlierIn

(* Removing an entry is its user leaving the pool: nobody else's place changes. *)
LEMMA RemoveLeaves ==
  ASSUME QueueInv, NEW i \in DOMAIN queue, queue' = RemoveAt(queue, i)
  PROVE  Pool!Leave(queue[i])
<1> DEFINE old(j) == IF j < i THEN j ELSE j + 1
           new(k) == IF k < i THEN k ELSE k - 1
<1>1. /\ queue \in Seq(WaitingUser)
      /\ \A j, k \in DOMAIN queue : queue[j].client = queue[k].client => j = k
  BY DEF QueueInv, QueueTypeOK, OneSearchPerClient
<1>2. /\ DOMAIN queue' = 1 .. Len(queue) - 1
      /\ \A j \in DOMAIN queue' : queue'[j] = queue[old(j)]
  <2>1. /\ queue' \in Seq(WaitingUser)
        /\ Len(queue') = Len(queue) - 1
        /\ \A j \in 1 .. Len(queue) - 1 : queue'[j] = queue[IF j < i THEN j ELSE j + 1]
    BY <1>1, RemoveAtProperties
  <2>2. QED
    BY <2>1
<1>3. DOMAIN queue = 1 .. Len(queue) /\ Len(queue) \in Nat
  BY <1>1
<1>4. \A j \in DOMAIN queue' : old(j) \in DOMAIN queue /\ old(j) # i
  BY <1>2, <1>3
<1>5. \A j, k \in DOMAIN queue' : j < k => old(j) < old(k)
  BY <1>2, <1>3
<1>6. \A k \in DOMAIN queue : k # i => new(k) \in DOMAIN queue' /\ old(new(k)) = k
  BY <1>2, <1>3
<1>7. \A j, k \in DOMAIN queue : j < k /\ j # i /\ k # i => new(j) < new(k)
  BY <1>3
<1> HIDE DEF old, new
<1>8. \A k \in DOMAIN queue : queue[k] = queue[i] => k = i
  BY <1>1
<1>9. ToSet(queue)' = ToSet(queue) \ {queue[i]}
  <2>1. ASSUME NEW u \in ToSet(queue')
        PROVE  u \in ToSet(queue) \ {queue[i]}
    BY <1>2, <1>4, <1>8 DEF ToSet
  <2>2. ASSUME NEW u \in ToSet(queue), u # queue[i]
        PROVE  u \in ToSet(queue')
    <3>1. PICK k \in DOMAIN queue : u = queue[k]
      BY DEF ToSet
    <3>2. k # i
      BY <3>1, <2>2
    <3>3. new(k) \in DOMAIN queue' /\ queue'[new(k)] = u
      BY <3>1, <3>2, <1>2, <1>6
    <3>4. QED
      BY <3>3 DEF ToSet
  <2>3. QED
    BY <2>1, <2>2
<1>10. ASSUME NEW u, NEW v
       PROVE  <<u, v>> \in EarlierIn(queue') <=>
                <<u, v>> \in EarlierIn(queue) /\ u # queue[i] /\ v # queue[i]
  <2>1. ASSUME <<u, v>> \in EarlierIn(queue')
        PROVE  <<u, v>> \in EarlierIn(queue) /\ u # queue[i] /\ v # queue[i]
    <3>1. PICK j \in DOMAIN queue', k \in DOMAIN queue' :
            j < k /\ queue'[j].pair = queue'[k].pair /\ u = queue'[j] /\ v = queue'[k]
      BY <2>1, EarlierMeaning
    <3>2. /\ old(j) \in DOMAIN queue /\ old(k) \in DOMAIN queue /\ old(j) < old(k)
          /\ u = queue[old(j)] /\ v = queue[old(k)]
          /\ queue[old(j)].pair = queue[old(k)].pair
          /\ old(j) # i /\ old(k) # i
      BY <3>1, <1>2, <1>4, <1>5
    <3>3. QED
      BY <3>2, <1>8, EarlierMeaning
  <2>2. ASSUME <<u, v>> \in EarlierIn(queue), u # queue[i], v # queue[i]
        PROVE  <<u, v>> \in EarlierIn(queue')
    <3>1. PICK j \in DOMAIN queue, k \in DOMAIN queue :
            j < k /\ queue[j].pair = queue[k].pair /\ u = queue[j] /\ v = queue[k]
      BY <2>2, EarlierMeaning
    <3>2. /\ new(j) \in DOMAIN queue' /\ new(k) \in DOMAIN queue' /\ new(j) < new(k)
          /\ u = queue'[new(j)] /\ v = queue'[new(k)]
      BY <3>1, <2>2, <1>2, <1>6, <1>7
    <3>3. QED
      BY <3>1, <3>2, EarlierMeaning
  <2>3. QED
    BY <2>1, <2>2
<1>11. EarlierIn(queue') =
         { e \in EarlierIn(queue) : e[1] # queue[i] /\ e[2] # queue[i] }
  <2>1. \A e \in EarlierIn(queue') \cup EarlierIn(queue) : e = <<e[1], e[2]>>
    BY EarlierIsRelation
  <2>2. QED
    BY <1>10, <2>1
<1>12. QED
  BY <1>9, <1>11 DEF Pool!Leave

(* The entry nearest the head is a longest-waiting one: one that came earlier
   with the same pair would be compatible too and stand nearer. *)
LEMMA TakePartnerMatches ==
  ASSUME QueueInv, NEW wu \in WaitingUser, NEW partner, TakePartner(wu, partner),
         Returns(wu.client, "matched", partner)
  PROVE  Pool!Match(wu)
<1>1. PICK i \in CompatibleAt(wu.pair) :
        /\ \A j \in CompatibleAt(wu.pair) : i <= j
        /\ partner = queue[i].client
        /\ queue' = RemoveAt(queue, i)
  BY DEF TakePartner
<1>2. i \in DOMAIN queue /\ IsCompatibleWith(queue[i].pair, wu.pair)
  BY <1>1 DEF CompatibleAt
<1>3. Pool!Leave(queue[i]) /\ Pool!Returns(wu.client, "matched", queue[i].client)
  BY <1>1, <1>2, RemoveLeaves DEF Returns, Pool!Returns
<1>4. queue[i] \in Pool!Compatible(wu)
  BY <1>2 DEF Pool!Compatible, Pool!IsCompatibleWith, IsCompatibleWith, ToSet
<1>5. ASSUME NEW v, <<v, queue[i]>> \in EarlierIn(queue), v \in Pool!Compatible(wu)
      PROVE  FALSE
  <2>1. PICK j \in DOMAIN queue, k \in DOMAIN queue :
          j < k /\ v = queue[j] /\ queue[i] = queue[k]
    BY <1>5, EarlierMeaning
  <2>2. i = k
    BY <2>1, <1>2 DEF QueueInv, OneSearchPerClient
  <2>3. j \in CompatibleAt(wu.pair)
    BY <2>1, <1>5 DEF Pool!Compatible, Pool!IsCompatibleWith, IsCompatibleWith, CompatibleAt
  <2>4. DOMAIN queue = 1 .. Len(queue) /\ Len(queue) \in Nat
    BY DEF QueueInv, QueueTypeOK
  <2>5. QED
    BY <1>1, <2>1, <2>2, <2>3, <2>4
<1>6. ~Pool!IsWaiting(wu.client)
  BY DEF TakePartner, QueuedAt, Pool!IsWaiting, ToSet
<1>7. QED
  BY <1>3, <1>4, <1>5, <1>6 DEF Pool!Match

(* Removing the first entry of a client removes its only one. *)
LEMMA RemoveFromQueueCancels ==
  ASSUME QueueInv, NEW id \in Client, RemoveFromQueue(id), Returns(id, "removed", None)
  PROVE  Pool!Cancel(id)
<1>1. CASE QueuedAt(id) = {} /\ UNCHANGED queue
  <2>1. ~Pool!IsWaiting(id)
    BY <1>1 DEF Pool!IsWaiting, QueuedAt, ToSet
  <2>2. QED
    BY <1>1, <2>1 DEF Pool!Cancel, Pool!Stay, Pool!Returns, Returns, ToSet, EarlierIn
<1>2. ASSUME NEW i \in QueuedAt(id), queue' = RemoveAt(queue, i)
      PROVE  Pool!Cancel(id)
  <2>1. i \in DOMAIN queue /\ queue[i].client = id
    BY DEF QueuedAt
  <2>2. queue[i] \in ToSet(queue) /\ Pool!Leave(queue[i])
    BY <1>2, <2>1, RemoveLeaves DEF ToSet
  <2>3. QED
    BY <2>1, <2>2 DEF Pool!Cancel, Pool!Returns, Returns
<1>3. QED
  BY <1>1, <1>2 DEF RemoveFromQueue

(* A client that already waits changes nothing by searching again. *)
LEMMA RepeatsStay ==
  ASSUME NEW wu \in WaitingUser,
         \/ RepeatSearch(wu) /\ Returns(wu.client, "waiting", None)
         \/ RejectOtherPair(wu) /\ Returns(wu.client, "already_queued", None),
         QueueInv
  PROVE  Pool!Repeat(wu) \/ Pool!RefuseOther(wu)
<1>1. PICK i \in DOMAIN queue : /\ queue[i].client = wu.client
                                /\ \/ /\ queue[i].pair = wu.pair
                                      /\ Returns(wu.client, "waiting", None)
                                   \/ /\ queue[i].pair # wu.pair
                                      /\ Returns(wu.client, "already_queued", None)
  BY DEF RepeatSearch, RejectOtherPair, QueuedAt
<1>2. queue[i] \in ToSet(queue) /\ UNCHANGED queue
  BY DEF ToSet, RepeatSearch, RejectOtherPair
<1>3. queue[i].pair = wu.pair => queue[i] = wu
  <2>1. queue[i] \in WaitingUser
    BY DEF QueueInv, QueueTypeOK
  <2>2. \A u \in WaitingUser : u = [client |-> u.client, pair |-> u.pair]
    BY DEF WaitingUser
  <2>3. QED
    BY <1>1, <2>1, <2>2
<1>4. Pool!Stay
  BY <1>2 DEF Pool!Stay, ToSet, EarlierIn
<1>5. QED
  BY <1>1, <1>2, <1>3, <1>4 DEF Pool!Repeat, Pool!RefuseOther, Pool!Returns, Returns

(* The service uses the queue by its operations. *)
LEMMA ServiceQueueStep == [ServiceNext]_<<queue, answer>> => [QueueNext]_queue
BY DEF ServiceNext, FindPartner, CancelSearch, ContextEnded, QueueNext

(* The queue's invariant holds in the service. *)
THEOREM ServiceInv == ServiceSpec => []QueueInv
<1>1. ServiceInit => QueueInv
  BY QueueInitInv DEF ServiceInit
<1>2. QED
  BY <1>1, ServiceQueueStep, QueueNextInv, PTL DEF ServiceSpec

(* The service implements the waiting pool: each search is given the compatible
   user that has waited longest, and cancellations, repeats and refused searches
   leave everyone else's place alone. *)
THEOREM ServiceImplementsPool == ServiceSpec => ImplementsPool
<1>1. ServiceInit => Pool!PoolInit
  BY DEF ServiceInit, QueueInit, Pool!PoolInit, ToSet, EarlierIn
<1>2. QueueInv /\ [ServiceNext]_<<queue, answer>> =>
        [Pool!PoolNext]_<<ToSet(queue), EarlierIn(queue), answer>>
  <2> SUFFICES ASSUME QueueInv, [ServiceNext]_<<queue, answer>>
               PROVE  [Pool!PoolNext]_<<ToSet(queue), EarlierIn(queue), answer>>
    OBVIOUS
  <2>1. CASE UNCHANGED <<queue, answer>>
    BY <2>1 DEF ToSet, EarlierIn
  <2>2. ASSUME NEW wu \in WaitingUser, FindPartner(wu)
        PROVE  Pool!PoolNext
    <3>1. wu \in Pool!WaitingUser
      BY DEF Pool!WaitingUser, Pool!LanguagePair, WaitingUser, LanguagePair
    <3>2. Pool!Join(wu) \/ Pool!Match(wu) \/ Pool!Repeat(wu) \/ Pool!RefuseOther(wu)
      BY <2>2, EnqueueJoins, TakePartnerMatches, RepeatsStay DEF FindPartner
    <3>3. QED
      BY <3>1, <3>2 DEF Pool!PoolNext
  <2>3. ASSUME NEW id \in Client, CancelSearch(id)
        PROVE  Pool!PoolNext
    BY <2>3, RemoveFromQueueCancels DEF CancelSearch, Pool!PoolNext
  <2>4. ASSUME NEW id \in Client, ContextEnded(id)
        PROVE  Pool!PoolNext
    BY <2>4 DEF ContextEnded, Pool!PoolNext, Pool!Refuse, Pool!Stay, Pool!Returns, Returns,
                ToSet, EarlierIn
  <2>5. QED
    BY <2>1, <2>2, <2>3, <2>4 DEF ServiceNext
<1>3. QED
  BY <1>1, <1>2, ServiceInv, PTL DEF ServiceSpec, ImplementsPool, Pool!PoolSpec
=============================================================================
