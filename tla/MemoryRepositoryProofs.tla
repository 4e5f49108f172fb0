----------------------- MODULE MemoryRepositoryProofs -----------------------
(***************************************************************************)
(* The two in-memory repositories, for any clients, languages and room     *)
(* ids: the matchmaking queue first, the rooms then.                       *)
(***************************************************************************)
EXTENDS MemoryQueue, RoomRepository, SequenceTheorems, TLAPS

(* What RemoveAt leaves: the elements before i in place, those after it one
   place nearer the head (removeFromQueueByIndex's append of two slices). *)
LEMMA RemoveAtProperties ==
  ASSUME NEW S, NEW s \in Seq(S), NEW i \in DOMAIN s
  PROVE  /\ RemoveAt(s, i) \in Seq(S)
         /\ Len(RemoveAt(s, i)) = Len(s) - 1
         /\ \A j \in 1 .. Len(s) - 1 :
              RemoveAt(s, i)[j] = s[IF j < i THEN j ELSE j + 1]
<1> DEFINE front == SubSeq(s, 1, i - 1)
           back == SubSeq(s, i + 1, Len(s))
<1>1. i \in 1 .. Len(s) /\ Len(s) \in Nat
  OBVIOUS
<1>2. /\ front \in Seq(S) /\ Len(front) = i - 1
      /\ \A j \in 1 .. i - 1 : front[j] = s[j]
  BY <1>1
<1>3. /\ back \in Seq(S) /\ Len(back) = Len(s) - i
      /\ \A j \in 1 .. Len(s) - i : back[j] = s[i + j]
  BY <1>1
<1>4. RemoveAt(s, i) = front \o back
  BY DEF RemoveAt
<1>5. /\ Len(front \o back) = Len(s) - 1
      /\ front \o back \in Seq(S)
      /\ \A j \in 1 .. Len(s) - 1 :
           (front \o back)[j] = IF j < i THEN front[j] ELSE back[j - (i - 1)]
  <2> HIDE DEF front, back
  <2> QED BY <1>1, <1>2, <1>3
<1> HIDE DEF front, back
<1>6. ASSUME NEW j \in 1 .. Len(s) - 1
      PROVE  RemoveAt(s, i)[j] = s[IF j < i THEN j ELSE j + 1]
  <2>1. CASE j < i
    BY <2>1, <1>1, <1>2, <1>4, <1>5
  <2>2. CASE ~(j < i)
    <3>1. j - (i - 1) \in 1 .. Len(s) - i /\ i + (j - (i - 1)) = j + 1
      BY <2>2, <1>1
    <3>2. back[j - (i - 1)] = s[j + 1]
      BY <3>1, <1>3
    <3> QED
      BY <2>2, <3>2, <1>4, <1>5
  <2> QED
    BY <2>1, <2>2
<1>7. QED
  BY <1>4, <1>5, <1>6

-----------------------------------------------------------------------------
(* Compatibility is mutual, and no pair is compatible with itself. *)
LEMMA CompatibleSymmetric ==
  ASSUME NEW p \in LanguagePair, NEW q \in LanguagePair
  PROVE  /\ IsCompatibleWith(p, q) <=> IsCompatibleWith(q, p)
         /\ ~IsCompatibleWith(p, p)
BY DEF IsCompatibleWith, LanguagePair

(* Removing an entry keeps the invariant. *)
LEMMA RemovePreserves ==
  ASSUME QueueInv, NEW i \in DOMAIN queue, queue' = RemoveAt(queue, i)
  PROVE  QueueInv'
<1>1. /\ queue' \in Seq(WaitingUser)
      /\ Len(queue') = Len(queue) - 1
      /\ \A j \in 1 .. Len(queue) - 1 : queue'[j] = queue[IF j < i THEN j ELSE j + 1]
  BY RemoveAtProperties DEF QueueInv, QueueTypeOK
<1>2. DOMAIN queue = 1 .. Len(queue) /\ Len(queue) \in Nat /\ DOMAIN queue' = 1 .. Len(queue) - 1
  BY <1>1 DEF QueueInv, QueueTypeOK
<1> DEFINE old(j) == IF j < i THEN j ELSE j + 1
<1>3. \A j \in DOMAIN queue' : old(j) \in DOMAIN queue /\ queue'[j] = queue[old(j)]
  BY <1>1, <1>2
<1>4. \A j, k \in DOMAIN queue' : old(j) = old(k) => j = k
  BY <1>2
<1> HIDE DEF old
<1>5. OneSearchPerClient'
  BY <1>3, <1>4 DEF QueueInv, OneSearchPerClient
<1>6. NoCompatibleWaiting'
  BY <1>3 DEF QueueInv, NoCompatibleWaiting
<1>7. QED
  BY <1>1, <1>5, <1>6 DEF QueueInv, QueueTypeOK

(* Appending a search keeps the invariant: MatchOrEnqueue has looked at every entry. *)
LEMMA EnqueuePreserves ==
  ASSUME QueueInv, NEW wu \in WaitingUser, Enqueue(wu)
  PROVE  QueueInv'
<1> USE DEF QueueInv
<1>1. /\ queue \in Seq(WaitingUser)
      /\ queue' = Append(queue, wu)
      /\ \A i \in DOMAIN queue : queue[i].client # wu.client
      /\ \A i \in DOMAIN queue : ~IsCompatibleWith(queue[i].pair, wu.pair)
  BY DEF QueueTypeOK, Enqueue, QueuedAt, CompatibleAt
<1>2. /\ queue' \in Seq(WaitingUser)
      /\ DOMAIN queue' = DOMAIN queue \cup {Len(queue) + 1}
      /\ \A i \in DOMAIN queue : queue'[i] = queue[i]
      /\ queue'[Len(queue) + 1] = wu
  BY <1>1
<1>3. OneSearchPerClient'
  BY <1>1, <1>2 DEF OneSearchPerClient
<1>4. \A i \in DOMAIN queue : queue[i].pair \in LanguagePair
  <2>1. \A i \in DOMAIN queue : queue[i] \in WaitingUser
    BY <1>1
  <2>2. QED
    BY <2>1 DEF WaitingUser
<1>5. wu.pair \in LanguagePair
  BY DEF WaitingUser
<1>6. \A i \in DOMAIN queue : ~IsCompatibleWith(wu.pair, queue[i].pair)
  BY <1>1, <1>4, <1>5, CompatibleSymmetric
<1>7. ~IsCompatibleWith(wu.pair, wu.pair)
  BY <1>5, CompatibleSymmetric
<1>8. NoCompatibleWaiting'
  BY <1>1, <1>2, <1>6, <1>7 DEF NoCompatibleWaiting
<1>9. QED
  BY <1>2, <1>3, <1>8 DEF QueueTypeOK

(* The empty queue satisfies the invariant. *)
LEMMA QueueInitInv == QueueInit => QueueInv
BY DEF QueueInit, QueueInv, QueueTypeOK, OneSearchPerClient, NoCompatibleWaiting

(* Every operation of the repository keeps the invariant. *)
LEMMA QueueNextInv == QueueInv /\ [QueueNext]_queue => QueueInv'
<1> SUFFICES ASSUME QueueInv, [QueueNext]_queue
             PROVE  QueueInv'
  OBVIOUS
<1>1. ASSUME NEW wu \in WaitingUser, Enqueue(wu)
      PROVE  QueueInv'
  BY <1>1, EnqueuePreserves
<1>2. ASSUME NEW wu \in WaitingUser, NEW partner \in Client, TakePartner(wu, partner)
      PROVE  QueueInv'
  BY <1>2, RemovePreserves DEF TakePartner, CompatibleAt
<1>3. ASSUME NEW id \in Client, RemoveFromQueue(id), UNCHANGED queue => QueueInv'
      PROVE  QueueInv'
  BY <1>3, RemovePreserves DEF RemoveFromQueue, QueuedAt
<1>4. CASE UNCHANGED queue
  BY <1>4 DEF QueueInv, QueueTypeOK, OneSearchPerClient, NoCompatibleWaiting
<1>5. QED
  BY <1>1, <1>2, <1>3, <1>4 DEF QueueNext, RepeatSearch, RejectOtherPair

(* The invariant of the in-memory queue holds over every sequence of calls. *)
THEOREM QueueSpecInv == QueueSpec => []QueueInv
BY QueueInitInv, QueueNextInv, PTL DEF QueueSpec

(* The queue only ever holds waiting users with a valid language pair. *)
THEOREM QueueTypeCorrect == QueueSpec => []QueueTypeOK
<1>1. QueueInv => QueueTypeOK
  BY DEF QueueInv
<1>2. QED
  BY <1>1, QueueSpecInv, PTL

(* No sequence of searches, repeats and cancellations makes a client wait twice. *)
THEOREM OneSearchAlways == QueueSpec => []OneSearchPerClient
<1>1. QueueInv => OneSearchPerClient
  BY DEF QueueInv
<1>2. QED
  BY <1>1, QueueSpecInv, PTL

(* Two compatible users never both wait. *)
THEOREM NoCompatibleAlways == QueueSpec => []NoCompatibleWaiting
<1>1. QueueInv => NoCompatibleWaiting
  BY DEF QueueInv
<1>2. QED
  BY <1>1, QueueSpecInv, PTL

-----------------------------------------------------------------------------
(* The empty maps agree. *)
LEMMA RoomsInitInv == RoomsInit => RoomsInv
BY NoneIsNoRoom DEF RoomsInit, RoomsInv, RoomsTypeOK, RoomIndex

(* A room is created only for two clients the index knows no room of, so no
   entry of another room is overwritten. *)
LEMMA CreatePreserves ==
  ASSUME RoomsInv, NEW r \in RoomID, NEW first \in Client, NEW second \in Client,
         Create(r, first, second)
  PROVE  RoomsInv'
<1>1. {first, second} \in ConnectedClientsPair
  BY DEF Create, ConnectedClientsPair
<1>2. RoomsTypeOK'
  BY <1>1 DEF RoomsInv, RoomsTypeOK, Create
<1>3. ASSUME NEW x \in RoomID, NEW c \in Client
      PROVE  c \in rooms'[x] <=> clientsRooms'[c] = x
  <2>1. CASE c \in {first, second}
    <3>1. clientsRooms'[c] = r /\ clientsRooms[c] # x
      BY <2>1, NoneIsNoRoom DEF Create, InRoom
    <3>2. c \notin rooms[x]
      BY <3>1 DEF RoomsInv, RoomIndex
    <3>3. c \in rooms'[x] <=> x = r
      BY <2>1, <3>2 DEF Create, RoomsInv, RoomsTypeOK
    <3>4. QED
      BY <3>1, <3>3
  <2>2. CASE c \notin {first, second}
    BY <2>2 DEF Create, RoomsInv, RoomsTypeOK, RoomIndex
  <2>3. QED
    BY <2>1, <2>2
<1>4. QED
  BY <1>2, <1>3 DEF RoomsInv, RoomIndex

(* Delete drops the entries of the room's clients, which are entries of this
   room because the maps agree. *)
LEMMA DeletePreserves ==
  ASSUME RoomsInv, NEW r \in RoomID, Delete(r)
  PROVE  RoomsInv'
<1>1. RoomsTypeOK'
  BY DEF RoomsInv, RoomsTypeOK, Delete
<1>2. RoomIndex'
  BY NoneIsNoRoom DEF RoomsInv, RoomsTypeOK, RoomIndex, Delete
<1>3. QED
  BY <1>1, <1>2 DEF RoomsInv

(* Every operation of the repository keeps the maps in agreement. *)
LEMMA RoomsNextInv == RoomsInv /\ [RoomsNext]_roomVars => RoomsInv'
<1> SUFFICES ASSUME RoomsInv, [RoomsNext]_roomVars
             PROVE  RoomsInv'
  OBVIOUS
<1>1. ASSUME NEW r \in RoomID, NEW first \in Client, NEW second \in Client,
             Create(r, first, second)
      PROVE  RoomsInv'
  BY <1>1, CreatePreserves
<1>2. ASSUME NEW r \in RoomID, Delete(r)
      PROVE  RoomsInv'
  BY <1>2, DeletePreserves
<1>3. CASE UNCHANGED roomVars
  BY <1>3 DEF RoomsInv, RoomsTypeOK, RoomIndex, roomVars
<1>4. QED
  BY <1>1, <1>2, <1>3 DEF RoomsNext

(* The invariant of the room repository holds over every sequence of calls. *)
THEOREM RoomsSpecInv == RoomsSpec => []RoomsInv
BY RoomsInitInv, RoomsNextInv, PTL DEF RoomsSpec

(* Rooms hold two different clients, and the index holds rooms. *)
THEOREM RoomsTypeCorrect == RoomsSpec => []RoomsTypeOK
<1>1. RoomsInv => RoomsTypeOK
  BY DEF RoomsInv
<1>2. QED
  BY <1>1, RoomsSpecInv, PTL

(* The room map and the client index always agree. *)
THEOREM RoomIndexAlways == RoomsSpec => []RoomIndex
<1>1. RoomsInv => RoomIndex
  BY DEF RoomsInv
<1>2. QED
  BY <1>1, RoomsSpecInv, PTL

(* No client is ever in two rooms. *)
THEOREM RoomsAlwaysDisjoint == RoomsSpec => []RoomsDisjoint
<1>1. RoomsInv => RoomsDisjoint
  <2> SUFFICES ASSUME RoomsInv, NEW r \in RoomID, NEW s \in RoomID,
                      NEW c \in rooms[r] \cap rooms[s]
               PROVE  r = s
    BY DEF RoomsDisjoint
  <2>1. c \in Client
    BY DEF RoomsInv, RoomsTypeOK, ConnectedClientsPair
  <2>2. QED
    BY <2>1 DEF RoomsInv, RoomIndex
<1>2. QED
  BY <1>1, RoomsSpecInv, PTL
=============================================================================
