--------------------------- MODULE RedisQueueProofs ---------------------------
(***************************************************************************)
(* The searches and reservations in Redis, for any clients, languages,     *)
(* TTLs and step limit.                                                    *)
(***************************************************************************)
EXTENDS RedisQueue, FiniteSetTheorems, TLAPS

(* The indices of a set number its members in order: each has a place, a greater
   one for a greater member, and every place is taken. *)
LEMMA RankNumbers ==
  ASSUME NEW n \in Nat, NEW S \in SUBSET (1 .. n)
  PROVE  /\ Cardinality(S) \in Nat
         /\ \A i \in S : Rank(S, i) \in 1 .. Cardinality(S)
         /\ \A i, j \in S : i < j => Rank(S, i) < Rank(S, j)
         /\ \A k \in 1 .. Cardinality(S) : \E i \in S : Rank(S, i) = k
<1> DEFINE upTo(i) == { j \in S : j <= i }
           m == Cardinality(S)
<1>1. IsFiniteSet(S)
  <2>1. IsFiniteSet(1 .. n)
    BY FS_Interval
  <2>2. QED
    BY <2>1, FS_Subset
<1>2. m \in Nat
  BY <1>1, FS_CardinalityType
<1>3. ASSUME NEW i \in S
      PROVE  IsFiniteSet(upTo(i)) /\ Rank(S, i) \in 1 .. m /\ Rank(S, i) \in Nat
  <2>1. /\ IsFiniteSet(upTo(i))
        /\ Cardinality(upTo(i)) <= m
    BY <1>1, FS_Subset, upTo(i) \in SUBSET S
  <2>2. i \in upTo(i)
    OBVIOUS
  <2>3. Cardinality(upTo(i)) \in Nat /\ Cardinality(upTo(i)) # 0
    BY <2>1, <2>2, FS_CardinalityType, FS_EmptySet
  <2>4. Rank(S, i) = Cardinality(upTo(i))
    BY DEF Rank
  <2>5. QED
    BY <1>2, <2>1, <2>3, <2>4
<1>4. ASSUME NEW i \in S, NEW j \in S, i < j
      PROVE  Rank(S, i) < Rank(S, j)
  <2> i \in Nat /\ j \in Nat /\ S \subseteq Nat
    OBVIOUS
  <2>1. upTo(i) \in SUBSET upTo(j)
    <3>1. \A k \in S : k <= i => k <= j
      BY <1>4
    <3>2. QED
      BY <3>1
  <2>2. j \in upTo(j) /\ j \notin upTo(i)
    BY <1>4
  <2>3. /\ Cardinality(upTo(i)) <= Cardinality(upTo(j))
        /\ Cardinality(upTo(j)) = Cardinality(upTo(i)) => upTo(j) = upTo(i)
    BY <1>3, <2>1, FS_Subset
  <2>4. Rank(S, i) = Cardinality(upTo(i)) /\ Rank(S, j) = Cardinality(upTo(j))
    BY DEF Rank
  <2>5. Rank(S, i) \in Nat /\ Rank(S, j) \in Nat
    BY <1>3
  <2>6. QED
    BY <2>2, <2>3, <2>4, <2>5
<1> DEFINE rank == [i \in S |-> Rank(S, i)]
<1>5. rank \in Injection(S, 1 .. m)
  <2>1. rank \in [S -> 1 .. m]
    BY <1>3
  <2>2. ASSUME NEW i \in S, NEW j \in S, rank[i] = rank[j]
        PROVE  i = j
    <3>1. i \in Nat /\ j \in Nat /\ Rank(S, i) = Rank(S, j)
      BY <2>2
    <3>2. Rank(S, i) \in Nat
      BY <1>3
    <3>3. ~(i < j) /\ ~(j < i)
      BY <1>4, <3>1, <3>2
    <3>4. QED
      BY <3>1, <3>3
  <2>3. QED
    BY <2>1, <2>2 DEF Injection, IsInjective
<1>6. IsFiniteSet(1 .. m) /\ Cardinality(1 .. m) = m
  BY <1>2, FS_Interval
<1>7. rank \in Surjection(S, 1 .. m)
  BY <1>5, <1>6, FS_Injection
<1>8. \A k \in 1 .. m : \E i \in S : rank[i] = k
  BY <1>7 DEF Surjection
<1>9. QED
  BY <1>2, <1>3, <1>4, <1>8

(* Among places there is a last one. *)
LEMMA LastPlace ==
  ASSUME NEW n \in Nat, NEW S \in SUBSET (1 .. n), S # {}
  PROVE  \E i \in S : \A j \in S : j <= i
<1>1. IsFiniteSet(S)
  <2>1. IsFiniteSet(1 .. n)
    BY FS_Interval
  <2>2. QED
    BY <2>1, FS_Subset
<1> DEFINE m == Cardinality(S)
<1>2. m \in Nat /\ m # 0
  BY <1>1, FS_CardinalityType, FS_EmptySet
<1>3. /\ \A k \in S : Rank(S, k) \in 1 .. m
      /\ \A j, k \in S : j < k => Rank(S, j) < Rank(S, k)
      /\ \A k \in 1 .. m : \E i \in S : Rank(S, i) = k
  BY RankNumbers
<1> HIDE DEF m
<1>4. PICK i \in S : Rank(S, i) = m
  BY <1>2, <1>3
<1>5. ASSUME NEW j \in S
      PROVE  j <= i
  <2>1. i \in Nat /\ j \in Nat /\ Rank(S, j) \in 1 .. m /\ (i < j => Rank(S, i) < Rank(S, j))
    BY <1>3
  <2>2. QED
    BY <1>2, <1>4, <2>1
<1>6. QED
  BY <1>5

(* One line is another without some of its entries, in the same order: at gives
   the old place of each. *)
Places(t, s, at) ==
  /\ at \in [DOMAIN t -> DOMAIN s]
  /\ \A k \in DOMAIN t : t[k] = s[at[k]]
  /\ \A k, l \in DOMAIN t : k < l => at[k] < at[l]

Taken(at, i) == \E k \in DOMAIN at : at[k] = i

(* What LREM leaves of a line: the entries of the other clients, in their order. *)
LEMMA WithoutProperties ==
  ASSUME NEW S, NEW s \in Seq(S), NEW c
  PROVE  /\ Without(s, c) \in Seq(S)
         /\ \A k \in DOMAIN Without(s, c) : Without(s, c)[k] # c
         /\ \E at : /\ Places(Without(s, c), s, at)
                    /\ \A i \in DOMAIN s : s[i] # c => Taken(at, i)
<1> DEFINE kept == { i \in DOMAIN s : s[i] # c }
           place(k) == CHOOSE i \in kept : Rank(kept, i) = k
           n == Cardinality(kept)
           at == [k \in 1 .. n |-> place(k)]
<1>1. Len(s) \in Nat /\ kept \in SUBSET (1 .. Len(s)) /\ DOMAIN s = 1 .. Len(s)
  OBVIOUS
<1>2. /\ n \in Nat
      /\ \A i \in kept : Rank(kept, i) \in 1 .. n
      /\ \A i, j \in kept : i < j => Rank(kept, i) < Rank(kept, j)
      /\ \A k \in 1 .. n : \E i \in kept : Rank(kept, i) = k
  BY <1>1, RankNumbers
<1>3. Without(s, c) = [k \in 1 .. n |-> s[place(k)]]
  BY DEF Without
<1> HIDE DEF n
<1>4. ASSUME NEW k \in 1 .. n
      PROVE  /\ place(k) \in kept /\ Rank(kept, place(k)) = k
             /\ place(k) \in DOMAIN s /\ s[place(k)] # c
  <2>1. place(k) \in kept /\ Rank(kept, place(k)) = k
    BY <1>2
  <2> HIDE DEF place
  <2>2. QED
    BY <2>1
<1> HIDE DEF place
<1>5. ASSUME NEW k \in 1 .. n
      PROVE  place(k) \in Nat /\ s[place(k)] \in S
  <2>1. place(k) \in DOMAIN s
    BY <1>4
  <2>2. QED
    BY <2>1
<1>6. Without(s, c) \in Seq(S) /\ DOMAIN Without(s, c) = 1 .. n
  BY <1>2, <1>3, <1>5
<1> HIDE DEF kept
<1>7. ASSUME NEW k \in 1 .. n, NEW l \in 1 .. n, k < l
      PROVE  place(k) < place(l)
  <2>1. place(k) \in Nat /\ place(l) \in Nat /\ k \in Nat /\ l \in Nat
    BY <1>2, <1>5
  <2>2. place(l) < place(k) => l < k
    BY <1>2, <1>4
  <2>3. place(l) # place(k)
    BY <1>4, <1>7, <2>1
  <2>4. QED
    BY <1>7, <2>1, <2>2, <2>3
<1>8. Places(Without(s, c), s, at)
  BY <1>3, <1>4, <1>6, <1>7 DEF Places
<1>9. ASSUME NEW i \in DOMAIN s, s[i] # c
      PROVE  Taken(at, i)
  <2>1. i \in kept /\ Rank(kept, i) \in 1 .. n
    BY <1>2, <1>9 DEF kept
  <2> DEFINE k == Rank(kept, i)
  <2>2. place(k) \in kept /\ Rank(kept, place(k)) = k
    BY <1>4, <2>1
  <2>3. place(k) \in Nat /\ i \in Nat /\ k \in Nat
    BY <1>2, <1>5, <1>9, <2>1
  <2>4. ~(place(k) < i) /\ ~(i < place(k))
    BY <1>2, <2>1, <2>2, <2>3
  <2>5. at[k] = i
    BY <2>1, <2>3, <2>4
  <2>6. QED
    BY <2>1, <2>5 DEF Taken
<1>10. QED
  BY <1>3, <1>4, <1>6, <1>8, <1>9

(* What RPOP of n entries leaves of a line: the later ones, in their order. *)
LEMMA PopProperties ==
  ASSUME NEW S, NEW s \in Seq(S), NEW n \in 0 .. Len(s)
  PROVE  /\ SubSeq(s, n + 1, Len(s)) \in Seq(S)
         /\ \E at : /\ Places(SubSeq(s, n + 1, Len(s)), s, at)
                    /\ \A k \in DOMAIN at : at[k] > n
                    /\ \A i \in DOMAIN s : i > n => Taken(at, i)
<1> DEFINE rest == SubSeq(s, n + 1, Len(s))
           at == [k \in 1 .. Len(s) - n |-> n + k]
<1>1. /\ Len(s) \in Nat /\ n \in Nat /\ DOMAIN s = 1 .. Len(s)
      /\ rest \in Seq(S) /\ DOMAIN rest = 1 .. Len(s) - n
      /\ \A k \in 1 .. Len(s) - n : rest[k] = s[n + k]
  OBVIOUS
<1> HIDE DEF rest
<1>2. Places(rest, s, at)
  <2>1. \A k \in 1 .. Len(s) - n : n + k \in DOMAIN s
    BY <1>1
  <2>2. QED
    BY <1>1, <2>1 DEF Places
<1>3. \A k \in DOMAIN at : at[k] > n
  BY <1>1
<1>4. ASSUME NEW i \in DOMAIN s, i > n
      PROVE  Taken(at, i)
  <2>1. i - n \in 1 .. Len(s) - n /\ n + (i - n) = i
    BY <1>1, <1>4
  <2>2. QED
    BY <2>1 DEF Taken
<1>5. QED
  BY <1>1, <1>2, <1>3, <1>4 DEF rest

(* An entry whose place is taken is in the new line. *)
LEMMA TakenIsKept ==
  ASSUME NEW t, NEW s, NEW at, Places(t, s, at), NEW i, Taken(at, i)
  PROVE  \E k \in DOMAIN t : t[k] = s[i]
BY DEF Places, Taken

(* The three kinds of record, and what they hold. *)
LEMMA RecordKinds ==
  /\ \A p : Waiting(p) # Absent
  /\ \A u : Matched(u) # Absent
  /\ \A p, u : Waiting(p) # Matched(u)
  /\ \A p, q : Waiting(p) = Waiting(q) => p = q
  /\ \A u, v : Matched(u) = Matched(v) => u = v
<1>1. Absent.state = "absent"
  BY DEF Absent
<1>2. \A p : Waiting(p).state = "waiting" /\ Waiting(p).queue = p
  BY DEF Waiting
<1>3. \A u : Matched(u).state = "matched" /\ Matched(u).partner = u
  BY DEF Matched
<1>4. QED
  BY <1>1, <1>2, <1>3

(* A pair has one compatible pair, its mirror. *)
LEMMA MirrorFacts ==
  ASSUME NEW p \in LanguagePair
  PROVE  /\ Mirror(p) \in LanguagePair
         /\ Mirror(Mirror(p)) = p
         /\ Mirror(p) # p
         /\ \A q \in LanguagePair :
              (IsCompatibleWith(p, q) <=> q = Mirror(p)) /\ (IsCompatibleWith(q, p) <=> q = Mirror(p))
BY DEF LanguagePair, Mirror, IsCompatibleWith

(* What a waiting user is made of. *)
LEMMA UserFacts ==
  /\ \A wu \in WaitingUser :
       /\ wu.client \in Client /\ wu.pair \in LanguagePair
       /\ wu = [client |-> wu.client, pair |-> wu.pair]
  /\ \A c \in Client, p \in LanguagePair :
       /\ [client |-> c, pair |-> p] \in WaitingUser
       /\ [client |-> c, pair |-> p].client = c
       /\ [client |-> c, pair |-> p].pair = p
BY DEF WaitingUser

-----------------------------------------------------------------------------
(* The empty store satisfies the invariant. *)
LEMMA StoreInitInv == StoreInit => StoreInv
<1> SUFFICES ASSUME StoreInit PROVE StoreInv
  OBVIOUS
<1>1. \A c \in Client : record[c] = Absent /\ ttl[c] = 0
  BY DEF StoreInit
<1>2. StoreTypeOK
  BY <1>1 DEF StoreInit, StoreTypeOK, Record
<1>3. WaitingIsListed /\ NoCompatibleRecords /\ ReservationsMirrored
  BY <1>1, RecordKinds, UserFacts DEF WaitingIsListed, NoCompatibleRecords, ReservationsMirrored, Waits
<1>4. QED
  BY <1>2, <1>3 DEF StoreInv

(* A client that finds nobody joins its line: the mirror line held no live entry,
   so nobody waits with the mirror pair and emptying it loses nobody. *)
LEMMA EnqueueInv ==
  ASSUME StoreInv, NEW wu \in WaitingUser, Enqueue(wu)
  PROVE  StoreInv'
<1> DEFINE c == wu.client
           p == wu.pair
           m == Mirror(p)
<1> USE DEF StoreInv
<1>1. /\ c \in Client /\ p \in LanguagePair /\ m \in LanguagePair /\ m # p
  BY UserFacts, MirrorFacts
<1>2. /\ record[c] = Absent /\ Live(m) = {}
      /\ line' = [line EXCEPT ![m] = <<>>, ![p] = Append(@, c)]
      /\ record' = [record EXCEPT ![c] = Waiting(p)]
      /\ ttl' = [ttl EXCEPT ![c] = WaitingTTL]
  BY DEF Enqueue, Searches
<1>3. /\ line \in [LanguagePair -> Seq(Client)]
      /\ record \in [Client -> Record]
      /\ ttl \in [Client -> Nat]
      /\ \A d \in Client : ttl[d] = 0 <=> record[d] = Absent
  BY DEF StoreTypeOK
<1> HIDE DEF c, p, m
<1>4. /\ record'[c] = Waiting(p) /\ ttl'[c] = WaitingTTL
      /\ \A d \in Client \ {c} : record'[d] = record[d] /\ ttl'[d] = ttl[d]
      /\ line'[m] = <<>> /\ line'[p] = Append(line[p], c)
      /\ \A q \in LanguagePair \ {m, p} : line'[q] = line[q]
  BY <1>1, <1>2, <1>3
<1>5. \A d \in Client : ~Waits(d, m)
  BY <1>1, <1>2 DEF WaitingIsListed, Live
<1>6. StoreTypeOK'
  <2>1. Waiting(p) \in Record /\ Waiting(p) # Absent
    BY <1>1, RecordKinds DEF Record
  <2>2. line' \in [LanguagePair -> Seq(Client)]
    <3>1. <<>> \in Seq(Client) /\ Append(line[p], c) \in Seq(Client)
      BY <1>1, <1>3
    <3>2. QED
      BY <1>1, <1>2, <1>3, <3>1
  <2>3. record' \in [Client -> Record] /\ ttl' \in [Client -> Nat]
    BY <1>2, <1>3, <2>1, TTLsPositive
  <2>4. \A d \in Client : ttl'[d] = 0 <=> record'[d] = Absent
    BY <1>3, <1>4, <2>1, TTLsPositive
  <2>5. QED
    BY <2>2, <2>3, <2>4 DEF StoreTypeOK
<1>7. WaitingIsListed'
  <2> SUFFICES ASSUME NEW d \in Client, NEW q \in LanguagePair, record'[d] = Waiting(q)
               PROVE  \E i \in DOMAIN line'[q] : line'[q][i] = d
    BY DEF WaitingIsListed, Waits
  <2>1. line[p] \in Seq(Client) /\ Len(line[p]) \in Nat
    BY <1>1, <1>3
  <2>2. /\ DOMAIN line'[p] = DOMAIN line[p] \cup {Len(line[p]) + 1}
        /\ line'[p][Len(line[p]) + 1] = c
        /\ \A i \in DOMAIN line[p] : line'[p][i] = line[p][i]
    BY <1>1, <1>4, <2>1
  <2>3. CASE d = c
    BY <1>4, <2>2, <2>3, RecordKinds
  <2>4. CASE d # c
    <3>1. Waits(d, q) /\ q # m
      BY <1>4, <1>5, <2>4 DEF Waits
    <3>2. PICK i \in DOMAIN line[q] : line[q][i] = d
      BY <3>1 DEF WaitingIsListed
    <3>3. QED
      BY <1>4, <2>2, <3>1, <3>2
  <2>5. QED
    BY <2>3, <2>4
<1>8. NoCompatibleRecords'
  <2> SUFFICES ASSUME NEW d \in Client, NEW e \in Client, NEW q \in LanguagePair,
                      NEW r \in LanguagePair, record'[d] = Waiting(q), record'[e] = Waiting(r)
               PROVE  ~IsCompatibleWith(q, r)
    BY DEF NoCompatibleRecords, Waits
  <2>1. \A x \in LanguagePair : IsCompatibleWith(p, x) \/ IsCompatibleWith(x, p) => x = m
    BY <1>1, MirrorFacts DEF m
  <2>2. CASE d = c /\ e = c
    BY <1>1, <1>4, <2>1, <2>2, RecordKinds
  <2>3. CASE d = c /\ e # c
    BY <1>4, <1>5, <2>1, <2>3, RecordKinds DEF Waits
  <2>4. CASE d # c /\ e = c
    BY <1>4, <1>5, <2>1, <2>4, RecordKinds DEF Waits
  <2>5. CASE d # c /\ e # c
    BY <1>4, <2>5 DEF NoCompatibleRecords, Waits
  <2>6. QED
    BY <2>2, <2>3, <2>4, <2>5
<1>9. ReservationsMirrored'
  <2> SUFFICES ASSUME NEW d \in Client, NEW u \in WaitingUser, record'[d] = Matched(u)
               PROVE  /\ u.client # d
                      /\ record'[u.client] = Matched([client |-> d, pair |-> Mirror(u.pair)])
                      /\ ttl'[u.client] = ttl'[d]
    BY DEF ReservationsMirrored
  <2>1. d # c /\ record[d] = Matched(u)
    BY <1>4, RecordKinds
  <2>2. /\ u.client # d /\ ttl[u.client] = ttl[d]
        /\ record[u.client] = Matched([client |-> d, pair |-> Mirror(u.pair)])
    BY <2>1 DEF ReservationsMirrored
  <2>3. u.client \in Client \ {c}
    BY <1>2, <2>2, RecordKinds, UserFacts DEF c
  <2>4. QED
    BY <1>4, <2>1, <2>2, <2>3
<1>10. QED
  BY <1>6, <1>7, <1>8, <1>9

(* A match: the entries before the partner's belong to nobody who waits in the
   line, and both records become a reservation of the other at once. *)
LEMMA TakePartnerInv ==
  ASSUME StoreInv, NEW wu \in WaitingUser, NEW partner \in WaitingUser,
         TakePartner(wu, partner)
  PROVE  StoreInv'
<1> DEFINE c == wu.client
           d == partner.client
           m == Mirror(wu.pair)
<1> USE DEF StoreInv
<1>1. /\ c \in Client /\ d \in Client
      /\ wu.pair \in LanguagePair /\ m \in LanguagePair /\ Mirror(m) = wu.pair
      /\ wu = [client |-> c, pair |-> wu.pair]
  BY UserFacts, MirrorFacts
<1>2. PICK i \in 1 .. StepCount :
        /\ FirstLive(m, i)
        /\ partner = [client |-> line[m][i], pair |-> m]
        /\ line' = [line EXCEPT ![m] = Popped(m, i)]
  BY DEF TakePartner
<1>3. /\ record[c] = Absent
      /\ record' = [record EXCEPT ![c] = Matched(partner), ![d] = Matched(wu)]
      /\ ttl' = [ttl EXCEPT ![c] = MatchedTTL, ![d] = MatchedTTL]
  BY DEF TakePartner, Searches
<1>4. /\ line \in [LanguagePair -> Seq(Client)]
      /\ record \in [Client -> Record]
      /\ ttl \in [Client -> Nat]
      /\ \A e \in Client : ttl[e] = 0 <=> record[e] = Absent
  BY DEF StoreTypeOK
<1>5. i \in DOMAIN line[m] /\ Waits(line[m][i], m) /\ \A j \in Live(m) : i <= j
  BY <1>2 DEF FirstLive, Live
<1>6. /\ d = line[m][i] /\ partner.pair = m
      /\ record[d] = Waiting(m) /\ d # c
  BY <1>2, <1>3, <1>5, RecordKinds DEF Waits
<1> HIDE DEF c, d, m
<1>7. /\ record'[c] = Matched(partner) /\ record'[d] = Matched(wu)
      /\ ttl'[c] = MatchedTTL /\ ttl'[d] = MatchedTTL
      /\ \A e \in Client \ {c, d} : record'[e] = record[e] /\ ttl'[e] = ttl[e]
      /\ line'[m] = Popped(m, i)
      /\ \A q \in LanguagePair \ {m} : line'[q] = line[q]
  BY <1>1, <1>2, <1>3, <1>4, <1>6
<1>8. /\ line[m] \in Seq(Client) /\ i \in 0 .. Len(line[m])
      /\ DOMAIN line[m] = 1 .. Len(line[m]) /\ Len(line[m]) \in Nat
  BY <1>1, <1>4, <1>5
<1>9. /\ Popped(m, i) \in Seq(Client)
      /\ \A j \in DOMAIN line[m] : j > i =>
           \E k \in DOMAIN Popped(m, i) : Popped(m, i)[k] = line[m][j]
  <2>1. PICK at : /\ Popped(m, i) \in Seq(Client) /\ Places(Popped(m, i), line[m], at)
                  /\ \A j \in DOMAIN line[m] : j > i => Taken(at, j)
    BY <1>8, PopProperties DEF Popped
  <2>2. QED
    BY <2>1, TakenIsKept
<1>10. StoreTypeOK'
  <2>1. Matched(partner) \in Record /\ Matched(wu) \in Record
    BY DEF Record
  <2>2. line' \in [LanguagePair -> Seq(Client)]
    BY <1>2, <1>4, <1>9
  <2>3. record' \in [Client -> Record] /\ ttl' \in [Client -> Nat]
    BY <1>3, <1>4, <2>1, TTLsPositive
  <2>4. \A e \in Client : ttl'[e] = 0 <=> record'[e] = Absent
    BY <1>4, <1>7, RecordKinds, TTLsPositive
  <2>5. QED
    BY <2>2, <2>3, <2>4 DEF StoreTypeOK
<1>11. \A e \in Client, q \in LanguagePair :
         record'[e] = Waiting(q) => e \notin {c, d} /\ Waits(e, q)
  BY <1>7, RecordKinds DEF Waits
<1>12. WaitingIsListed'
  <2> SUFFICES ASSUME NEW e \in Client, NEW q \in LanguagePair, record'[e] = Waiting(q)
               PROVE  \E k \in DOMAIN line'[q] : line'[q][k] = e
    BY DEF WaitingIsListed, Waits
  <2>1. e \notin {c, d} /\ Waits(e, q)
    BY <1>11
  <2>2. PICK j \in DOMAIN line[q] : line[q][j] = e
    BY <2>1 DEF WaitingIsListed
  <2>3. CASE q = m
    <3>1. j \in Live(m)
      BY <2>1, <2>2, <2>3 DEF Live
    <3>2. i <= j /\ j # i
      BY <1>5, <1>6, <2>1, <2>2, <2>3, <3>1
    <3>3. j \in DOMAIN line[m] /\ j > i
      BY <1>8, <2>2, <2>3, <3>2
    <3>4. QED
      BY <1>7, <1>9, <2>2, <2>3, <3>3
  <2>4. CASE q # m
    BY <1>7, <2>2, <2>4
  <2>5. QED
    BY <2>3, <2>4
<1>13. NoCompatibleRecords'
  BY <1>11 DEF NoCompatibleRecords, Waits
<1>14. ReservationsMirrored'
  <2> SUFFICES ASSUME NEW e \in Client, NEW u \in WaitingUser, record'[e] = Matched(u)
               PROVE  /\ u.client # e
                      /\ record'[u.client] = Matched([client |-> e, pair |-> Mirror(u.pair)])
                      /\ ttl'[u.client] = ttl'[e]
    BY DEF ReservationsMirrored
  <2>1. CASE e = c
    <3>1. u = partner
      BY <1>7, <2>1, RecordKinds
    <3>2. u.client = d /\ Mirror(u.pair) = wu.pair
      BY <1>1, <1>6, <3>1 DEF d
    <3>3. QED
      BY <1>1, <1>6, <1>7, <2>1, <3>2
  <2>2. CASE e = d
    <3>1. u = wu
      BY <1>7, <2>2, RecordKinds
    <3>2. u.client = c /\ partner = [client |-> d, pair |-> Mirror(u.pair)]
      BY <1>2, <1>6, <3>1 DEF c, m
    <3>3. QED
      BY <1>6, <1>7, <2>2, <3>2
  <2>3. CASE e \notin {c, d}
    <3>1. record[e] = Matched(u)
      BY <1>7, <2>3
    <3>2. /\ u.client # e /\ ttl[u.client] = ttl[e]
          /\ record[u.client] = Matched([client |-> e, pair |-> Mirror(u.pair)])
      BY <3>1 DEF ReservationsMirrored
    <3>3. u.client \in Client \ {c, d}
      BY <1>3, <1>6, <3>2, RecordKinds, UserFacts
    <3>4. QED
      BY <1>7, <2>3, <3>2, <3>3
  <2>4. QED
    BY <2>1, <2>2, <2>3
<1>15. QED
  BY <1>10, <1>12, <1>13, <1>14

(* The step limit: the entries taken out belong to nobody who waits in the line. *)
LEMMA ContinueInv ==
  ASSUME StoreInv, NEW wu \in WaitingUser, Continue(wu)
  PROVE  StoreInv'
<1> DEFINE m == Mirror(wu.pair)
<1> USE DEF StoreInv
<1>1. m \in LanguagePair
  BY UserFacts, MirrorFacts
<1>2. /\ Len(line[m]) >= StepCount
      /\ \A i \in Live(m) : i > StepCount
      /\ line' = [line EXCEPT ![m] = Popped(m, StepCount)]
      /\ record' = record /\ ttl' = ttl
  BY DEF Continue
<1> HIDE DEF m
<1>3. /\ line \in [LanguagePair -> Seq(Client)]
      /\ line[m] \in Seq(Client) /\ StepCount \in 0 .. Len(line[m])
      /\ DOMAIN line[m] = 1 .. Len(line[m]) /\ Len(line[m]) \in Nat
  BY <1>1, <1>2, StepCountLimit DEF StoreTypeOK
<1>4. /\ Popped(m, StepCount) \in Seq(Client)
      /\ \A j \in DOMAIN line[m] : j > StepCount =>
           \E k \in DOMAIN Popped(m, StepCount) : Popped(m, StepCount)[k] = line[m][j]
  <2>1. PICK at : /\ Popped(m, StepCount) \in Seq(Client) /\ Places(Popped(m, StepCount), line[m], at)
                  /\ \A j \in DOMAIN line[m] : j > StepCount => Taken(at, j)
    BY <1>3, PopProperties DEF Popped
  <2>2. QED
    BY <2>1, TakenIsKept
<1>5. StoreTypeOK'
  BY <1>2, <1>3, <1>4 DEF StoreTypeOK
<1>6. WaitingIsListed'
  <2> SUFFICES ASSUME NEW e \in Client, NEW q \in LanguagePair, record[e] = Waiting(q)
               PROVE  \E k \in DOMAIN line'[q] : line'[q][k] = e
    BY <1>2 DEF WaitingIsListed, Waits
  <2>1. PICK j \in DOMAIN line[q] : line[q][j] = e
    BY DEF WaitingIsListed, Waits
  <2>2. CASE q = m
    <3>1. j \in Live(m)
      BY <2>1, <2>2 DEF Live, Waits
    <3>2. QED
      BY <1>1, <1>2, <1>3, <1>4, <2>1, <2>2, <3>1
  <2>3. CASE q # m
    BY <1>2, <1>3, <2>1, <2>3
  <2>4. QED
    BY <2>2, <2>3
<1>7. NoCompatibleRecords' /\ ReservationsMirrored'
  BY <1>2 DEF NoCompatibleRecords, ReservationsMirrored, Waits
<1>8. QED
  BY <1>5, <1>6, <1>7

(* A cancellation takes out the entries and the record of one client that waits. *)
LEMMA RemoveFromQueueInv ==
  ASSUME StoreInv, NEW c \in Client, RemoveFromQueue(c),
         UNCHANGED store => StoreInv'
  PROVE  StoreInv'
<1> USE DEF StoreInv
<1>1. CASE ~\E p \in LanguagePair : Waits(c, p)
  BY <1>1 DEF RemoveFromQueue
<1>2. ASSUME NEW p \in LanguagePair, Waits(c, p)
      PROVE  StoreInv'
  <2>1. record[c] = Waiting(p) /\ record[c].queue = p
    BY <1>2 DEF Waits, Waiting
  <2>2. /\ line' = [line EXCEPT ![p] = Without(@, c)]
        /\ record' = [record EXCEPT ![c] = Absent]
        /\ ttl' = [ttl EXCEPT ![c] = 0]
    BY <1>2, <2>1 DEF RemoveFromQueue
  <2>3. /\ line \in [LanguagePair -> Seq(Client)]
        /\ record \in [Client -> Record]
        /\ ttl \in [Client -> Nat]
        /\ \A e \in Client : ttl[e] = 0 <=> record[e] = Absent
        /\ line[p] \in Seq(Client)
    BY DEF StoreTypeOK
  <2>4. /\ Without(line[p], c) \in Seq(Client)
        /\ \A i \in DOMAIN line[p] : line[p][i] # c =>
             \E k \in DOMAIN Without(line[p], c) : Without(line[p], c)[k] = line[p][i]
    <3>1. line[p] \in Seq(Client)
      BY <2>3
    <3>2. QED
      BY <3>1, WithoutProperties, TakenIsKept
  <2>5. /\ record'[c] = Absent /\ ttl'[c] = 0
        /\ \A e \in Client \ {c} : record'[e] = record[e] /\ ttl'[e] = ttl[e]
        /\ line'[p] = Without(line[p], c)
        /\ \A q \in LanguagePair \ {p} : line'[q] = line[q]
    BY <2>2, <2>3
  <2>6. StoreTypeOK'
    BY <2>2, <2>3, <2>4, <2>5 DEF StoreTypeOK, Record
  <2>7. \A e \in Client, q \in LanguagePair : record'[e] = Waiting(q) => e # c /\ Waits(e, q)
    BY <2>5, RecordKinds DEF Waits
  <2>8. WaitingIsListed'
    <3> SUFFICES ASSUME NEW e \in Client, NEW q \in LanguagePair, record'[e] = Waiting(q)
                 PROVE  \E k \in DOMAIN line'[q] : line'[q][k] = e
      BY DEF WaitingIsListed, Waits
    <3>1. PICK j \in DOMAIN line[q] : line[q][j] = e
      BY <2>7 DEF WaitingIsListed
    <3>2. CASE q = p
      BY <2>4, <2>5, <2>7, <3>1, <3>2
    <3>3. CASE q # p
      BY <2>5, <3>1, <3>3
    <3>4. QED
      BY <3>2, <3>3
  <2>9. NoCompatibleRecords'
    BY <2>7 DEF NoCompatibleRecords, Waits
  <2>10. ReservationsMirrored'
    <3> SUFFICES ASSUME NEW e \in Client, NEW u \in WaitingUser, record'[e] = Matched(u)
                 PROVE  /\ u.client # e
                        /\ record'[u.client] = Matched([client |-> e, pair |-> Mirror(u.pair)])
                        /\ ttl'[u.client] = ttl'[e]
      BY DEF ReservationsMirrored
    <3>1. e # c /\ record[e] = Matched(u)
      BY <2>5, RecordKinds
    <3>2. /\ u.client # e /\ ttl[u.client] = ttl[e]
          /\ record[u.client] = Matched([client |-> e, pair |-> Mirror(u.pair)])
      BY <3>1 DEF ReservationsMirrored
    <3>3. u.client \in Client \ {c}
      BY <2>1, <3>2, RecordKinds, UserFacts
    <3>4. QED
      BY <2>5, <3>1, <3>2, <3>3
  <2>11. QED
    BY <2>6, <2>8, <2>9, <2>10
<1>3. QED
  BY <1>1, <1>2

(* Time only takes records away, and the two of a reservation together. *)
LEMMA TickInv ==
  ASSUME StoreInv, Tick
  PROVE  StoreInv'
<1> USE DEF StoreInv
<1>1. /\ line \in [LanguagePair -> Seq(Client)]
      /\ record \in [Client -> Record]
      /\ ttl \in [Client -> Nat]
      /\ \A c \in Client : ttl[c] = 0 <=> record[c] = Absent
  BY DEF StoreTypeOK
<1>2. /\ line' = line
      /\ record' \in [Client -> Record] /\ ttl' \in [Client -> Nat]
      /\ \A c \in Client : record'[c] = IF ttl[c] = 1 THEN Absent ELSE record[c]
      /\ \A c \in Client : ttl'[c] = IF ttl[c] = 0 THEN 0 ELSE ttl[c] - 1
  <2>1. Absent \in Record
    BY DEF Record
  <2>2. QED
    BY <1>1, <2>1 DEF Tick
<1>3. StoreTypeOK'
  <2>1. ASSUME NEW c \in Client
        PROVE  ttl'[c] = 0 <=> record'[c] = Absent
    BY <1>1, <1>2
  <2>2. QED
    BY <1>1, <1>2, <2>1 DEF StoreTypeOK
<1>4. \A c \in Client : \A p : record'[c] = Waiting(p) => Waits(c, p)
  BY <1>2, RecordKinds DEF Waits
<1>5. WaitingIsListed' /\ NoCompatibleRecords'
  BY <1>2, <1>4 DEF WaitingIsListed, NoCompatibleRecords, Waits
<1>6. ReservationsMirrored'
  <2> SUFFICES ASSUME NEW c \in Client, NEW u \in WaitingUser, record'[c] = Matched(u)
               PROVE  /\ u.client # c
                      /\ record'[u.client] = Matched([client |-> c, pair |-> Mirror(u.pair)])
                      /\ ttl'[u.client] = ttl'[c]
    BY DEF ReservationsMirrored
  <2>1. record[c] = Matched(u) /\ ttl[c] # 1
    BY <1>2, RecordKinds
  <2>2. /\ u.client # c /\ ttl[u.client] = ttl[c]
        /\ record[u.client] = Matched([client |-> c, pair |-> Mirror(u.pair)])
    BY <2>1 DEF ReservationsMirrored
  <2>3. u.client \in Client
    BY UserFacts
  <2>4. QED
    BY <1>2, <2>1, <2>2, <2>3
<1>7. QED
  BY <1>3, <1>5, <1>6

(* Every outcome of every script, and time, keep the invariant. *)
LEMMA StoreNextInv == StoreInv /\ [StoreNext]_store => StoreInv'
<1> SUFFICES ASSUME StoreInv, [StoreNext]_store PROVE StoreInv'
  OBVIOUS
<1>1. UNCHANGED store => StoreInv'
  BY DEF store, StoreInv, StoreTypeOK, WaitingIsListed, NoCompatibleRecords,
         ReservationsMirrored, Waits
<1>2. ASSUME NEW wu \in WaitingUser, MatchOrEnqueue(wu)
      PROVE  StoreInv'
  <2>1. ASSUME NEW partner \in WaitingUser, RetryMatched(wu, partner) \/ TakePartner(wu, partner)
        PROVE  StoreInv'
    BY <1>1, <2>1, TakePartnerInv DEF RetryMatched
  <2>2. CASE RetryWaiting(wu) \/ RejectOtherPair(wu)
    BY <1>1, <2>2 DEF RetryWaiting, RejectOtherPair
  <2>3. CASE Enqueue(wu)
    BY <2>3, EnqueueInv
  <2>4. CASE Continue(wu)
    BY <2>4, ContinueInv
  <2>5. QED
    BY <1>2, <2>1, <2>2, <2>3, <2>4 DEF MatchOrEnqueue
<1>3. ASSUME NEW c \in Client, RemoveFromQueue(c)
      PROVE  StoreInv'
  BY <1>1, <1>3, RemoveFromQueueInv
<1>4. CASE Tick
  BY <1>4, TickInv
<1>5. QED
  BY <1>1, <1>2, <1>3, <1>4 DEF StoreNext

(* The invariant of the Redis store holds over every sequence of scripts and time. *)
THEOREM StoreSpecInv == StoreSpec => []StoreInv
BY StoreInitInv, StoreNextInv, PTL DEF StoreSpec

(* Every record is of a known kind, and it has a TTL. *)
THEOREM StoreTypeCorrect == StoreSpec => []StoreTypeOK
<1>1. StoreInv => StoreTypeOK
  BY DEF StoreInv
<1>2. QED
  BY <1>1, StoreSpecInv, PTL

(* A client that waits can be found in its line. *)
THEOREM WaitingIsListedAlways == StoreSpec => []WaitingIsListed
<1>1. StoreInv => WaitingIsListed
  BY DEF StoreInv
<1>2. QED
  BY <1>1, StoreSpecInv, PTL

(* Two compatible users never both wait, whatever the step limit. *)
THEOREM NoCompatibleRecordsAlways == StoreSpec => []NoCompatibleRecords
<1>1. StoreInv => NoCompatibleRecords
  BY DEF StoreInv
<1>2. QED
  BY <1>1, StoreSpecInv, PTL

(* A reservation is held by both its clients or by neither, until the same moment. *)
THEOREM ReservationsMirroredAlways == StoreSpec => []ReservationsMirrored
<1>1. StoreInv => ReservationsMirrored
  BY DEF StoreInv
<1>2. QED
  BY <1>1, StoreSpecInv, PTL
-----------------------------------------------------------------------------
(* The refinement.  A client stands in a line by its last entry. *)
IsLast(s, i) == \A j \in DOMAIN s : s[j] = s[i] => j <= i

LEMMA CurrentMeaning ==
  ASSUME NEW p
  PROVE  /\ \A i : i \in Current(p) <=>
                     i \in DOMAIN line[p] /\ record[line[p][i]] = Waiting(p) /\ IsLast(line[p], i)
         /\ \A i : i \in Current(p)' <=>
                     /\ i \in DOMAIN line'[p] /\ record'[line'[p][i]] = Waiting(p)
                     /\ IsLast(line'[p], i)
BY DEF Current, Live, Waits, IsLast

\* The client c waits in the line and d behind it; c has an entry that is over.
Before(p, c, d) ==
  \E i, j \in Current(p) : i < j /\ line[p][i] = c /\ line[p][j] = d
Stale(p, c) == \E i \in DOMAIN line[p] : line[p][i] = c /\ i \notin Current(p)

(* What the mapped variables hold, in terms of records and lines. *)
LEMMA PoolMeaning ==
  /\ \A u : u \in CurrentUsers <=> u \in WaitingUser /\ record[u.client] = Waiting(u.pair)
  /\ \A u, v : <<u, v>> \in EarlierUsers <=>
       /\ u \in CurrentUsers /\ v \in CurrentUsers /\ u.pair = v.pair
       /\ Before(u.pair, u.client, v.client)
  /\ \A e \in EarlierUsers : e = <<e[1], e[2]>>
  /\ \A u : u \in LapsedUsers <=> u \in WaitingUser /\ Stale(u.pair, u.client)
BY DEF CurrentUsers, EarlierUsers, LapsedUsers, Waits, Before, Stale

(* The same after a step. *)
LEMMA PoolMeaningNext ==
  /\ \A u : u \in CurrentUsers' <=> u \in WaitingUser /\ record'[u.client] = Waiting(u.pair)
  /\ \A u, v : <<u, v>> \in EarlierUsers' <=>
       /\ u \in CurrentUsers' /\ v \in CurrentUsers' /\ u.pair = v.pair
       /\ Before(u.pair, u.client, v.client)'
  /\ \A e \in EarlierUsers' : e = <<e[1], e[2]>>
  /\ \A u : u \in LapsedUsers' <=> u \in WaitingUser /\ Stale(u.pair, u.client)'
BY DEF CurrentUsers, EarlierUsers, LapsedUsers, Waits, Before, Stale

(* A reservation is two users whose records name each other. *)
LEMMA ReservationsMeaning ==
  /\ record \in [Client -> Record] =>
       \A r : r \in Reservations <=>
         \E c \in Client, u \in WaitingUser :
           record[c] = Matched(u) /\ r = {[client |-> c, pair |-> Mirror(u.pair)], u}
  /\ record' \in [Client -> Record] =>
       \A r : r \in Reservations' <=>
         \E c \in Client, u \in WaitingUser :
           record'[c] = Matched(u) /\ r = {[client |-> c, pair |-> Mirror(u.pair)], u}
<1>1. \A x \in Record : x.state = "matched" <=> \E u \in WaitingUser : x = Matched(u)
  <2>1. /\ Absent.state = "absent" /\ \A p : Waiting(p).state = "waiting"
        /\ \A u : Matched(u).state = "matched"
    BY DEF Absent, Waiting, Matched
  <2>2. QED
    BY <2>1 DEF Record
<1>2. \A u : Matched(u).partner = u
  BY DEF Matched
<1>3. ASSUME record \in [Client -> Record], NEW r
      PROVE  r \in Reservations <=>
               \E c \in Client, u \in WaitingUser :
                 record[c] = Matched(u) /\ r = {[client |-> c, pair |-> Mirror(u.pair)], u}
  BY <1>1, <1>2, <1>3 DEF Reservations
<1>4. ASSUME record' \in [Client -> Record], NEW r
      PROVE  r \in Reservations' <=>
               \E c \in Client, u \in WaitingUser :
                 record'[c] = Matched(u) /\ r = {[client |-> c, pair |-> Mirror(u.pair)], u}
  BY <1>1, <1>2, <1>4 DEF Reservations
<1>5. QED
  BY <1>3, <1>4

(* The pool of the refinement has the users and pairs of the store. *)
LEMMA PoolDomain ==
  /\ Pool!WaitingUser = WaitingUser
  /\ \A p, q : Pool!IsCompatibleWith(p, q) <=> IsCompatibleWith(p, q)
BY DEF Pool!WaitingUser, Pool!LanguagePair, WaitingUser, LanguagePair, Pool!IsCompatibleWith,
       IsCompatibleWith

-----------------------------------------------------------------------------
\* Entries leave a line, but none of a client that goes on waiting in it.
KeepsOrder(p) ==
  \E at : /\ Places(line'[p], line[p], at)
          /\ \A i \in DOMAIN line[p] : record'[line[p][i]] = Waiting(p) => Taken(at, i)

(* Whoever goes on waiting keeps its place among the others, and a client gets a
   stale entry only by losing its search. *)
LEMMA KeptOrder ==
  ASSUME StoreTypeOK, StoreTypeOK', NEW p \in LanguagePair, KeepsOrder(p),
         \A c \in Client : record'[c] = Waiting(p) => record[c] = Waiting(p)
  PROVE  /\ \A c, d \in Client : record'[c] = Waiting(p) /\ record'[d] = Waiting(p) =>
              (Before(p, c, d)' <=> Before(p, c, d))
         /\ \A c \in Client : Stale(p, c)' =>
              Stale(p, c) \/ (record[c] = Waiting(p) /\ record'[c] # Waiting(p))
<1>1. PICK at : /\ Places(line'[p], line[p], at)
                /\ \A i \in DOMAIN line[p] : record'[line[p][i]] = Waiting(p) => Taken(at, i)
  BY DEF KeepsOrder
<1> DEFINE s == line[p]
           t == line'[p]
<1>2. s \in Seq(Client) /\ t \in Seq(Client)
  BY DEF StoreTypeOK
<1>3. /\ DOMAIN s \subseteq Nat /\ DOMAIN t \subseteq Nat
      /\ \A i \in DOMAIN s : s[i] \in Client
      /\ \A k \in DOMAIN t : t[k] \in Client
  BY <1>2
<1>4. /\ \A k \in DOMAIN t : at[k] \in DOMAIN s /\ t[k] = s[at[k]]
      /\ \A k, l \in DOMAIN t : k < l => at[k] < at[l]
      /\ DOMAIN at = DOMAIN t
  BY <1>1 DEF Places
<1>5. \A i \in DOMAIN s : record'[s[i]] = Waiting(p) => \E k \in DOMAIN t : at[k] = i
  BY <1>1, <1>4 DEF Taken
<1>c. /\ \A i : i \in Current(p) <=>
                  i \in DOMAIN s /\ record[s[i]] = Waiting(p) /\ IsLast(s, i)
      /\ \A i : i \in Current(p)' <=>
                  i \in DOMAIN t /\ record'[t[i]] = Waiting(p) /\ IsLast(t, i)
  BY CurrentMeaning
<1> HIDE DEF s, t
<1>6. \A k, l \in DOMAIN t : at[k] < at[l] => k < l
  BY <1>3, <1>4
<1>7. ASSUME NEW k \in DOMAIN t, record'[t[k]] = Waiting(p)
      PROVE  k \in Current(p)' <=> at[k] \in Current(p)
  <2>1. record[s[at[k]]] = Waiting(p) /\ at[k] \in DOMAIN s /\ t[k] = s[at[k]]
    BY <1>3, <1>4, <1>7
  <2>2. ASSUME IsLast(t, k), NEW j \in DOMAIN s, s[j] = s[at[k]]
        PROVE  j <= at[k]
    <3>1. PICK l \in DOMAIN t : at[l] = j
      BY <1>5, <1>7, <2>1, <2>2
    <3>2. l <= k
      BY <1>4, <2>1, <2>2, <3>1 DEF IsLast
    <3>3. l < k => at[l] < at[k]
      BY <1>4
    <3>4. QED
      BY <1>3, <1>4, <3>1, <3>2, <3>3
  <2>3. ASSUME IsLast(s, at[k]), NEW l \in DOMAIN t, t[l] = t[k]
        PROVE  l <= k
    <3>1. at[l] <= at[k]
      BY <1>4, <2>1, <2>3 DEF IsLast
    <3>2. ~(k < l)
      BY <1>3, <1>4, <3>1
    <3>3. QED
      BY <1>3, <3>2
  <2>4. IsLast(t, k) <=> IsLast(s, at[k])
    BY <2>2, <2>3 DEF IsLast
  <2>5. QED
    BY <1>c, <1>7, <2>1, <2>4
<1>8. ASSUME NEW c \in Client, NEW d \in Client, record'[c] = Waiting(p), record'[d] = Waiting(p)
      PROVE  Before(p, c, d)' <=> Before(p, c, d)
  <2>1. ASSUME Before(p, c, d)'
        PROVE  Before(p, c, d)
    <3>1. PICK k \in Current(p)', l \in Current(p)' : k < l /\ t[k] = c /\ t[l] = d
      BY <2>1 DEF Before, t
    <3>2. /\ k \in DOMAIN t /\ l \in DOMAIN t
          /\ at[k] \in Current(p) /\ at[l] \in Current(p)
      BY <1>c, <1>7, <1>8, <3>1
    <3>3. at[k] < at[l] /\ s[at[k]] = c /\ s[at[l]] = d
      BY <1>4, <3>1, <3>2
    <3>4. QED
      BY <3>2, <3>3 DEF Before, s
  <2>2. ASSUME Before(p, c, d)
        PROVE  Before(p, c, d)'
    <3>1. PICK i \in Current(p), j \in Current(p) : i < j /\ s[i] = c /\ s[j] = d
      BY <2>2 DEF Before, s
    <3>2. i \in DOMAIN s /\ j \in DOMAIN s
      BY <1>c, <3>1
    <3>3. PICK k \in DOMAIN t, l \in DOMAIN t : at[k] = i /\ at[l] = j
      BY <1>5, <1>8, <3>1, <3>2
    <3>4. t[k] = c /\ t[l] = d
      BY <1>4, <3>1, <3>3
    <3>5. k < l /\ k \in Current(p)' /\ l \in Current(p)'
      BY <1>6, <1>7, <1>8, <3>1, <3>3, <3>4
    <3>6. QED
      BY <3>4, <3>5 DEF Before, t
  <2>3. QED
    BY <2>1, <2>2
<1>9. ASSUME NEW c \in Client, Stale(p, c)', ~Stale(p, c)
      PROVE  record[c] = Waiting(p) /\ record'[c] # Waiting(p)
  <2>1. PICK k \in DOMAIN t : t[k] = c /\ k \notin Current(p)'
    BY <1>9 DEF Stale, t
  <2>2. at[k] \in DOMAIN s /\ s[at[k]] = c
    BY <1>4, <2>1
  <2>3. at[k] \in Current(p)
    BY <1>9, <2>2 DEF Stale, s
  <2>4. QED
    BY <1>c, <1>7, <2>1, <2>2, <2>3
<1>10. QED
  BY <1>8, <1>9

(* A step in which entries leave and searches end is the leaving of those users:
   the others keep their order, and only who lost its search is left behind. *)
LEMMA KeptLeave ==
  ASSUME StoreTypeOK, StoreTypeOK', NEW users \in SUBSET CurrentUsers,
         \A p \in LanguagePair : KeepsOrder(p),
         \A u \in WaitingUser : record'[u.client] = Waiting(u.pair) <=>
                                  record[u.client] = Waiting(u.pair) /\ u \notin users
  PROVE  Pool!Leave(users) /\ LapsedUsers' \subseteq LapsedUsers \cup users
<1>1. ASSUME NEW p \in LanguagePair, NEW c \in Client, record'[c] = Waiting(p)
      PROVE  record[c] = Waiting(p)
  <2>1. [client |-> c, pair |-> p] \in WaitingUser /\ [client |-> c, pair |-> p].client = c
        /\ [client |-> c, pair |-> p].pair = p
    BY UserFacts
  <2>2. QED
    BY <1>1, <2>1
<1>2. CurrentUsers' = CurrentUsers \ users
  BY PoolMeaning, PoolMeaningNext
<1>3. ASSUME NEW u, NEW v
      PROVE  <<u, v>> \in EarlierUsers' <=>
               <<u, v>> \in EarlierUsers /\ u \notin users /\ v \notin users
  <2>1. CASE u \in CurrentUsers' /\ v \in CurrentUsers' /\ u.pair = v.pair
    <3>1. /\ u.client \in Client /\ v.client \in Client /\ u.pair \in LanguagePair
          /\ record'[u.client] = Waiting(u.pair) /\ record'[v.client] = Waiting(u.pair)
      BY <2>1, PoolMeaningNext, UserFacts
    <3>2. Before(u.pair, u.client, v.client)' <=> Before(u.pair, u.client, v.client)
      BY <1>1, <3>1, KeptOrder
    <3>3. QED
      BY <1>2, <2>1, <3>2, PoolMeaning, PoolMeaningNext
  <2>2. CASE ~(u \in CurrentUsers' /\ v \in CurrentUsers' /\ u.pair = v.pair)
    BY <1>2, <2>2, PoolMeaning, PoolMeaningNext
  <2>3. QED
    BY <2>1, <2>2
<1>4. EarlierUsers' = { e \in EarlierUsers : e[1] \notin users /\ e[2] \notin users }
  BY <1>3, PoolMeaning, PoolMeaningNext
<1>5. ASSUME NEW u \in LapsedUsers', u \notin LapsedUsers
      PROVE  u \in users
  <2>1. /\ u \in WaitingUser /\ u.client \in Client /\ u.pair \in LanguagePair
        /\ Stale(u.pair, u.client)' /\ ~Stale(u.pair, u.client)
    BY <1>5, PoolMeaning, PoolMeaningNext, UserFacts
  <2>2. record[u.client] = Waiting(u.pair) /\ record'[u.client] # Waiting(u.pair)
    BY <1>1, <2>1, KeptOrder
  <2>3. QED
    BY <2>1, <2>2
<1>6. QED
  BY <1>2, <1>4, <1>5 DEF Pool!Leave

(* A line that is left alone keeps its order. *)
LEMMA UnchangedKeepsOrder ==
  ASSUME StoreTypeOK, NEW p \in LanguagePair, line'[p] = line[p]
  PROVE  KeepsOrder(p)
<1> DEFINE at == [k \in DOMAIN line[p] |-> k]
<1>1. DOMAIN line[p] \subseteq Nat
  BY DEF StoreTypeOK
<1>2. Places(line'[p], line[p], at)
  BY <1>1 DEF Places
<1>3. \A i \in DOMAIN line[p] : Taken(at, i)
  BY DEF Taken
<1>4. QED
  BY <1>2, <1>3 DEF KeepsOrder

(* RPOP keeps the order, when nobody it takes out goes on waiting. *)
LEMMA PopKeepsOrder ==
  ASSUME StoreTypeOK, NEW p \in LanguagePair, NEW n \in 0 .. Len(line[p]),
         line'[p] = Popped(p, n),
         \A i \in DOMAIN line[p] : record'[line[p][i]] = Waiting(p) => i > n
  PROVE  KeepsOrder(p)
<1>1. line[p] \in Seq(Client)
  BY DEF StoreTypeOK
<1>2. PICK at : /\ Places(line'[p], line[p], at)
                /\ \A i \in DOMAIN line[p] : i > n => Taken(at, i)
  BY <1>1, PopProperties DEF Popped
<1>3. QED
  BY <1>2 DEF KeepsOrder

(* LREM keeps the order, when its client does not go on waiting. *)
LEMMA WithoutKeepsOrder ==
  ASSUME StoreTypeOK, NEW p \in LanguagePair, NEW c,
         line'[p] = Without(line[p], c), record'[c] # Waiting(p)
  PROVE  KeepsOrder(p)
<1>1. line[p] \in Seq(Client)
  BY DEF StoreTypeOK
<1>2. PICK at : /\ Places(line'[p], line[p], at)
                /\ \A i \in DOMAIN line[p] : line[p][i] # c => Taken(at, i)
  BY <1>1, WithoutProperties
<1>3. QED
  BY <1>2 DEF KeepsOrder

-----------------------------------------------------------------------------
(* A client without a record is in no part of the pool. *)
LEMMA AbsentIsNotBusy ==
  ASSUME StoreInv, NEW c \in Client, record[c] = Absent
  PROVE  ~Pool!Busy(c)
<1>1. ASSUME NEW u \in CurrentUsers, u.client = c
      PROVE  FALSE
  BY <1>1, PoolMeaning, RecordKinds
<1>2. ASSUME NEW r \in Reservations, NEW u \in r, u.client = c
      PROVE  FALSE
  <2>1. PICK d \in Client, v \in WaitingUser :
          record[d] = Matched(v) /\ r = {[client |-> d, pair |-> Mirror(v.pair)], v}
    BY ReservationsMeaning DEF StoreInv, StoreTypeOK
  <2>2. record[v.client] = Matched([client |-> d, pair |-> Mirror(v.pair)])
    BY <2>1 DEF StoreInv, ReservationsMirrored
  <2>3. c = d \/ c = v.client
    BY <1>2, <2>1
  <2>4. QED
    BY <2>1, <2>2, <2>3, RecordKinds
<1>3. QED
  BY <1>1, <1>2 DEF Pool!Busy

(* Finding nobody and joining the line is joining the pool, behind everybody. *)
LEMMA EnqueueJoins ==
  ASSUME StoreInv, StoreInv', NEW wu \in WaitingUser, Enqueue(wu)
  PROVE  Pool!Join(wu)
<1> DEFINE c == wu.client
           p == wu.pair
           m == Mirror(p)
           n == Len(line[p]) + 1
           joined == { <<u, wu>> : u \in { v \in CurrentUsers : v.pair = p } }
<1> USE DEF StoreInv
<1>1. /\ c \in Client /\ p \in LanguagePair /\ m \in LanguagePair /\ m # p
      /\ wu = [client |-> c, pair |-> p]
  BY UserFacts, MirrorFacts
<1>2. /\ record[c] = Absent /\ Live(m) = {}
      /\ line' = [line EXCEPT ![m] = <<>>, ![p] = Append(@, c)]
      /\ record' = [record EXCEPT ![c] = Waiting(p)]
  BY DEF Enqueue, Searches
<1>3. /\ line \in [LanguagePair -> Seq(Client)]
      /\ record \in [Client -> Record] /\ record' \in [Client -> Record]
  BY DEF StoreTypeOK
<1> HIDE DEF c, p, m
<1>4. /\ record'[c] = Waiting(p)
      /\ \A d \in Client \ {c} : record'[d] = record[d]
      /\ line'[m] = <<>> /\ line'[p] = Append(line[p], c)
      /\ \A q \in LanguagePair \ {m, p} : line'[q] = line[q]
  BY <1>1, <1>2, <1>3
<1>5. \A d \in Client : record[d] # Waiting(m)
  BY <1>1, <1>2 DEF WaitingIsListed, Live, Waits
<1>6. /\ line[p] \in Seq(Client) /\ n \in Nat /\ DOMAIN line[p] = 1 .. n - 1
      /\ DOMAIN line'[p] = 1 .. n /\ line'[p][n] = c
      /\ \A i \in 1 .. n - 1 : line'[p][i] = line[p][i] /\ line[p][i] \in Client
  BY <1>1, <1>3, <1>4
<1>s. \A i : i \in 1 .. n <=> i \in 1 .. n - 1 \/ i = n
  <2>1. n \in Nat \ {0}
    BY <1>6
  <2> HIDE DEF n
  <2>2. QED
    BY <2>1
<1> HIDE DEF n
<1>7. CurrentUsers' = CurrentUsers \cup {wu}
  <2>1. ASSUME NEW u \in WaitingUser
        PROVE  record'[u.client] = Waiting(u.pair) <=>
                 record[u.client] = Waiting(u.pair) \/ u = wu
    <3>1. CASE u.client = c
      BY <1>1, <1>2, <1>4, <3>1, RecordKinds, UserFacts
    <3>2. CASE u.client # c
      BY <1>4, <3>2, UserFacts DEF c
    <3>3. QED
      BY <3>1, <3>2
  <2>2. QED
    BY <2>1, PoolMeaning, PoolMeaningNext
<1>8. \A i : i \in Current(p)' <=> i \in Current(p) \/ i = n
  <2> SUFFICES ASSUME NEW i
               PROVE  i \in Current(p)' <=> i \in Current(p) \/ i = n
    OBVIOUS
  <2>1. CASE i = n
    BY <1>4, <1>6, <2>1, CurrentMeaning DEF IsLast
  <2>2. CASE i \in 1 .. n - 1 /\ line[p][i] = c
    <3>1. ~IsLast(line'[p], i)
      BY <1>6, <2>2 DEF IsLast
    <3>2. record[line[p][i]] # Waiting(p)
      BY <1>2, <2>2, RecordKinds
    <3>3. QED
      BY <1>6, <2>2, <3>1, <3>2, CurrentMeaning
  <2>3. CASE i \in 1 .. n - 1 /\ line[p][i] # c
    <3>1. line'[p][i] = line[p][i] /\ line'[p][n] # line'[p][i]
      BY <1>6, <2>3
    <3>2. ASSUME IsLast(line[p], i), NEW j \in DOMAIN line'[p], line'[p][j] = line'[p][i]
          PROVE  j =< i
      <4>1. j \in 1 .. n - 1
        BY <1>6, <1>s, <3>1, <3>2
      <4>2. line[p][j] = line[p][i]
        BY <1>6, <3>1, <3>2, <4>1
      <4>3. QED
        BY <1>6, <3>2, <4>1, <4>2 DEF IsLast
    <3>3. ASSUME IsLast(line'[p], i), NEW j \in DOMAIN line[p], line[p][j] = line[p][i]
          PROVE  j =< i
      <4>1. j \in DOMAIN line'[p] /\ line'[p][j] = line'[p][i]
        BY <1>6, <1>s, <3>1, <3>3
      <4>2. QED
        BY <3>3, <4>1 DEF IsLast
    <3>4. IsLast(line'[p], i) <=> IsLast(line[p], i)
      BY <3>2, <3>3 DEF IsLast
    <3>5. record'[line[p][i]] = record[line[p][i]]
      BY <1>4, <1>6, <2>3
    <3>6. QED
      BY <1>6, <2>3, <3>4, <3>5, CurrentMeaning
  <2>4. CASE i \notin 1 .. n
    BY <1>6, <1>s, <2>4, CurrentMeaning
  <2>5. QED
    BY <1>6, <2>1, <2>2, <2>3, <2>4
<1>9. n \notin DOMAIN line[p] /\ n \notin Current(p)
  BY <1>6, CurrentMeaning
<1>10. ASSUME NEW q \in LanguagePair, q # p
       PROVE  /\ Current(q)' = Current(q)
              /\ q # m => line'[q] = line[q]
              /\ q = m => Current(q) = {} /\ line'[q] = <<>>
  <2>1. CASE q = m
    <3>1. \A i \in DOMAIN line[m] : line[m][i] \in Client
      BY <1>1, <1>3
    <3>2. Current(m) = {} /\ Current(m)' = {}
      BY <1>4, <1>5, <3>1, CurrentMeaning
    <3>3. QED
      BY <1>4, <2>1, <3>2
  <2>2. CASE q # m
    <3>1. line'[q] = line[q] /\ \A i \in DOMAIN line[q] : line[q][i] \in Client
      BY <1>3, <1>4, <1>10, <2>2
    <3>2. \A d \in Client : record'[d] = Waiting(q) <=> record[d] = Waiting(q)
      BY <1>2, <1>4, <1>10, RecordKinds
    <3>3. QED
      BY <2>2, <3>1, <3>2, CurrentMeaning
  <2>3. QED
    BY <2>1, <2>2
<1>11. ASSUME NEW u \in WaitingUser, NEW v \in WaitingUser, u.pair = v.pair, u.pair # p
       PROVE  Before(u.pair, u.client, v.client)' <=> Before(u.pair, u.client, v.client)
  <2>1. u.pair \in LanguagePair
    BY UserFacts
  <2>2. QED
    BY <1>10, <1>11, <2>1 DEF Before
<1>12. ASSUME NEW u \in WaitingUser, NEW v \in WaitingUser, u.pair = p, v.pair = p
       PROVE  Before(p, u.client, v.client)' <=>
                \/ Before(p, u.client, v.client)
                \/ record[u.client] = Waiting(p) /\ v.client = c
  <2>1. Current(p) \subseteq 1 .. n - 1 /\ 1 .. n - 1 \subseteq Nat
    BY <1>6, CurrentMeaning
  <2>2. ASSUME record[u.client] = Waiting(p)
        PROVE  \E i \in Current(p) : line[p][i] = u.client
    <3>1. record'[u.client] = Waiting(p) /\ u.client # c /\ u.client \in Client
      BY <1>2, <1>4, <2>2, RecordKinds, UserFacts
    <3> DEFINE places == { i \in 1 .. n - 1 : line[p][i] = u.client }
    <3>2. places # {} /\ places \in SUBSET (1 .. n)
      BY <1>1, <1>6, <2>2, <3>1 DEF WaitingIsListed, Waits
    <3>3. PICK i \in places : \A j \in places : j <= i
      BY <1>6, <3>2, LastPlace
    <3>4. QED
      BY <1>6, <2>2, <3>3, CurrentMeaning DEF IsLast
  <2>3. ASSUME Before(p, u.client, v.client)'
        PROVE  \/ Before(p, u.client, v.client)
               \/ record[u.client] = Waiting(p) /\ v.client = c
    <3>1. PICK i \in Current(p)', j \in Current(p)' :
            i < j /\ line'[p][i] = u.client /\ line'[p][j] = v.client
      BY <2>3 DEF Before
    <3>2. i \in 1 .. n /\ j \in 1 .. n
      BY <1>6, <3>1, CurrentMeaning
    <3>3. i \in Current(p) /\ i \in 1 .. n - 1 /\ line[p][i] = u.client
      BY <1>6, <1>8, <3>1, <3>2
    <3>4. record[u.client] = Waiting(p)
      BY <3>3, CurrentMeaning
    <3>5. CASE j = n
      BY <1>6, <3>1, <3>4, <3>5
    <3>6. CASE j # n
      BY <1>6, <1>8, <3>1, <3>2, <3>3, <3>6 DEF Before
    <3>7. QED
      BY <3>5, <3>6
  <2>4. ASSUME Before(p, u.client, v.client)
        PROVE  Before(p, u.client, v.client)'
    BY <1>6, <1>8, <2>1, <2>4 DEF Before
  <2>5. ASSUME record[u.client] = Waiting(p), v.client = c
        PROVE  Before(p, u.client, v.client)'
    <3>1. PICK i \in Current(p) : line[p][i] = u.client
      BY <2>2, <2>5
    <3>2. i < n /\ line'[p][i] = u.client /\ i \in Current(p)' /\ n \in Current(p)'
      BY <1>6, <1>8, <2>1, <3>1
    <3>3. QED
      BY <1>6, <2>5, <3>2 DEF Before
  <2>6. QED
    BY <2>3, <2>4, <2>5
<1>13. ASSUME NEW u, NEW v
       PROVE  <<u, v>> \in EarlierUsers' <=> <<u, v>> \in EarlierUsers \cup joined
  <2>1. <<u, v>> \in joined <=> u \in CurrentUsers /\ u.pair = p /\ v = wu
    OBVIOUS
  <2> HIDE DEF joined
  <2>2. CASE u \in WaitingUser /\ v \in WaitingUser /\ u.pair = v.pair /\ u.pair # p
    <3>1. u # wu /\ v # wu
      BY <2>2 DEF p
    <3>2. QED
      BY <1>7, <1>11, <2>1, <2>2, <3>1, PoolMeaning, PoolMeaningNext
  <2>3. CASE u \in WaitingUser /\ v \in WaitingUser /\ u.pair = v.pair /\ u.pair = p
    <3>1. v.client = c <=> v = wu
      BY <1>1, <2>3, UserFacts
    <3>2. wu \notin CurrentUsers
      BY <1>1, <1>2, PoolMeaning, RecordKinds DEF c
    <3>3. u \in CurrentUsers <=> record[u.client] = Waiting(p)
      BY <2>3, PoolMeaning
    <3>4. ~Before(p, wu.client, v.client)
      BY <1>2, CurrentMeaning, RecordKinds DEF Before, c
    <3>5. ~Before(p, u.client, wu.client)
      BY <1>2, CurrentMeaning, RecordKinds DEF Before, c
    <3>6. QED
      BY <1>7, <1>12, <2>1, <2>3, <3>1, <3>2, <3>3, <3>4, <3>5, PoolMeaning, PoolMeaningNext
  <2>4. CASE ~(u \in WaitingUser /\ v \in WaitingUser /\ u.pair = v.pair)
    BY <2>1, <2>4, PoolMeaning, PoolMeaningNext DEF p
  <2>5. QED
    BY <2>2, <2>3, <2>4
<1>14. EarlierUsers' = EarlierUsers \cup joined
  <2>1. \A e \in joined : e = <<e[1], e[2]>>
    OBVIOUS
  <2> HIDE DEF joined
  <2>2. QED
    BY <1>13, <2>1, PoolMeaning, PoolMeaningNext
<1>15. ASSUME NEW u \in LapsedUsers'
       PROVE  u \in LapsedUsers
  <2>1. u \in WaitingUser /\ u.pair \in LanguagePair /\ Stale(u.pair, u.client)'
    BY <1>15, PoolMeaningNext, UserFacts
  <2>2. PICK i \in DOMAIN line'[u.pair] : line'[u.pair][i] = u.client /\ i \notin Current(u.pair)'
    BY <2>1 DEF Stale
  <2>3. CASE u.pair = p
    BY <1>6, <1>s, <1>8, <2>1, <2>2, <2>3, PoolMeaning DEF Stale
  <2>4. CASE u.pair # p
    BY <1>10, <2>1, <2>2, <2>4, PoolMeaning DEF Stale
  <2>5. QED
    BY <2>3, <2>4
<1>16. Reservations' = Reservations
  <2>1. \A d \in Client : \A u : record'[d] = Matched(u) <=> record[d] = Matched(u)
    BY <1>2, <1>4, RecordKinds
  <2>2. \A r : r \in Reservations' <=> r \in Reservations
    BY <1>3, <2>1, ReservationsMeaning
  <2>3. QED
    BY <2>2
<1>17. Pool!Compatible(wu) = {}
  <2>1. ASSUME NEW u \in CurrentUsers, IsCompatibleWith(u.pair, wu.pair)
        PROVE  FALSE
    <3>1. u.client \in Client /\ u.pair \in LanguagePair /\ record[u.client] = Waiting(u.pair)
      BY PoolMeaning, UserFacts
    <3>2. u.pair = m
      BY <1>1, <2>1, <3>1, MirrorFacts DEF m, p
    <3>3. QED
      BY <1>5, <3>1, <3>2
  <2>2. QED
    BY <2>1, PoolDomain DEF Pool!Compatible
<1>18. ~Pool!Busy(wu.client)
  BY <1>1, <1>2, AbsentIsNotBusy DEF c
<1>19. ttl' = [ttl EXCEPT ![wu.client] = WaitingTTL]
  BY DEF Enqueue
<1>20. QED
  BY <1>7, <1>14, <1>15, <1>16, <1>17, <1>18, <1>19 DEF Pool!Join, Pool!Forget, p

(* A match: the partner leaves the pool, and only one that lost an earlier search
   in this line goes before users that came before it. *)
LEMMA TakePartnerMatches ==
  ASSUME StoreInv, StoreInv', NEW wu \in WaitingUser, NEW partner \in WaitingUser,
         TakePartner(wu, partner)
  PROVE  Pool!Match(wu)
<1> DEFINE c == wu.client
           d == partner.client
           m == Mirror(wu.pair)
<1> USE DEF StoreInv
<1>1. /\ c \in Client /\ d \in Client
      /\ wu.pair \in LanguagePair /\ m \in LanguagePair /\ Mirror(m) = wu.pair
      /\ wu = [client |-> c, pair |-> wu.pair]
  BY UserFacts, MirrorFacts
<1>2. PICK i \in 1 .. StepCount :
        /\ FirstLive(m, i)
        /\ partner = [client |-> line[m][i], pair |-> m]
        /\ line' = [line EXCEPT ![m] = Popped(m, i)]
  BY DEF TakePartner
<1>3. /\ record[c] = Absent
      /\ record' = [record EXCEPT ![c] = Matched(partner), ![d] = Matched(wu)]
  BY DEF TakePartner, Searches
<1>4. /\ line \in [LanguagePair -> Seq(Client)]
      /\ record \in [Client -> Record] /\ record' \in [Client -> Record]
  BY DEF StoreTypeOK
<1>5. /\ i \in DOMAIN line[m] /\ d = line[m][i] /\ partner.pair = m
      /\ record[d] = Waiting(m) /\ d # c
      /\ \A j \in DOMAIN line[m] : record[line[m][j]] = Waiting(m) => i <= j
  BY <1>2, <1>3, RecordKinds DEF FirstLive, Live, Waits
<1> HIDE DEF c, d, m
<1>6. /\ record'[c] = Matched(partner) /\ record'[d] = Matched(wu)
      /\ \A e \in Client \ {c, d} : record'[e] = record[e]
      /\ line'[m] = Popped(m, i)
      /\ \A q \in LanguagePair \ {m} : line'[q] = line[q]
  BY <1>1, <1>2, <1>3, <1>4, <1>5
<1>7. /\ line[m] \in Seq(Client) /\ i \in 0 .. Len(line[m])
      /\ DOMAIN line[m] \subseteq Nat /\ \A j \in DOMAIN line[m] : line[m][j] \in Client
  BY <1>1, <1>4, <1>5
<1>8. /\ partner \in CurrentUsers
      /\ \A u \in WaitingUser : u.client = d /\ u.pair = m => u = partner
  BY <1>2, <1>5, PoolMeaning, UserFacts DEF d
<1>9. ASSUME NEW u \in WaitingUser
      PROVE  record'[u.client] = Waiting(u.pair) <=>
               record[u.client] = Waiting(u.pair) /\ u \notin {partner}
  <2>1. CASE u.client \in {c, d}
    BY <1>3, <1>5, <1>6, <1>8, <2>1, RecordKinds
  <2>2. CASE u.client \notin {c, d}
    BY <1>6, <2>2, UserFacts DEF d
  <2>3. QED
    BY <2>1, <2>2
<1>10. ASSUME NEW q \in LanguagePair
       PROVE  KeepsOrder(q)
  <2>1. CASE q = m
    <3>1. ASSUME NEW j \in DOMAIN line[m], record'[line[m][j]] = Waiting(m)
          PROVE  j > i
      <4>1. line[m][j] \notin {c, d}
        BY <1>6, <3>1, RecordKinds
      <4>2. i <= j /\ j # i /\ j \in Nat /\ i \in Nat
        BY <1>5, <1>6, <1>7, <3>1, <4>1
      <4>3. QED
        BY <4>2
    <3>2. QED
      BY <1>1, <1>6, <1>7, <2>1, <3>1, PopKeepsOrder
  <2>2. CASE q # m
    BY <1>6, <2>2, UnchangedKeepsOrder
  <2>3. QED
    BY <2>1, <2>2
<1>11. Pool!Leave({partner}) /\ LapsedUsers' \subseteq LapsedUsers \cup {partner}
  BY <1>8, <1>9, <1>10, KeptLeave
<1>12. ASSUME i \notin Current(m)
       PROVE  partner \in LapsedUsers
  BY <1>5, <1>12, PoolMeaning DEF Stale, d
<1>13. ASSUME i \in Current(m), NEW v, <<v, partner>> \in EarlierUsers
       PROVE  FALSE
  <2>1. Before(m, v.client, d)
    BY <1>5, <1>13, PoolMeaning DEF d
  <2>2. PICK j \in Current(m), k \in Current(m) : j < k /\ line[m][k] = d
    BY <2>1 DEF Before
  <2>3. i \in Nat /\ j \in Nat /\ k \in Nat
    BY <1>5, <1>7, <2>2, CurrentMeaning
  <2>4. i <= j
    BY <1>5, <2>2, CurrentMeaning
  <2>5. k <= i
    BY <1>5, <1>13, <2>2, CurrentMeaning DEF IsLast
  <2>6. QED
    BY <2>2, <2>3, <2>4, <2>5
<1>14. ASSUME partner \in LapsedUsers'
       PROVE  partner \in LapsedUsers
  <2>1. PICK k \in DOMAIN line'[m] : line'[m][k] = d
    BY <1>5, <1>14, PoolMeaningNext DEF Stale, d
  <2>2. PICK at : Places(Popped(m, i), line[m], at) /\ \A l \in DOMAIN at : at[l] > i
    BY <1>7, PopProperties DEF Popped
  <2>3. at[k] \in DOMAIN line[m] /\ line[m][at[k]] = d /\ at[k] > i
    BY <1>6, <2>1, <2>2 DEF Places
  <2>4. ~IsLast(line[m], i)
    BY <1>5, <1>7, <2>3 DEF IsLast
  <2>5. QED
    BY <1>12, <2>4, CurrentMeaning
<1>15. Reservations' = Reservations \cup {{partner, wu}}
  <2>1. /\ [client |-> c, pair |-> Mirror(partner.pair)] = wu
        /\ [client |-> d, pair |-> Mirror(wu.pair)] = partner
    BY <1>1, <1>2, <1>5 DEF m
  <2>2. ASSUME NEW r \in Reservations'
        PROVE  r \in Reservations \/ r = {partner, wu}
    <3>1. PICK e \in Client, u \in WaitingUser :
            record'[e] = Matched(u) /\ r = {[client |-> e, pair |-> Mirror(u.pair)], u}
      BY <1>4, ReservationsMeaning
    <3>2. CASE e = c
      <4>1. u = partner
        BY <1>6, <3>1, <3>2, RecordKinds
      <4>2. QED
        BY <2>1, <3>1, <3>2, <4>1
    <3>3. CASE e = d
      <4>1. u = wu
        BY <1>6, <3>1, <3>3, RecordKinds
      <4>2. QED
        BY <2>1, <3>1, <3>3, <4>1
    <3>4. CASE e \notin {c, d}
      BY <1>4, <1>6, <3>1, <3>4, ReservationsMeaning
    <3>5. QED
      BY <3>2, <3>3, <3>4
  <2>3. ASSUME NEW r \in Reservations
        PROVE  r \in Reservations'
    <3>1. PICK e \in Client, u \in WaitingUser :
            record[e] = Matched(u) /\ r = {[client |-> e, pair |-> Mirror(u.pair)], u}
      BY <1>4, ReservationsMeaning
    <3>2. e \notin {c, d}
      BY <1>3, <1>5, <3>1, RecordKinds
    <3>3. record'[e] = Matched(u)
      BY <1>6, <3>1, <3>2
    <3>4. QED
      BY <1>4, <3>1, <3>3, ReservationsMeaning
  <2>4. {partner, wu} \in Reservations'
    BY <1>1, <1>4, <1>6, <2>1, ReservationsMeaning
  <2>5. QED
    BY <2>2, <2>3, <2>4
<1>16. partner \in Pool!Compatible(wu)
  BY <1>1, <1>5, <1>8, MirrorFacts, PoolDomain DEF Pool!Compatible, m
<1>17. ~Pool!Busy(wu.client)
  BY <1>1, <1>3, AbsentIsNotBusy DEF c
<1>18. LapsedUsers' \subseteq LapsedUsers
  BY <1>11, <1>14
<1>19. partner \in LapsedUsers \/ \A v \in Pool!Compatible(wu) : <<v, partner>> \notin EarlierUsers
  BY <1>12, <1>13
<1>20. ttl' = [ttl EXCEPT ![wu.client] = MatchedTTL, ![partner.client] = MatchedTTL]
  BY DEF TakePartner
<1>21. QED
  BY <1>11, <1>15, <1>16, <1>17, <1>18, <1>19, <1>20 DEF Pool!Match, Pool!Forget

(* A cancellation takes one user out of the pool, with every entry it has in its line. *)
LEMMA RemoveFromQueueCancels ==
  ASSUME StoreInv, StoreInv', NEW c \in Client, NEW p \in LanguagePair, Waits(c, p),
         RemoveFromQueue(c)
  PROVE  Pool!Cancel([client |-> c, pair |-> p])
<1> DEFINE user == [client |-> c, pair |-> p]
<1> USE DEF StoreInv
<1>1. record[c] = Waiting(p) /\ record[c].queue = p
  BY DEF Waits, Waiting
<1>2. /\ line' = [line EXCEPT ![p] = Without(@, c)]
      /\ record' = [record EXCEPT ![c] = Absent]
      /\ ttl' = [ttl EXCEPT ![c] = 0]
  BY <1>1 DEF RemoveFromQueue
<1>3. /\ line \in [LanguagePair -> Seq(Client)]
      /\ record \in [Client -> Record] /\ record' \in [Client -> Record]
      /\ line[p] \in Seq(Client)
  BY DEF StoreTypeOK
<1>4. /\ record'[c] = Absent
      /\ \A e \in Client \ {c} : record'[e] = record[e]
      /\ line'[p] = Without(line[p], c)
      /\ \A q \in LanguagePair \ {p} : line'[q] = line[q]
  BY <1>2, <1>3
<1>5. /\ user \in WaitingUser /\ user.client = c /\ user.pair = p
      /\ \A u \in WaitingUser : u.client = c /\ u.pair = p => u = user
  BY UserFacts
<1> HIDE DEF user
<1>6. user \in CurrentUsers
  BY <1>1, <1>5, PoolMeaning
<1>7. ASSUME NEW u \in WaitingUser
      PROVE  record'[u.client] = Waiting(u.pair) <=>
               record[u.client] = Waiting(u.pair) /\ u \notin {user}
  BY <1>1, <1>4, <1>5, RecordKinds, UserFacts
<1>8. ASSUME NEW q \in LanguagePair
      PROVE  KeepsOrder(q)
  <2>1. CASE q = p
    BY <1>4, <2>1, RecordKinds, WithoutKeepsOrder
  <2>2. CASE q # p
    BY <1>4, <2>2, UnchangedKeepsOrder
  <2>3. QED
    BY <2>1, <2>2
<1>9. Pool!Leave({user}) /\ LapsedUsers' \subseteq LapsedUsers \cup {user}
  BY <1>6, <1>7, <1>8, KeptLeave
<1>10. user \notin LapsedUsers'
  <2>1. \A k \in DOMAIN line'[p] : line'[p][k] # c
    BY <1>3, <1>4, WithoutProperties
  <2>2. QED
    BY <1>5, <2>1, PoolMeaningNext DEF Stale
<1>11. Reservations' = Reservations
  <2>1. \A e \in Client : \A u : record'[e] = Matched(u) <=> record[e] = Matched(u)
    BY <1>1, <1>4, RecordKinds
  <2>2. \A r : r \in Reservations' <=> r \in Reservations
    BY <1>3, <2>1, ReservationsMeaning
  <2>3. QED
    BY <2>2
<1>12. ttl' = [ttl EXCEPT ![user.client] = 0]
  BY <1>2, <1>5
<1>13. QED
  BY <1>6, <1>9, <1>10, <1>11, <1>12 DEF Pool!Cancel, Pool!Forget, user

(* Taking ended searches out of a line is forgetting them in the pool. *)
LEMMA ContinueForgets ==
  ASSUME StoreInv, StoreInv', NEW wu \in WaitingUser, Continue(wu)
  PROVE  Pool!ForgetLapsed
<1> DEFINE m == Mirror(wu.pair)
<1> USE DEF StoreInv
<1>1. m \in LanguagePair
  BY UserFacts, MirrorFacts
<1>2. /\ Len(line[m]) >= StepCount
      /\ \A i \in Live(m) : i > StepCount
      /\ line' = [line EXCEPT ![m] = Popped(m, StepCount)]
      /\ record' = record /\ ttl' = ttl
  BY DEF Continue
<1> HIDE DEF m
<1>3. /\ line \in [LanguagePair -> Seq(Client)] /\ record \in [Client -> Record]
      /\ line[m] \in Seq(Client) /\ StepCount \in 0 .. Len(line[m])
  BY <1>1, <1>2, StepCountLimit DEF StoreTypeOK
<1>4. ASSUME NEW q \in LanguagePair
      PROVE  KeepsOrder(q)
  <2>1. CASE q = m
    <3>1. \A i \in DOMAIN line[m] : record'[line[m][i]] = Waiting(m) => i > StepCount
      BY <1>2 DEF Live, Waits
    <3>2. line'[m] = Popped(m, StepCount)
      BY <1>1, <1>2, <1>3
    <3>3. QED
      BY <1>1, <1>3, <2>1, <3>1, <3>2, PopKeepsOrder
  <2>2. CASE q # m
    BY <1>2, <1>3, <2>2, UnchangedKeepsOrder
  <2>3. QED
    BY <2>1, <2>2
<1>5. Pool!Leave({}) /\ LapsedUsers' \subseteq LapsedUsers
  <2>1. {} \in SUBSET CurrentUsers
    OBVIOUS
  <2>2. ASSUME NEW u \in WaitingUser
        PROVE  record'[u.client] = Waiting(u.pair) <=>
                 record[u.client] = Waiting(u.pair) /\ u \notin {}
    BY <1>2
  <2>3. Pool!Leave({}) /\ LapsedUsers' \subseteq LapsedUsers \cup {}
    BY <1>4, <2>1, <2>2, KeptLeave
  <2>4. QED
    BY <2>3
<1>6. CurrentUsers' = CurrentUsers /\ EarlierUsers' = EarlierUsers
  BY <1>5 DEF Pool!Leave
<1>7. Reservations' = Reservations
  BY <1>2 DEF Reservations
<1>8. QED
  BY <1>2, <1>5, <1>6, <1>7 DEF Pool!ForgetLapsed, Pool!Forget

(* A call that changes nothing changes nothing in the pool. *)
LEMMA UnchangedForgets ==
  ASSUME UNCHANGED store
  PROVE  Pool!ForgetLapsed
<1>1. line' = line /\ record' = record /\ ttl' = ttl
  BY DEF store
<1>2. \A p : Live(p)' = Live(p)
  BY <1>1 DEF Live, Waits
<1>3. \A p : Current(p)' = Current(p)
  BY <1>1, <1>2 DEF Current
<1>4. CurrentUsers' = CurrentUsers /\ Reservations' = Reservations
  BY <1>1 DEF CurrentUsers, Waits, Reservations
<1>5. EarlierUsers' = EarlierUsers /\ LapsedUsers' = LapsedUsers
  BY <1>1, <1>3, <1>4 DEF EarlierUsers, LapsedUsers
<1>6. QED
  BY <1>1, <1>4, <1>5 DEF Pool!ForgetLapsed, Pool!Forget

(* A tick ends the searches whose time is over, and leaves their entries behind. *)
LEMMA TickEndsSearches ==
  ASSUME StoreInv, StoreInv', Tick,
         NEW users, users = { u \in CurrentUsers : ttl[u.client] = 1 }
  PROVE  Pool!Leave(users) /\ LapsedUsers' = LapsedUsers \cup users
<1> USE DEF StoreInv
<1>1. /\ line' = line
      /\ \A c \in Client : record'[c] = IF ttl[c] = 1 THEN Absent ELSE record[c]
  BY DEF Tick
<1>2. \A p \in LanguagePair : KeepsOrder(p)
  BY <1>1, UnchangedKeepsOrder
<1>3. ASSUME NEW u \in WaitingUser
      PROVE  record'[u.client] = Waiting(u.pair) <=>
               record[u.client] = Waiting(u.pair) /\ u \notin users
  BY <1>1, PoolMeaning, RecordKinds, UserFacts
<1>4. users \in SUBSET CurrentUsers
  OBVIOUS
<1>5. Pool!Leave(users) /\ LapsedUsers' \subseteq LapsedUsers \cup users
  BY <1>2, <1>3, <1>4, KeptLeave
<1>6. ASSUME NEW u \in LapsedUsers
      PROVE  u \in LapsedUsers'
  <2>1. /\ u \in WaitingUser /\ u.pair \in LanguagePair /\ u.client \in Client
        /\ Stale(u.pair, u.client)
    BY PoolMeaning, UserFacts
  <2>2. PICK i \in DOMAIN line[u.pair] : line[u.pair][i] = u.client /\ i \notin Current(u.pair)
    BY <2>1 DEF Stale
  <2>3. record'[u.client] = Waiting(u.pair) => record[u.client] = Waiting(u.pair)
    BY <1>1, <2>1, RecordKinds
  <2>4. i \notin Current(u.pair)'
    BY <1>1, <2>2, <2>3, CurrentMeaning
  <2>5. Stale(u.pair, u.client)'
    BY <1>1, <2>2, <2>4 DEF Stale
  <2>6. QED
    BY <2>1, <2>5, PoolMeaningNext
<1>7. ASSUME NEW u \in users
      PROVE  u \in LapsedUsers'
  <2>1. /\ u \in WaitingUser /\ u.pair \in LanguagePair /\ u.client \in Client
        /\ record[u.client] = Waiting(u.pair) /\ record'[u.client] # Waiting(u.pair)
    BY <1>3, <1>4, PoolMeaning, UserFacts
  <2>2. PICK i \in DOMAIN line[u.pair] : line[u.pair][i] = u.client
    BY <2>1 DEF WaitingIsListed, Waits
  <2>3. i \notin Current(u.pair)'
    BY <1>1, <2>1, <2>2, CurrentMeaning
  <2>4. Stale(u.pair, u.client)'
    BY <1>1, <2>2, <2>3 DEF Stale
  <2>5. QED
    BY <2>1, <2>4, PoolMeaningNext
<1>8. QED
  BY <1>5, <1>6, <1>7

(* A tick ends the reservations whose time is over, for both users at once. *)
LEMMA TickEndsReservations ==
  ASSUME StoreInv, StoreInv', Tick
  PROVE  Reservations' = { r \in Reservations : \A u \in r : ttl[u.client] # 1 }
<1> USE DEF StoreInv
<1>1. \A c \in Client : record'[c] = IF ttl[c] = 1 THEN Absent ELSE record[c]
  BY DEF Tick
<1>2. record \in [Client -> Record] /\ record' \in [Client -> Record]
  BY DEF StoreTypeOK
<1>3. ASSUME NEW c \in Client, NEW u \in WaitingUser, record[c] = Matched(u)
      PROVE  (\A v \in {[client |-> c, pair |-> Mirror(u.pair)], u} : ttl[v.client] # 1)
               <=> ttl[c] # 1
  <2>1. ttl[u.client] = ttl[c]
    BY <1>3 DEF ReservationsMirrored
  <2>2. [client |-> c, pair |-> Mirror(u.pair)].client = c
    OBVIOUS
  <2>3. QED
    BY <2>1, <2>2
<1>4. ASSUME NEW r \in Reservations'
      PROVE  r \in Reservations /\ \A v \in r : ttl[v.client] # 1
  <2>1. PICK c \in Client, u \in WaitingUser :
          record'[c] = Matched(u) /\ r = {[client |-> c, pair |-> Mirror(u.pair)], u}
    BY <1>2, ReservationsMeaning
  <2>2. record[c] = Matched(u) /\ ttl[c] # 1
    BY <1>1, <2>1, RecordKinds
  <2>3. QED
    BY <1>2, <1>3, <2>1, <2>2, ReservationsMeaning
<1>5. ASSUME NEW r \in Reservations, \A v \in r : ttl[v.client] # 1
      PROVE  r \in Reservations'
  <2>1. PICK c \in Client, u \in WaitingUser :
          record[c] = Matched(u) /\ r = {[client |-> c, pair |-> Mirror(u.pair)], u}
    BY <1>2, ReservationsMeaning
  <2>2. ttl[c] # 1
    BY <1>3, <1>5, <2>1
  <2>3. record'[c] = Matched(u)
    BY <1>1, <2>1, <2>2
  <2>4. QED
    BY <1>2, <2>1, <2>3, ReservationsMeaning
<1>6. QED
  BY <1>4, <1>5

LEMMA TickLapses ==
  ASSUME StoreInv, StoreInv', Tick
  PROVE  Pool!Lapse
<1>1. ttl' = [c \in Client |-> IF ttl[c] = 0 THEN 0 ELSE ttl[c] - 1]
  BY DEF Tick
<1>2. QED
  BY <1>1, TickEndsSearches, TickEndsReservations DEF Pool!Lapse

(* Every outcome of every script, and time, is a step of the pool. *)
LEMMA MatchOrEnqueueIsPoolStep ==
  ASSUME StoreInv, StoreInv', NEW wu \in WaitingUser, MatchOrEnqueue(wu)
  PROVE  Pool!PoolNext
<1>1. ASSUME NEW partner \in WaitingUser, RetryMatched(wu, partner)
      PROVE  Pool!PoolNext
  BY <1>1, UnchangedForgets DEF RetryMatched, Pool!PoolNext
<1>2. ASSUME NEW partner \in WaitingUser, TakePartner(wu, partner)
      PROVE  Pool!PoolNext
  BY <1>2, TakePartnerMatches, PoolDomain DEF Pool!PoolNext
<1>3. CASE RetryWaiting(wu) \/ RejectOtherPair(wu)
  BY <1>3, UnchangedForgets DEF RetryWaiting, RejectOtherPair, Pool!PoolNext
<1>4. CASE Enqueue(wu)
  BY <1>4, EnqueueJoins, PoolDomain DEF Pool!PoolNext
<1>5. CASE Continue(wu)
  BY <1>5, ContinueForgets DEF Pool!PoolNext
<1>6. QED
  BY <1>1, <1>2, <1>3, <1>4, <1>5 DEF MatchOrEnqueue

LEMMA RemoveFromQueueIsPoolStep ==
  ASSUME StoreInv, StoreInv', NEW c \in Client, RemoveFromQueue(c)
  PROVE  Pool!PoolNext
<1>1. CASE ~\E p \in LanguagePair : Waits(c, p)
  BY <1>1, UnchangedForgets DEF RemoveFromQueue, Pool!PoolNext
<1>2. ASSUME NEW p \in LanguagePair, Waits(c, p)
      PROVE  Pool!PoolNext
  <2>1. [client |-> c, pair |-> p] \in Pool!WaitingUser
    BY UserFacts, PoolDomain
  <2>2. QED
    BY <1>2, <2>1, RemoveFromQueueCancels DEF Pool!PoolNext
<1>3. QED
  BY <1>1, <1>2

LEMMA StoreStepIsPoolStep ==
  ASSUME StoreInv, StoreInv', [StoreNext]_store
  PROVE  Pool!PoolNext
<1>1. CASE UNCHANGED store
  BY <1>1, UnchangedForgets DEF Pool!PoolNext
<1>2. CASE Tick
  BY <1>2, TickLapses DEF Pool!PoolNext
<1>3. QED
  BY <1>1, <1>2, MatchOrEnqueueIsPoolStep, RemoveFromQueueIsPoolStep DEF StoreNext

(* The empty store is the empty pool. *)
LEMMA StoreInitIsPoolInit ==
  ASSUME StoreInit
  PROVE  Pool!PoolInit
<1>1. /\ \A c \in Client : record[c] = Absent
      /\ \A p \in LanguagePair : line[p] = <<>>
      /\ record \in [Client -> Record]
  BY DEF StoreInit, Record
<1>2. CurrentUsers = {}
  BY <1>1, PoolMeaning, RecordKinds, UserFacts
<1>3. EarlierUsers = {}
  BY <1>2, PoolMeaning
<1>4. LapsedUsers = {}
  BY <1>1, PoolMeaning, UserFacts DEF Stale
<1>5. Reservations = {}
  BY <1>1, ReservationsMeaning, RecordKinds
<1>6. ttl = [c \in Client |-> 0]
  BY DEF StoreInit
<1>7. QED
  BY <1>2, <1>3, <1>4, <1>5, <1>6 DEF Pool!PoolInit

(* The lines and records implement the pool of users and reservations: the partner
   drawn has waited longest unless it lost an earlier search in that line, a match
   is one reservation of two users who leave the pool together, a tick ends what has
   one tick left and nothing else, and no script ends, cuts short or prolongs a
   reservation. *)
THEOREM StoreImplementsReservations == StoreSpec => ImplementsReservations
<1>1. StoreInit => Pool!PoolInit
  BY StoreInitIsPoolInit
<1>2. StoreInv /\ StoreInv' /\ [StoreNext]_store => Pool!PoolNext
  BY StoreStepIsPoolStep
<1>3. QED
  BY <1>1, <1>2, StoreSpecInv, PTL DEF StoreSpec, ImplementsReservations, Pool!PoolSpec
=============================================================================
