------------------------------ MODULE RedisQueue ------------------------------
(***************************************************************************)
(* The searches and reservations kept in Redis.  Redis runs a Lua script   *)
(* from its first command to its last with the clock stopped, so each      *)
(* outcome of a script is one action.  Time is counted in ticks: a record  *)
(* ends with its own TTL, an entry of a line never does, so a line may     *)
(* hold clients whose search has ended.                                    *)
(***************************************************************************)
EXTENDS Domain, Integers, SequencesExt, FiniteSets

CONSTANTS StepCount,    \* entries one run of match_or_enqueue.lua may look at
          WaitingTTL,   \* ticks a search lasts
          MatchedTTL,   \* ticks a reservation lasts
          MaxLine       \* bound of the model: entries of a line

ASSUME StepCountLimit == StepCount \in 1 .. 100
ASSUME TTLsPositive == WaitingTTL \in Nat \ {0} /\ MatchedTTL \in Nat \ {0}
ASSUME MaxLineBound == MaxLine \in Nat

VARIABLES line,     \* LIST of each language pair, the end RPOP takes from first
          record,   \* HASH of each client
          ttl       \* ticks its record has left, 0 when no TTL is set

store == <<line, record, ttl>>

Absent == [state |-> "absent"]
Waiting(p) == [state |-> "waiting", queue |-> p]
Matched(partner) == [state |-> "matched", partner |-> partner]

Record == { Absent } \cup { Waiting(p) : p \in LanguagePair }
                     \cup { Matched(wu) : wu \in WaitingUser }

StoreInit == /\ line = [p \in LanguagePair |-> <<>>]
             /\ record = [c \in Client |-> Absent]
             /\ ttl = [c \in Client |-> 0]

Mirror(p) == [native |-> p.learning, learning |-> p.native]

\* An entry counts when its client waits, and in this very line.
Waits(c, p) == record[c] = Waiting(p)

Live(p) == { i \in DOMAIN line[p] : Waits(line[p][i], p) }

FirstLive(p, i) == i \in Live(p) /\ \A j \in Live(p) : i <= j

\* RPOP of the n entries that have been in the line longest.
Popped(p, n) == SubSeq(line[p], n + 1, Len(line[p]))

\* Redis holds no record of the client: the script goes on to look for a partner.
Searches(wu) == record[wu.client] = Absent

\* Faulty variant: the repeated search starts its time again.
RetryProlongs(wu) ==
  /\ Waits(wu.client, wu.pair)
  /\ ttl' = [ttl EXCEPT ![wu.client] = WaitingTTL]
  /\ UNCHANGED <<line, record>>

\* A record exists and has decided the call: a stored match is returned again ...
RetryMatched(wu, partner) ==
  /\ record[wu.client] = Matched(partner)
  /\ UNCHANGED store

\* ... a search with the same pair keeps its place and its remaining time ...
RetryWaiting(wu) == Waits(wu.client, wu.pair) /\ UNCHANGED store

\* ... and another pair is refused: {-1}, ErrClientAlreadyQueued.
RejectOtherPair(wu) ==
  /\ \E p \in LanguagePair \ {wu.pair} : Waits(wu.client, p)
  /\ UNCHANGED store

\* Faulty variants: the newest entry is taken (LPOP); the partner's record names
\* the line it was taken from instead of the caller's.
TakeNewestPartner(wu, partner) ==
  /\ Searches(wu)
  /\ \E i \in Live(Mirror(wu.pair)) :
       /\ \A j \in Live(Mirror(wu.pair)) : i >= j
       /\ partner = [client |-> line[Mirror(wu.pair)][i], pair |-> Mirror(wu.pair)]
       /\ line' = [line EXCEPT ![Mirror(wu.pair)] = SubSeq(@, 1, i - 1)]
  /\ record' = [record EXCEPT ![wu.client] = Matched(partner),
                              ![partner.client] = Matched(wu)]
  /\ ttl' = [ttl EXCEPT ![wu.client] = MatchedTTL, ![partner.client] = MatchedTTL]

TakePartnerSwapped(wu, partner) ==
  LET p == Mirror(wu.pair) IN
  /\ Searches(wu)
  /\ \E i \in 1 .. StepCount :
       /\ FirstLive(p, i)
       /\ partner = [client |-> line[p][i], pair |-> p]
       /\ line' = [line EXCEPT ![p] = Popped(p, i)]
  /\ record' = [record EXCEPT ![wu.client] = Matched(partner),
                              ![partner.client] = Matched([wu EXCEPT !.pair = p])]
  /\ ttl' = [ttl EXCEPT ![wu.client] = MatchedTTL, ![partner.client] = MatchedTTL]

\* Somebody waits among the first StepCount entries of the mirror line: the
\* entries up to its own leave the line, and both clients' records become a
\* reservation that ends for both at once.
TakePartner(wu, partner) ==
  LET p == Mirror(wu.pair) IN
  /\ Searches(wu)
  /\ \E i \in 1 .. StepCount :
       /\ FirstLive(p, i)
       /\ partner = [client |-> line[p][i], pair |-> p]
       /\ line' = [line EXCEPT ![p] = Popped(p, i)]
  /\ record' = [record EXCEPT ![wu.client] = Matched(partner),
                              ![partner.client] = Matched(wu)]
  /\ ttl' = [ttl EXCEPT ![wu.client] = MatchedTTL, ![partner.client] = MatchedTTL]

\* Faulty variants: the step limit is taken for the end of the line; no EXPIRE.
EnqueueAtLimit(wu) ==
  LET p == Mirror(wu.pair) IN
  /\ Searches(wu)
  /\ \A i \in Live(p) : i > StepCount
  /\ line' = [line EXCEPT ![p] = Popped(p, StepCount),
                          ![wu.pair] = Append(@, wu.client)]
  /\ record' = [record EXCEPT ![wu.client] = Waiting(wu.pair)]
  /\ ttl' = [ttl EXCEPT ![wu.client] = WaitingTTL]

EnqueueForever(wu) ==
  LET p == Mirror(wu.pair) IN
  /\ Searches(wu)
  /\ Live(p) = {} /\ Len(line[p]) < StepCount
  /\ line' = [line EXCEPT ![p] = <<>>, ![wu.pair] = Append(@, wu.client)]
  /\ record' = [record EXCEPT ![wu.client] = Waiting(wu.pair)]
  /\ UNCHANGED ttl

\* Nobody in the mirror line waits and RPOP has found its end: the ended searches
\* are gone and the client joins its own line.
Enqueue(wu) ==
  LET p == Mirror(wu.pair) IN
  /\ Searches(wu)
  /\ Live(p) = {} /\ Len(line[p]) < StepCount
  /\ line' = [line EXCEPT ![p] = <<>>, ![wu.pair] = Append(@, wu.client)]
  /\ record' = [record EXCEPT ![wu.client] = Waiting(wu.pair)]
  /\ ttl' = [ttl EXCEPT ![wu.client] = WaitingTTL]

\* Faulty variant: the entries are looked at and left where they are (LINDEX).
PeekAndContinue(wu) ==
  /\ Searches(wu)
  /\ Len(line[Mirror(wu.pair)]) >= StepCount
  /\ \A i \in Live(Mirror(wu.pair)) : i > StepCount
  /\ UNCHANGED store

\* StepCount ended searches were taken out and the limit is reached: {2}.
Continue(wu) ==
  LET p == Mirror(wu.pair) IN
  /\ Searches(wu)
  /\ Len(line[p]) >= StepCount
  /\ \A i \in Live(p) : i > StepCount
  /\ line' = [line EXCEPT ![p] = Popped(p, StepCount)]
  /\ UNCHANGED <<record, ttl>>

\* The place of index i among the indices of S.
Rank(S, i) == Cardinality({ j \in S : j <= i })

\* LREM key 0 c: all entries of c leave, the others keep their order.  SelectSeq
\* by another definition, which the provers can reason about.
Without(s, c) ==
  LET kept == { i \in DOMAIN s : s[i] # c }
  IN  [ k \in 1 .. Cardinality(kept) |-> s[CHOOSE i \in kept : Rank(kept, i) = k] ]

\* Faulty variants: a reservation is deleted with a search; the record stays; the
\* entries stay (no LREM).
RemoveAnyRecord(c) ==
  /\ line' = [p \in LanguagePair |-> IF Waits(c, p) THEN Without(line[p], c) ELSE line[p]]
  /\ record' = [record EXCEPT ![c] = Absent]
  /\ ttl' = [ttl EXCEPT ![c] = 0]

RemoveEntriesOnly(c) ==
  IF \E p \in LanguagePair : Waits(c, p)
  THEN /\ line' = [line EXCEPT ![record[c].queue] = Without(@, c)]
       /\ UNCHANGED <<record, ttl>>
  ELSE UNCHANGED store

RemoveRecordOnly(c) ==
  IF \E p \in LanguagePair : Waits(c, p)
  THEN /\ record' = [record EXCEPT ![c] = Absent]
       /\ ttl' = [ttl EXCEPT ![c] = 0]
       /\ UNCHANGED line
  ELSE UNCHANGED store

\* remove_from_queue.lua: a search ends, a reservation stays.
RemoveFromQueue(c) ==
  IF \E p \in LanguagePair : Waits(c, p)
  THEN /\ line' = [line EXCEPT ![record[c].queue] = Without(@, c)]
       /\ record' = [record EXCEPT ![c] = Absent]
       /\ ttl' = [ttl EXCEPT ![c] = 0]
  ELSE UNCHANGED store

\* Time passes; Redis drops the records whose time is over and no list entry.
Tick ==
  /\ record' = [c \in Client |-> IF ttl[c] = 1 THEN Absent ELSE record[c]]
  /\ ttl' = [c \in Client |-> IF ttl[c] = 0 THEN 0 ELSE ttl[c] - 1]
  /\ UNCHANGED line

MatchOrEnqueue(wu) ==
  \/ \E partner \in WaitingUser : RetryMatched(wu, partner) \/ TakePartner(wu, partner)
  \/ RetryWaiting(wu)
  \/ RejectOtherPair(wu)
  \/ Len(line[wu.pair]) < MaxLine /\ Enqueue(wu)
  \/ Continue(wu)

StoreNext == \/ \E wu \in WaitingUser : MatchOrEnqueue(wu)
             \/ \E c \in Client : RemoveFromQueue(c)
             \/ Tick

StoreSpec == StoreInit /\ [][StoreNext]_store

-----------------------------------------------------------------------------
(* Lines hold client ids, and a record has a TTL whichever branch of which
   script wrote it: one without would keep its client waiting or reserved for
   ever. *)
StoreTypeOK == /\ line \in [LanguagePair -> Seq(Client)]
               /\ record \in [Client -> Record]
               /\ ttl \in [Client -> Nat]
               /\ \A c \in Client : ttl[c] = 0 <=> record[c] = Absent

(* A record that says its client waits is backed by an entry, so the client can
   still be found: no script, no cancellation and no expiry of an older search
   takes the last entry of a live one. *)
WaitingIsListed ==
  \A c \in Client, p \in LanguagePair :
    Waits(c, p) => \E i \in DOMAIN line[p] : line[p][i] = c

(* Two users who could talk to each other never both wait, however many ended
   searches stood between them and however the step limit cut the scan. *)
NoCompatibleRecords ==
  \A c, d \in Client, p, q \in LanguagePair :
    Waits(c, p) /\ Waits(d, q) => ~IsCompatibleWith(p, q)

(* A reservation is held by both its clients or by neither: each record names the
   other client with its pair, and both end at the same moment. *)
ReservationsMirrored ==
  \A c \in Client, partner \in WaitingUser :
    record[c] = Matched(partner) =>
      /\ partner.client # c
      /\ record[partner.client] = Matched([client |-> c, pair |-> Mirror(partner.pair)])
      /\ ttl[partner.client] = ttl[c]

StoreInv == /\ StoreTypeOK /\ WaitingIsListed
            /\ NoCompatibleRecords /\ ReservationsMirrored

\* The entries that stand for the current searches of a line: a client joins
\* behind everybody, so the last entry it has in a line is its current one.
Current(p) == { i \in Live(p) : \A j \in Live(p) : line[p][j] = line[p][i] => j <= i }

(* The client that will be drawn next from a line is the one whose current search
   entered it before the current searches of the others. *)
NextHasWaitedLongest ==
  \A p \in LanguagePair : \A i \in DOMAIN line[p] :
    FirstLive(p, i) =>
      \A j, k \in Current(p) : line[p][k] = line[p][i] => k <= j

\* Time goes on, whoever calls.
FairStoreSpec == StoreSpec /\ WF_store(Tick)

(* Nobody waits or stays reserved for ever: a search that is repeated over and over,
   or that no one is left to cancel, and a reservation that nothing releases, all
   end. *)
RecordsEnd ==
  \A c \in Client : record[c].state # "absent" ~> record[c].state = "absent"

-----------------------------------------------------------------------------
CurrentUsers == { wu \in WaitingUser : Waits(wu.client, wu.pair) }

EarlierUsers ==
  { t \in CurrentUsers \X CurrentUsers :
      /\ t[1].pair = t[2].pair
      /\ \E i, j \in Current(t[1].pair) :
           /\ i < j
           /\ line[t[1].pair][i] = t[1].client /\ line[t[1].pair][j] = t[2].client }

\* Users of whom a line still holds an entry that is not a current search.
LapsedUsers ==
  { wu \in WaitingUser : \E i \in DOMAIN line[wu.pair] :
      line[wu.pair][i] = wu.client /\ i \notin Current(wu.pair) }

Reservations ==
  { {[client |-> c, pair |-> Mirror(record[c].partner.pair)], record[c].partner} :
      c \in { d \in Client : record[d].state = "matched" } }

Pool == INSTANCE ReservationPool WITH
          waiting <- CurrentUsers, earlier <- EarlierUsers,
          lapsed <- LapsedUsers, reserved <- Reservations, left <- ttl

(* Longest-waiting first, except for a user that lost an earlier search in that
   line to its TTL; a match is one reservation of two users who leave the pool
   together.  A tick ends the searches and reservations whose time is over and no
   others, and nothing else ends one but the removal of a search: no script
   releases a reservation, cuts a time short or starts it again. *)
ImplementsReservations == Pool!PoolSpec
=============================================================================
