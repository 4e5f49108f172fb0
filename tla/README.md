# fluent-swap-core: specification, model checking and proofs

The program is a matchmaking and chat server: clients connect by websocket, search
for a partner whose languages complement theirs, and exchange messages in a room of
two. These TLA+ modules model the server that `app.New` builds, the websocket handler
over the in-memory repositories, and two parts beside it: what one connection makes of
one message, and the Redis repository that is written but not wired. TLC checks small
instances; TLAPS proves the safety properties for any number of clients, languages,
rooms and messages.

## The system

| Part | State | Operations |
| --- | --- | --- |
| Domain values (`core/domains`) | none | construction with validation, `IsCompatibleWith`, `OtherClientID` |
| Matchmaking queue (`features/matchmaking`) | one slice under a mutex | `MatchOrEnqueue`, `RemoveFromQueue` |
| Rooms (`features/room`) | two maps under one mutex | `Create`, `Delete`, `FindByClientID` |
| Session (`client_session.go`) | context, search request id, buffered channel | set, take and clear the id; `sendWithContext`; `writeLoop` |
| Registry (`session_registry.go`) | map of sessions under a mutex | `register`, `get`, `remove` |
| Handler (`handler.go`) | one goroutine per connection | `ServeHTTP`, the three message handlers, `closeRoomWithTimeout`, `cleanUp` |
| Chat (`features/chat`, `chat_delivery.go`) | none | `SendMessage`, `Deliver` |
| Inbound messages (`handler.go`, `dto.go`, `message_text.go`) | none | read limit, envelope, dispatch, payload rules |
| Redis store (two Lua scripts) | a list per language pair, an expiring record per client | `match_or_enqueue`, `remove_from_queue`, expiry |
| Redis repository (`redis.go`) | one call per request | `MatchOrEnqueue` with its loop, `RemoveFromQueue`; not wired |

The parts meet in the handler. A connection has a reader goroutine, which runs the
handlers one message at a time, and a writer goroutine. A reader uses the queue, the
rooms and the registry, each under its own lock, and reaches into *other* clients'
sessions: it takes a drawn partner's request id and sends to its channel. No lock
spans two of these uses, and that is where the hard behaviour is:

- a partner cancels, searches again or leaves between being drawn and being told;
- `cleanUp` of one client races `CreateRoom` of another for the same two clients;
- a room is closed, or its clients rematched, between `FindRoomByClientID` and `Deliver`;
- a session ends (its writer fails) under a handler that is at work for it;
- a channel is full because its client does not read, and senders block until a timeout;
- one of several sends or closes fails, and the rest must still happen.

The Redis repository has hazards of its own: records end with time and the list entries
they leave behind do not, a script looks at a limited number of entries and the call goes
round, requests and answers are lost, sent again or run after their sender gave up, and a
backend may stop between two calls.

What makes each part correct: the queue keeps one search per client and nobody
compatible waiting, and matches longest-waiting first; the two maps of the rooms
agree; a session's id is handed to one match; messages of a room reach its two
clients only; a client that leaves is in no shared structure and leaves nobody alone
in a room; handlers return, ended sessions clean up, and who was drawn is answered. A
message is refused for a fault it has. In Redis a waiting client can be found, a
reservation is held by both sides or by neither, searches and reservations last their time
and no longer, and a match that a call returns before that time is over is still reserved.

## Modules

| Module | What it is |
| --- | --- |
| `Domain` | clients, languages, pairs, waiting users |
| `WaitingPool` | abstract: users wait, a search is given a longest-waiting compatible one |
| `MemoryQueue` | the in-memory matchmaking repository |
| `MatchmakingService` | the queue with what the calls return; `ImplementsPool` is the refinement |
| `RoomRepository` | the in-memory room repository |
| `OpenRooms` | abstract: open rooms of two clients, no id and no client in two of them, and what each call returns |
| `RoomService` | the repository with what the calls return; `ImplementsOpenRooms` is the refinement |
| `ClientSession` | registry, contexts, request ids, channels, writers |
| `WebsocketServer` | the handlers; composes `MemoryQueue`, `RoomRepository` and `ClientSession` |
| `ServerProperties` | type invariant, safety and liveness properties, the inductive invariants `Inv` and `SearchInv` |
| `InboundMessage` | one connection: from a message read to its command or its error |
| `ReservationPool` | abstract: users wait and are reserved two by two, each for a fixed time |
| `RedisQueue` | lists, records and TTLs, one action per outcome of a script; `ImplementsReservations` is the refinement |
| `RedisRepository` | the calls of `redis.go` over `RedisQueue`, with lost, repeated and late requests |
| `MemoryRepositoryProofs` | theorems about the two in-memory repositories |
| `MatchmakingServiceProofs`, `RoomServiceProofs` | the services implement `WaitingPool` and `OpenRooms` |
| `ServerProofs`, `ServerSearchProofs` | theorems about the server: rooms and messages; searches and request ids |
| `RedisQueueProofs`, `RedisRepositoryProofs` | theorems about the store and about the calls; both implement `ReservationPool` |
| `InboundMessageProofs` | theorems about the answer to a message |
| `MCMemoryServices` | the two services side by side: a behaviour calls one of them |
| `MCWebsocketServer`, `MCRedisQueue`, `MCRedisRepository`, `MCInboundMessage` | the instances of the other runs |

Definitions called "Faulty variant" are programming errors that each property has
been seen to detect. No specification uses them.

### How state and actions correspond to the code

`queue`, `rooms`, `clientsRooms`, `registry` are the fields of the same names.
`ctxDone[c]`, `searchRequestID[c]`, `outbound[c]` are the fields of c's session.
`pc[c]` is the place of the goroutine that runs `ServeHTTP` for c, and `frame[c]` the
local variables of the handler it is in. `sending` holds the clients whose handler
has passed the context checks of `sendWithContext` and stands in its select.
`received` and `pairOf` are history: messages read, and the clients a room id was
generated for (a uuid, hence never generated twice).

One action is one critical section: one mutex, one context check with the operation
it protects, one channel operation. `handleFindPartner` is the chain `ReceiveFindPartner`
(stores the id), `FindPartner...`, `ClearMatchedSearch`, `GetPartner`, `TakeRequest`,
`CreateRoom`, `SendPartnerMatch`, `SendOwnMatch`, with `searchFailed`, `CreateRoomFails`,
`SendOwnError`, `SendPartnerError`, `CloseUndelivered`, `CloseUnsent` for its error paths.
`handleCancelSearch` is `CancelSearch`, `ClearCancelledRequest`; `handleSendMessage` is
`FindRoom`, `GetRecipient`, `Deliver`, `CloseUnavailable`. `cleanUp` is `CleanUp` (cancel),
`CleanUpRegistry`, `CleanUpRequest`, `CleanUpSearch`, `FindOwnRoom`, `CloseOwnRoom`. A
handler that returns an error ends the loop (`Abort`); one that returns nil goes back to
the context check and the read (`Return`).

A send is two steps: `BeginSend` (both contexts checked) and `EndSend` or `FailSend`.
Between the two the receiver may leave. The enqueue timeout fires only while the channel
is full. A service's own context check and the repository's under the lock are one step:
a context ends once and for good, so an outcome the two could give, one gives too.

*Rooms.* The server uses the actions of `RoomRepository`. `RoomService` adds the calls as
a caller sees them, with their answers: `CreateRoom` (the pair is validated, an id drawn,
the repository asked, in this order), `FindRoomByClientID` with the branch for an index
entry without a room, `CloseRoom`, and any of them with a context that has ended. It lets
the id generator return any id, also one in use, so that `ErrRoomAlreadyExists` happens.

Abstractions. A client's request ids are numbered `<<client, n>>`; the real ones are
chosen by the client. In `WebsocketServer` error codes and texts are left out, and every
refused message is the command `invalid`; what makes a message one is in
`InboundMessage`. Logging is left out. uuid generation neither fails
nor repeats. The 5 s and 10 s contexts of `cleanUp` and `closeRoomWithTimeout` do not
expire, as in-memory operations wait only for a mutex. A client id is used for one
connection, so `offline` leads to `gone` and never back.

*Messages.* `InboundMessage` describes a message by what the rules look at: whether it is
JSON, an envelope and a decodable payload, the codes and ids with or without blanks and
capitals around them, a text by its length, by what escaping makes of it on the wire and
by whether it is blank. The read limit, the envelope, the type and the payload are looked
at in the order of the code, one action per outcome. Keys in another letter case,
duplicate keys and invalid UTF-8 are left to `encoding/json`.

*Redis.* `line[p]` is the LIST of a language pair, oldest entry first (the code pushes on
the left and pops on the right), `record[c]` the HASH of a client and `ttl[c]` its time
left, in ticks. Redis runs a script from its first command to its last with the clock
stopped, so each outcome of a script is one action: `RetryMatched`, `RetryWaiting`,
`RejectOtherPair`, `TakePartner`, `Enqueue`, `Continue` of `match_or_enqueue.lua`,
`RemoveFromQueue` of the other. `Tick` is the passing of time and the only action that ends
a reservation. The replies for malformed records and arguments cannot occur, since only
these scripts write and `redis.go` passes constants; they are left out. A call goes
`check`, `sent`, `answered`, `returned`, one action per step and one disjunct per way it
may fail. A request given up stays in `late` and may run at any later time, which is also
how a stopped backend's last requests look to the store. Time passes whatever a call is
doing (`Elapse`), also while an answer travels: a stored match that is read again near its
end (`match_or_enqueue.lua:12-21`) may be over before the call returns it. `left` of an
answered call is history, not code: what the reservation it tells of has left.

## Runs

| Run | Question | Instance |
| --- | --- | --- |
| `memory_services` | queue invariants, refinement of `WaitingPool`; both room maps agree, refinement of `OpenRooms` | 4 clients, 2 languages, 3 rooms |
| `server_matching` | lost, shared or leftover searches, ids, rooms, the inductive invariant of searches | 3 clients, 2 rooms, channel 1, 2 commands each, 4 in all |
| `server_chat` | confinement of a room's messages, orphan rooms, the inductive invariant | 3 clients, 2 rooms, channel 1, 3 commands each, 5 in all |
| `server_live` | termination and answers under fairness | 2 clients, 1 room, channel 2, 2 commands each, 3 in all |
| `redis_queue` | lists and records agree, reservations of two, refinement of `ReservationPool`, everything ends | 4 clients, scan limit 2, TTLs 2 (search) and 3 (reservation), 4 entries a line |
| `redis_repository` | what a call returns is reserved, every call returns, the inductive invariant | 2 clients, scan limit 1, TTLs 1 (search) and 2 (reservation), 1 resend, 3 calls |
| `inbound` | the answer fits the message | every combination of faults at the boundaries |
| `waiting_before_match`, `drawn_client_can_be_told`, `no_match_after_cancel` | a statement of `docs/api/websocket.md` each | 2 clients, channel 2 |
| `next_has_waited_longest` | a statement of `docs/architecture/redis-matchmaking.md` | 3 clients, scan limit 2, TTLs 2 |
| `invalid_json_means_no_json` | a statement of `docs/api/websocket.md` | as `inbound` |

*Why the bounds suffice.* The interesting races of matching have three roles: the
searcher, the drawn partner and a client that interferes with either. Four clients
in the queue allow three entries with a first, a middle and a last one to leave, and a
searcher besides; in the rooms they are two rooms open at once, with a third id free. The
queue and the rooms share no state, so `memory_services` interleaves no calls of the two:
a behaviour that calls one leaves the other as it was made. Two languages are all the code accepts. Two room ids of the server allow a room to be closed and its
members rematched, with the old id still known to a client. A channel of one message makes "full" happen
after one unread answer (the 16 of the code would only delay it). The number of
commands is what a client needs to search, change its mind and search or leave again.
`MaxCommands` and `TotalCommands` are the only counters of the server bounded.

In Redis, four clients are a searcher, two that wait in one line and one whose search
lapsed; a reservation outlives a search, as 7200 seconds do 600; a scan
limit of two has lines shorter than it, of exactly its length and longer, with the partner
before, at and behind the limit. `MaxLine` bounds stale entries, of which a client may
leave any number. For the calls, two clients, a scan limit of one and three calls give
every order of a search, its repetition and a removal around a loss: what is lost after the
script ran, what runs after its call was given up, the loop over `{2}` and a record that
ends in between. A reservation of two ticks can be read again with one left, and end or
not before the answer arrives. `TotalCalls` and `Retries` bound them; `MaxLine` is not used
there. In `inbound` a text has no bytes, one, the last legal and the first illegal number,
and an envelope of 4096 bytes makes the longest text meet the read limit exactly.

*Initial states.* The larger runs start after a prefix that has nothing to interleave
with: `OneWaitingInit` (everybody connected, one client waits and has read its
`search_waiting`) and `RoomOpenInit` (two clients matched and both told, nobody else has
asked for anything). Both are reachable from `Init`. The other runs and all theorems
start from `Init`.

*Symmetry.* Clients, room ids and the two languages are interchangeable: no definition
names one. The safety runs of the server use it; the other runs do not need it and the
runs with liveness must not.

*Deadlock* is checked everywhere. `Terminated` lets a behaviour stop when every
connection has ended, and only then.

### What the properties say

- `OneSearchPerClient`, `NoCompatibleWaiting`: over every sequence of calls.
- `ImplementsPool`: longest-waiting first; nobody else's place changes, a repeat keeps it.
- `RoomIndex`: `errInvalidRoomIndex` is unreachable and `Delete` never drops an entry of
  another room.
- `ImplementsOpenRooms`: what a call does and returns can be told from the open rooms
  alone. The index decides who may get a room as the rooms would, a client is told of the
  room it is in, and a close frees both clients of that room and nobody else.
- `NoOrphanRoom`: a client that has gone leaves nobody in a room with it, except a
  creator that is just about to find out and close the room.
- `SearchNotForgotten`: an idle client whose session holds a search's id is in the queue
  or drawn by a handler that will take that id.
- `OneMatcherPerRequest`: no request id is held by two matches, or by one while the
  session still offers it.
- `OwnRequestID`: whoever sends it, an answer carries an id of its receiver.
- `GoneLeavesNothing`: after `cleanUp` the client is in neither registry nor queue.
- `RoomConfinement`: a room's messages reach the pair the room was made for, whatever
  id the sender names.
- `HandlersReturn`: every handler comes back to its loop, full channels included.
- `SessionsEnd`: an ended session cleans up to the end.
- `TakenRequestAnswered`: whose request id was taken hears of the match or its failure,
  unless its session ends or its channel is full.
- `WaitingIsListed`: a client that waits can be found: no script, cancellation or expiry
  of an *older* search takes the last entry of a live one.
- `NoCompatibleRecords`: two users who could talk never both wait, however many ended
  searches stood between them and wherever the limit cut the scan.
- `ReservationsMirrored`: both records of a reservation name each other, with the right
  pair, and end at the same moment.
- `ImplementsReservations`: longest-waiting first, except for a user that lost an earlier
  search in that line to its TTL (finding 4); a match is one reservation of two users who
  leave the pool together. A tick ends exactly the searches and reservations whose time is
  over: no script releases a reservation or anybody else's search, cuts it short or puts
  its end off, and a cancelled search leaves no trace in the order.
- `RecordsEnd`: nobody waits or stays reserved for ever, also when nobody is left to cancel.
- `MatchReturnedIsReserved`: at the moment a call returns a match, both clients' records
  hold it, whatever was lost, sent again or run late, unless the time the reservation had
  left when the script read it has passed since. Nothing tells the caller how much that is.
- `CallsReturn`: the loop over the scan limit comes to an end.
- `AnswerFitsMessage`: exactly the messages with a fault are refused, with an error that
  names a fault the message has and with its request id. Of JSON that is no envelope it
  says only that it is refused: the rest of it is finding 5.

### Fairness

`FairSpec` has weak fairness of every goroutine's own step (`HandlerStep`): the Go
scheduler runs a goroutine that can proceed, and a blocked send can proceed by its
timeout while the channel is full and by the channel while it is not. It has weak
fairness of `ReadFails` once the context has ended, because `writeLoop` then returns and
closes the connection, which ends a pending `ReadMessage`. Nothing is assumed of clients
(they may never send or leave) or of writes (a client may never read).

`FairStoreSpec` assumes that time passes (`Tick`), and nothing of the callers.
`FairRepositorySpec` assumes that a goroutine that can go on does and that a request is
answered or times out, which the timeouts of the Redis client give. Requests run late need
never run. `CallsReturn` therefore holds for finitely many lost answers per call
(`Retries`) and finitely many calls: stale entries made for ever would keep the loop going
until the caller's context ends.

### Where the documents and the code disagree

1. `WaitingBeforeMatch` (`docs/api/websocket.md:83`): the search is visible to other
   handlers before its own sends `search_waiting` (`handler.go:473`), so the client can
   read `match_found` first and then `search_waiting` for the same request.
2. `DrawnClientCanBeTold` (`docs/api/websocket.md:108`): a second `find_partner` with
   another pair is refused and leaves the first in the queue, but the handler has
   overwritten (`handler.go:372`) and then cleared (`handler.go:381`) the request id. When
   the search is drawn, the client silently loses its place and its peer gets an error.
3. `NoMatchAfterCancel` (`docs/api/websocket.md:96`): a handler that drew the search
   before the cancellation may take the request id before `handler.go:305` clears it; the
   client gets `search_cancelled` and then `match_found` for that search.
4. `NextHasWaitedLongest` (`docs/architecture/redis-matchmaking.md:38`): a record expires
   and its list entry stays. If that client searches again, its old entry counts once
   more (`match_or_enqueue.lua:62-66`), and the client is drawn before users that entered
   the line before its current search.

5. `InvalidJSONMeansNoJSON` (`docs/api/websocket.md:187`): every error of
   `json.Unmarshal` is answered with `invalid_json` (`handler.go:125`), and valid JSON with
   a field of another type is one; by the table it is `invalid_payload`. The answer has no
   request id either, although the server could read it (`docs/api/websocket.md:168`).

One more has no run. By the steps of finding 2, with the draw before the refusal,
`match_found` carries the id of the refused search (`handler.go:372`, `handler.go:401`;
`docs/api/websocket.md:109`).

## Proofs

Proved by TLAPS for every value of the constants, from the assumptions the modules
name (`None` is no client and no room id, the channel capacity, the TTLs and the scan
limit are positive, the bounds are naturals, the commands are known ones):

- *Queue.* `QueueInv` (type, one search per client, nobody compatible waiting) is
  inductive as it stands: removing an entry maps the entries that stay one to one to
  old ones (`RemoveAtProperties`, `RemovePreserves`), and appending happens only after
  the two guards. `ServiceImplementsPool` shows step by step that the service refines
  `WaitingPool`: `EnqueueJoins`, `TakePartnerMatches`, `RepeatsStay`,
  `RemoveFromQueueCancels`. The pool's `answer` is what makes the order of matches
  visible: without it a match could not be told from a cancellation.
- *Rooms.* `RoomsInv` is inductive: `Create` demands that neither client is indexed, so
  the index of another room is never overwritten, and the agreement of the maps makes
  `Delete`'s unconditional removal right. `ServiceImplementsOpenRooms` builds on it: the
  service's steps keep `RoomsInv` (`ServiceStepIsRoomsStep`), under it a client is in the
  index exactly when it is in an open room (`OccupiedMeaning`), and then every branch of a
  call is an action of `OpenRooms` (`CreateOpens`, `DeleteCloses`, `FindRoomIsRoomsStep`).
- *Server.* `NoOrphanRoom` and `RoomConfinement` are not inductive. `Inv` adds
  `Control` (what each local variable is at each label, in particular that a handler that
  holds a room is one of the two clients it was made for, and that a client past
  `cleanUp`'s first step has an ended context), `RoomsOfPairs`, `MessagesConfined` and
  `LeftRoomsWillClose`, which starts the obligation when a client has *looked* for its
  room. The argument: `FindOwnRoom` finds the room if there is one, because the index
  is right; a room created later has a creator that has not yet checked the partner's
  context; that check must fail, because the partner's ended before it looked; and a
  failed check leads to `CloseUndelivered`. One lemma per kind of step
  (`CreateKeepsClosing`, `FindKeepsClosing`, `PartnerMatchKeepsClosing`,
  `DeleteKeepsClosing`, `OtherPcs`).
- *Composition.* `ServerUsesQueue` and `ServerUsesRooms`: every step of the server is a
  step of the queue's and the rooms' own specifications or leaves them alone, so their
  invariants hold in the server too.
- *Searches.* The four invariants of searches are proved together, as `SearchInv` on top
  of `Inv`. `KnownRequests` says whose every request id is: an id comes from a message of
  its own client, and being handed over it is moved, never copied (`TakeRequest` clears
  what it takes), which is what keeps two matches from holding one. `Registered` says
  between which labels a client is in the registry, so that a partner that is no longer
  found needs no answer. `SearchClaimed` is `SearchNotForgotten` at every label at which
  the client's own handler is not between its change of the queue and that of the id: a
  stored id is backed by a queue entry or by a handler that has drawn it, and a drawn
  search stays claimed until its id is taken.
- *Redis store.* `StoreInv` is inductive, and no part of it is alone. `TakePartner` and
  `Continue` drop entries, and `WaitingIsListed` survives because what they drop is not
  live. `NoCompatibleRecords` needs `WaitingIsListed` in turn: `Enqueue` finds no live entry
  in the mirror line, and only because every waiting client has one does nobody wait there.
  That the two TTLs of a reservation are equal makes `Tick` end both. `Without` (LREM) is
  defined by ranks, because the library's `SelectSeq` is recursive and the provers cannot
  expand it; `WithoutProperties` says what it keeps.
- *Redis calls.* `RepositoryInv` adds to `StoreInv` that a client's searches are its own and
  `AnswersReserved`: a match on its way is still reserved for the caller, with exactly the
  time it had when it was read less the time since. The argument is that no script ends a
  reservation or changes its time (`RunKeeps`), whoever sent it and however late it runs,
  and that a tick takes one from both counts until they reach zero together (`ElapseInv`).
  With `ReservationsMirrored` and
  `AnswerSpellsPartner` (the queue key is read back as it was written) the action property
  `MatchReturnedAlways` follows.

- *Redis refines the pool.* `ReservationPool` has users that wait in order; the store has
  lines with stale entries and records that end by themselves. In the mapping a client
  stands in the pool as what its record says, and among those that wait by the *last* of
  its entries in its line (`CurrentMeaning`). `StoreImplementsReservations` rests on one
  question about every step: do the clients that go on waiting keep their order?
  (`KeepsOrder`.) Appending puts a client behind everybody (`EnqueueJoins`), and dropping
  from the head or from the middle keeps the order of the last entries that stay
  (`PopKeepsOrder`, `WithoutKeepsOrder`, from the rank lemmas of `Without`). For the draw,
  an older entry of a waiting client can be ahead of its last one only if the client lost
  an earlier search in that line, so the partner is a longest-waiting one or one that is
  known to have lapsed (`TakePartnerMatches`). A `Tick` is the pool's tick: the searches that
  end are those with one tick left (`TickEndsSearches`), the reservations that end are those
  of which a side has one left, and then both have (`TickEndsReservations`, from
  `ReservationsMirrored`). `Continue` only takes out entries of ended searches
  (`ContinueForgets`).
  `RepositoryImplementsReservations` lifts this to the calls: whatever script runs, and for
  whom and when, is a step of the pool or leaves it alone (`RunIsPoolStep`).
- *Inbound messages.* The documents' rules are named one by one (`WrongEnvelope`,
  `WrongType`, `WrongSearch`, `WrongText`, `WrongMatchID`); the code looks at them in its
  own order, and at one per branch. `SearchRules` and `LegalTexts` say that a branch
  accepts exactly what breaks no rule, and one lemma per group of outcomes (`UnreadInv`,
  `SearchInv`, `TextInv`) that the named fault is there. `InboundInv` holds the property
  and that an outcome belongs to a message a connection can read. The proof is
  for any languages, ids and envelope sizes, and for the texts at the boundaries; it
  assumes that what stands for "unsupported" is neither a language nor a command.

Only model-checked: the five liveness properties (`HandlersReturn`, `SessionsEnd`,
`TakenRequestAnswered`, `RecordsEnd`, `CallsReturn`), which are out of the prover's reach
because fairness and ENABLED are. Every invariant, action property and refinement that a
passing run checks is a theorem as well.

## Not modelled

Identifier generation, application wiring, configuration, the command and the logger
decide nothing that a property here depends on and keep no state that changes; the web
test page is a client, of which the server assumes nothing. The Redis repository is not
composed with the server, because `app.New` does not compose them and no code says how a
reservation would be released or which side of it creates the room.

Hazards without a property are in `PROJECT.json` with the reason: nothing in the code or
the documents says what should happen (a drawn partner that has gone, an error of a send
to the partner), or another run stands for them.

## Plan

1. What the liveness properties rest on, as safety theorems: a handler that is not at its
   loop always has a step whose guard is stated without ENABLED, and the steps of one
   handler between two reads go forward through a finite order of labels. TLC keeps the
   step from there to `HandlersReturn`.
2. If `app.New` comes to wire Redis: the server over `RedisRepository`, with `cleanUp`'s
   deadline, the repeated search of a drawn partner and the release of reservations.

Considered and dropped: an abstract life of a search that the server implements, which
findings 2 and 3 break at its centre; delivery in order, which a channel gives by
construction; and an order between `match_found` and the partner's first message, which
neither the code nor a document promises.
