# Verification of the real-time chat server

TLA+ models of the FastAPI chat server (`src/`): its WebSocket registry and endpoint, what chat
frames do to PostgreSQL and Redis, presence, and the fan-out of events through Redis, the
memberships, accounts and tokens behind its REST endpoints, and the connection pools they all share.
TLC checks the models on small instances; TLAPS proves the theorems below for every instance. All
paths are relative to the repository.

## 1. The system

A client opens `/ws/chat/{room_id}`. The endpoint (`app/websocket/router.py`)
authenticates it, checks its membership in the room, registers the socket with
the process's `ConnectionManager`, marks the user online in Redis, starts a
heartbeat task and reads frames. A chat frame goes through `ChatService` to
PostgreSQL and is published on the room's Redis channel. Each server process runs
one subscriber task, which hands every event of the channel to the manager, and
the manager sends it to the sockets of that room in that process. When the socket
closes, the endpoint's `finally` clause undoes the registration and the presence
key and announces that the user is offline. REST endpoints do the rest.

| Component | State | Operations | Interacts with | Hard because | Correct when |
|---|---|---|---|---|---|
| `ConnectionManager` | `_rooms`, `_user_rooms`, a lock | connect, disconnect, broadcast_to_room | endpoint and subscriber call it | coroutines interleave at every await; a close is awaited under the lock; sends are not under it | both indexes agree; no open socket is dropped; the lock is released |
| WebSocket endpoint | where each handler stands | admission, loop, finally | manager, presence, database, handlers | closes and failures at each await; a reconnect overlaps the old connection's end | registered while it serves, unregistered when it has ended |
| handlers, `ChatService`, `MessageRepository` | messages, receipts, the session's transaction | chat_message, mark_read, typing | PostgreSQL, Redis channel | two stores without a common transaction; snapshot and date of long transactions; errors leave expired objects | history and channel agree; a receipt per message and user; chronological history |
| `PresenceService`, `_heartbeat` | `presence:{user_id}` with a time to live; `channel:presence` | set_online, refresh_presence, set_offline | every connection of the user, in all processes | one key, several writers; expiry; crashes, cancelled writes | online exactly while connected |
| subscriber and fan-out | subscription, one task per event | run_subscriber, _handle_message | Redis, manager | lost subscriptions; tasks overtaking each other; slow and failing sockets | at most once, in order, to all who stay |
| `TypingService` | `typing:*` keys nothing reads | start, stop | channel | - | - |
| rooms API, `RoomService` | memberships | create, join, leave, get, list | PostgreSQL | check, then insert; reads in several statements | one row, the answers match it |
| auth API, `AuthService` | users, refresh tokens | register, login, refresh | PostgreSQL | overlapping refreshes, lost answers | an answered token is usable once |
| history | - (reads) | get_room_history | PostgreSQL | offset pages while messages arrive | no message skipped going on |
| database and Redis pools | connections in use, who waits | a session's statements, commands | every handler | few connections, held while clients are waited for; one pool waits, the other raises | what is taken is given back; waiting ends |
| notifications, upload, users, rate limit, configuration | rows, files | CRUD | - | - | - |

`PROJECT.json` lists every component with what is modelled of it, and every
hazard with its line in the code.

## 2. Modules

    ConnectionManager      the registry, for any client           <- MgrCorrect
        ^ EXTENDS, and refined (MgrSpec)
    WsEndpoint             the endpoint and the subscriber as its client
    ChatSession            frames, transactions, channel
    Presence               key, announcements, heartbeats, time
    RoomFeed               a feed: each event at most once
        ^ EXTENDS, and refined (FeedSpec)
    Fanout                 Redis, subscribers, tasks, sockets of several processes
    PresenceFeed           who is told last that a user is online, or offline
    Membership             each request of the rooms API takes effect at one moment
        ^ INSTANCE, and refined (AnswersTrue)
    RoomMembership         the requests as concurrent transactions
    TokenRotation          login and refresh as concurrent transactions
    Registration           overlapping registrations and two unique indexes
    HistoryPaging          a reader going through the history, page by page
    Pools                  handlers competing for database and Redis connections

Each `MC*` module gives the constants of its component values for the `.cfg` files (`MCAccounts` puts
`TokenRotation` and `Registration` side by side); each `*Proofs` module holds the theorems. Three of them extend two components that belong together:
`WsEndpointProofs` (with `ConnectionManager`), `AccountProofs` (`TokenRotation` and `Registration`)
and `PresenceProofs` (`Presence` and `PresenceFeed`), which is why the names in `Registration` and
`PresenceFeed` differ from those of the other (`RegSpec`, `CastSpec`). Operators called "Faulty
variant of X" are not part of any specification: each is what X would be with a plausible mistake,
and shows that the properties notice it.

**ConnectionManager.** `rooms`, `userRooms` and `lock` are the fields of the class,
`sock` the state of each WebSocket, `todo` and `stale` the local variables of a
broadcast. `ConnectFresh`, `ConnectReplace` + `ConnectInstall` are `connect` up to
and after the awaited `existing.close()`; `BroadcastSnapshot`, `BroadcastSend`,
`BroadcastPrune` are the two critical sections of `broadcast_to_room` and the
sends between them; `Disconnect` is `disconnect`. `lock` is held between steps only
where the code awaits under it. `MgrSpec` lets callers call whatever they like and
is the abstract specification of the module's clients.

**WsEndpoint.** `pc[c]` names the await at which the handler of connection `c` stands.
`set_online` is outside the `try`, so its failure ends the handler at once ("aborted");
`set_offline` may fail in the `finally` clause. `Deliver` starts broadcasts from the
subscriber at any time. The other values of `pc` follow the code line by line.

**ChatSession.** One session per WebSocket, with the transaction of its `AsyncSession`:
`tx` is its start, `Query` opens it, the loop's commit or rollback ends it. `ChatFrame`,
`Insert`, `Publish`, `Commit` are the steps of a chat frame; `MarkFrame`, `Lookup`,
`InsertReceipts`, `PublishRead`, `CommitRead` those of mark_read. `at` is `created_at`,
PostgreSQL's `now()`, which is the transaction's start. `expired` records that a
rollback has expired `current_user`, after which reading its attributes raises
`MissingGreenlet`: such a session's frames change nothing. POST
`/messages/{room_id}/read` is the same service call in a session that lives for one
request. `ids` says how often a mark_read names a message, as `new_ids` keeps repetitions.
`seen` and `known` are history variables: what the channel had brought when a chat frame
was received, and which receipts there were when a mark_read was.

**Presence.** `ttl[u]` is what is left of the life of `presence:{u}`, `said[u]` the last status on
`channel:presence`. The heartbeat sleeps (`beat`), then writes. `Tick` is time; commands to Redis
take less than a tick, which is why `Tick` waits for `Settled`. Between `Announce` (the PUBLISH) and
`StartHeart` the handler broadcasts to its room, for as long as its slowest client takes ("slow").
Everything may go wrong: calls that raise, processes that die, keys that Redis evicts, frames that
roll back, cancelled writes that arrive late. The history variable `faults` keeps which of these a
run has met, and the properties say which they need absent.

**Fanout.** Events have the numbers of their PUBLISH. `wire[p]` holds the events whose
task has not run yet, `todo` and `stale` the state of the tasks that are in a broadcast,
`queue` who waits for which transport. Tasks start in order of creation, a connection's
place in the registry is its number, and a task runs until `send_json` suspends it: at a slow
transport, or at one for which others wait (`Busy`), since websockets 13.1 (requirements.txt) drains
under a lock of the connection, which serves in turn. `Resume` is the first of a queue going on.
Without that lock a task that finds a transport drained would overtake one that has been woken
but has not run yet, and the order of events be lost; it takes three connections to see it.
Left out: users who reconnect (WsEndpoint), waiting for the registry's lock, and
the presence events (PresenceFeed). `RoomFeed` is what remains promised whatever fails.

**PresenceFeed.** One connection, the actor, comes and goes; its handler broadcasts to its room
(`Greet`, `Part`), and what `set_online` and `set_offline` publish comes back as a task (`Start`)
that goes through the rooms `list(manager._rooms.items())` had when it started. `Send` is a stretch
of a broadcast from room to room, up to the first socket that is busy: its place in `queue`, `todo`,
`rest` and `stale` are then where the coroutine stands, and `Resume` lets the first of a queue go
on, as in `Fanout`. `place` is the order of the keys of `_rooms`: a room that was deleted with its
last connection goes to the end when it is listed again (`Listing`), and the removal of failed
sockets can leave one without connections, or bring one back. Connections are numbered as they
register; each may be in any room. `rest` is what `list()` has kept of the order. `last` and `calm`
are history variables; `calm` ends with each of the things that may make `LastWord` false. Left out:
waiting for the registry's lock, and users with several connections (Presence, WsEndpoint).

**RoomMembership.** A request is one transaction: `Check` is what join_room and leave_room read
before they write, `Insert`, `Create` and `Delete` the flushed statements, `CommitInsert`,
`CommitDelete`, `CommitNothing` the commits of the endpoints, `Fail` any error, after which `get_db`
rolls back. `writer` is the lock PostgreSQL keeps on a row written by an open transaction: an
`INSERT` of the same key and a second `DELETE` wait for it. A join that meets `uq_room_member` fails
with an `IntegrityError`, which the endpoint does not translate: its caller gets an internal error,
not the conflict it gets when `Check` notices. The refinement maps a request's answer to the moment
it took effect; of a request that fails nothing is promised. `Promise` is that of the code, by which
any room but a direct one may be joined, `Documented` that of the endpoint's summary, "Join a public
room". `Look` and `Permit` are `get_room`, which reads the members before it checks the caller,
`Mine` and `Count` are `my_rooms`, which counts them afterwards, room by room: what such a request
shows was so at one moment (`shown`), and its right to see it at another. Two requests to leave, one
waiting for the other, take effect together, and both are answered as done.

**TokenRotation.** A token has the name of the request that issued it, which `jti` justifies.
`GetValid` is the lookup, `Revoke` the `UPDATE` (it waits for another one of the row, but does
not look again whether the token is valid), `Insert` the new row, `Commit` both at once.
`held` is what a client keeps, the token of the answer it got last, but it may present any it ever
got. `before` is a history
variable: what was committed when a request looked. Access tokens, passwords and the
formats of tokens are left out; login may be refused for any reason.

**Registration.** `CheckName` and `CheckMail` are the two lookups, each with a snapshot of its
own; `InsertName` and `InsertMail` are one `INSERT` at the two unique indexes of
`users`, in the order in which models/user.py declares them. At each index it waits
for an open transaction that has entered the same key (`Open`); a key that is
committed by then raises an `IntegrityError`, which the endpoint does not translate:
"conflict" is an internal error, "refused" the 409. `Lower` is `str.lower`. Hashing
and the display name are left out.

**HistoryPaging.** `pos` is the list `ORDER BY created_at DESC`; `Commit` inserts at any
place, since a message is dated by the start of its transaction. `Count` and `Rows` are
the two statements of `get_room_messages`. `offset` stands for `(page - 1) * page_size`.
`start`, `calm` and `reads` are history variables. Two messages of the same microsecond,
whose order PostgreSQL may choose anew in each query, are left out.

**Pools.** `holds` are the handlers whose session has a connection of the database pool: `Query`
takes one or waits, `Grant` serves any of those who wait, as the pool's queue is not fair to
later statements, `TimeOut` is `pool_timeout`; a commit, a rollback or the end of the handler
releases it. A WebSocket has one from `get_current_user_ws` until its first dispatched frame is
committed or rolled back; pings release nothing. `used` counts commands in the Redis pool,
which raises at its limit (`NoCommand`). `frames` is "undone" once a rollback has expired
`current_user`. The subscriber has a client of its own, outside the limit. Left out: what
statements and commands do.

## 3. Runs

| Run | Instance | What it asks | States | Result |
|---|---|---|---|---|
| `ws_registry` | 2 connections of a user, beside a third one or a subscriber task, fair | `TypeOK`, `IndexesAgree`, `LoneOnlineRegistered`, `EndedUnregistered`, `OpenNeverDisplaced`, refinement `MgrSpec`, `ClosedEnds` | 173,405 | holds |
| `ws_cleanup` | the 2 connections and the task | `CleanupSparesOthers` | | violated |
| `chat_messages` | 2 sessions of a user, 3 messages, ids named once or twice, all failures | `TypeOK`, `CommittedPublished`, `FollowUpsInOrder`, `RetriesAddNothing` | 1,374,264 | holds |
| `chat_receipts` | the same, 1 message | `ReceiptsUnique` | | violated |
| `presence` | a user with 2 connections, all failures, fair | `TypeOK`, `VisibleUntilOneLeaves`, `KeyDeleted`, `GhostGone`, `Relisted` | 38,170 | holds |
| `fanout` | 3 connections of a process, 2 events, fair | `TypeOK`, refinement `FeedSpec`, `InOrderUnlessOneGone`, `SentIsDelivered` | 109,130 | holds |
| `presence_feed` | 3 connections in 2 rooms, one comes and goes; slow and closing clients, lost events | `CastTypeOK`, `LastWord` | 165,346 | holds |
| `rooms` | 7 requests of 2 users for a private room, all may fail | `TypeOK`, refinement `AnswersTrue` | 325,857 | holds |
| `rooms_private` | 3 of these requests | refinement `AnswersAsDocumented` | | violated |
| `accounts` | 4 token requests of a client, or 4 registrations in a circle of conflicts, all may fail, fair | `TypeOK`, `RevokedIffReplaced`, `SuccessorsOverlap`, `HeldUsable`; `RegTypeOK`, `UsersDistinct`, `LoserHasWinner`, `Ends` | 108,886 | holds |
| `pools` | 2 WebSockets, 2 requests, 2 connections of each pool, fair | `TypeOK`, `IdleHoldsNothing`, `RefusedUnderLoadOnly`, `PoolRecovers` | 97,673 | holds |
| `history` | pages of 2, up to 5 messages | `TypeOK`, `Complete`, `RepeatsAreArrivals`, `NextHasMessages` | 3,284 | holds |

**Bounds.** The registry keys entries by room and user: two connections of one key and one of
another are enough for every overlap of a reconnect, a broadcast and an end; a connection handles
each step once. The third connection and the task take turns: the task begins a broadcast only once
the third handler has ended, which it may do at once (`ThirdOrTask`). `chat_messages` needs a
session's second message and another session's in between (3 messages), and two sessions of one user
for receipts; five transactions (`MaxTime`) let each session open a second and a third one after
rollbacks and commits. Frames of `mark_read` there name one message, once or twice; `Msg` is
symmetric. In `presence`, 300 s and 60 s are 5 ticks and 1, so the proportions are the code's; two
connections of one user show every sharing of a key, users do not interact. In `fanout`, overtaking
needs two events and three connections: one for which the first task waits, one for which the second
does, and one that either may come to first. Processes share nothing but Redis, so the run has one;
the theorems are about any number. In `rooms`, two joins and two leaves of one user and the creation
give every overlap on one row, and rows do not interact; the two requests that look are of the user
who comes and goes. In `presence_feed`, the actor's room and one that is listed before it and
entered again after it, or emptied and listed again behind it, with a client that is slow in either,
show how the two broadcasts overlap; that a fourth connection adds nothing (two may be slow and a
third be overtaken at) is what `LastWordIsOffline` is for. In `pools`, two connections stand for 30
and for 20: two handlers that hold what a third and a fourth wait for are all that the limits' size
could matter for. In `accounts`, the tables of tokens and users are apart, so the run looks at one
or the other: tokens need a login, two refreshes of its token and a refresh of one of theirs,
requests being numbered in the order they start; each registration conflicts with two others, by
name and by address, in both orders. In `history`, five messages and pages of two give a walk of
three pages, of which the last may be full or not. Runs in which every connection may end, or a
bound be reached, do not check for deadlock.

**Fairness.** `WsEndpoint`: the event loop runs every coroutine whose await has completed (weak
fairness of each handler's next step), and `asyncio.Lock` serves waiters in turn. Clients owe
nothing: leaving, sending and timing out are not fair. `Presence`: time passes, the handlers' own
steps run, but a greeting may wait for ever for a slow client. `Fanout`: tasks run, and a slow
transport drains or is closed, which router.py:15 leaves to Uvicorn; subscribing again is not
assumed. `Registration`: a request that was received goes on, and PostgreSQL lets the next one have
a key that is free. `Pools`: PostgreSQL and Redis answer and requests end; clients owe nothing, nor
does the pool serve any one waiter in time.

**Where code and documentation differ** (the violated runs):

- `ws_cleanup`: the handler of a user's old connection has left its loop when the new connection
  registers, closing the old socket and taking its place; the old handler's `finally` clause then
  pops the user id and thereby unregisters the new socket, which is in its loop, stays open and gets
  no broadcast (connection_manager.py:52). The endpoint's docstring says "On disconnect: clean up
  manager" (router.py:6).
- `chat_receipts`: a mark_read frame that names a message twice inserts two receipts
  (message_repo.py:73), where the docstring says "Insert read receipts, ignoring duplicates" (line
  65). With frames that name each id once, `ReceiptsUnique` is violated still, by two sessions of
  the user that both look (line 66) before either commits, as no constraint backs the lookup.
  `RetriesAddNothing` is what holds with both.
- `rooms_private`: a user joins a private room, as `join_room` refuses direct rooms only
  (room_service.py:48); the endpoint is documented as "Join a public room" (rooms.py:121).

The same models show, without a run of their own: the first message of a connection is
dated when the connection was opened and comes before messages it answers, though
chat_service.py:112 calls the history chronological (db/base.py:21; `FollowUpsInOrder` without its
second line); closing one of two connections
unlists a user who is still connected (presence_service.py:38; `VisibleUntilOneLeaves`
without `NoneLeft`), a receiver that marks a message
between its PUBLISH and its commit fails on the foreign key (chat_service.py:95), after a
failed frame `set_offline` is never called (router.py:118; `KeyDeleted` without "frame" in
its guard), a page walk misses its oldest messages when others come between the last
count and its rows (`Complete` without `calm`), two overlapping refreshes both get
tokens (`SuccessorsOverlap` without `before`), a handler whose
`set_online` raises leaves its socket in the registry (router.py:74; `EndedUnregistered` for
"aborted"), a broadcast's removal of a failed socket takes a
newer one of that user (connection_manager.py:76; `LoneOnlineRegistered` without its second
hypothesis), a key expires while the broadcast of the arrival waits for a slow client
(router.py:77; `VisibleUntilOneLeaves` without "slow"), a heartbeat that met one Redis
error never writes again (router.py:140), an offline announcement is not corrected
when another connection of the user goes on (presence_service.py:39), a
published message is lost when its commit fails, WebSockets that never send a frame keep their
database connections, 30 of them all of the pool (session.py:20; `PoolRecovers` without its
premise), more than 20 heartbeats at the same moment end the others for good
(redis_manager.py:26), and the last a client hears of a user can be "online" although the user
has left: when the offline event was lost, when a slow client was unregistered, or failed,
while an online event waited for it, or when the client is the first of a room that got empty
and was listed anew, behind the others, while the task of the online event was on its way there
(redis_subscriber.py:55; `LastWord` without `calm`).

## 4. Theorems

Assumptions are the `ASSUME`s of the modules. Most give constants their types, and say that "none"
(`NoConn`, `NoSession`, `NoReq`) is not one of the things it is none of. The others are:

- `PresenceAssumption`: `0 < Interval < TTL`, as the settings' 60 s and 300 s;
- `SpellingAssumption`: `Lower`, `str.lower`, is idempotent;
- `RequestAssumption`: two requests to create a room create different ones (`uuid4`);
- `ReqAssumption`, by naming a token after its request: no two tokens are the same (`jti`);
- `FanoutAssumption` and `FeedAssumption` of `PresenceFeed`: connections are natural numbers, as
  they are numbered in the order in which they register; which room each is in is arbitrary;
- `CasterAssumption`: broadcasts are run by handlers and by the subscriber's tasks;
- `PoolAssumption`: finitely many handlers, a WebSocket is not a request, and each pool has a
  connection;
- `PagingAssumption`: finitely many messages, and pages that are not empty.

Everything holds for any number of connections, users, messages,
events and processes, within these.

- `WsEndpointProofs`. `MgrCorrect`: types and the agreement of the two indexes of the registry, by
  induction over `MgrNext`. `EndpointImplementsManager` shows each step of the endpoint to be one of
  the manager's most general client, or a stutter, and so carries `MgrCorrect` to the running
  endpoint (`EndpointTyped`, `EndpointIndexesAgree`). `LoneConnectionKept`, `FinallyUnregisters`,
  `NoOpenSocketDisplaced`: the inductive invariant `EndpointInv` says for each value of `pc` whether
  the socket is open, whether the registry has it and who holds the lock. It is needed because a
  broadcast removes by user id what it remembered as failed: that a lone, open connection is not
  removed follows only when remembered entries are of closed sockets.
- `ChatSessionProofs`. `HistoryWasPublished`, `FollowUpsOrdered`, `ChatTyped`: `HistoryInv` relates
  the rows of an open transaction to its session (`OpenRows`), the channel to the rows (`Channel`),
  and dates to the clock (`Dated`); `FirstOnly` says that a transaction which is older than its
  frame is a session's first, which is what makes the second message onwards chronological.
  `RetriesAreIdle`: what a session found to have a receipt when its frame came in is not among what
  it inserts, as a lookup leaves out what has one and receipts are never taken back (`KnownKept`).
  So a second receipt of a message is the work of one frame that names it twice or of two that
  overlap, which are the cases of `chat_receipts`.
- `PresenceProofs` on `Presence`. `ListedUntilOneLeaves`: while Redis neither fails nor evicts and
  no greeting is slow. `BeatInv`: a sleeping heartbeat wakes before the key it wrote expires
  (`Outlives`), until one connection of the user leaves. `LastOneUnlists`: as long as Redis answers,
  no frame has failed and no cancelled write has come late. The invariant `Held` says that a listed
  user has a handler that has still to delete the key, or that died. `PresenceTyped`: types.
- `PresenceProofs` on `PresenceFeed`. `LastWordIsOffline`: for any connections in any rooms, in
  whichever order rooms are entered, emptied and listed again, and however the handler's own
  broadcasts and those of the tasks overlap. A connection may be told "online" after one of the two
  "offline"s; the inductive invariant `CastInv` says why never after both. A broadcast waits in one
  queue, and what it still has to do lies behind it (`Apart`, `Spots`); as long as the task of the
  online event is not through, that of the offline event is still to come (`Behind`), and it stands
  behind it in the same queue or will come to where it waits and to everything it has left
  (`Order`); so whoever was told "online" is still to be told "offline" by the handler or by the
  task (`Told`). `Snap` and `Kept` are where `calm` is needed: the connections a broadcast is to
  visit are registered or closed, and the rooms it is on its way to have the places they had when it
  listed them, behind the one where it waits. `CastTyped`: types, `Apart` and `Spots`.
- `FanoutProofs`. `FanoutImplementsFeed`: whatever fails, no connection is sent an event twice or
  before its PUBLISH. `OnceInv`: an event is on a process's wire, or its task has it and those
  connections that it still has to send to have not been sent it. `TasksInOrder`: in a process none
  of whose connections has closed or left, events reach each connection in order. `Row` compares any
  two tasks: the later one has been nowhere that the earlier one has still to go, is still to go
  everywhere that the earlier one is, and to where it waits unless it queues there too (`Ahead`),
  and queues are sorted. `FanoutTyped`: types, and tasks only hold sockets of their own process.
- `RoomMembershipProofs!RoomsApiKeepsPromise`: the rooms API implements `Membership`. `Inv` says who
  holds a row's lock and that the row is as the holder found it (`Locked`), and that a room that is
  not there has no members (`Fresh`): only with these a commit is a step of the promise; what is
  shown by `get_room` and `my_rooms` maps to its two moments. `MembershipTyped`: no second row for a
  room and a user.
- `AccountProofs` on `TokenRotation`. `RotationAtomic`, `SuccessorsOnlyOverlap`, `SessionKept`,
  `RotationTyped`: `Stages` relates a request's progress to its row and its lock, `Looked` says that
  a request that found its token valid saw no successor of it, `Keeps` that a client never goes back
  to a token whose successor it got.
- `AccountProofs` on `Registration`. `AccountsDistinct`, `RefusedForAnAccount`, `RegistrationTyped`:
  an `INSERT` that has passed an index excludes every other open or committed row of its key there
  (`Entered`), which the lookups before it do not.
- `HistoryPagingProofs`. `WalkComplete`, `AnnouncedPageHasMessages`, `PagingTyped`: `Ahead` says
  that what was there at the start and is not read yet lies behind the offset, which arrivals can
  only move further behind (lemma `Places`). `RepetitionsBounded`: a walk repeats no more messages
  than have come since it began. Between pages the reader was sent as many items as it skips
  (`Sent`), and of the messages up to there it has all that were in the list at the start, so the
  others have come since (`FewRepeats`); it needs the cardinalities of the list's prefixes
  (`PrefixSize`, `PageSize`).
- `PoolsProofs`. `NoHoldAndWait`: who waits for a database connection has none, so there is no
  circle of waiting handlers in this pool. `IdleSocketsHoldNothing`: once a frame was dispatched and
  came to its end, the socket has no connection. `RedisRefusesUnderLoad`: no path loses a Redis
  connection. `Counted` says that the connections in use are those of the commands under way, which
  makes every step a statement about cardinalities; `Beating` ties a heartbeat to its handler's
  loop, so that a cancelled one is counted until its connection is given back. `PoolsTyped`: types
  and limits.

Only model-checked: the liveness properties (`ClosedEnds`, `GhostGone`, `Relisted`,
`SentIsDelivered`, `Ends`, `PoolRecovers`), which need fairness and ENABLED. Every other property
of a passing run is a theorem of the specification, without further hypotheses. No module
declares a RECURSIVE operator.

## 5. Not modelled, and plan

Left out for good: password hashing, token formats, file uploads, validation and
layout of payloads, logging, CORS, the rate limiter that is never installed,
migrations, notifications (rows that no code creates), the keys of `TypingService`, which
nothing reads, and the methods of the manager and of the repositories without a caller. An
upload checks a file and writes it under a fresh name, and shares no state with anything.
That a user who has left a room by the API keeps receiving its events (router.py:67) is a choice of
the code that no line of it contradicts: there is no property to state.

Next, in this order:

1. An abstract specification of presence (a lease that its owners renew) and one of a history that
is read backwards, refined by `Presence` and `HistoryPaging`, with proofs.
2. What the two specifications of `PresenceProofs`, and those of `AccountProofs`, promise together:
a user who is not listed any more was announced offline to each room; a login is of one account.
