# A verification project for ISC-Server

ISC-Server is a fork of TrinityCore 3.3.5: an authentication server and a world server in C++. This
directory holds TLA+ models of the parts whose correctness depends on the order in which threads,
callbacks and messages meet, the TLC runs that check them on small instances, and TLAPS proofs of
their main invariants for every instance. Paths below are relative to the repository.

## The system and its parts

| Part | State | Operations | Hard about it |
|---|---|---|---|
| `Socket`, `WorldSocket` (src/server/shared/Networking/Socket.h, src/server/game/Server/WorldSocket.cpp) | open-state bits, packet queue, write queue, async-write flag, query callbacks, login phase | Update, HandleQueue, write and read handlers, CloseSocket, DelayedCloseSocket, SendPacket | world thread and network thread both send and close; partial writes; closing while an answer is still queued |
| `NetworkThread`, `SocketMgr`, `AsyncAcceptor` | sockets per thread, connection counters, acceptor | accept, AddSocket, AddNewSockets, Update, Stop | stopping while connections arrive |
| `World` sessions and login queue (src/server/game/World/World.cpp) | `m_sessions`, `addSessQueue`, `m_QueuedPlayer`, `m_disconnects` | AddSession, AddSession_, UpdateSessions, RemoveQueuedPlayer, KickAll | deletion of sessions that other tables point to; slots counted twice or not at all |
| `WorldSession` (src/server/game/Server/WorldSession.cpp), `LockedQueue`, `AsyncCallbackProcessor` | packet queue, three callback processors, player, login flags, logout time | Update, QueuePacket, LogoutPlayer, KickPlayer, handlers and their continuations | packets processed by two threads under filters; queries answered when the character has left |
| `MPSCQueue` (src/common/Threading/MPSCQueue.h) | an intrusive linked list with a dummy node | Enqueue by many threads, Dequeue by one | lock-free; half-linked nodes |
| `ProducerConsumerQueue`, `MapUpdater`, `MapManager::Update`, `MapInstanced::Update` | request queue, pending counter, worker threads | schedule_update, wait, WorkerThread, deactivate | nested scheduling from worker threads, shutdown |
| Database: worker pool, transactions, callbacks (src/server/database/Database) | connections, task queues, futures | Execute, ExecuteTransaction, reconnect, callback processing | retry on deadlock, reconnect inside a transaction, closing, callback order |
| ISC protocol (src/server/game/Server/Protocol/IscProtocol.cpp) | reassembler per session | EncodeFrames, Feed | frames lost, repeated or interleaved |
| DevTools (src/server/game/DevTools, src/server/game/Server/Protocol/IscHandler.cpp) | pending changes, hidden spawns, files in sql/updates | delete, spawn, undo, commit of creature spawns | memory, map, file and database have to agree, over crashes and restarts |
| Trade (src/server/game/Handlers/TradeHandler.cpp, src/server/game/Entities/Player/TradeData.cpp) | two `TradeData`, inventories, money | initiate, offer, accept, unaccept, cancel, the exchange | consents that outlive the offers; an exchange of several steps that can fail in the middle |
| Companions (src/server/game/AI/Companion) | companions per owner | summon, dismiss | shared maps without locks, stale entries |
| Schedulers (EventProcessor, EventMap, TaskScheduler) | pending events | add, update, kill | events that add or abort events |
| Database updater (src/server/database/Updater) | update files, the `updates` table | apply, record, rename, clean up at every start | crash between two steps; files renamed and removed |
| Authserver, realm list | login state | challenge, proof | out-of-order commands |
| Game rules (entities, spells, combat, groups, loot, mail, auctions, battlegrounds, scripts) | the game | hundreds of handlers | ownership of items and money; mostly data-driven |

How they meet: the acceptor gives a connection to a `NetworkThread`, which updates its sockets every
millisecond. A `WorldSocket` runs the login conversation through database callbacks, creates the
`WorldSession` and hands it to `World::AddSession` through a locked queue. The world thread takes new
sessions, updates the sessions of its map, schedules the map updates on worker threads and waits for
them. Sessions and maps send packets through `WorldSocket::SendPacket` into a lock-free queue that the
network thread drains. The properties each part needs are listed with its module below and, for the
parts still to come, in the plan; the hazards, each at its line, are in `PROJECT.json`.

## Modules and the code they stand for

`PROJECT.json` maps every definition to its lines. Variables carry the names of the C++ members they
stand for; history variables, which no code reads, are marked as such where they are declared. Each
definition named in a comment as a *variant* is a plausible bug, kept to show that a property notices
it, and is used by no specification.

### WorldSocket: one connection

The network thread is a program counter `npc` over the steps of `WorldSocket::Update`,
`Socket::Update`, `HandleQueue` and the read, write and query handlers; the world thread is a counter
`wpc` over `SendPacket` and `CloseSocket`. `openState` is a set of bits because `_openState` is: the
constants `Closing` and `Closed` are combined with `fetch_or` and compared with `==`. Packets have
sizes in *wire units*, and `wire` is what the kernel was given. `IsOpen` and the enqueue that follows
it are two steps for the world thread, as are the `fetch_or` of `CloseSocket` and its shutdown. The
socket object is alive while the thread's list, the session or a pending operation holds a
`shared_ptr` (`Destroyed`). Encryption, compression, the content of packets and the building of the
login answer are left out; the build is the one without `TC_SOCKET_USE_IOCP`.

Properties: bytes leave in order without gap or repetition through packing and partial writes
(`WireInOrder`); an accepted packet is sent unless the connection breaks, the answer to a rejected
login included (`AcceptedPacketIsSent`); a closed socket leaves the thread (`ClosedSocketIsErased`).

### WorldSessions: the session map and the login queue

`m_sessions`, `addSessQueue`, `m_QueuedPlayer` and `m_disconnects` are `World`'s tables; `Sessions`
are addresses of `WorldSession` objects, reused after deletion, and `account[s] = NoAccount` says that
the address is free. `pc` and `todo` follow `World::UpdateSessions`: first the handed-over sessions
are added one by one (`RefuseSession`, `AcceptSession`), then every session is updated
(`UpdateSession`) and kept or deleted (`DropSession`, which makes the two calls of
`RemoveQueuedPlayer` that the code makes). Network threads hand sessions over (`AddSession`) and lose
sockets (`SocketLost`) at any moment. `KickAll` and a last pass are the shutdown. `Limit` is
`PlayerLimit`, `SkipQueue` the accounts with `RBAC_PERM_SKIP_QUEUE`, `Tolerance` the grace after a
disconnect.

Properties: no table points to a deleted session (`NoDanglingSession`); nobody waits while there is
room (`NoIdleSlot`); the two calls never admit one too many (`LimitRespected`); told positions and
queue flags agree with the queue (`PositionTold`), whose order is kept (`NoOvertaking`).

### MPSCQueue and FifoQueue: the packet queue

`MPSCQueue` has one action per access to shared memory of `Enqueue` and `Dequeue` of the intrusive
queue in src/common/Threading/MPSCQueue.h: clearing the link, the exchange of `_head`, the store of
the link, and for the consumer the loads and the re-insertion of the dummy. Nodes are addresses that
go back to the producers after `Dequeue`. `chain` is a history variable: the order of the exchanges.
`FifoQueue` is the abstract specification, a queue whose elements leave in order and once;
`MPSCQueue` implements it under the mapping `queue <- Contents`, the chain without the dummy, where an
element enters at its exchange and leaves at the load that makes `Dequeue` return it.

Properties: the list is the chain but for links on their way (`ChainLinked`); nobody stores into a
node that was returned and may be deleted (`PrevHeadAlive`); it is a FIFO queue (`RefinesFifo`);
everything enqueued is dequeued although `Dequeue` gives up at a missing link (`Drains`).

### MapUpdater: world thread, workers and maps

The module composes `MapManager::Update`, `MapInstanced::Update`, `MapUpdater` and
`ProducerConsumerQueue`, which only make sense together: the request of a base map schedules requests
for its instances from inside a worker, or destroys an instance. `wpc` and `todo` are the world
thread, `pc`, `request` and `left` the workers, `queue`, `pending`, `token` and `shutdown` the
members of the updater and of its queue. A thread in a condition variable is `asleep` until a notify,
or, for a worker, a spurious wakeup. A step under a mutex is one action. Between passes the world
thread creates, enters, leaves and marks instances.

Properties: outside the wait the world thread has the maps to itself (`WorldAlone`); nobody uses a
destroyed map (`NoDeletedMap`); a map has one updater (`OneUpdater`) and is updated once in a pass
(`UpdatedOnce`); `WorkerThread` never calls a null request (`NoNullRequest`); a pass and the shutdown
end, so no wakeup is lost (`PassEnds`, `ShutdownEnds`).

### Transactions and AtomicTransactions: the database workers

A worker is a program counter `pc` over `TransactionTask::Execute` and
`MySQLConnection::ExecuteTransaction`: START TRANSACTION, the queries, COMMIT or ROLLBACK, the wait
for `_deadlockLock`, the retries. The MySQL server is the environment: for each connection a session
(`"auto"`, `"open"` with uncommitted `work`, `"lost"`, or `"null"` when `m_Mysql` is a null pointer)
and `applied`, how often each statement took effect. A query may succeed, fail, be chosen as a
deadlock's victim, terminate the server, or lose the connection before or after it was executed; the
reconnection inside `Execute` then succeeds, terminates the server or is refused. The number of
attempts to reconnect is not counted: only how they end matters. `AtomicTransactions` is the abstract
specification: a transaction takes effect as a whole, once, and the answer says whether it did. The
code does not keep that when a connection is lost inside a transaction or cannot be made again, and
the history variable `disturbed` says that this has happened.

Properties: with every fault, nothing takes effect after the answer (`FinalEffect`) and a posted
transaction is answered unless the pool is closed or the server terminates (`Settles`); until the pool
is disturbed it implements `AtomicTransactions` (`RefinesAtomic`), and every answer is true
(`AllOrNothingUndisturbed`, proved).

### SessionPackets: one session between its socket and the database

The network thread adds packets to `_recvQueue`; `WorldSession::Update` is run by the world thread
with a `WorldSessionFilter` and then, while the player is in the world, by the thread of the map with
a `MapSessionFilter` (`pc`, `filter`). `ProcessPacket` is one round of its loop: the packet the filter
lets through is put back, dropped, handled or refused according to its status and to the state of the
player, and counts against the budget. The record `Opcode` has one opcode for every status and place
of the opcode table, with the handlers that matter to the session: list, creation and login of
characters, logout, far teleport, and the two kinds of query continuation, one that tests the player
(`sendMail`) and one that does not (`addFriend`). The continuations live in three
`AsyncCallbackProcessor`s; `ProcessCallback` and `EndProcessor` follow `ProcessReadyCallbacks`, which
moves the callbacks out, keeps those not ready and puts new ones in front of them, and a chained query
takes the place of the one before. `player` is an address, so that a new character may get the address
of an old one. Anti-flood, kicks and lost connections are steps of their own.

Properties: no packet is lost, repeated or reordered by requeueing (`QueueExact`) and one overtakes
another only when that one waits for a login (`OvertakesOnlyBeforeLogin`); every query's result is
taken once (`CallbackExact`) and in the end (`CallbacksRun`); one login at a time (`LoginExact`); a
continuation that uses the player has one (`NoNullPlayer`); a map thread never removes the player it
is iterating over (`NoLogoutInMapUpdate`); what a connected client sent is dealt with in the end
(`PacketsDealtWith`).

### Trade: two players and the exchange

All trade handlers as actions over the two `TradeData`, with the helpers `SetAccepted`, `SetItem`,
`SetSpell` as functions of `m_trade`. `HandleAcceptTradeOpcode` is cut at its early returns
(`AcceptTooFar` to `AcceptSecond`); its loop `moveItems` and the payment are steps of their own, so
that a property can look at the middle of the exchange, although nothing else runs then. `SetCount`,
`RemoveItem`, `StoreNewItem`, `SetBinding` and `ModifyMoney` are what the rest of the game does to
offered goods between two packets. `agreed` records what a consent was given for, `gone` what left its
owner since. `Kind` is what limits an item, its template or its limit category (`CanTakeMoreSimilarItems`
looks at both; items limited by both are left out). A player may have exactly MAX_MONEY_AMOUNT, and is
then refused every trade.

Properties: the two trades point at each other (`TradeSymmetric`); a consent never outlives the offers
it was given for (`AcceptedAsAgreed`); no item is lost or doubled at any step of the exchange
(`ItemsConserved`); what changes hands is what both accepted, whole (`ExchangeAsAgreed`), and it is
paid in full (`PaidAsAgreed`). Two things the code does limit them. An item that left its owner counts
as an empty slot without taking the consents back. And of several items of a kind limited to more
than one each passes the check alone: the last may come back in the middle of the exchange, and is then
stored twice when the place found for the other player's item of that slot is still in the list. The
history variable `unchecked` records that several such items were exchanged at once; `ItemsConserved`
and the arrival of all items are claimed until then.

### DevTools and DBUpdater: spawns, files and restarts

`DBUpdater` is `UpdateFetcher::Update` at a start: the files in the order of their names, each skipped,
taken for renamed, or applied and then recorded, and the entries of missing files removed. Applying
and recording are two steps; the process can end between them, and the second can fail without anybody
noticing (`UpdateEntryFails`). A file is its name, its text as far as the hash tells texts apart, its
changes, and whether it was cut. `DevTools` extends it with the running server: `_changes`,
`_hiddenCreatureSpawns`, the creature data, one grid with its living creatures, its corpses and the
respawn times, which run whether the corpse is there, decayed or deleted; `Undo`, `Commit` with a failure
or a crash inside the writing of the file; the commands `.npc add` and `.npc delete`, which change memory
at once and queue a transaction that the worker of the world database executes later (`ExecuteWrite`);
and developers who remove files and, while the server is down, rename them. `promised` is what the last start, the commits and these
commands have promised the database will hold. A crash takes back what was promised only by a
transaction still in the queue (`Forget`): the code promises no more.

Properties: the running world is what was promised with the pending changes on top (`WorldIsPromise`);
after any crashes, renames and unfinished starts, the start that loads the creatures has the promised
rows (`StartKeepsPromise`); the map shows it: a deleted spawn neither loads nor respawns, an undone one
is there or will respawn (`MapShowsWorld`), although a corpse can be deleted, and the deletion undone,
while its respawn time runs. Spawns that `.npc delete` removed while a change or a file
still inserts them, and starts that apply a file a failed commit or a failed entry left behind, are
excepted: see the list below.

### IscProtocol: messages in frames

`SendIscPacket` and `EncodeFrames` cut a message into frames, the session may drop a frame (`Lose`),
what has the prefix and is not a frame may arrive (`ReceiveGarbage`; well-formed frames nobody sent may not), and `Feed` is the `Reassembler`. A byte
is the pair of its message and its place, so that bytes of two messages can never look alike; base64
and the layout of the header only decide whether a frame is one. The property: exactly the messages
that arrived whole and fit the limit are delivered, in order and once (`ExactlyIntactMessages`).
Frames carry 16-bit ids, so the first frame of one message can be completed by the rest of another
with the same id and the same number of frames if everything between was lost. The module bounds such
bursts (`BurstAssumption`): with 2^16 ids, 65,534 consecutive messages of which no frame arrives. It is
the only fact about the channel the module assumes beyond its order.

## Runs

| Run | Instance | Shows |
|---|---|---|
| `world_socket` | 3 packets of 1, 3 and 1 units, buffers of 2 | bytes in order, accepted packets sent, closed sockets erased |
| `world_socket_delayed_close` | the same | *violated*: a socket closed by `DelayedCloseSocket` ends with both bits on, and `Socket::Update` tests `== OpenState_Closed`: it is never erased |
| `world_sessions` | 3 accounts, 3 addresses, limit 1, tolerance 1 | the properties of WorldSessions, with reconnects and accounts that pass the queue after a disconnect |
| `mpsc_queue` | 2 producers, 3 addresses | `PrevHeadAlive`, refinement of `FifoQueue`, `Drains` |
| `map_updater` | 2 workers, 2 base maps, 3 instances | safety, `PassEnds`, `ShutdownEnds` |
| `isc_protocol` | 4 messages of 1 to 4 frames, 3 ids, 1 piece of garbage | exactly the intact messages arrive |
| `transactions` | 2 workers, transactions of 2, 1 and 0 queries, every fault, 1 loss | `FinalEffect`, `Settles`, refinement of `AtomicTransactions` |
| `transactions_loss` | the same, without refused reconnections | *violated*: the connection is lost when COMMIT is sent, MySQL rolls back, COMMIT is sent again on the new connection, where there is nothing to commit, and the answer is true with nothing in effect. A query before COMMIT is sent again by the same line, outside the transaction, and the queries before it are lost |
| `session_packets` | 5 packets of every status and place, budget 1 | the eight properties of SessionPackets |
| `session_packets_friend` | login, CMSG_ADD_FRIEND, logout | *violated*: the continuation compares the character's guid, which outlives the logout, and uses a null player |
| `trade` | 2 players, 4 items (three of a kind limited to two), gold up to its limit of 2, 2 slots, 1 outside event | the properties of Trade |
| `devtools` | 2 spawn ids, 2 files under 3 names, 1 failed commit or entry, 1 dead, any crashes | the properties of DevTools and DBUpdater |

The three violated runs are real disagreements between the code and a comment of it; `PROJECT.json`
quotes both sides under `findings`. More were met while modelling. The models contain the behaviour
where they have the part, the properties except it explicitly, and no run is spent on it.

Network and login:

- The first `CloseSocket` after `Update` only sets a bit (Socket.h:193): a silent client that was
  kicked stays connected until it sends something.
- A connection lost between the creation of the session and the permissions callback
  (WorldSocket.cpp:620) leaves a session nobody owns.
- `HasRecentlyDisconnected` (World.cpp:413) computes the disconnect time minus the current time, so
  the "tolerance (in seconds) for disconnected players" (worldserver.conf.dist:383) never expires.
- The player limit is said to be "excluding Mods, GMs and Admins" (worldserver.conf.dist:260);
  `AddSession_` (World.cpp:373) compares it with the number of all sessions.
- A replaced session's destructor sets `online = 0` after the new session has set it to 1
  (WorldSession.cpp:189).

Sessions:

- Early packets are said to be re-added "to the bottom of the queue" (WorldSession.cpp:315); `readd` puts it in front, which is what
  keeps the order (`QueueExact`).
- Early packets count against the budget of every update: more than the budget of them starve the
  login they wait for (`Starved`).
- STATUS_AUTHED is said to mean "_player == NULL" (Opcodes.h:1355); its handlers are called with a
  player too, and each has to guard itself.
- `HandlePlayerLoginOpcode` sets `m_playerLoading` (CharacterHandler.cpp:698) before it reads the guid
  (line 701): when the packet is too short, `Update` skips it (WorldSession.cpp:418) and the flag stays
  set with no login under way, so that the next login is taken for a second one and kicked
  (`MisreadLogin`; `LoginExact` excepts it).
- The continuation of CMSG_SEND_MAIL compares player pointers, which an allocator may use again; the
  action buttons asked for by one character are given to whichever is in the game (Player.cpp:25611).
- Continuations of thread-unsafe packets run in whatever thread updates the session next, a map thread
  too (WorldSession.cpp:454). A rename is reported before its UPDATE has succeeded
  (CharacterHandler.cpp:1160).

Database:

- "Failed to reconnect to the MySQL server, terminating the server to prevent data corruption!"
  (MySQLConnection.cpp:573): an errno the switch does not list takes the default branch (line 608),
  and the worker goes on with a null handle (`ReconnectRefused`, `ExecuteWithoutHandle`); a failed
  query then takes `mysql_errno` of that handle for its error (line 403), which may be 0, and the
  transaction is answered true with nothing in effect. `transactions_loss` leaves this way out.
- `KickAll` is to "save and kick all players" (Main.cpp:380); `DatabaseWorkerPool::Close` stops the
  `io_context` before it joins the workers (line 193) and destroys what is still queued (`Close`).

Trade and DevTools:

- `CanStoreItems` (Player.cpp:10596) holds every item of an exchange against the limit of its template
  or category alone, although "A roll back is not possible after we stored it" (TradeHandler.cpp:141); when an item
  has to come back, `playerDst` still holds the place of the other item (TradeHandler.cpp:188), and
  `StoreItem` puts a clone there. An accept carries no number of the offer it answers
  (TradeHandler.cpp:267).
- A commit that cannot write its file leaves what it wrote in sql/updates, and the next start applies
  it, also after an undo; a DELETE cut before its WHERE empties the table (`ApplyCut`).
- `.npc delete` of a spawn that a pending change or a file still inserts is undone by the next start.
- A crash loses the queued row of `.npc add` or `.npc delete`, which the developer has seen done, and
  `.npc add` that fails to create the creature leaves its data and its row behind (cs_npc.cpp:155).
- The result of the REPLACE INTO `updates` is not looked at (DBUpdater.cpp:317): when it fails, the next
  start applies the file again, after newer ones.
- The index of a day in a file name has two digits: file 100 sorts before file 99. Only the files of
  the server's day are looked at (DevToolsMgr.cpp:304): a file dated later sorts after the new one.
- A new file with the text of an applied one that was removed is taken for that one, renamed; an
  applied file renamed onto the name of another one is applied again.

**Bounds and why they are enough.** *WorldSocket*: three packets are what it takes for one to share a
buffer, one to be larger than a buffer and one to follow it; a kernel buffer of two units makes
writes partial. *WorldSessions*: one slot with three accounts has a holder, a first and a second in
the queue, and any of them can reconnect when one address is free; addresses and accounts are
interchangeable. Time has two values, enough for a tolerance of one to be over. Accounts that may
always skip the queue are left to the theorems, which hold for any `SkipQueue`. *MPSCQueue*: two producers can both be between
exchange and link, and with three addresses one is reused while the others are in the list.
*MapUpdater*: the number of passes is not bounded; two workers can both sleep, or one schedule while
the other destroys. *Transactions*: two workers contend for the mutex, and a
transaction of two queries can be cut in the middle; a second loss repeats what the first shows.
*IscProtocol*: four messages use an id twice when there are three; four-frame
messages exceed the limit before their last frame. *SessionPackets*: the constant `Client` says what
the first, second and further packets may be. Five reach a packet of every kind before, during and
after a login and a second login after the logout; a budget of one (100 in the code) leaves packets
over and lets two early ones starve a login. *Trade*: two slots and four items exchange in both
directions, below, at and above a limit of two; amounts 0 and 1 against a limit of 2 reach the edge;
one outside event lets an offered item leave, a stack change or gold be spent between the consents. An
offered item that leaves and comes back, and a kind limited to one, were run separately (two
events; three items of which two are unique). *DevTools*: two ids are a row that
exists at the start and one that is made; two files with three names (`MaxName`) give an order, a
rename that changes it and a name used before; one failed file at a time (`MaxFailures`) and one dead
spawn at a time (`MaxDead`) meet the other, sound one; a queue of one transaction (`MaxQueue`) has the
crash before its execution, and the theorems have any length; the number of deaths, grid loads,
crashes and starts is not bounded.

Runs that end on purpose switch the deadlock check off: a socket that is erased, a server that has
stopped, a bounded number of messages, packets, events or files. `mpsc_queue` keeps it.

**Fairness.** *WorldSocket*: the `io_context` runs every ready handler and the tick arms itself again
(weak fairness for a handler in progress, strong for those that wait for the thread to be idle),
queries are answered, the world thread finishes its call and visits its sessions again, a client that
is there reads what the kernel holds. Nothing is assumed of a client sending or of anyone closing.
*MPSCQueue*: a producer ends the `Enqueue` it began; the network thread calls `Dequeue` every
millisecond. *MapUpdater*: a thread that can run does; nothing is assumed of spurious wakeups, and
the world thread chooses freely when to begin a pass or to stop. *Transactions*: workers run and the
server answers; a retry loop ends because its time is limited (strong fairness of `GiveUp`). *SessionPackets*: the world
thread goes on updating a session (weak), the map of a player who stays in the world is updated again
and again (strong, because the player leaves and enters), the database answers (weak); nothing is
assumed of the client. *WorldSessions*, *IscProtocol*, *Trade* and *DevTools* state safety only.

## Proofs

| Module | Theorems | From |
|---|---|---|
| `WorldSocketProofs` | `TypeCorrect`, `Order`, `WireCorrect` | any packets and sizes, any buffer and kernel sizes above 0 |
| `WorldSessionsProofs` | `TypeCorrect`, `PointersValid`, `SlotsFilled`, `PositionsTold`, `NobodyOvertakes`, `LimitKept` | any sessions, finite accounts, any limit, tolerance and time bound |
| `MPSCQueueProofs` | `TypeCorrect`, `AlwaysLinked`, `NoStoreAfterReturn`, `ImplementsFifo` | any producers and addresses; the dummy and null are not addresses |
| `MapUpdaterProofs` | `TypeCorrect`, `AlwaysAlone`, `MapsExist`, `MapsExclusive`, `RequestsReal`, `AllUpdated` | a finite, non-empty set of workers, any base maps and instances, each with a parent |
| `TransactionsProofs` | `TypeCorrect`, `EffectsFinal`; `AnswersTrue`, `ImplementsAtomic` | any workers, transactions and lengths, every fault |
| `TradeProofs` | `TypeCorrect`, `PointersMatch`, `ConsentsCurrent`, `PaymentsAgreed`, `ItemsKept`, `ExchangeKept` | any players, any finite set of items, any kinds, limits, slots and amounts |
| `SessionPacketsProofs` | `Inductive`, `TypeCorrect`, `QueueCorrect`, `CallbackCorrect`, `LoginCorrect`, `OrderKept`, `MapKeepsPlayer`; `MailFindsPlayer` | any client, budget, characters and addresses; the last for clients that never add a friend |
| `IscProofs`, the protocol | `ProtocolTypeCorrect`, `MessagesCorrect` | any sizes, limits, number of messages, losses and garbage; bursts shorter than the ids (`BurstAssumption`) |
| `IscProofs`, DevTools | `TypeCorrect`, `WorldCorrect`, `MapCorrect`, `PromiseKept` | any number of ids, any entries, files, failures, deaths and queued transactions |

*WorldSocket.* `OrderInv` says that, as long as writing works, the wire, the buffers of the write queue
(empty ones among them), the buffer being filled and the packet queue are one chain: each piece is a
`Run` from one border to the next, and `Chained` asks for a function `f` that has the borders. Packing a
packet moves the last border, flushing adds a piece, a write, partial or whole, moves the first border
along the first piece; the lemmas say how runs are extended, cut and joined. When a write fails
`HandleQueue` drops what it held, and the chain has a hole. `WireInOrder` survives because a write that
fails once fails for good (`WriteFails`), so that nothing is put on the wire behind the hole.

*WorldSessions.* `Inv == TypeOK /\ NoDanglingSession /\ PassInv /\ NoIdleSlot`. The lemmas before it
say what `RemoveQueuedPlayer` does to a sequence: erasing keeps the others distinct, and accepting the
first takes an element of the queue. `NoIdleSlot` is not inductive alone: that a session which leaves
makes room depends on its being in the map (`NoDanglingSession`) and on the accounts still to be
updated having a session (`PassInv`). The argument for the double call of `RemoveQueuedPlayer` is that
the second one counts a session that was already outside the queue or is no longer in it.
`RemoveCases` sums `RemoveQueuedPlayer` up as three cases: a waiting session leaves, an active one
leaves and the first comes in, or nothing happens; `SecondCall` shows that after the first call only the
last is left. `DropEffect` and `AcceptEffect` say what the two actions that remove sessions do in these
terms. Together with `AdmittedInv` (who was let in is in the map and not in the queue) `PositionTold` is
then inductive, and only the first of the queue is ever let in. For `LimitRespected` the sessions
outside the queue are counted (`OutsideCount`): somebody is let in only when they are exactly as many as
the limit and one of them leaves.

*MPSCQueue.* `Inv == TypeOK /\ ChainLinked /\ PrevHeadAlive /\ OwnersInv`. `ChainLinked` needs to know
that a missing link belongs to exactly one thread on its way, `PrevHeadAlive` that the predecessor of
a node in flight is still in the chain, and both that a node has one owner and the dummy is in the
chain at most once (`OwnersInv`). The refinement follows: the exchange appends to `Contents`, the
returning load removes its head, every other step stutters.

*MapUpdater.* `Inv == TypeOK /\ PlaceInv /\ CountInv /\ WorldAlone /\ NoDeletedMap /\ OneUpdater /\
TurnInv`. `CountInv` (pending requests = queued + held) makes the end of `wait` mean that nobody works;
`TurnInv` says that a map waiting for its turn has no request yet and that an instance has one only
once its parent's loop has reached it, which is why a destroyed instance cannot be in the queue;
`PlaceInv` ties requests and the token to the places of the threads. `UpdatedOnce` needs to be said of
the whole pass (`ProgressInv`): a map that is still to be scheduled, queued, held or to be visited by the
loop of its parent (`Due`) was not updated, and every other one was, but for the instances that
could not be destroyed; when the wait ends nothing is due.

*Transactions.* `Inv == TypeOK /\ PlaceInv /\ SessionInv`: a transaction is in one place, uncommitted
work is of the transaction in progress, and every way out of an attempt leaves the session without a
transaction, which is what `FinalEffect` needs. For atomicity `CalmInv` adds `AttemptInv` (queries run
inside a transaction whose work is exactly the queries so far), `EffectInv` (statements count once when
their transaction is done) and `AnswerInv`; `UndisturbedInv` says that it holds until the pool is
disturbed. Every step is then quiet, applies one transaction or answers one (`StepKinds`), and the
refinement is read off. The disturbing steps are what `transactions_loss` shows.

*Trade.* `Inv == TypeOK /\ TradeSymmetric /\ OfferInv /\ PlaceInv /\ ConsentInv`, for any number of
pairs at once. A consent can only go stale through a stack that changes in silence: `SetCount` tells
the trade of the item's owner, so the proof needs that nobody else offers the item and still has it
(`PlaceInv`: no item is in two places, the hands of `moveItems` included) and that one's own offer
holds it in one slot (`OfferInv`). `ConsentInv` says what `AcceptedAsAgreed` says of all players, of
other pairs also while two exchange. The lemmas before it say what `SetAccepted`, `SetItem` and
`SetSpell` do to a pair of trades and that a step about a pair leaves everybody else alone
(`OthersKeep`). The gold needs `DealInv`: from the second consent to the payment both can pay and have
room for what they get, and the amounts are those in the consents. For the goods, `FitInv` says of every
moment of `moveItems` that what a player is still to get fits into his bag, by room and by limit,
whatever came before it: at the beginning because `CanStoreItems` counted with the bag as it was and the
bag has only lost items since, after a round because the item that was stored is of another kind, or
of one without a limit. Two items of a kind limited to one cannot be offered by one player, who has
one at most (`UniqueInv`); of kinds with a higher limit `unchecked` speaks. So every round stores both
items, nothing comes back, and `ItemsConserved` and `ExchangeAsAgreed` follow. What is taken is what was
agreed (`TakenAsAgreed`) by `ConsentInv`, and what is missing has left its owner by `OfferInv`.

*SessionPackets.* `SessionInv == TypeOK /\ RequeueInv /\ QueueInv /\ CallbackInv /\ LoginInv /\ MapInv`.
The packets set aside, put back and still in the queue are one sequence, which holds the packets not
dealt with, each once and in order (`InOrder`); a step removes one from it or moves one inside it.
Callbacks are moved between five places, so `CallbackInv` speaks of the set of callbacks they hold and of
no query being in two positions (`Exact`): a move keeps the set, a new query adds one, a taken result
removes one. `LoginInv` ties `m_playerLoading` to the one login callback held, `MapInv` gives the map's
thread a player from the start of its update to the end. `OrderKept` and `MapKeepsPlayer` are read off a
step from this invariant. `MailFindsPlayer` (`NoNullPlayer`) has the hypothesis that
the client never sends CMSG_ADD_FRIEND, without which it is false (`session_packets_friend`); the run
`session_packets` checks it for such a client, which may send everything else.

*DevTools.* `Inv` has a half for the memory of the server (`Memory`) and one for its disk (`Disk`). The
memory: pending changes are about different spawns and can be undone (`ChangeInv`), new ids are unused
(`IdInv`). The disk: names and texts identify files and entries (`FileInv`, `RenameInv`), the loop of
`Update` has met what it passed (`LoopInv`), a file applied and not recorded is the one at hand
(`RecordInv`), and, the heart of it, a row is promised by the last file still to be applied that changes
it, or else is in the database, or will be when the queue is executed (`PromiseInv`, `Stored`): queueing
and executing a transaction keep what is stored in the end (`StoredAppend`, `StoredExecuted`). Applying the first such file, again after a crash too,
keeps that; when no file is left the database is what was promised. The last file, the next id and
the last transaction about a spawn are greatest elements of sets of naturals, which `LeastNatural` and
`MaxFacts` give.

*IscProtocol.* `IscInv == IscTypeOK /\ NetInv /\ FeedInv /\ HistoryInv /\ ExactlyIntactMessages`. The next
frame on the way gives a position, message `Current` and frame `Place`. `NetInv`: the frames from that
position on are all there, once and in order, so receiving or losing one moves the position by one frame
or to the next message (`Advance`), and the intact messages are the unbroken ones before `Current`
(`IntactFacts`). `FeedInv`: what is being put together is a beginning of one message (`InProgress`), either
the current one, of which nothing was lost so far, or one whose end was lost. The danger is a later message
with the same id that continues it. It cannot have one: since that message no frame has arrived, by
`HistoryInv` nothing is known of what is still to come, `Lose` makes no burst longer than `MaxBurst`, and
two messages less than `IdSpace` apart have different ids (`IdsDiffer`). So a frame continues exactly when
its message is unbroken and within the limit (`NextFrame`), and gathering it makes the next longer
beginning (`Encoded`, `PartExtend`); with the last frame that is the message. The arithmetic of `FrameCount`
and of the ids rests on the quotient and remainder being unique (`ModUnique`). No induction over the
frames is needed: a frame is described by its place. The module also holds the proofs of DevTools, whose
commands are ISC messages; the two share no state.

The type invariants of all modules but Trade, DevTools and IscProtocol, `OrderInv`, `ChainLinked`, `NoNullRequest` and
`AllOrNothingUndisturbed` are proved and not in a run.

**Only model-checked.** All liveness (`AcceptedPacketIsSent`, `ClosedSocketIsErased`, `Drains`,
`PassEnds`, `ShutdownEnds`, `Settles`, `PacketsDealtWith`, `CallbacksRun`), which TLAPS does not reach
under fairness. Every invariant and every action property of a passing run is stated by a theorem, and so
is each refinement. Induction over data is not available as a theorem with a predicate
parameter; where it is needed, a set of naturals is given its least element instead.

## Not modelled

- Memory order: every module assumes sequentially consistent memory. The orders in MPSCQueue.h are
  acquire and release where a value is handed over.
- Single statements and queries, the synchronous connections of the database pool, and
  `DirectCommitTransaction`, which nothing calls. Errors of COMMIT and ROLLBACK other than a lost
  connection. Row locks: a deadlock is an answer the server may give at any query.
- WorldSessions: a player limit that changes while the server runs (`.server plimit`, cs_server.cpp:311
  and 320; `.reload config`, World.cpp:514). `Limit` is a constant, and `NoIdleSlot` and
  `LimitRespected` are of a fixed limit: a lowered one leaves more players than it allows, and a raised
  one leaves the queue waiting until somebody leaves.
- The destructor of MPSCQueue and its non-intrusive variant.
- MapUpdater with no worker (`MapUpdate.Threads = 0`), where everything runs in the world thread.
  Creation of base maps by other threads. The order of `_lock` and `_queueLock`, which is always the
  same: a worker holds the updater's lock when it pushes.
- SessionPackets: warden, time synchronisation, the content of packets, more than one session. The
  opcodes that share a status and a place and touch neither the player pointer nor a query are one.
- Trade: the reasons for not beginning a trade (dead, stunned, faction, distance) only make it not
  happen; stacks are not merged when an item is stored, so that an item never fits in part (Player.cpp:10103),
  and limited items are not stacks, so that the limits count items (line 9790); the casting of a traded spell is its check.
- DevTools and DBUpdater: archived files, rehashing, `Updates.Redundancy` off, creating and populating
  a database; the rows linked to a spawn and the check of "other users" of a waypoint path; spawn
  groups other than the default, spawns in a pool, which `Undo` leaves to the pool (DevToolsMgr.cpp:274),
  and spawn modes (line 279): one map with one grid, one mode. `.npc add` on a transport. Files dated
  after the server's day and a hundredth file of a day. The world database has its default of one
  worker, which executes the queue in order; that a transaction fails or its connection is lost is
  module Transactions. `RenameEntry`'s DELETE and UPDATE are one step: the row to delete is not there.
  `Updates.EnableDatabases` has to include the world database.
- NetworkThread, Companions, schedulers, the authserver, groups, loot, mail and auctions: in the plan.
- What a map update does, which is the game itself; entities, spells, scripts and the other rules are
  driven by data and out of reach as a whole.
- Logging, metrics, configuration, the consoles, the tools and the vendored libraries: I/O or not
  this project's code. Cryptography, collision and geometry: arithmetic.

`PROJECT.json` lists every component with its status and, for the hazards no property covers yet, why.

## Plan

In this order; each with an MC module, a run and, where marked *P*, proofs.

1. **DatabasePool**: single statements, synchronous connections, closing. Composes with
   SessionPackets' `QueryDone`.
2. **NetworkThreads** (*P*): acceptor, choice of the thread, connection counts, `AddNewSockets`, stop.
   Abstract specification: the counter of a thread is the number of its sockets.
3. **SessionLifetime**: WorldSocket and WorldSessions composed, for the session that the world thread
   deletes while a read handler uses it.
4. **Companions**: companion lists against deaths, logouts and map threads.
5. **Schedulers**: `EventProcessor`, `EventMap`, `TaskScheduler`: events that add and abort events.
6. **AuthSession**: the order of challenge, proof and realm list; SRP6 stays out.
7. The non-intrusive **MPSCQueue**; combat references, groups and loot, auctions, battleground queues.
