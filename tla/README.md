# KFrame in TLA+

KFrame is a C++ server framework (`src/Server`): a service is a process that loads plugins,
turns one main loop, and talks to other services over libuv connections.  This directory
models the parts every service stands on - the ring between threads, the timers, the
connections, the consistent hash, the way a process joins a cluster and the routes inside it -
and the two protocols above them that keep one player in several processes: login and the
saving of player data.  The modules are checked with TLC, and their safety properties proved with
TLAPS for every value of the constants.

    tlc -workers 2 -config MCKFQueue.cfg MCKFQueue      # one run; PROJECT.json lists all
    tlapm KFQueue_proofs.tla                            # the proofs of one module

## 1. Inventory

Everything a service does happens on its **main thread**, which calls `Run` of every plugin
each frame; each network engine has one **libuv thread** beside it.  The two share the queues
of `KFQueue`, some flags without a lock, and a few sets under a mutex.

| component (source under `src/Server`) | state | operations | hard behaviour | what makes it correct |
|---|---|---|---|---|
| `KFQueue` (`KFCommon/KFQueue.h`) | `_objects`, `_push_index`, `_pop_index` | `PushObject`, `PopObject`, `Front`/`PopRemove`, `Size` | two threads, no lock; full = empty index | nothing overwritten, lost, reordered; queued objects arrive |
| Sessions (`KFContrib/KFNetwork/KFNetSession`, `KFNetConnector`, `KFNetServices`) | send and receive queue, `_is_sending`, `_is_connected`, `_receive_buff`, `_send_session` | send, async wake-up, write callback, parse, `PopMessage`, disconnect | lost wake-up, split messages in a bounded queue, reconnection with old state | delivered = sent, in order; queued frames are written; complete messages are taken |
| Accepting side (`KFNetServerEngine`, `KFNetHandle`, `KFNetEvent`, `KFPlugin/KFTcpServer`) | `_trustee_handles`, `_kf_handles`, `_remove_trustees`, `_close_handles`, the event queue; in each handle `_session_id`, `_is_trustee`, `_is_shutdown` | accept, register, time out, close, disconnect, destroy | events stamped with an id that registration is changing | tables hold live handles; an event reaches its own connection; one close; broken connections are freed |
| Connecting side (`KFNetClient`, `KFNetClientEngine`, `KFPlugin/KFTcpClient`) | `_wait_clients`, `_kf_clients`, the retry timer, the send queue that outlives a connection | start, connect, retry, close, send | restart of an id that is still closing; what was queued without a connection arrives ahead of the next registration | a client that is wanted is connected again; late messages from a sender without an id leave no wrong entry behind |
| Timers (`KFPlugin/KFTimer`) | `_slot_timer_data`, `_now_slot`, `_kf_timer_data`, `_register_timer_data`; slot, rotation, count of each timer | add loop/limit/delay, remove, the frame | callbacks that register, late frames, wrap-around | linked iff registered; fires on schedule, and does fire |
| Consistent hash (`KFContrib/KFConHash`) | `_node_list`, `_virtual_list`, `_select_list` | add, remove, clear, find (with cache) | stale cache, colliding hash values, order of arrival | no dangling node, cache fresh, ring determined by nodes, little data moves |
| Cluster client (`KFPlugin/KFClusterClient`) | proxy, token, `_in_service`, timers | auth and token timers, acks, lost events | answers to old requests, repeated requests, closing connections | gets into service or keeps trying |
| Cluster master (`KFPlugin/KFClusterMaster`) | `_kf_proxy_list`, object lists, hashes | auth, update, lost proxy, object requests | ids cut to 32 bits, proxies that crash | one token per grant; lists and lets in whose id fits, and nobody else |
| Cluster proxy (`KFPlugin/KFClusterProxy`, `KFBattleProxy`) | `_kf_token_list`, `_kf_hash`, `_kf_dynamic_shard`, `_kf_object_count` | token, verify, expiry; shard found and lost, object added and removed, room created | expiry against a late client; messages handled after the loss of their sender | a token lets in once; routes lead to the shard that hosts |
| Cluster shard (`KFPlugin/KFClusterShard`, `KFBattleShard`) | `_proxy_client_list`, `_kf_room_list` | proxy found and lost, client found and lost, room created and removed | a client that changes proxies; crashes | a client is reached through its own proxy |
| Login (`KFPlugin/KFGate`, `KFLogin`, `KFWorld`, `KFPlayer`, `KFGame`) | the role and the sessions at a gate, the online list and the games at the world, the loads and the entity at a game | verify, kick, load, enter, leave, disconnect, log out | a second login while the first is under way, at another gate or game; sessions that end in between; games that crash | one player, one role, one entity, and each knows of the other |
| Data service (`KFPlugin/KFDataShard`) | `_kf_data_keeper`, redis | save, load, retry | a retry after a newer save; shards that stop; wide ids | the last save is what is loaded |
| Bus (`KFPlugin/KFBus`) | wanted connections | connect to what the master names, close the `KFNetClient` of a process that is unregistered | what waits in the queue of that client is given up | only that close, inside `ClusterRoutes` and `PlayerLogin` |

Everything else - entity data (`KFCore`), the Redis and MySQL wrappers, HTTP, FTP, Lua, Excel
configuration, deployment, and the game services built on the framework (chat, guild, match,
rank, mail, relation, route ...) - is listed in `PROJECT.json` with the reason it is not
modelled: input and output, generated code, or request handlers over a database with no
protocol of their own.

**How the parts interact.**  `KFQueue` carries frames and network events between the threads of
a session and of an engine.  A session tells its engine what happened by events; the engine
keeps its tables by them and calls the discover and lost functions of the modules above.
`KFClusterClient`, `KFClusterMaster`, `KFClusterProxy` and `KFClusterShard` are such modules:
they send messages through the TCP modules and repeat them by timers of `KFTimer`; the choice of
a proxy, a shard or a game is the consistent hash's.  A client's connection ends at a gate,
which hands its login to a login service, that to the world, and that to a game; the game loads
the player through the data service and answers the gate.  From then on gate and game keep a
pair of entries that point at each other, and the world keeps one at the game.

## 2. Modules

| module | models | composed with |
|---|---|---|
| `BoundedFifo` | what a bounded queue promises: append if there is room, take the oldest | abstract specification |
| `KFQueue` | the ring, each operation split at its reads and writes | implements `BoundedFifo` (`IsFifo`, refinement mapping `Contents`) |
| `NetSession` | one direction of a connection, four threads | its queues are the FIFOs of `BoundedFifo` |
| `NetHandle` | the accepting side, main and libuv thread of one engine | |
| `TimerWheel` | the timer module | |
| `ConHash` | the consistent hash | |
| `ClusterAuth` | cluster client, master and proxy: joining, losing and rejoining | timers and registration taken as single steps, see below |
| `ClusterRoutes` | proxies and shards of a cluster that is up: who routes what to whom | the hash is a choice function, which `ConHash` shows to depend on the shards alone |
| `PlayerLogin` | one player at gates, world and games | the same; the engine's delayed close of a session is `NetHandle`'s |
| `DataShard` | the data shards over one redis | |
| `..._proofs` | proofs for every value of the constants of the module named | extends it; `ClusterRoutes_proofs` also extends `ConHash` and holds its proofs |
| `MC...` | the constants of the runs | |

A definition that begins with a comment "Variant with a bug" is not part of any specification: it
is the mutated form of the definition after it, which `PROJECT.json` uses to show that a property
can fail.

### State and actions against the code

Variables carry the names of the fields they stand for (the comment beside each names the field),
actions the names of the functions.  `PROJECT.json` maps each to its lines.  What is abstracted:

* **KFQueue.**  An action is one access to shared memory.  Stores become visible in program order:
  the fields are `volatile` and the supported targets are x86.  Reference counting of the objects
  is left out.
* **NetSession.**  A frame is its kind, its message and its child number; on the wire it is two
  units so that a read may end inside one.  Sizes are abstracted: a batch is up to `BatchSize`
  frames, a message is split in `Children[m]` frames.  `senderIsClient` is chosen in `Init`: a
  `KFNetClient` lives on through `Break` and `Reconnect` with its queues, its buffer and its
  `_is_sending`; a `KFNetHandle` is a new object per connection.  After a misframed read only the
  mixed frame itself is followed.  `CloseSession` is not here but in `NetHandle`.  The write callback
  is two steps, `OnSendOK` which clears `_is_sending` and `StartSendMessage` which looks at the queue,
  and the main thread may push a frame and read the flag before, between and after them.  The flag is
  read without a lock or a fence: `sendingSeen` is what the main thread reads, and the `FALSE` of
  `OnSendOK` reaches it only at `StoreReachesMain`, which may come after the look at the queue, as a
  store buffer of the x86 lets it.  `RunSendPing`, which queues a ping after 20 seconds without
  traffic, is left out: it would end a lost wake-up without undoing it.
* **NetHandle.**  Registration and the event-posting callbacks are split where one thread writes
  `_session_id` and `_is_trustee` and the other reads them; the three parts of `RunEngine` between
  the events and the messages are one step, since the libuv thread shares nothing with them that
  could tell.  `UvIdle` says that libuv runs one callback at a time.  The event queue is unbounded.
  `quiet`, `late` and `stray` are history variables; each names a case the code treats differently,
  and the properties say so instead of leaving the case out.
* **TimerWheel.**  Time is counted in ticks of `SlotTime`.  A slot's list is a set: callbacks of
  one slot run in any order.  So is `_register_timer_data`: a key is always registered the same
  way and a later registration of it replaces an earlier, so neither order nor repetition of the
  waiting registrations can be told afterwards.  A callback may register any timer; no callback in the repository
  removes one, so `Fire` does not either.  Registering is possible at any time between frames.
  A timer is named by module and object id; the object id 0 stands for all objects of the module
  in `RemoveRegisterData` and for itself in `RemoveTimerData`, as in the code.
* **ConHash.**  The hash function is a pair of constants.  `AddHashNode` and `RemoveHashNode` are
  by hash value, so nodes whose virtual nodes collide are treated as the maps treat them.
* **ClusterAuth.**  App ids are numbers; `Low` is what a `uint32` keeps.  An id is a `uint64`,
  `channel.type.zone.worker` of 16 bits each (`进程AppID说明.md`), and is cut at
  `KFClusterMasterModule.cpp:62`, at `KFClusterProxyModule.cpp:269` and in `HandleClusterVerifyReq`.
  So with documented ids the master lists no proxy and no client is let in.  The instance has ids on
  both sides of the cut: the cluster's fit, one client's does and one client's is the other's when it
  is cut.  Connecting and registering is one step; `HashProxyServer` is any choice among the listed
  proxies; the key is right; timers start and stop at once (the waiting list is `TimerWheel`'s).
  `Connect` waits until no connection of the process is closing: a close takes one turn of the libuv
  loop, making a connection several.  A message queued on a connection that is not connected waits in
  that connection's own queue (`unsent`): it goes with a connection that is closed, and when the
  connection is made it is sent before the registration, from sender 0, as the session id is not
  known yet.  `Break` loses any suffix of what is under way, and after it the connection writes
  again: the one whose write in flight was lost and whose `_is_sending` stays set for good is
  `NetSession`'s.  A timer may fire while its last request is unanswered; these repeats are bounded
  (`MaxRepeats`) and are otherwise like any request.  A proxy reports to the master once it has been
  connected to a shard (`inService`).  A client that was handed a proxy which has died keeps its
  connection to it waiting until that proxy runs again: nothing in the code ends the wait.
* **ClusterRoutes.**  The cluster starts up and connected, with nothing hosted; a break or a crash
  brings the connecting back.  A connection keeps its order.  When it breaks, the shard gets some of
  what was sent and handles the loss - as `RunEngine` handles events before messages - *before* a
  part of that; of the rest a part is gone and what the proxy had not written stays in the send
  queue of its `KFNetClient` (`unsent`).  That queue takes every message for the shard, connected or
  not, and the next connection writes it before the registration; `stray` marks what the shard
  receives before it has handled the registration, whose sender is then `Stranger`, the number of a
  handle nobody is registered by.  Even a registration may wait there.  A proxy that was told by the
  master that the shard is gone has a new `KFNetClient` when the next one starts (`Start`).  Objects
  are battle rooms; guilds and groups use the same tables.  `seen` and `crossed` follow, per shard
  and client, the newest message that was handled and whether an older one came after it; `loose`
  the clients whose entry a sender made that was not registered; `twice` collects rooms created at
  one shard while another has them or is about to say so; `ghosts` and `late` the routes and shards
  a proxy enters when the connection they belong to is gone.

  Not in it: the capacity of the send queue, which refuses messages when it is full; a registration
  that is refused because the old handle is still listed (a `KFNetClient` retries after five seconds,
  when it has gone) and one handled after its own connection was closed, which are `NetHandle`'s; a
  connection that is mute after a break in the middle of a write, which is `NetSession`'s; and that
  `KFBus` may close a `KFNetClient` on the master's word before its loss was reported, in which case
  nobody calls the lost functions and the proxy keeps the shard in its hash (`KFBusModule.cpp:116`).
* **PlayerLogin.**  One player; a session is one client connection from its first verified login
  to its end, used at one gate.  The connections between servers keep their order and are queues
  (`toGame`, `toWorld`, `toGate`, `toHost`); login and verification, which hold no tables of the
  player, are the set `verifying`.  The load from the data service succeeds or fails and takes any
  time; when no data process can be asked it is only logged, and the session is `unasked`.  `Close`
  is the engine's delayed close, so a session that is being closed still sends and receives.
  Connections between the world and a game may break, and games may crash and start again.  `conn`
  says which games have a connection, `ring` whom the world has registered, `linked` which games know
  the world: the three change one after the other.  A game is a `KFNetClient` of the world and a gate
  one of the game, so what they had not written at a break or a crash, and what they queue while
  there is no connection, is written ahead of the next registration (`unsent`, and `toHost` of a game
  that does not run): an entry the world makes from it is `Stranger`'s.  `fate` records, for each
  session, the first event that by the code's own rules separates its role from its entity (logged
  out, role displaced, entity replaced, evicted by an older session, session gone before the answer,
  game crashed); `blind` the games whose entry at the world a message of another game overwrote;
  `missed` those whose entity went without the world being told, or with the message lost.

  Not in it: the capacity of the send queues; a break between a gate and a game that both keep
  running; faults of the login and data processes other than the request that cannot be sent; and,
  as above, mute connections and registrations while the old handle is listed.
* **DataShard.**  A save is its player and its number.  Redis answers or does not, and a write that
  is reported as failed may have been done (`written` without `ok`).  Any shard may get any request,
  since the proxy's hash changes as shards come and go.  Ids are numbers and `Cut` is what the 32-bit
  `_player_id` of a kept save retains.  `last` is the save handled last and where, `spoiled` the
  players whose last save a stop of that shard, or an older save kept by another, undid.

## 3. Runs

*Violation* runs check one statement of the repository's docs or comments which the code does not
keep; each has an entry under `findings`.  A hazard whose outcome no document rules out is not a
violation run: the property of the passing run names it as its exception, so that the run shows
everything else to be right and the mutants show that the exception is not the whole.

| run | question | bounds, and why they are enough |
|---|---|---|
| `KFQueue` | can the unlocked ring lose, overwrite or reorder? | 3 slots, 2 objects: the ring wraps, fills and empties in each position |
| `ConHash` | dangling nodes, stale cache, order of arrival, movement of data | 3 nodes of 2 virtual nodes, one value shared; data before, on, between and after them |
| `NetSession` | is what is delivered what was sent? is a wake-up lost between the write callback and the main thread? | a message of 2 children, a single one, one of 4 (more than the queue of 4 takes), batches of 2, one break, both directions |
| `NetHandle` | tables, events, closing, freeing | 2 connections of one app, 1 failing write: the second connection meets every stage of the first |
| `NetHandleValid` *(violation)* | are the listed connections always valid? | 1 connection |
| `TimerWheel` | exact schedule, linking, firing | wheel of 3, intervals 2, 3 and 7 (below, equal to and over two turns), 1 or 2 ticks a frame |
| `TimerEarly` *(violation)* | does a timer wait its interval? | one delay timer of 4 ticks on a wheel of 3 |
| `ClusterAuth` | can a token be used twice? is a client that is out of service on its way back? who gets in? | ids 1 and 9 at a width of 8, 1 proxy, the master, 2 tokens, 2 messages per direction, 1 failure, 2 repeats: one client's answers go to the other, a request is repeated before and after its answer left, and every failure meets every stage |
| `ClusterRoutes` | do the tables of proxies and shards agree when all is delivered? | 2 proxies, 2 shards, 1 client, 1 room, 3 requests or moves, 1 fault: a client must come, go and come elsewhere for messages of two proxies to cross (three moves), a room must be asked for twice to be created twice, and after one fault both ends reconnect in every order, with what was queued meanwhile ahead of the registration |
| `PlayerLogin` | do gate, world and game agree on a player at rest? | 2 sessions at 2 gates, which are alike, 2 games, the preferred one of which may start late, 1 fault: the second login meets every stage of the first, at the same or another gate and game |
| `PlayerLogout` *(violation)* | does a logout take the player out of the game? | 2 sessions, 1 gate, 1 game, no fault |
| `DataShard` | is the last save what is loaded? does a retry go back? | 2 shards, players 1, 2 and 6 with a cut at 4 (6 falls on 2), 4 saves, 1 stop: two saves at each shard, failed or not, in any order |

`CHECK_DEADLOCK FALSE` stands where the system may come to rest: everything sent and nothing else
asked for (`NetSession`, `ClusterRoutes`, `PlayerLogin`, `PlayerLogout`, `DataShard`), every
connection closed (`NetHandleValid`), or nothing under way and the failures and repeats used up
(`ClusterAuth`).

**What they show.**  The ring is a bounded FIFO although neither side locks it.  The flags
`_is_sending` and `_is_connected`, also unlocked, lose no wake-up while a connection lasts, whatever
order the main thread's push and check and the libuv thread's clearing of the flag and look at the
queue take: `QueueDrains` holds, and fails when the code looks first and clears afterwards.  Split
messages come out whole and in order unless a queue overflowed or a client received half a frame
from a broken connection.  On the accepting side every event reaches the connection it is about; a
broken connection is destroyed except in two named cases (an event posted before its trustee was
listed, and one registered after it was closed).  A timer follows the wheel's arithmetic exactly,
late frames and re-registration included - arithmetic that fires early for intervals longer than a
turn.  A token admits once; a client out of service is on its way back whatever is delayed, repeated
or lost, but for a start that is refused; and nobody whose id does not fit 32 bits gets in.  Proxies
and shards agree at rest through moves, losses, crashes and what was queued meanwhile, the named
crossings excepted.  A role never outlives its session, however logins, kicks, closes and crashes
interleave; role and entity point at each other at rest unless the session's fate says why not;
every login is answered while nothing fails, except one whose load could not be asked for.  A shard
loads the last save it handled, and retries do not take redis back as long as no second shard keeps
a save.

**What they found.**  As violations: a handle can be destroyed while it is still listed
(`NetHandleValid`); timers longer than a turn of the wheel fire a turn early (`TimerEarly`); the
game has no handler for the logout the gate sends it, so the player stays there
(`PlayerLogout`).  As exceptions the properties name:

* a receive queue that fills with a complete split message is never read again, since a full ring
  reports size 0 (`KFQueue.h:56`; `CompleteIsTaken`);
* the store that ends a write may stay in the processor's store buffer while the libuv thread looks
  at the queue and finds it empty: a frame pushed meanwhile waits for the next one or for a ping
  (`KFNetSession.cpp:106`; `hidden` in `QueueDrains`);
* a client whose connection breaks during a write never writes again after it reconnects, as
  `_is_sending` survives (`KFNetSession.cpp:297`; `QueueDrains`);
* a process that is restarted towards an id whose connection is still closing is refused, and after
  one failure can rest unconnected (`KFNetClientEngine.cpp:136`; `refused` in `KeepsJoining`);
* 64-bit app ids are cut to 32 bits by master and proxies, so answers go astray and with the ids the
  documentation prescribes nobody joins (`OnlyNarrowIdsJoin`, a theorem for every width);
* what a process queues for a server it is not connected to arrives later, ahead of the registration:
  the shard or the world then notes as the sender a number that belongs to nobody (`loose`,
  `Stranger`), and a room may be created by a request that is long out of date;
* a load that cannot be asked for leaves the session open and unanswered (`KFPlayerModule.cpp:268`;
  `unasked` in `AnsweredAtRest`);
* a proxy handles what it received from a shard after the loss of it, and lists the dead shard
  again until its successor is lost (`late`, `ghosts`);
* an older session's end evicts the player of a newer login, because gate and game look the role
  and the entity up by player alone (fate `evicted`);
* a save kept for a player whose id is wider than 32 bits is retried under another player's key and
  then dropped (`KFDataShardModule.h:38`; `Fits` in `SaveIsKept`).

**Fairness.**  Weak fairness of each thread's steps: the main loop and `uv_run` never stop, and
both are loops over all that is ready.  In `TimerWheel` strong fairness of `TimePasses`: the clock
advances, and a frame that sees it advance comes again and again.  In `NetSession` a connection that
can be made is made (`KFNetClient` retries every five seconds), written bytes arrive, and a store
leaves the store buffer in the end.  Nothing is assumed of the upper layers, of failures or of
restarts: they may happen or not.  `ClusterAuth`, `ClusterRoutes`, `PlayerLogin` and `DataShard`
assume no fairness: what must come about is stated of the states in which nothing is under way any
more, or, in `KeepsJoining`, as the step that is still to come.

## 4. Proofs

| theorem | says | for |
|---|---|---|
| `RingSafe` | `Spec => [](TypeOK /\ NoHoles /\ NoOverwrite /\ TakenIsHead)` | every ring size and set of objects |
| `QueueTypes` | `Spec => []TypeOK` | the same |
| `QueueIsFifo` | `Spec => Fifo!Spec`: the ring implements `BoundedFifo` | the same |
| `HandlesAreSafe` | `Spec => [](TypeOK /\ ValidUnlessLate /\ EventHitsOwnHandle /\ ClosedOnce /\ UpperIsBacked)` | any number of connections, apps and failing writes, every interleaving of the two threads |
| `HandleTypes`, `HandlesAreLive`, `ClosesOnce`, `UpperSeesHandles` | its parts `TypeOK`, `ValidUnlessLate`, `ClosedOnce`, `UpperIsBacked`, each by itself | the same |
| `WheelIsSound` | `Spec => [](TypeOK /\ LinkedIsLive /\ ExactSchedule)` | every number of slots, timers, intervals, and any lateness of frames |
| `WheelTypes`, `LinkedAreLive` | its parts `TypeOK` and `LinkedIsLive` | the same |
| `HashTypes` | `HashSpec => []HashTypeOK` | every set of nodes and hash function |
| `RingIsBacked` | `HashSpec => []VirtualBacked`, with the types | the same |
| `CacheFresh` | `HashSpec => []CacheIsFresh` | the same |
| `RingDetermined` | `HashSpec => []RingIsNodes` | the same |
| `DataMovesLittle` | `HashSpec => MovesLittle` | the same |
| `RouteTables` | `Spec => []TypeOK`, what each kind of message may be about included | any number of proxies, shards, clients, objects, requests, losses and crashes |
| `TablesAgree` | `Spec => []ShardsAgree` | the same |
| `RoutesAreRight` | `Spec => []RoutesAgree` | the same |
| `ClusterTyped` | `Spec => []TypeOK`, the bounds of the queues included | any number of clients and proxies, any losses and crashes |
| `ClientsKeepJoining` | `Spec => []KeepsJoining` | the same, and any ids and repeats |
| `OnlyNarrowIds` | `Spec => []OnlyNarrowIdsJoin` | the same, and any width |
| `TokenAdmitsOnce` | `Spec => []TokenOnce` | the same |
| `SessionIsInOrder` | `Spec => [](TypeOK /\ OriginalUnlessOverflow /\ InOrder)` | any messages, sizes of queues and batches, reads and losses |
| `SessionTypes`, `PartsAreOriginal` | its parts `TypeOK` and `OriginalUnlessOverflow` | the same |
| `RolesAreBound` | `Spec => [](TypeOK /\ RoleIsBound)` | any number of gates, games, sessions and failures |
| `LoginTypes` | `Spec => []TypeOK` | the same |
| `RolesAreEntities` | `Spec => []RoleIsEntity` | the same |
| `LoginsAreAnswered` | `Spec => []AnsweredAtRest` | the same |
| `DataTypes`, `SaveSafe` | `Spec => []TypeOK`, `Spec => []SaveIsKept` | any number of shards, players, saves and stops, any width of ids |
| `RetryGoesForward` | `Spec => NeverGoesBack` | the same |

**KFQueue.**  The invariant is about `First` and `End`, the logical ends of the queue: a push
counts from the store of its slot and a pop from its clearing, so an index that has not been
advanced yet is one behind.  `NoHoles` - going round from `First`, exactly the first `Held` slots
are occupied - is inductive together with `TypeOK`, `NoOverwrite` (between check and store only
the consumer moves, and it only empties slots) and `TakenIsHead` (between take and clear the
producer only touches empty slots).  From it a store appends to `Contents`, a clearing takes its
head, and every other step leaves `Contents` alone, which is the refinement.

**NetHandle.**  None of the five invariants is inductive, since each depends on what an event still
in the queue, or half posted, will do.  `IInv` says it of the queue.  `Ids`: an id in a handle or
an event is the connection's own or its app's, and a trustee has its own.  `Order`: of a
connection's events the connect event is the first and the shut event the last.  `Registered`: a
connection that has its app's id is the one listed for the app, or *finished* - closed, with
nothing about it in the queue or about to be.  That is why an event with an app's id hits its own
handle: the connection it comes from is not finished.  `Trusted` says that a trustee which was
registered or destroyed leaves its table before the next messages are run, `Closing` that what is
asked to close was shut down just now and what is destroyed is closed, `Lateness` that a trustee's
shut event destroys a registered handle only if it registered after its close, and `Told` that a
handle shut down and still listed either was lost to the modules above or closed quietly.

**NetSession.**  The proof looks at all frames between the two upper layers as one line, the oldest
first, each counted twice, as header and body: the receive queue, the units left over and on the
wire, the send queue and the frames not queued yet.  Writing and reading leave the line as it is
(`WriteStep`, `OnRecvDataStep`); a full queue, a broken connection and the discarding of heads and
children cut a piece out of it; delivery takes its front, sending adds to its end.  `Ordered` - no
frame has one of a later message before it, and starts a message later than all before it - survives
any cut, and gives `InOrder`.  `Whole`, that headers and bodies are of one frame and a head is
followed by all the children it announces, survives while `Sound` does: no frame was refused, and
the accepting end receives or the connection lasted.  With it `PopMessage` assembles what was sent
(`OriginalUnlessOverflow`).  While the connection is lost, `Whole` holds of the two parts of the
line, what was received and what waits to be sent.

**TimerWheel.**  `LinkedIsLive` and `ExactSchedule` are inductive with `TypeOK` and `DoneIsLive` (only
registered timers are called back, and only while the wheel is updated).  Lemma `Linking` says what
`AddSlotTimer` does to a wheel from which the timer has been unlinked; its arithmetic is lemma
`Scheduled`: the ticks to the hand's first visit and the turns after it add up to `Effective`, for
every interval and every position of the hand.  `RunSlotTimerStep` then shows that one tick makes
every timer one older and one nearer.  `EffectiveBounds` says how far `Effective` is from the
interval: at most a turn either way, and less only for intervals longer than a turn, which is what
the run `TimerEarly` shows on an instance.

**ConHash.**  `HashTypeOK /\ VirtualBacked` is inductive.  `RingIsNodes` needs it: that a removed key
pointed to a listed node.  `CacheIsFresh` holds because every change of the ring clears the cache.
`MovesLittle` rests on one lemma: the successor of a hash value in a ring is its successor in any
smaller ring that still contains it.  That a set of hash values has a least one, as the ordered maps
of the code have a first key, is lemma `LeastExists`: induction is out of reach, but the lower bounds
of a set without a least member would be a finite set that adding one maps into itself, missing zero.

**ClusterAuth.**  `TokenOnce` is not inductive: two proxies might be offered the same token.
`OneOffer` - a token is in one list or in one message, once - makes it so: `MakeAuthToken` gives a
token that is in use nowhere (`FreshIsNew`), a request moves it from the message to the list,
and `ClusterVerifyLogin` takes it off the list in the step that accepts it.  Losses, expiry and
crashes only take offers away.

`KeepsJoining` is inductive with the types alone: no step takes the last of a client's reasons away
without leaving another.  An acknowledgement that is read starts a timer, an answer that stops a
timer puts the client in service or starts it again at the master, and a start leaves a connection
that waits, or is refused, which is the exception.  Nothing is assumed of the ids: whatever answer
arrives, from whomever and for whomever, the client handles it like its own.  `OnlyNarrowIds` adds
`NarrowGates`: what a token is for, and what the master is told an update by, went through 32 bits;
so a client whose own id is wider is never the one a token is for.  `ClusterTyped` carries the bounds
of the queues: a request that waits and one on its way share one place (`Room`).

**PlayerLogin.**  `RoleIsBound` speaks of closes that have no message behind them, so the question
is when an answer binds a role to a session that is about to be closed.  `Staged` and `NoneTwice`
answer it: a login is in one place at a time - being verified, in a token to a game, loading at
that game, in the game's answer, or over - and in that place once.  A close of a session that has
no role comes from the end of its own login (lemma `Alone`), so no answer for it is left; every
other close takes the role with it (`RoleCloses`).  Lemmas `Keeps` and `Moves` say what
each step does to the places, so that the proof of an action only names which login it moves.

`RoleIsEntity` speaks of rest; `JInv` says the same of any moment.  A role and the entity it stands
for, with no event between them (`fate` is `"none"`), belong together (`Paired`): a role has its
entity or a kick under way to it; an entity has its role, or the answer that makes it one is under
way, or the end of its session is; and where there is no entity, every answer for the session is
followed by the kick that undoes it.  It needs `Lone`, that a session has at most one entity, at its
own gate; `KickedOut` and `Ended`, that a session which is kicked or has ended never gets an entity
again; and `Down`, that a game that does not run has none.  They rest on the places of `Staged`: a
login is *fresh* until its entity is made and never again after.

`AnsweredAtRest` follows from `Unfailed`: until something fails, the games the world has registered are
connected and run (`Live`), so what it sends arrives, and an open session's login is in one of the
places, its session is about to be closed or its load could not be asked for (`Tracked`).

**ClusterRoutes.**  Its properties speak of rest, when nothing is under way, so none of them is
inductive: what makes up for a wrong entry is in a queue, or will be.  The invariant says what.

* *Lines.*  What a proxy has sent a shard and the shard has not handled is a line in which
  registrations and losses alternate, beginning with a registration where the proxy is not known,
  and the shard will know the proxy, once it has handled the line, just if the connection is there
  (`OnLine`).  What waits for a connection has at most one registration and no loss (`Fresh`), so that
  writing it out puts a line behind a line (`JoinLine`).  A shard that does not run knows nothing and
  is sent nothing (`Dead`).  Lemma `NextMoves` reduces every step to five things that can happen to a
  line - it stays, grows at a connection, is joined by what waited, is cut and ended by a loss, or
  loses its first message - and to four that can happen to what waits.
* *Hash and counts.*  A proxy is *linked* to a shard when it is connected and its registration was
  handled.  What a shard that is not linked has on its way is from before a loss (`Old`); one that is
  linked is in the hash and the counts or the messages that enter it are on their way, one without
  a connection is in them only if `late` says so (`Tables`).  At rest every connected shard is
  linked, hence `ShardsAgree`.
* *Rooms.*  Of a room not in `twice` one shard speaks (`Single`).  A room at a linked shard is routed
  there or the announcement is the last on its way (`Routed`); a route without a connection is in
  `ghosts` (`Haunted`); any other leads to a shard that has the room, will create it or has taken it
  back (`Served`); and an announcement made on this connection is of a room that is there or is
  taken back after it (`Honest`).

TLC checked the conjunction on the constants of the run before it was proved.  `moves[c] <= work` was
added to `TypeOK`, which was not inductive without it, and its messages tell by type what they may be
about.

**DataShard.**  `KeptIsLast` carries the induction: a save that is kept belongs to a saved player, is
no later than the last save, and is the last one at the shard that handled that.
`RewrittenOwn` says that under an id that fits no other player's save is written.

The assumptions are the `ASSUME`s of the modules, which TLC evaluates in every run:
`QueueAssumption` (at least one slot; the null pointer is no object), `NetAssumption` (types; at least
one slot), `HandleAssumption` (types;
trustee ids are no app ids), `WheelAssumption` and `AuthAssumption` (types; at least one slot; the
32-bit cut is a modulus), `HashAssumption` (types; a node has a virtual node), `LoginAssumption` (types; the hash picks one of the games it
is given; the mark for "nothing" is no gate, game or pair of them, and a stranger no game), `DataAssumption` (types) and
`RoutesAssumption` (types; the hash picks one of the shards it is given; the mark for "nothing" is no
proxy, shard or stranger).

Only model-checked: liveness (`HeadMoves`, `QueueDrains`, `CompleteIsTaken`, `BrokenIsFreed`,
`EventuallyFires`), since neither fairness nor `ENABLED` can be proved about here, and two invariants
whose inductive strengthening has to say what every queued message will do to the entry it meets:
`OnlineIsEntity` of `PlayerLogin` and `ClientsListed` of `ClusterRoutes`.  Every other invariant and
action property of the passing runs is a theorem.

## 5. Not modelled

* **Bytes and storage**: buffer sizes (`KFNetConnector.cpp:95` and `KFNetServices.cpp:198` are
  sequential), the 10000-entry bound of the event queue, compression and encryption of messages,
  memory pools, configuration, logging.
* **Static allocation of objects** through the master (`KFClusterMasterModule.cpp:131`): the master
  keeps the objects of a shard that is gone and goes on allocating to it; nothing takes them back.
* **Bus**: evaluates a configured relation and connects, or closes the connection to a process the
  master unregisters; its state is the clients of `KFNetClientEngine`.  Of it `ClusterRoutes` and
  `PlayerLogin` have that a queue is given up.  The 32-bit ids there are those of `ClusterAuth`.
* **Entity data, item, task and other player components**: sequential, driven by configuration.
* **Guild, group, match, rank, mail, relation, chat, log, deployment**: users of the routing in
  `ClusterRoutes` or of the databases, with rules of their game only.
* **The battle itself**: what happens in a room after it is created.
* **Third-party and generated code** (protobuf, libuv, hiredis, MySQL, libiconv, the `.pb` files),
  which is most of the repository's lines.

Hazards without a property have a note in `PROJECT.json`.

## 6. Plan

Done, in this order: `BoundedFifo`, `KFQueue` and its proofs; `NetSession`; `NetHandle`;
`TimerWheel`, `ClusterAuth` and `ConHash`, each with its proofs; `PlayerLogin`, `DataShard` and
their proofs; `ClusterRoutes`; the proofs of `NetHandle` and of `NetSession`; the rest of the
invariants of `ClusterAuth` and `PlayerLogin`; the proofs of `ClusterRoutes`.

What would come next:

1. The proofs of `ClientsListed` and `OnlineIsEntity`: what a proxy or a game told last is on its way
   or handled, message by message, strays included.
2. The static allocation of objects, composed with `ClusterRoutes`; abstract specification: an
   object id is served by one shard at a time.
3. `ClusterRoutes` with `HashSpec` in place of the choice function `ShardFor`, so that
   `RingDetermined` carries over to what two proxies choose.
4. `DataShard` behind `PlayerLogin`: a player who changes the game while the save of the old one
   is on its way.
