--------------------------- MODULE ClusterRoutes ---------------------------
(***************************************************************************)
(* What the proxies and the shards of a cluster know of each other.  A     *)
(* proxy connects to every shard, keeps those that answered in its hash    *)
(* and a map of the objects (battle rooms) they host; a shard keeps a map  *)
(* of the clients at the proxies.  Either map is kept by messages alone.   *)
(*                                                                         *)
(* A connection keeps its order.  What a proxy has not written when it     *)
(* breaks stays in the queue of its KFNetClient, which takes more while    *)
(* there is no connection, and goes out ahead of the registration of the   *)
(* next one: its sender is then a number the shard knows nobody by.  Either *)
(* end handles a loss before what was still in its receive queue.          *)
(***************************************************************************)
EXTENDS Naturals, Sequences

CONSTANTS
    Proxies, Shards, Clients, Objects,
    ShardFor,   \* the shard the consistent hash picks among a set of shards
    MaxWork,    \* bound: clients that come or go and requests to create a room
    MaxFaults,  \* bound: connections that break and shards that crash
    None, Stranger  \* Stranger: the number of a handle before its registration

ASSUME RoutesAssumption ==
    /\ MaxWork \in Nat /\ MaxFaults \in Nat
    /\ None \notin Proxies \cup Shards \cup {Stranger}
    /\ \A some \in (SUBSET Shards) \ {{}} : ShardFor[some] \in some

VARIABLES
    \* proxies
    at,       \* client -> the proxy it is registered at, or None
    conn,     \* proxy -> shards it has a connection to
    ring,     \* _kf_hash: proxy -> shards
    dynamic,  \* _kf_dynamic_shard: proxy -> object -> shard or None
    counted,  \* proxy -> keys of _kf_object_count, what FindMinObjectShard picks from
    \* shards
    alive,
    known,    \* _kf_handles: shard -> proxies
    listed,   \* _proxy_client_list: shard -> client -> proxy, Stranger or None
    hosted,   \* _kf_room_list: shard -> objects
    \* connections
    toShard,  \* proxy -> shard -> messages, from the send queue to the receive queue
    unsent,   \* proxy -> shard -> messages queued without a connection
    toProxy,  \* shard -> proxy -> messages
    \* bounds and history
    moves,    \* client -> how often it came or went
    work, faults,
    seen,     \* shard -> client -> the latest move a handled message told
    crossed,  \* shard -> clients whose last handled message was overtaken
    loose,    \* shard -> clients last told of by a proxy it did not have registered
    twice,    \* objects created at a shard while another one's are about
    ghosts,   \* proxy -> routes nobody will take back: made without a connection
    late      \* proxy -> shards entered in the tables after their loss

proxyVars == << at, conn, ring, dynamic, counted >>
shardVars == << alive, known, listed, hosted >>
bounds    == << moves, work, faults >>
history   == << seen, crossed, loose, twice, ghosts, late >>
vars == << proxyVars, shardVars, toShard, unsent, toProxy, bounds, history >>

\* The cluster is up: every proxy is registered at every shard, nothing is
\* hosted.  A break or a crash brings the connecting back.
Init ==
    /\ at = [c \in Clients |-> None]
    /\ conn = [x \in Proxies |-> Shards] /\ ring = [x \in Proxies |-> Shards]
    /\ dynamic = [x \in Proxies |-> [o \in Objects |-> None]]
    /\ counted = [x \in Proxies |-> Shards]
    /\ alive = [s \in Shards |-> TRUE]
    /\ known = [s \in Shards |-> Proxies]
    /\ listed = [s \in Shards |-> [c \in Clients |-> None]]
    /\ hosted = [s \in Shards |-> {}]
    /\ toShard = [x \in Proxies |-> [s \in Shards |-> << >>]]
    /\ unsent = [x \in Proxies |-> [s \in Shards |-> << >>]]
    /\ toProxy = [s \in Shards |-> [x \in Proxies |-> << >>]]
    /\ moves = [c \in Clients |-> 0]
    /\ work = 0 /\ faults = 0
    /\ seen = [s \in Shards |-> [c \in Clients |-> 0]]
    /\ crossed = [s \in Shards |-> {}] /\ loose = [s \in Shards |-> {}]
    /\ twice = {}
    /\ ghosts = [x \in Proxies |-> {}] /\ late = [x \in Proxies |-> {}]

\* Messages; stray says that the shard received it before the registration, told
\* is history: the moves of the clients when it was sent, old says that its
\* connection broke before it was handled.
ToShard(type, what) == [type |-> type, what |-> what, stray |-> FALSE, told |-> moves]
ToProxy(type, what) == [type |-> type, what |-> what, old |-> FALSE]

\* The KFNetClient queues what it is given, connected or not.
Deliver(x, s, m) ==
    IF s \in conn[x]
    THEN toShard' = [toShard EXCEPT ![x][s] = Append(@, m)] /\ UNCHANGED unsent
    ELSE unsent' = [unsent EXCEPT ![x][s] = Append(@, m)] /\ UNCHANGED toShard

\* SendMessageToType: to every KFNetClient of the type, whatever its connection.
DeliverAll(x, m) ==
    /\ toShard' = [toShard EXCEPT ![x] =
          [s \in Shards |-> IF s \in conn[x] THEN Append(@[s], m) ELSE @[s]]]
    /\ unsent' = [unsent EXCEPT ![x] =
          [s \in Shards |-> IF s \in conn[x] THEN @[s] ELSE Append(@[s], m)]]

Lost == ToShard("lost", {})
Broken(x, s) == \E i \in DOMAIN toShard[x][s] : toShard[x][s][i].type = "lost"

\* SendToProxy: to every registered proxy whose connection is still there.
Broadcast(s, m) ==
    toProxy' = [toProxy EXCEPT ![s] =
        [x \in Proxies |-> IF x \in known[s] /\ ~Broken(x, s) THEN Append(@[x], m) ELSE @[x]]]

ShardGets(x, s, type) == alive[s] /\ toShard[x][s] # << >> /\ Head(toShard[x][s]).type = type
ProxyGets(s, x, type) == toProxy[s][x] # << >> /\ Head(toProxy[s][x]).type = type
ShardTook(x, s) == toShard' = [toShard EXCEPT ![x][s] = Tail(@)]
ProxyTook(s, x) == toProxy' = [toProxy EXCEPT ![s][x] = Tail(@)]

-----------------------------------------------------------------------------
(* Proxy.                                                                  *)

\* OnServerDiscoverClient.
ClientDiscover(c, x) ==
    /\ at[c] = None /\ work < MaxWork
    /\ at' = [at EXCEPT ![c] = x]
    /\ work' = work + 1 /\ moves' = [moves EXCEPT ![c] = @ + 1]
    /\ DeliverAll(x, [ToShard("discover", {c}) EXCEPT !.told = moves'])
    /\ UNCHANGED << conn, ring, dynamic, counted, shardVars, toProxy, faults, history >>

\* OnServerLostClient.
ClientLost(c) ==
    /\ at[c] # None /\ work < MaxWork
    /\ at' = [at EXCEPT ![c] = None]
    /\ work' = work + 1 /\ moves' = [moves EXCEPT ![c] = @ + 1]
    /\ DeliverAll(at[c], [ToShard("gone", {c}) EXCEPT !.told = moves'])
    /\ UNCHANGED << conn, ring, dynamic, counted, shardVars, toProxy, faults, history >>

\* The connection is there: what waited is written, up to the registration, which
\* may itself have waited, from a sender the shard does not know.
\* OnClientConnected registers the proxy; a second registration is refused.
Strays(q, n) == [i \in 1 .. Len(q) |-> [q[i] EXCEPT !.stray = @ \/ i <= n]]
Registers(q) == {i \in 1 .. Len(q) : q[i].type = "register"}
Connect(x, s) ==
    LET waiting == IF Registers(unsent[x][s]) = {}
                   THEN Append(unsent[x][s], ToShard("register", {})) ELSE unsent[x][s] IN
    /\ s \notin conn[x] /\ alive[s]
    /\ conn' = [conn EXCEPT ![x] = @ \cup {s}]
    /\ \E n \in Registers(waiting) :
          toShard' = [toShard EXCEPT ![x][s] = @ \o Strays(waiting, n)]
    /\ unsent' = [unsent EXCEPT ![x][s] = << >>]
    /\ UNCHANGED << at, ring, dynamic, counted, shardVars, toProxy, bounds, history >>

\* OnClientConnectionClusterShard, on the answer to the registration.
OnClientConnectionClusterShard(x, s) ==
    /\ ProxyGets(s, x, "ack") /\ ProxyTook(s, x)
    /\ ring' = [ring EXCEPT ![x] = @ \cup {s}]
    /\ Deliver(x, s, ToShard("discover", {c \in Clients : at[c] = x}))
    /\ late' = [late EXCEPT ![x] = IF Head(toProxy[s][x]).old THEN @ \cup {s} ELSE @]
    /\ UNCHANGED << at, conn, dynamic, counted, shardVars, bounds, seen, crossed, loose, twice,
                    ghosts >>

Forget(routes, s) == [o \in Objects |-> IF routes[o] = s THEN None ELSE routes[o]]

\* What a break leaves of a line: the shard gets a part of it, and handles the loss
\* before a part of that; the proxy keeps what it had not written.
Clear(q, i, j, types) == \A k \in i + 1 .. j : q[k].type \notin types
Break(x, s) ==
    LET q == toShard[x][s] IN
    \E told \in 0 .. Len(q) : \E got \in told .. Len(q) : \E kept \in got .. Len(q) :
       /\ Clear(q, told, got, {"register"}) /\ Clear(q, told, Len(q), {"lost"})
       /\ toShard' = [toShard EXCEPT ![x][s] =
             IF alive[s] THEN Append(SubSeq(q, 1, told), Lost) \o SubSeq(q, told + 1, got)
                         ELSE << >>]
       /\ unsent' = [unsent EXCEPT ![x][s] = SubSeq(q, kept + 1, Len(q))]

\* Variant with a bug: the shard stays in the hash.
OnClientLostClusterShardKeeps(x, s) ==
    /\ s \in conn[x]
    /\ alive[s] => faults < MaxFaults
    /\ faults' = IF alive[s] THEN faults + 1 ELSE faults
    /\ conn' = [conn EXCEPT ![x] = @ \ {s}]
    /\ dynamic' = [dynamic EXCEPT ![x] = Forget(@, s)]
    /\ counted' = [counted EXCEPT ![x] = @ \ {s}]
    /\ Break(x, s)
    /\ toProxy' = [toProxy EXCEPT ![s][x] = << >>]
    /\ UNCHANGED << at, ring, shardVars, moves, work, history >>

\* A connection breaks, or its shard has died: OnClientLostClusterShard.
OnClientLostClusterShard(x, s) ==
    /\ s \in conn[x]
    /\ alive[s] => faults < MaxFaults
    /\ faults' = IF alive[s] THEN faults + 1 ELSE faults
    /\ conn' = [conn EXCEPT ![x] = @ \ {s}]
    /\ ring' = [ring EXCEPT ![x] = @ \ {s}]
    /\ dynamic' = [dynamic EXCEPT ![x] = Forget(@, s)]
    /\ counted' = [counted EXCEPT ![x] = @ \ {s}]
    /\ Break(x, s)
    /\ \E got \in 0 .. Len(toProxy[s][x]) :
          toProxy' = [toProxy EXCEPT ![s][x] = [i \in 1 .. got |-> [@[i] EXCEPT !.old = TRUE]]]
    /\ ghosts' = [ghosts EXCEPT ![x] = {o \in @ : dynamic[x][o] # s}]
    /\ late' = [late EXCEPT ![x] = @ \ {s}]
    /\ UNCHANGED << at, shardVars, moves, work, seen, crossed, loose, twice >>

\* HandleCreateRoomToBattleProxyReq: a request, new or retried, for a room.
HandleCreateRoom(x, o) ==
    LET known_route == dynamic[x][o] # None
        s == IF known_route THEN dynamic[x][o] ELSE ShardFor[ring[x]] IN
    /\ work < MaxWork
    /\ known_route \/ ring[x] # {}
    /\ work' = work + 1
    /\ dynamic' = [dynamic EXCEPT ![x][o] = s]
    /\ counted' = [counted EXCEPT ![x] = IF known_route THEN @ ELSE @ \cup {s}]
    /\ Deliver(x, s, ToShard("create", {o}))
    /\ ghosts' = [ghosts EXCEPT ![x] = IF s \in conn[x] THEN @ ELSE @ \cup {o}]
    /\ late' = [late EXCEPT ![x] = IF s \in conn[x] THEN @ ELSE @ \cup {s}]
    /\ UNCHANGED << at, conn, ring, shardVars, toProxy, moves, faults, seen, crossed, loose,
                    twice >>

\* HandleAddObjectToProxyReq.
HandleAddObject(x, s) ==
    LET m == Head(toProxy[s][x]) IN
    /\ ProxyGets(s, x, "add") /\ ProxyTook(s, x)
    /\ dynamic' = [dynamic EXCEPT ![x] = [o \in Objects |-> IF o \in m.what THEN s ELSE @[o]]]
    /\ counted' = [counted EXCEPT ![x] = @ \cup {s}]
    /\ ghosts' = [ghosts EXCEPT ![x] = IF m.old THEN @ \cup m.what ELSE @ \ m.what]
    /\ late' = [late EXCEPT ![x] = IF m.old THEN @ \cup {s} ELSE @ \ {s}]
    /\ UNCHANGED << at, conn, ring, shardVars, toShard, unsent, bounds, seen, crossed, loose,
                    twice >>

\* HandleRemoveObjectToProxyReq: the route goes, whichever shard it names.
HandleRemoveObject(x, s) ==
    LET m == Head(toProxy[s][x]) IN
    /\ ProxyGets(s, x, "remove") /\ ProxyTook(s, x)
    /\ dynamic' = [dynamic EXCEPT ![x] = [o \in Objects |-> IF o \in m.what THEN None ELSE @[o]]]
    /\ ghosts' = [ghosts EXCEPT ![x] = @ \ m.what]
    /\ UNCHANGED << at, conn, ring, counted, shardVars, toShard, unsent, bounds, seen, crossed,
                    loose, twice, late >>

-----------------------------------------------------------------------------
(* Shard.                                                                  *)

\* The shard took the registration; of what follows it may have received a part
\* before it handled it.
RegisterTook(x, s) ==
    LET rest == Tail(toShard[x][s]) IN
    \E n \in 0 .. Len(rest) :
       /\ Clear(rest, 0, n, {"lost"})
       /\ toShard' = [toShard EXCEPT ![x][s] = Strays(rest, n)]

\* Variant with a bug: the rooms are not announced.
HandleRegisterQuietly(s, x) ==
    /\ ShardGets(x, s, "register") /\ RegisterTook(x, s)
    /\ known' = [known EXCEPT ![s] = @ \cup {x}]
    /\ toProxy' = IF Broken(x, s) THEN toProxy
                  ELSE [toProxy EXCEPT ![s][x] =
                            @ \o << ToProxy("ack", {}), ToProxy("add", {}) >>]
    /\ UNCHANGED << proxyVars, alive, listed, hosted, unsent, bounds, history >>

\* HandleRegisterReq, then OnServerDiscoverBattleProxy with the rooms it has.
HandleRegister(s, x) ==
    /\ ShardGets(x, s, "register") /\ RegisterTook(x, s)
    /\ known' = [known EXCEPT ![s] = @ \cup {x}]
    /\ toProxy' = IF Broken(x, s) THEN toProxy
                  ELSE [toProxy EXCEPT ![s][x] =
                            @ \o << ToProxy("ack", {}), ToProxy("add", hosted[s]) >>]
    /\ UNCHANGED << proxyVars, alive, listed, hosted, unsent, bounds, history >>

\* Variant with a bug: the clients of the proxy stay.
OnServerLostHandleKeeps(s, x) ==
    /\ ShardGets(x, s, "lost") /\ ShardTook(x, s)
    /\ known' = [known EXCEPT ![s] = @ \ {x}]
    /\ UNCHANGED << proxyVars, alive, listed, hosted, unsent, toProxy, bounds, history >>

\* OnServerLostHandle: the clients of the proxy go.
OnServerLostHandle(s, x) ==
    /\ ShardGets(x, s, "lost") /\ ShardTook(x, s)
    /\ known' = [known EXCEPT ![s] = @ \ {x}]
    /\ listed' = IF x \in known[s]
                 THEN [listed EXCEPT ![s] = [c \in Clients |-> IF @[c] = x THEN None ELSE @[c]]]
                 ELSE listed
    /\ UNCHANGED << proxyVars, alive, hosted, unsent, toProxy, bounds, history >>

\* Of the clients a message is about, those a later message was handled of.
Overtaken(s, m) == {c \in m.what : m.told[c] < seen[s][c]}
Note(s, m) ==
    /\ crossed' = [crossed EXCEPT ![s] = (@ \ m.what) \cup Overtaken(s, m)]
    /\ seen' = [seen EXCEPT ![s] = [c \in Clients |->
                   IF c \in m.what \ Overtaken(s, m) THEN m.told[c] ELSE @[c]]]

\* Variant with a bug: the shard is noted in place of the proxy.
HandleClusterClientDiscoverReqSelf(s, x) ==
    LET m == Head(toShard[x][s]) IN
    /\ ShardGets(x, s, "discover") /\ ShardTook(x, s)
    /\ listed' = [listed EXCEPT ![s] = [c \in Clients |-> IF c \in m.what THEN s ELSE @[c]]]
    /\ loose' = [loose EXCEPT ![s] = @ \ m.what]
    /\ Note(s, m)
    /\ UNCHANGED << proxyVars, alive, known, hosted, unsent, toProxy, bounds, twice, ghosts,
                    late >>

\* OnServerDiscoverClient told by a proxy.
HandleClusterClientDiscoverReq(s, x) ==
    LET m == Head(toShard[x][s])
        sender == IF m.stray THEN Stranger ELSE x IN
    /\ ShardGets(x, s, "discover") /\ ShardTook(x, s)
    /\ listed' = [listed EXCEPT ![s] = [c \in Clients |-> IF c \in m.what THEN sender ELSE @[c]]]
    /\ loose' = [loose EXCEPT ![s] = IF sender \in known[s] THEN @ \ m.what ELSE @ \cup m.what]
    /\ Note(s, m)
    /\ UNCHANGED << proxyVars, alive, known, hosted, unsent, toProxy, bounds, twice, ghosts,
                    late >>

\* The entry goes, whichever proxy it names.
HandleClusterClientLostReq(s, x) ==
    LET m == Head(toShard[x][s]) IN
    /\ ShardGets(x, s, "gone") /\ ShardTook(x, s)
    /\ listed' = [listed EXCEPT ![s] = [c \in Clients |-> IF c \in m.what THEN None ELSE @[c]]]
    /\ loose' = [loose EXCEPT ![s] = @ \ m.what]
    /\ Note(s, m)
    /\ UNCHANGED << proxyVars, alive, known, hosted, unsent, toProxy, bounds, twice, ghosts,
                    late >>

\* Another shard has the object, or what it said of it is on its way.
About(o, s) == \E t \in Shards \ {s} :
    \/ o \in hosted[t]
    \/ \E x \in Proxies : \E i \in DOMAIN toProxy[t][x] : o \in toProxy[t][x][i].what

\* HandleCreateRoomToBattleShardReq.
HandleCreateRoomToShard(s, x) ==
    LET m == Head(toShard[x][s]) IN
    /\ ShardGets(x, s, "create") /\ ShardTook(x, s)
    /\ hosted' = [hosted EXCEPT ![s] = @ \cup m.what]
    /\ Broadcast(s, ToProxy("add", m.what))
    /\ twice' = twice \cup {o \in m.what : About(o, s)}
    /\ UNCHANGED << proxyVars, alive, known, listed, unsent, bounds, seen, crossed, loose, ghosts,
                    late >>

\* RemoveBattleRoom and FreeInValidRoom.
RemoveBattleRoom(s, o) ==
    /\ o \in hosted[s]
    /\ hosted' = [hosted EXCEPT ![s] = @ \ {o}]
    /\ Broadcast(s, ToProxy("remove", {o}))
    /\ UNCHANGED << proxyVars, alive, known, listed, toShard, unsent, bounds, history >>

Crash(s) ==
    /\ alive[s] /\ faults < MaxFaults
    /\ faults' = faults + 1
    /\ alive' = [alive EXCEPT ![s] = FALSE]
    /\ known' = [known EXCEPT ![s] = {}]
    /\ listed' = [listed EXCEPT ![s] = [c \in Clients |-> None]]
    /\ hosted' = [hosted EXCEPT ![s] = {}]
    /\ toShard' = [x \in Proxies |-> [toShard[x] EXCEPT ![s] = IF s \in conn[x] THEN @ ELSE << >>]]
    /\ seen' = [seen EXCEPT ![s] = [c \in Clients |-> 0]]
    /\ crossed' = [crossed EXCEPT ![s] = {}] /\ loose' = [loose EXCEPT ![s] = {}]
    /\ UNCHANGED << proxyVars, unsent, toProxy, moves, work, twice, ghosts, late >>

\* A shard starts once its proxies have noticed the loss of the one before.  Those
\* that the master told of it have a new KFNetClient, with an empty queue (KFBus).
Start(s) ==
    /\ ~alive[s]
    /\ \A x \in Proxies : s \notin conn[x]
    /\ alive' = [alive EXCEPT ![s] = TRUE]
    /\ \E anew \in SUBSET Proxies :
          unsent' = [x \in Proxies |-> [unsent[x] EXCEPT ![s] = IF x \in anew THEN << >> ELSE @]]
    /\ UNCHANGED << proxyVars, known, listed, hosted, toShard, toProxy, bounds, history >>

-----------------------------------------------------------------------------
Next ==
    \/ \E c \in Clients : ClientLost(c) \/ \E x \in Proxies : ClientDiscover(c, x)
    \/ \E x \in Proxies, o \in Objects : HandleCreateRoom(x, o)
    \/ \E x \in Proxies, s \in Shards :
          \/ Connect(x, s)
          \/ OnClientConnectionClusterShard(x, s) \/ OnClientLostClusterShard(x, s)
          \/ HandleAddObject(x, s) \/ HandleRemoveObject(x, s)
          \/ HandleRegister(s, x) \/ OnServerLostHandle(s, x)
          \/ HandleClusterClientDiscoverReq(s, x) \/ HandleClusterClientLostReq(s, x)
          \/ HandleCreateRoomToShard(s, x)
    \/ \E s \in Shards :
          \/ \E o \in Objects : RemoveBattleRoom(s, o)
          \/ Crash(s) \/ Start(s)

Spec == Init /\ [][Next]_vars

-----------------------------------------------------------------------------
Tolds == [Clients -> 0 .. MaxWork]
ShardMessages ==
    [type : {"register", "lost"}, what : {{}}, stray : BOOLEAN, told : Tolds]
        \cup [type : {"discover", "gone"}, what : SUBSET Clients, stray : BOOLEAN, told : Tolds]
        \cup [type : {"create"}, what : SUBSET Objects, stray : BOOLEAN, told : Tolds]
ProxyMessages ==
    [type : {"ack"}, what : {{}}, old : BOOLEAN]
        \cup [type : {"add", "remove"}, what : SUBSET Objects, old : BOOLEAN]

\* Types of the tables and of what is under way, which is about clients and rooms only.
TypeOK ==
    /\ at \in [Clients -> Proxies \cup {None}]
    /\ conn \in [Proxies -> SUBSET Shards] /\ ring \in [Proxies -> SUBSET Shards]
    /\ dynamic \in [Proxies -> [Objects -> Shards \cup {None}]]
    /\ counted \in [Proxies -> SUBSET Shards]
    /\ alive \in [Shards -> BOOLEAN]
    /\ known \in [Shards -> SUBSET Proxies]
    /\ listed \in [Shards -> [Clients -> Proxies \cup {Stranger, None}]]
    /\ hosted \in [Shards -> SUBSET Objects]
    /\ toShard \in [Proxies -> [Shards -> Seq(ShardMessages)]]
    /\ unsent \in [Proxies -> [Shards -> Seq(ShardMessages)]]
    /\ toProxy \in [Shards -> [Proxies -> Seq(ProxyMessages)]]
    /\ moves \in Tolds /\ work \in 0 .. MaxWork /\ \A c \in Clients : moves[c] <= work
    /\ faults \in 0 .. MaxFaults
    /\ seen \in [Shards -> Tolds]
    /\ crossed \in [Shards -> SUBSET Clients] /\ loose \in [Shards -> SUBSET Clients]
    /\ twice \subseteq Objects
    /\ ghosts \in [Proxies -> SUBSET Objects] /\ late \in [Proxies -> SUBSET Shards]

\* Everything sent has been handled, and who is alive is connected.
AtRest == \A x \in Proxies, s \in Shards :
    /\ toShard[x][s] = << >> /\ toProxy[s][x] = << >>
    /\ s \in conn[x] <=> alive[s]

\* At rest a proxy has a live shard, and no other, in its hash and in the table
\* it takes the least loaded shard from, unless what the shard had sent before
\* its loss was handled after it.
ShardsAgree == AtRest => \A x \in Proxies, s \in Shards : s \notin late[x] =>
    (s \in ring[x] <=> alive[s]) /\ (s \in counted[x] <=> alive[s])

\* At rest every proxy routes an object to the shard that hosts it and has no
\* route for the others, through lost connections and crashes, unless the object
\* was created at two shards or a route was made without a connection.
RoutesAgree == AtRest => \A x \in Proxies, o \in Objects \ twice, s \in Shards :
    /\ o \in hosted[s] => dynamic[x][o] = s
    /\ dynamic[x][o] = s /\ o \notin ghosts[x] => o \in hosted[s]

\* At rest every shard sends to a client by the proxy the client is at, unless
\* messages of two proxies about it arrived in the wrong order; of a client at no
\* proxy an entry may stay that an unregistered one made.
ClientsListed == AtRest => \A s \in Shards : alive[s] => \A c \in Clients \ crossed[s] :
    listed[s][c] = at[c] \/ (at[c] = None /\ c \in loose[s])
=============================================================================
