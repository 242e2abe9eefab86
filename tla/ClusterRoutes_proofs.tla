------------------------ MODULE ClusterRoutes_proofs ------------------------
(***************************************************************************)
(* Proofs about ClusterRoutes, for any number of proxies, shards, clients, *)
(* objects and faults, and about ConHash, by which a proxy chooses among   *)
(* its shards.                                                             *)
(*                                                                         *)
(* Consistent hash: HashTypeOK and VirtualBacked are inductive together,   *)
(* and RingIsNodes with them; that a cached selection is fresh needs a     *)
(* fact about Lookup besides: it is the node of an occupied hash value.    *)
(*                                                                         *)
(* Routes: what is at rest follows from what is under way.  Lines says     *)
(* that registrations and losses alternate in what a proxy has sent a      *)
(* shard, and that the last of them tells whether there is a connection.   *)
(* On it rest, each of them inductive: Old and Tables for the hash and the *)
(* counts; Single, the one shard that speaks of a room, and Routings, what *)
(* makes up for a wrong route.                                             *)
(***************************************************************************)
EXTENDS ClusterRoutes, ConHash, SequenceTheorems, FiniteSetTheorems, TLAPS

(* The consistent hash.                                                    *)

LEMMA KeysAreNat == Keys \subseteq Nat
BY HashAssumption DEF Keys

\* A set of numbers that is not empty has a least one.  Otherwise its lower bounds, of
\* which there are finitely many, would be mapped into themselves by adding one: an
\* injection that misses zero.
LEMMA LeastExists ==
    ASSUME NEW S \in SUBSET Nat, S # {}
    PROVE  \E k \in S : \A j \in S : k <= j
<1> DEFINE below == {k \in Nat : \A j \in S : k <= j}
           succ == [k \in below |-> k + 1]
<1>1. IsFiniteSet(below)
  <2>1. PICK n \in S : TRUE
    OBVIOUS
  <2> QED BY <2>1, FS_BoundedSetOfNaturals
<1>2. PICK m \in below : m + 1 \notin below
  <2> SUFFICES ASSUME \A m \in below : m + 1 \in below PROVE FALSE
    OBVIOUS
  <2>1. succ \in Injection(below, below)
    BY DEF Injection, IsInjective
  <2>2. 0 \in below
    OBVIOUS
  <2>3. succ \in Surjection(below, below)
    <3> HIDE DEF succ, below
    <3> QED BY <1>1, <2>1, FS_Injection
  <2>4. PICK k \in below : succ[k] = 0
    <3> HIDE DEF succ, below
    <3> QED BY <2>2, <2>3 DEF Surjection
  <2> QED BY <2>4
<1>3. PICK j \in S : j <= m
  BY <1>2
<1> QED BY <1>3

\* Least of a set of hash values that is not empty is one of them.
LEMMA LeastIsLeast ==
    ASSUME NEW S \in SUBSET Keys, S # {}
    PROVE  Least(S) \in S /\ \A j \in S : Least(S) <= j
<1>1. S \subseteq Nat
  BY KeysAreNat
<1>2. \E k \in S : \A j \in S : k <= j
  BY <1>1, LeastExists
<1> QED BY <1>2 DEF Least

\* lower_bound, or the beginning, of a ring that is not empty is on the ring.
LEMMA SuccessorInRing ==
    ASSUME NEW points \in SUBSET Keys, points # {}, NEW h
    PROVE  Successor(points, h) \in points
<1> DEFINE above == {k \in points : k >= h}
<1>1. CASE above # {}
  <2>1. Least(above) \in above
    BY <1>1, LeastIsLeast
  <2> QED BY <1>1, <2>1 DEF Successor
<1>2. CASE above = {}
  <2>1. Least(points) \in points
    BY LeastIsLeast
  <2> QED BY <1>2, <2>1 DEF Successor
<1> QED BY <1>1, <1>2

\* What is looked up in a ring that is not empty is the node of a virtual node.
LEMMA LookupOnRing ==
    ASSUME NEW d \in Data, InRing # {}
    PROVE  Lookup(d) = virtual[Successor(InRing, HashOf[d])] /\ Successor(InRing, HashOf[d]) \in InRing
<1>1. InRing \in SUBSET Keys
  BY DEF InRing
<1> QED BY <1>1, SuccessorInRing DEF Lookup

-----------------------------------------------------------------------------
RingInv == HashTypeOK /\ VirtualBacked

LEMMA RingInit == HashInit => RingInv
BY DEF HashInit, RingInv, HashTypeOK, VirtualBacked, NothingSelected

\* Each operation keeps the maps in their types and the ring backed by listed nodes.
LEMMA RingStep == RingInv /\ [HashNext]_hashVars => RingInv'
<1> SUFFICES ASSUME RingInv, [HashNext]_hashVars PROVE RingInv'
  OBVIOUS
<1> USE HashAssumption DEF RingInv, HashTypeOK, VirtualBacked, NothingSelected
<1>1. ASSUME NEW n \in Nodes, AddHashNode(n) PROVE RingInv'
  BY <1>1 DEF AddHashNode
<1>2. ASSUME NEW n \in Nodes, RemoveHashNode(n) PROVE RingInv'
  BY <1>2 DEF RemoveHashNode
<1>3. CASE ClearHashNode
  BY <1>3 DEF ClearHashNode
<1>4. ASSUME NEW d \in Data, FindHashNode(d) PROVE RingInv'
  <2>1. Lookup(d) \in Nodes
    BY <1>4, LookupOnRing DEF FindHashNode, InRing
  <2> QED BY <1>4, <2>1 DEF FindHashNode
<1>5. CASE UNCHANGED hashVars
  BY <1>5 DEF hashVars
<1> QED BY <1>1, <1>2, <1>3, <1>4, <1>5 DEF HashNext

\* Whatever is added, removed and cleared, and whatever hash values collide, the
\* ring points to listed nodes only (VirtualBacked).
THEOREM RingIsBacked == HashSpec => [](HashTypeOK /\ VirtualBacked)
<1>1. RingInv => HashTypeOK /\ VirtualBacked
  BY DEF RingInv
<1> QED BY <1>1, RingInit, RingStep, PTL DEF HashSpec

\* The tables of KFConHash hold nodes and nothing else.
THEOREM HashTypes == HashSpec => []HashTypeOK
BY RingIsBacked, PTL

-----------------------------------------------------------------------------
\* A step that leaves the ring alone leaves every selection alone.
LEMMA SameRing ==
    ASSUME virtual' = virtual, NEW d \in Data
    PROVE  Lookup(d)' = Lookup(d)
BY DEF Lookup, InRing

LEMMA CacheStep == RingInv /\ CacheIsFresh /\ [HashNext]_hashVars => CacheIsFresh'
<1> SUFFICES ASSUME RingInv, CacheIsFresh, [HashNext]_hashVars,
                    NEW e \in Data, select'[e] # NoNode
             PROVE  select'[e] = Lookup(e)' /\ select'[e] \in nodes'
  BY DEF CacheIsFresh
<1>1. ~ (\/ ClearHashNode \/ \E n \in Nodes : AddHashNode(n) \/ RemoveHashNode(n))
  BY DEF AddHashNode, RemoveHashNode, ClearHashNode, NothingSelected
<1>2. ASSUME NEW d \in Data, FindHashNode(d)
      PROVE  select'[e] = Lookup(e)' /\ select'[e] \in nodes'
  <2>1. virtual' = virtual /\ nodes' = nodes /\ Lookup(e)' = Lookup(e)
    BY <1>2, SameRing DEF FindHashNode
  <2>2. CASE e = d
    <3>1. select'[e] = Lookup(e)
      BY <1>2, <2>2 DEF FindHashNode, RingInv, HashTypeOK
    <3>2. Lookup(e) \in nodes
      BY <1>2, LookupOnRing DEF FindHashNode, InRing, RingInv, VirtualBacked
    <3> QED BY <2>1, <3>1, <3>2
  <2>3. CASE e # d
    <3>1. select'[e] = select[e]
      BY <1>2, <2>3 DEF FindHashNode, RingInv, HashTypeOK
    <3> QED BY <2>1, <3>1 DEF CacheIsFresh
  <2> QED BY <2>2, <2>3
<1>3. CASE UNCHANGED hashVars
  <2>1. Lookup(e)' = Lookup(e)
    BY <1>3, SameRing DEF hashVars
  <2> QED BY <1>3, <2>1 DEF hashVars, CacheIsFresh
<1> QED BY <1>1, <1>2, <1>3 DEF HashNext

\* A cached selection is the current one and a listed node, collisions or not.
THEOREM CacheFresh == HashSpec => []CacheIsFresh
<1>1. HashInit => CacheIsFresh
  BY DEF HashInit, CacheIsFresh, NothingSelected
<1> QED BY <1>1, RingInit, RingStep, CacheStep, PTL DEF HashSpec

-----------------------------------------------------------------------------
LEMMA FunctionStep == RingInv /\ RingIsNodes /\ [HashNext]_hashVars => RingIsNodes'
<1> SUFFICES ASSUME RingInv, RingIsNodes, [HashNext]_hashVars
             PROVE  \A k \in Keys \ Contested, m \in Nodes : virtual'[k] = m <=> m \in nodes' /\ k \in KeysOf[m]
  BY DEF RingIsNodes
<1> USE HashAssumption DEF RingInv, HashTypeOK, RingIsNodes, Contested
<1>1. ASSUME NEW n \in Nodes, AddHashNode(n), NEW k \in Keys \ Contested, NEW m \in Nodes
      PROVE  virtual'[k] = m <=> m \in nodes' /\ k \in KeysOf[m]
  BY <1>1 DEF AddHashNode
<1>2. ASSUME NEW n \in Nodes, RemoveHashNode(n), NEW k \in Keys \ Contested, NEW m \in Nodes
      PROVE  virtual'[k] = m <=> m \in nodes' /\ k \in KeysOf[m]
  BY <1>2 DEF RemoveHashNode
<1>3. CASE ClearHashNode
  BY <1>3 DEF ClearHashNode
<1>4. CASE UNCHANGED << nodes, virtual >>
  BY <1>4
<1> QED BY <1>1, <1>2, <1>3, <1>4 DEF HashNext, FindHashNode, hashVars

\* Which node stands at a hash value that only one node has depends on the listed
\* nodes alone, not on the order in which they came and went.
THEOREM RingDetermined == HashSpec => []RingIsNodes
<1>1. HashInit => RingIsNodes
  BY HashAssumption DEF HashInit, RingIsNodes
<1> QED BY <1>1, RingInit, RingStep, FunctionStep, PTL DEF HashSpec

-----------------------------------------------------------------------------
\* The least element of a set is the least of every subset that has it.
LEMMA LeastOfSubset ==
    ASSUME NEW S \in SUBSET Keys, NEW T \in SUBSET S, Least(S) \in T
    PROVE  Least(T) = Least(S)
<1>1. Least(S) \in Nat /\ \A j \in T : Least(S) <= j
  BY LeastIsLeast, KeysAreNat
<1>2. Least(T) \in T /\ Least(T) \in Nat /\ \A j \in T : Least(T) <= j
  BY LeastIsLeast, KeysAreNat
<1> QED BY <1>1, <1>2

\* A virtual node that is selected on a ring is selected on every part of the ring
\* that has it.
LEMMA SuccessorOfSubset ==
    ASSUME NEW points \in SUBSET Keys, NEW part \in SUBSET points, NEW h \in Nat,
           Successor(points, h) \in part
    PROVE  Successor(part, h) = Successor(points, h)
<1> DEFINE above(S) == {k \in S : k >= h}
<1>1. CASE above(points) # {}
  <2>1. Successor(points, h) = Least(above(points)) /\ Least(above(points)) \in above(points)
    BY <1>1, LeastIsLeast DEF Successor
  <2>2. Least(above(points)) \in above(part)
    BY <2>1
  <2>3. Least(above(part)) = Least(above(points))
    BY <2>2, LeastOfSubset
  <2> QED BY <2>1, <2>2, <2>3 DEF Successor
<1>2. CASE above(points) = {}
  <2>1. Successor(points, h) = Least(points) /\ above(part) = {}
    BY <1>2 DEF Successor
  <2>2. Least(part) = Least(points)
    BY <2>1, LeastOfSubset
  <2> QED BY <2>1, <2>2 DEF Successor
<1> QED BY <1>1, <1>2

\* Data stays where it is if its virtual node keeps its node and the one ring is a
\* part of the other.
LEMMA SameSelection ==
    ASSUME NEW d \in Data, InRing # {},
           LET s == Successor(InRing, HashOf[d])
               t == Successor(InRing', HashOf[d])
           IN \/ s \in InRing' /\ InRing' \subseteq InRing /\ virtual'[s] = virtual[s]
              \/ t \in InRing /\ InRing \subseteq InRing' /\ virtual'[t] = virtual[t]
    PROVE  Lookup(d)' = Lookup(d)
<1>1. InRing \in SUBSET Keys /\ InRing' \in SUBSET Keys /\ HashOf[d] \in Nat
  BY HashAssumption DEF InRing
<1>2. Successor(InRing', HashOf[d]) = Successor(InRing, HashOf[d]) /\ InRing' # {}
  BY <1>1, SuccessorOfSubset
<1>3. /\ Lookup(d) = virtual[Successor(InRing, HashOf[d])]
      /\ Lookup(d)' = virtual'[Successor(InRing', HashOf[d])]
  BY <1>2 DEF Lookup
<1> QED BY <1>2, <1>3

LEMMA MoveStep ==
    ASSUME RingInv, RingInv', [HashNext]_hashVars, NEW d \in Data
    PROVE  \/ Lookup(d)' = Lookup(d)
           \/ Lookup(d)' \in nodes' \ nodes
           \/ Lookup(d) \notin nodes'
           \/ Successor(InRing, HashOf[d]) \in Contested
<1> DEFINE s == Successor(InRing, HashOf[d])
           t == Successor(InRing', HashOf[d])
<1>1. CASE InRing = {}
  BY <1>1, HashAssumption DEF Lookup, RingInv, HashTypeOK
<1>2. CASE virtual' = virtual
  BY <1>2, SameRing
<1>3. CASE nodes' = {}
  BY <1>3
<1>4. ASSUME InRing # {}, NEW n \in Nodes \ nodes, AddHashNode(n)
      PROVE  Lookup(d)' = Lookup(d) \/ Lookup(d)' \in nodes' \ nodes
  <2>1. /\ InRing \subseteq InRing'
        /\ \A k \in Keys : virtual'[k] = IF k \in KeysOf[n] THEN n ELSE virtual[k]
    BY <1>4, HashAssumption DEF AddHashNode, InRing, RingInv, HashTypeOK
  <2>2. t \in InRing' /\ t \in Keys /\ Lookup(d)' = virtual'[t]
    <3>1. InRing' \in SUBSET Keys /\ InRing' # {}
      BY <1>4, <2>1 DEF InRing
    <3> QED BY <3>1, SuccessorInRing DEF Lookup
  <2>3. CASE t \in KeysOf[n]
    BY <1>4, <2>1, <2>2, <2>3 DEF AddHashNode
  <2>4. CASE t \notin KeysOf[n]
    <3>1. virtual'[t] = virtual[t] /\ t \in InRing
      BY <2>1, <2>2, <2>4 DEF InRing
    <3> QED BY <1>4, <2>1, <3>1, SameSelection
  <2> QED BY <2>3, <2>4
<1>5. ASSUME InRing # {}, NEW n \in Nodes, RemoveHashNode(n), Lookup(d) \in nodes', s \notin Contested
      PROVE  Lookup(d)' = Lookup(d)
  <2>1. /\ InRing' \subseteq InRing
        /\ \A k \in Keys : virtual'[k] = IF k \in KeysOf[n] THEN NoNode ELSE virtual[k]
    BY <1>5, HashAssumption DEF RemoveHashNode, InRing, RingInv, HashTypeOK
  <2>2. s \in InRing /\ s \in Keys /\ Lookup(d) = virtual[s]
    BY <1>5, LookupOnRing DEF InRing
  <2>3. virtual[s] # n /\ virtual[s] \in Nodes /\ s \in KeysOf[virtual[s]]
    BY <1>5, <2>2 DEF RemoveHashNode, RingInv, HashTypeOK, VirtualBacked, InRing
  <2>4. s \notin KeysOf[n]
    BY <1>5, <2>2, <2>3 DEF Contested
  <2>5. virtual'[s] = virtual[s] /\ s \in InRing'
    BY <2>1, <2>2, <2>4 DEF InRing
  <2> QED BY <1>5, <2>1, <2>5, SameSelection
<1>6. CASE ClearHashNode
  BY <1>3, <1>6 DEF ClearHashNode
<1> QED BY <1>1, <1>2, <1>4, <1>5, <1>6 DEF HashNext, AddHashNode, FindHashNode, hashVars

\* Consistent hashing: a change of the list moves data only to an added node or from
\* a removed one, where hash values do not collide.
THEOREM DataMovesLittle == HashSpec => MovesLittle
<1>1. RingInv /\ RingInv' /\ [HashNext]_hashVars
      => [\A d \in Data : \/ Lookup(d)' = Lookup(d)
                          \/ Lookup(d)' \in nodes' \ nodes
                          \/ Lookup(d) \notin nodes'
                          \/ Successor(InRing, HashOf[d]) \in Contested]_hashVars
  BY MoveStep
<1> QED BY <1>1, RingInit, RingStep, PTL DEF HashSpec, MovesLittle

-----------------------------------------------------------------------------
(* Types. *)

ConnTypes == /\ conn \in [Proxies -> SUBSET Shards] /\ ring \in [Proxies -> SUBSET Shards]
             /\ counted \in [Proxies -> SUBSET Shards] /\ late \in [Proxies -> SUBSET Shards]
ClientTypes == /\ at \in [Clients -> Proxies \cup {None}]
               /\ moves \in Tolds /\ work \in 0 .. MaxWork /\ \A c \in Clients : moves[c] <= work
ListTypes == /\ listed \in [Shards -> [Clients -> Proxies \cup {Stranger, None}]]
             /\ seen \in [Shards -> Tolds]
             /\ crossed \in [Shards -> SUBSET Clients] /\ loose \in [Shards -> SUBSET Clients]
             /\ known \in [Shards -> SUBSET Proxies]
RouteTypes == /\ dynamic \in [Proxies -> [Objects -> Shards \cup {None}]]
              /\ ghosts \in [Proxies -> SUBSET Objects]
              /\ hosted \in [Shards -> SUBSET Objects] /\ twice \subseteq Objects
AliveTypes == alive \in [Shards -> BOOLEAN] /\ faults \in 0 .. MaxFaults
LineTypes == /\ toShard \in [Proxies -> [Shards -> Seq(ShardMessages)]]
             /\ unsent \in [Proxies -> [Shards -> Seq(ShardMessages)]]
BackTypes == toProxy \in [Shards -> [Proxies -> Seq(ProxyMessages)]]

LEMMA TypeParts ==
    TypeOK <=> /\ ConnTypes /\ ClientTypes /\ ListTypes /\ RouteTypes /\ AliveTypes
               /\ LineTypes /\ BackTypes
BY DEF TypeOK, ConnTypes, ClientTypes, ListTypes, RouteTypes, AliveTypes, LineTypes, BackTypes

LEMMA TypesLater ==
    ASSUME ConnTypes', ClientTypes', ListTypes', RouteTypes', AliveTypes', LineTypes', BackTypes'
    PROVE  TypeOK'
BY DEF TypeOK, ConnTypes, ClientTypes, ListTypes, RouteTypes, AliveTypes, LineTypes, BackTypes

LEMMA Pair ==
    ASSUME TypeOK, NEW x \in Proxies, NEW s \in Shards
    PROVE  /\ toShard[x][s] \in Seq(ShardMessages) /\ unsent[x][s] \in Seq(ShardMessages)
           /\ toProxy[s][x] \in Seq(ProxyMessages)
BY DEF TypeOK

\* What the two kinds of messages hold.
LEMMA ShardMessage ==
    ASSUME NEW m \in ShardMessages
    PROVE  /\ m.told \in Tolds /\ m.stray \in BOOLEAN
           /\ m.type \in {"register", "lost", "discover", "gone", "create"}
           /\ m.type \in {"discover", "gone"} => m.what \subseteq Clients
           /\ m.type = "create" => m.what \subseteq Objects
BY DEF ShardMessages

LEMMA ProxyMessage ==
    ASSUME NEW m \in ProxyMessages
    PROVE  /\ m.type \in {"ack", "add", "remove"} /\ m.old \in BOOLEAN
           /\ m.type = "ack" => m.what = {}
           /\ m.what \subseteq Objects
BY DEF ProxyMessages

LEMMA Sent ==
    ASSUME TypeOK
    PROVE  /\ \A type \in {"register", "lost"} : ToShard(type, {}) \in ShardMessages
           /\ \A type \in {"discover", "gone"}, who \in SUBSET Clients : ToShard(type, who) \in ShardMessages
           /\ \A what \in SUBSET Objects : ToShard("create", what) \in ShardMessages
           /\ Lost \in ShardMessages
           /\ ToProxy("ack", {}) \in ProxyMessages
           /\ \A type \in {"add", "remove"}, what \in SUBSET Objects : ToProxy(type, what) \in ProxyMessages
BY DEF TypeOK, ToShard, ToProxy, Lost, ShardMessages, ProxyMessages

-----------------------------------------------------------------------------
(* What a step does to the lines. *)

\* A message of proxy x to shard s, and one to every shard.
LEMMA Delivered ==
    ASSUME TypeOK, NEW x \in Proxies, NEW s \in Shards, NEW m \in ShardMessages, Deliver(x, s, m),
           NEW y \in Proxies, NEW t \in Shards
    PROVE  /\ toShard'[y][t] = IF y = x /\ t = s /\ s \in conn[x]
                              THEN Append(toShard[y][t], m) ELSE toShard[y][t]
           /\ unsent'[y][t] = IF y = x /\ t = s /\ s \notin conn[x]
                              THEN Append(unsent[y][t], m) ELSE unsent[y][t]
           /\ LineTypes'
<1>1. toShard[x][s] \in Seq(ShardMessages) /\ unsent[x][s] \in Seq(ShardMessages)
  BY Pair
<1>2. PICK r : r = Append(toShard[x][s], m) /\ r \in Seq(ShardMessages)
  BY <1>1, AppendProperties
<1>3. PICK u : u = Append(unsent[x][s], m) /\ u \in Seq(ShardMessages)
  BY <1>1, AppendProperties
<1>4. CASE s \in conn[x]
  <2>1. toShard' = [toShard EXCEPT ![x][s] = r] /\ unsent' = unsent
    BY <1>2, <1>4 DEF Deliver
  <2> QED BY <1>2, <1>4, <2>1 DEF TypeOK, LineTypes
<1>5. CASE s \notin conn[x]
  <2>1. unsent' = [unsent EXCEPT ![x][s] = u] /\ toShard' = toShard
    BY <1>3, <1>5 DEF Deliver
  <2> QED BY <1>3, <1>5, <2>1 DEF TypeOK, LineTypes
<1> QED BY <1>4, <1>5

LEMMA DeliveredAll ==
    ASSUME TypeOK, NEW x \in Proxies, NEW m \in ShardMessages, DeliverAll(x, m)
    PROVE  /\ \A y \in Proxies, t \in Shards :
                 /\ toShard'[y][t] = IF y = x /\ t \in conn[x]
                                     THEN Append(toShard[y][t], m) ELSE toShard[y][t]
                 /\ unsent'[y][t] = IF y = x /\ t \notin conn[x]
                                    THEN Append(unsent[y][t], m) ELSE unsent[y][t]
           /\ LineTypes'
<1> DEFINE q(s) == IF s \in conn[x] THEN Append(toShard[x][s], m) ELSE toShard[x][s]
           u(s) == IF s \in conn[x] THEN unsent[x][s] ELSE Append(unsent[x][s], m)
<1>1. \A s \in Shards : q(s) \in Seq(ShardMessages) /\ u(s) \in Seq(ShardMessages)
  BY Pair, AppendProperties
<1>2. /\ toShard' = [toShard EXCEPT ![x] = [s \in Shards |-> q(s)]]
      /\ unsent' = [unsent EXCEPT ![x] = [s \in Shards |-> u(s)]]
  BY DEF DeliverAll
<1> SUFFICES /\ \A y \in Proxies, t \in Shards :
                   /\ toShard'[y][t] = IF y = x THEN q(t) ELSE toShard[y][t]
                   /\ unsent'[y][t] = IF y = x THEN u(t) ELSE unsent[y][t]
             /\ LineTypes'
  OBVIOUS
<1> HIDE DEF q, u
<1> QED BY <1>1, <1>2 DEF TypeOK, LineTypes

\* A message of shard s to the proxies it reaches.
LEMMA Broadcasted ==
    ASSUME TypeOK, NEW s \in Shards, NEW m \in ProxyMessages, Broadcast(s, m)
    PROVE  /\ \A y \in Proxies, t \in Shards :
                  toProxy'[t][y] = IF t = s /\ y \in known[s] /\ ~ Broken(y, s)
                                   THEN Append(toProxy[t][y], m) ELSE toProxy[t][y]
           /\ BackTypes'
<1> DEFINE q(x) == IF x \in known[s] /\ ~ Broken(x, s) THEN Append(toProxy[s][x], m) ELSE toProxy[s][x]
<1>1. \A x \in Proxies : q(x) \in Seq(ProxyMessages)
  BY Pair, AppendProperties
<1>2. toProxy' = [toProxy EXCEPT ![s] = [x \in Proxies |-> q(x)]]
  BY DEF Broadcast
<1> SUFFICES /\ \A y \in Proxies, t \in Shards : toProxy'[t][y] = IF t = s THEN q(y) ELSE toProxy[t][y]
             /\ BackTypes'
  OBVIOUS
<1> HIDE DEF q
<1> QED BY <1>1, <1>2 DEF TypeOK, BackTypes

\* The head of a line is taken.
LEMMA TookAtShard ==
    ASSUME TypeOK, NEW x \in Proxies, NEW s \in Shards, NEW type, ShardGets(x, s, type), ShardTook(x, s),
           unsent' = unsent, NEW y \in Proxies, NEW t \in Shards
    PROVE  /\ toShard[x][s] # << >> /\ Head(toShard[x][s]).type = type
           /\ Head(toShard[x][s]) \in ShardMessages
           /\ toShard'[y][t] = IF y = x /\ t = s THEN Tail(toShard[x][s]) ELSE toShard[y][t]
           /\ LineTypes'
<1>1. toShard[x][s] \in Seq(ShardMessages) /\ toShard[x][s] # << >>
  BY Pair DEF ShardGets
<1>2. PICK r : r = Tail(toShard[x][s]) /\ r \in Seq(ShardMessages)
  BY <1>1, HeadTailProperties
<1>3. toShard' = [toShard EXCEPT ![x][s] = r]
  BY <1>2 DEF ShardTook
<1>4. Head(toShard[x][s]) \in ShardMessages /\ Head(toShard[x][s]).type = type
  BY <1>1, HeadTailProperties DEF ShardGets
<1> QED BY <1>1, <1>2, <1>3, <1>4 DEF TypeOK, LineTypes

LEMMA TookAtProxy ==
    ASSUME TypeOK, NEW x \in Proxies, NEW s \in Shards, NEW type, ProxyGets(s, x, type), ProxyTook(s, x),
           NEW y \in Proxies, NEW t \in Shards
    PROVE  /\ toProxy[s][x] # << >> /\ Head(toProxy[s][x]).type = type
           /\ Head(toProxy[s][x]) \in ProxyMessages
           /\ toProxy'[t][y] = IF y = x /\ t = s THEN Tail(toProxy[s][x]) ELSE toProxy[t][y]
           /\ BackTypes'
<1>1. toProxy[s][x] \in Seq(ProxyMessages) /\ toProxy[s][x] # << >>
  BY Pair DEF ProxyGets
<1>2. PICK r : r = Tail(toProxy[s][x]) /\ r \in Seq(ProxyMessages)
  BY <1>1, HeadTailProperties
<1>3. toProxy' = [toProxy EXCEPT ![s][x] = r]
  BY <1>2 DEF ProxyTook
<1>4. Head(toProxy[s][x]) \in ProxyMessages /\ Head(toProxy[s][x]).type = type
  BY <1>1, HeadTailProperties DEF ProxyGets
<1> QED BY <1>1, <1>2, <1>3, <1>4 DEF TypeOK, BackTypes

\* The connection of x to s breaks while s runs.
Cut(q, m, k) == Append(SubSeq(q, 1, k), m)
Aged(q, k) == [i \in 1 .. k |-> [q[i] EXCEPT !.old = TRUE]]

LEMMA CutProperties ==
    ASSUME NEW M, NEW q \in Seq(M), NEW m \in M, NEW k \in 0 .. Len(q)
    PROVE  /\ Cut(q, m, k) \in Seq(M) /\ Len(Cut(q, m, k)) = k + 1
           /\ \A i \in 1 .. k : Cut(q, m, k)[i] = q[i]
           /\ Cut(q, m, k)[k + 1] = m
<1> DEFINE r == SubSeq(q, 1, k)
<1>1. Len(q) \in Nat /\ 1 .. k \subseteq 1 .. Len(q)
  BY LenProperties
<1>2. r \in Seq(M) /\ Len(r) = k /\ \A i \in 1 .. k : r[i] = q[i]
  BY <1>1, SubSeqProperties
<1> HIDE DEF r
<1>3. /\ Append(r, m) \in Seq(M) /\ Len(Append(r, m)) = Len(r) + 1
      /\ \A i \in 1 .. Len(r) : Append(r, m)[i] = r[i]
      /\ Append(r, m)[Len(r) + 1] = m
  BY <1>2, AppendProperties
<1> QED BY <1>2, <1>3 DEF Cut, r

LEMMA AgedProperties ==
    ASSUME NEW q \in Seq(ProxyMessages), NEW k \in 0 .. Len(q)
    PROVE  /\ Aged(q, k) \in Seq(ProxyMessages) /\ Len(Aged(q, k)) = k
           /\ \A i \in 1 .. k : /\ Aged(q, k)[i].old
                                /\ Aged(q, k)[i].type = q[i].type /\ Aged(q, k)[i].what = q[i].what
<1>1. Len(q) \in Nat /\ 1 .. k \subseteq 1 .. Len(q)
  BY LenProperties
<1>2. \A i \in 1 .. k : q[i] \in ProxyMessages
  BY <1>1, ElementOfSeq
<1>3. \A m \in ProxyMessages : /\ [m EXCEPT !.old = TRUE] \in ProxyMessages
                               /\ [m EXCEPT !.old = TRUE].old
                               /\ [m EXCEPT !.old = TRUE].type = m.type
                               /\ [m EXCEPT !.old = TRUE].what = m.what
  BY DEF ProxyMessages
<1> DEFINE older(m) == [m EXCEPT !.old = TRUE]
<1>4. Aged(q, k) = [i \in 1 .. k |-> older(q[i])]
  BY DEF Aged
<1>5. \A i \in 1 .. k : older(q[i]) \in ProxyMessages
  BY <1>2, <1>3
<1>6. k \in Nat
  BY <1>1
<1> QED
  <2>1. \A i \in 1 .. k : Aged(q, k)[i] = older(q[i])
    BY <1>4
  <2>2. \A i \in 1 .. k : /\ older(q[i]).old /\ older(q[i]).type = q[i].type
                          /\ older(q[i]).what = q[i].what
    BY <1>2, <1>3
  <2> HIDE DEF older
  <2>3. Aged(q, k) \in [1 .. k -> ProxyMessages]
    BY <1>4, <1>5
  <2>4. Aged(q, k) \in Seq(ProxyMessages) /\ Len(Aged(q, k)) = k
    BY <2>3, <1>6
  <2> QED BY <2>1, <2>2, <2>4

LEMMA ConcatSeq ==
    ASSUME NEW M, NEW q \in Seq(M), NEW r \in Seq(M)
    PROVE  /\ q \o r \in Seq(M) /\ Len(q \o r) = Len(q) + Len(r)
           /\ \A i \in 1 .. Len(q) : (q \o r)[i] = q[i]
           /\ \A i \in 1 .. Len(r) : (q \o r)[Len(q) + i] = r[i]
<1>1. /\ q \o r \in Seq(M) /\ Len(q \o r) = Len(q) + Len(r)
      /\ \A i \in 1 .. Len(q) + Len(r) : (q \o r)[i] = IF i <= Len(q) THEN q[i] ELSE r[i - Len(q)]
  BY ConcatProperties
<1>2. Len(q) \in Nat /\ Len(r) \in Nat
  BY LenProperties
<1>3. \A i \in 1 .. Len(r) : /\ Len(q) + i \in 1 .. Len(q) + Len(r) /\ ~ (Len(q) + i <= Len(q))
                             /\ (Len(q) + i) - Len(q) = i
  BY <1>2
<1>4. \A i \in 1 .. Len(q) : i \in 1 .. Len(q) + Len(r) /\ i <= Len(q)
  BY <1>2
<1> QED BY <1>1, <1>3, <1>4

LEMMA PartSeq ==
    ASSUME NEW M, NEW q \in Seq(M), NEW i \in 0 .. Len(q), NEW j \in i .. Len(q)
    PROVE  /\ SubSeq(q, i + 1, j) \in Seq(M) /\ Len(SubSeq(q, i + 1, j)) = j - i
           /\ \A k \in 1 .. j - i : SubSeq(q, i + 1, j)[k] = q[i + k]
<1>1. Len(q) \in Nat /\ i \in Nat /\ j \in Nat
  BY LenProperties
<1>2. i + 1 \in 1 .. Len(q) + 1 /\ j \in i + 1 - 1 .. Len(q)
  BY <1>1
<1>3. \A k \in i + 1 .. j : q[k] \in M
  BY <1>1, ElementOfSeq
<1>4. SubSeq(q, i + 1, j) \in Seq(M)
  BY <1>1, <1>3, SubSeqProperties
<1>5. /\ Len(SubSeq(q, i + 1, j)) = j - i
      /\ \A k \in 1 .. j - i : SubSeq(q, i + 1, j)[k] = q[i + k]
  BY <1>1, <1>4
<1> QED BY <1>4, <1>5

\* Messages that wait keep what they say when their sender is forgotten.
LEMMA StraysProperties ==
    ASSUME NEW q \in Seq(ShardMessages), NEW n
    PROVE  /\ Strays(q, n) \in Seq(ShardMessages) /\ Len(Strays(q, n)) = Len(q)
           /\ \A i \in 1 .. Len(q) : /\ Strays(q, n)[i].type = q[i].type
                                     /\ Strays(q, n)[i].what = q[i].what
                                     /\ Strays(q, n)[i].told = q[i].told
<1>1. Len(q) \in Nat /\ \A i \in 1 .. Len(q) : q[i] \in ShardMessages
  BY LenProperties, ElementOfSeq
<1> DEFINE astray(m, b) == [m EXCEPT !.stray = b]
           now(i) == IF q[i].stray \/ i <= n THEN TRUE ELSE FALSE
<1>2. \A m \in ShardMessages, b \in BOOLEAN :
         /\ astray(m, b) \in ShardMessages /\ astray(m, b).type = m.type
         /\ astray(m, b).what = m.what /\ astray(m, b).told = m.told
  BY DEF ShardMessages
<1>3. \A i \in 1 .. Len(q) : (q[i].stray \/ i <= n) \in BOOLEAN
  OBVIOUS
<1>4. Strays(q, n) = [i \in 1 .. Len(q) |-> astray(q[i], q[i].stray \/ i <= n)]
  BY DEF Strays
<1> HIDE DEF astray
<1>5. /\ Strays(q, n) \in [1 .. Len(q) -> ShardMessages]
      /\ \A i \in 1 .. Len(q) : Strays(q, n)[i] = astray(q[i], q[i].stray \/ i <= n)
  BY <1>1, <1>2, <1>3, <1>4
<1>6. Strays(q, n) \in Seq(ShardMessages) /\ Len(Strays(q, n)) = Len(q)
  BY <1>1, <1>5
<1> QED BY <1>1, <1>2, <1>3, <1>5, <1>6

\* What waits for a connection of x to s, and what the connection brings.
Waiting(x, s) == IF Registers(unsent[x][s]) = {}
                 THEN Append(unsent[x][s], ToShard("register", {})) ELSE unsent[x][s]
Joins(x, s, n) ==
    /\ toShard'[x][s] = toShard[x][s] \o Strays(Waiting(x, s), n)
    /\ unsent'[x][s] = << >>

LEMMA ConnectLines ==
    ASSUME TypeOK, NEW x \in Proxies, NEW s \in Shards, Connect(x, s)
    PROVE  /\ LineTypes' /\ Waiting(x, s) \in Seq(ShardMessages)
           /\ \E n \in Registers(Waiting(x, s)) : Joins(x, s, n)
           /\ \A y \in Proxies, t \in Shards : y # x \/ t # s =>
                 toShard'[y][t] = toShard[y][t] /\ unsent'[y][t] = unsent[y][t]
<1>1. /\ toShard[x][s] \in Seq(ShardMessages) /\ unsent[x][s] \in Seq(ShardMessages)
      /\ ToShard("register", {}) \in ShardMessages
  BY Pair, Sent
<1>2. Waiting(x, s) \in Seq(ShardMessages)
  BY <1>1, AppendProperties DEF Waiting
<1>3. PICK n \in Registers(Waiting(x, s)) :
         toShard' = [toShard EXCEPT ![x][s] = toShard[x][s] \o Strays(Waiting(x, s), n)]
  BY DEF Connect, Waiting
<1>4. Strays(Waiting(x, s), n) \in Seq(ShardMessages)
  BY <1>2, StraysProperties
<1>5. PICK r : r = toShard[x][s] \o Strays(Waiting(x, s), n) /\ r \in Seq(ShardMessages)
  BY <1>1, <1>4, ConcatSeq
<1>6. toShard' = [toShard EXCEPT ![x][s] = r] /\ unsent' = [unsent EXCEPT ![x][s] = << >>]
  BY <1>3, <1>5 DEF Connect
<1>7. toShard'[x][s] = r /\ unsent'[x][s] = << >>
  BY <1>6 DEF TypeOK
<1>8. LineTypes'
  BY <1>5, <1>6 DEF TypeOK, LineTypes
<1>9. \A y \in Proxies, t \in Shards : y # x \/ t # s =>
         toShard'[y][t] = toShard[y][t] /\ unsent'[y][t] = unsent[y][t]
  BY <1>6 DEF TypeOK
<1> QED BY <1>2, <1>5, <1>7, <1>8, <1>9 DEF Joins

\* The registration is taken.
RegisterIs(x, s, n) ==
    /\ Clear(Tail(toShard[x][s]), 0, n, {"lost"})
    /\ toShard'[x][s] = Strays(Tail(toShard[x][s]), n)

LEMMA RegisterTaken ==
    ASSUME TypeOK, NEW x \in Proxies, NEW s \in Shards, ShardGets(x, s, "register"),
           RegisterTook(x, s), unsent' = unsent
    PROVE  /\ LineTypes' /\ toShard[x][s] # << >> /\ Head(toShard[x][s]).type = "register"
           /\ Head(toShard[x][s]) \in ShardMessages
           /\ \E n \in 0 .. Len(Tail(toShard[x][s])) : RegisterIs(x, s, n)
           /\ \A y \in Proxies, t \in Shards : y # x \/ t # s => toShard'[y][t] = toShard[y][t]
<1>1. toShard[x][s] \in Seq(ShardMessages) /\ toShard[x][s] # << >>
  BY Pair DEF ShardGets
<1>2. Tail(toShard[x][s]) \in Seq(ShardMessages)
  BY <1>1, HeadTailProperties
<1>3. PICK n \in 0 .. Len(Tail(toShard[x][s])) :
         /\ Clear(Tail(toShard[x][s]), 0, n, {"lost"})
         /\ toShard' = [toShard EXCEPT ![x][s] = Strays(Tail(toShard[x][s]), n)]
  BY DEF RegisterTook
<1>4. PICK r : r = Strays(Tail(toShard[x][s]), n) /\ r \in Seq(ShardMessages)
  BY <1>2, StraysProperties
<1>5. toShard' = [toShard EXCEPT ![x][s] = r]
  BY <1>3, <1>4
<1>6. Head(toShard[x][s]) \in ShardMessages /\ Head(toShard[x][s]).type = "register"
  BY <1>1, HeadTailProperties DEF ShardGets
<1>7. toShard'[x][s] = r /\ LineTypes'
  BY <1>4, <1>5 DEF TypeOK, LineTypes
<1>8. \A y \in Proxies, t \in Shards : y # x \/ t # s => toShard'[y][t] = toShard[y][t]
  BY <1>5 DEF TypeOK
<1> QED BY <1>1, <1>3, <1>4, <1>6, <1>7, <1>8 DEF RegisterIs

\* What the loss of a connection leaves of a line, and what it leaves alone.
Left(q, told, got) == Cut(q, Lost, told) \o SubSeq(q, told + 1, got)
Breaks(x, s, told, got, kept, n) ==
    /\ Clear(toShard[x][s], told, got, {"register"})
    /\ Clear(toShard[x][s], told, Len(toShard[x][s]), {"lost"})
    /\ alive[s] => toShard'[x][s] = Left(toShard[x][s], told, got)
    /\ ~ alive[s] => toShard'[x][s] = << >>
    /\ unsent'[x][s] = SubSeq(toShard[x][s], kept + 1, Len(toShard[x][s]))
    /\ toProxy'[s][x] = Aged(toProxy[s][x], n)

LEMMA LeftSeq ==
    ASSUME TypeOK, NEW q \in Seq(ShardMessages), NEW told \in 0 .. Len(q), NEW got \in told .. Len(q)
    PROVE  /\ Cut(q, Lost, told) \in Seq(ShardMessages)
           /\ SubSeq(q, told + 1, got) \in Seq(ShardMessages)
           /\ Left(q, told, got) \in Seq(ShardMessages)
<1>1. Lost \in ShardMessages
  BY Sent
<1>2. Cut(q, Lost, told) \in Seq(ShardMessages)
  BY <1>1, CutProperties
<1>3. SubSeq(q, told + 1, got) \in Seq(ShardMessages)
  BY PartSeq
<1> QED BY <1>2, <1>3, ConcatSeq DEF Left

LEMMA BreakLines ==
    ASSUME TypeOK, NEW x \in Proxies, NEW s \in Shards, OnClientLostClusterShard(x, s)
    PROVE  /\ LineTypes' /\ BackTypes'
           /\ \E told \in 0 .. Len(toShard[x][s]), n \in 0 .. Len(toProxy[s][x]) :
              \E got \in told .. Len(toShard[x][s]) : \E kept \in got .. Len(toShard[x][s]) :
                 Breaks(x, s, told, got, kept, n)
           /\ \A y \in Proxies, t \in Shards : y # x \/ t # s =>
                 /\ toShard'[y][t] = toShard[y][t] /\ unsent'[y][t] = unsent[y][t]
                 /\ toProxy'[t][y] = toProxy[t][y]
<1> DEFINE T == toShard[x][s]
           P == toProxy[s][x]
<1>1. T \in Seq(ShardMessages) /\ P \in Seq(ProxyMessages) /\ Len(T) \in Nat
  BY Pair, LenProperties
<1>2. PICK n \in 0 .. Len(P) : toProxy' = [toProxy EXCEPT ![s][x] = Aged(P, n)]
  BY DEF OnClientLostClusterShard, Aged
<1>3. PICK told \in 0 .. Len(T) : \E got \in told .. Len(T) : \E kept \in got .. Len(T) :
       /\ Clear(T, told, got, {"register"}) /\ Clear(T, told, Len(T), {"lost"})
       /\ toShard' = [toShard EXCEPT ![x][s] = IF alive[s] THEN Left(T, told, got) ELSE << >>]
       /\ unsent' = [unsent EXCEPT ![x][s] = SubSeq(T, kept + 1, Len(T))]
  BY DEF OnClientLostClusterShard, Break, Left, Cut
<1>4. PICK got \in told .. Len(T) : \E kept \in got .. Len(T) :
       /\ Clear(T, told, got, {"register"}) /\ Clear(T, told, Len(T), {"lost"})
       /\ toShard' = [toShard EXCEPT ![x][s] = IF alive[s] THEN Left(T, told, got) ELSE << >>]
       /\ unsent' = [unsent EXCEPT ![x][s] = SubSeq(T, kept + 1, Len(T))]
  BY <1>3
<1>5. PICK kept \in got .. Len(T) :
       /\ Clear(T, told, got, {"register"}) /\ Clear(T, told, Len(T), {"lost"})
       /\ toShard' = [toShard EXCEPT ![x][s] = IF alive[s] THEN Left(T, told, got) ELSE << >>]
       /\ unsent' = [unsent EXCEPT ![x][s] = SubSeq(T, kept + 1, Len(T))]
  BY <1>4
<1>6. PICK q : q = Left(T, told, got) /\ q \in Seq(ShardMessages)
  BY <1>1, LeftSeq
<1>7. PICK r : r = Aged(P, n) /\ r \in Seq(ProxyMessages)
  BY <1>1, AgedProperties
<1>8. PICK u : u = SubSeq(T, kept + 1, Len(T)) /\ u \in Seq(ShardMessages)
  <2>1. kept \in 0 .. Len(T) /\ Len(T) \in kept .. Len(T)
    BY <1>1
  <2> QED BY <1>1, <2>1, PartSeq
<1>9. PICK z : z = (IF alive[s] THEN q ELSE << >>) /\ z \in Seq(ShardMessages)
  <2>1. << >> \in Seq(ShardMessages)
    OBVIOUS
  <2> QED BY <1>6, <2>1
<1>10. /\ toShard' = [toShard EXCEPT ![x][s] = z] /\ unsent' = [unsent EXCEPT ![x][s] = u]
       /\ toProxy' = [toProxy EXCEPT ![s][x] = r]
  BY <1>2, <1>5, <1>6, <1>7, <1>8, <1>9
<1>11. Breaks(x, s, told, got, kept, n)
  <2>1. toShard'[x][s] = z /\ unsent'[x][s] = u /\ toProxy'[s][x] = r
    BY <1>10 DEF TypeOK
  <2> QED BY <2>1, <1>5, <1>6, <1>7, <1>8, <1>9 DEF Breaks
<1>12. LineTypes' /\ BackTypes'
  BY <1>7, <1>8, <1>9, <1>10 DEF TypeOK, LineTypes, BackTypes
<1>13. \A y \in Proxies, t \in Shards : y # x \/ t # s =>
          /\ toShard'[y][t] = toShard[y][t] /\ unsent'[y][t] = unsent[y][t]
          /\ toProxy'[t][y] = toProxy[t][y]
  BY <1>10 DEF TypeOK
<1> QED BY <1>11, <1>12, <1>13

LEMMA TwoMore ==
    ASSUME NEW S, NEW q \in Seq(S), NEW a \in S, NEW b \in S
    PROVE  /\ q \o << a, b >> = Append(Append(q, a), b)
           /\ Append(Append(q, a), b) \in Seq(S)
<1>1. Append(q, a) \in Seq(S)
  BY AppendProperties
<1>2. Append(Append(q, a), b) \in Seq(S)
  BY <1>1, AppendProperties
<1>3. q \o << a, b >> = Append(Append(q, a), b)
  OBVIOUS
<1> QED BY <1>2, <1>3

\* The registration is answered by two messages, unless the connection is gone.
Answered(q, s) == Append(Append(q, ToProxy("ack", {})), ToProxy("add", hosted[s]))

LEMMA RegisterLines ==
    ASSUME TypeOK, NEW x \in Proxies, NEW s \in Shards, HandleRegister(s, x),
           NEW y \in Proxies, NEW t \in Shards
    PROVE  /\ toProxy'[t][y] = IF y = x /\ t = s /\ ~ Broken(x, s)
                              THEN Answered(toProxy[s][x], s) ELSE toProxy[t][y]
           /\ BackTypes'
<1> DEFINE ack == ToProxy("ack", {})
           add == ToProxy("add", hosted[s])
<1>1. ack \in ProxyMessages /\ add \in ProxyMessages /\ toProxy[s][x] \in Seq(ProxyMessages)
  BY Pair, Sent DEF TypeOK
<1>2. toProxy' = IF Broken(x, s) THEN toProxy
                 ELSE [toProxy EXCEPT ![s][x] = toProxy[s][x] \o << ack, add >>]
  BY DEF HandleRegister
<1>3. Answered(toProxy[s][x], s) = Append(Append(toProxy[s][x], ack), add)
  BY DEF Answered
<1> HIDE DEF ack, add
<1>4. /\ toProxy[s][x] \o << ack, add >> = Append(Append(toProxy[s][x], ack), add)
      /\ Append(Append(toProxy[s][x], ack), add) \in Seq(ProxyMessages)
  BY <1>1, TwoMore
<1>5. PICK r : r = Answered(toProxy[s][x], s) /\ r \in Seq(ProxyMessages)
  BY <1>3, <1>4
<1>6. CASE Broken(x, s)
  <2>1. toProxy' = toProxy
    BY <1>2, <1>6
  <2> QED BY <1>6, <2>1 DEF TypeOK, BackTypes
<1>7. CASE ~ Broken(x, s)
  <2>1. toProxy' = [toProxy EXCEPT ![s][x] = r]
    BY <1>2, <1>3, <1>4, <1>5, <1>7
  <2>2. BackTypes'
    BY <1>5, <2>1 DEF TypeOK, BackTypes
  <2>3. toProxy'[t][y] = IF y = x /\ t = s THEN r ELSE toProxy[t][y]
    BY <2>1 DEF TypeOK
  <2> QED BY <1>5, <1>7, <2>2, <2>3
<1> QED BY <1>6, <1>7

-----------------------------------------------------------------------------
(* Every step keeps the types. *)

LEMMA InitTypes == Init => TypeOK
<1> SUFFICES ASSUME Init PROVE TypeOK
  OBVIOUS
<1>1. ConnTypes /\ ClientTypes /\ ListTypes /\ RouteTypes /\ AliveTypes
  BY RoutesAssumption
     DEF Init, ConnTypes, ClientTypes, ListTypes, RouteTypes, AliveTypes, Tolds
<1>2. LineTypes /\ BackTypes
  BY DEF Init, LineTypes, BackTypes
<1> QED BY <1>1, <1>2, TypeParts

\* A client that comes or goes is work.
LEMMA MoveTypes ==
    ASSUME TypeOK, NEW c \in Clients, work < MaxWork, work' = work + 1,
           moves' = [moves EXCEPT ![c] = @ + 1], NEW a \in Proxies \cup {None}, at' = [at EXCEPT ![c] = a]
    PROVE  ClientTypes'
<1>1. /\ moves \in [Clients -> Nat] /\ work \in Nat /\ MaxWork \in Nat
      /\ \A d \in Clients : moves[d] <= work
  BY RoutesAssumption DEF TypeOK, Tolds
<1>2. /\ work' \in 0 .. MaxWork /\ moves' \in [Clients -> Nat]
      /\ \A d \in Clients : moves'[d] <= work'
  BY <1>1
<1>3. moves' \in Tolds
  BY <1>1, <1>2 DEF Tolds
<1>4. at' \in [Clients -> Proxies \cup {None}]
  BY DEF TypeOK
<1> QED BY <1>2, <1>3, <1>4 DEF ClientTypes

LEMMA DiscoverTypes ==
    ASSUME TypeOK, NEW c \in Clients, NEW x \in Proxies, ClientDiscover(c, x)
    PROVE  /\ TypeOK'
           /\ [ToShard("discover", {c}) EXCEPT !.told = moves'] \in ShardMessages
<1> DEFINE m == [ToShard("discover", {c}) EXCEPT !.told = moves']
<1>1. ClientTypes'
  BY MoveTypes DEF ClientDiscover
<1>2. m \in ShardMessages
  BY <1>1 DEF ClientTypes, ShardMessages, ToShard
<1>3. DeliverAll(x, m)
  BY DEF ClientDiscover
<1> HIDE DEF m
<1>4. LineTypes'
  BY <1>2, <1>3, DeliveredAll
<1>5. ConnTypes' /\ ListTypes' /\ RouteTypes' /\ AliveTypes' /\ BackTypes'
  BY TypeParts DEF ClientDiscover, shardVars, history,
     ConnTypes, ListTypes, RouteTypes, AliveTypes, BackTypes
<1> QED BY <1>1, <1>2, <1>4, <1>5, TypesLater DEF m

LEMMA GoneTypes ==
    ASSUME TypeOK, NEW c \in Clients, ClientLost(c)
    PROVE  /\ TypeOK' /\ at[c] \in Proxies
           /\ [ToShard("gone", {c}) EXCEPT !.told = moves'] \in ShardMessages
<1> DEFINE m == [ToShard("gone", {c}) EXCEPT !.told = moves']
<1>0. at[c] \in Proxies
  BY DEF ClientLost, TypeOK
<1>1. ClientTypes'
  BY MoveTypes DEF ClientLost
<1>2. m \in ShardMessages
  BY <1>1 DEF ClientTypes, ShardMessages, ToShard
<1>3. DeliverAll(at[c], m)
  BY DEF ClientLost
<1> HIDE DEF m
<1>4. LineTypes'
  BY <1>0, <1>2, <1>3, DeliveredAll
<1>5. ConnTypes' /\ ListTypes' /\ RouteTypes' /\ AliveTypes' /\ BackTypes'
  BY TypeParts DEF ClientLost, shardVars, history,
     ConnTypes, ListTypes, RouteTypes, AliveTypes, BackTypes
<1> QED BY <1>0, <1>1, <1>2, <1>4, <1>5, TypesLater DEF m

LEMMA ConnectTypes ==
    ASSUME TypeOK, NEW x \in Proxies, NEW s \in Shards, Connect(x, s)
    PROVE  TypeOK'
<1>1. LineTypes'
  BY ConnectLines
<1>2. ClientTypes' /\ ListTypes' /\ RouteTypes' /\ AliveTypes' /\ BackTypes'
  BY TypeParts DEF Connect, shardVars, history, bounds,
     ClientTypes, ListTypes, RouteTypes, AliveTypes, BackTypes
<1>3. ConnTypes'
  BY DEF Connect, history, ConnTypes, TypeOK
<1> QED BY <1>1, <1>2, <1>3, TypesLater

LEMMA AckTypes ==
    ASSUME TypeOK, NEW x \in Proxies, NEW s \in Shards, OnClientConnectionClusterShard(x, s)
    PROVE  TypeOK' /\ ToShard("discover", {c \in Clients : at[c] = x}) \in ShardMessages
<1> DEFINE m == ToShard("discover", {c \in Clients : at[c] = x})
<1>1. m \in ShardMessages
  BY Sent
<1>2. Deliver(x, s, m) /\ ProxyGets(s, x, "ack") /\ ProxyTook(s, x)
  BY DEF OnClientConnectionClusterShard
<1> HIDE DEF m
<1>3. LineTypes' /\ BackTypes'
  BY <1>1, <1>2, Delivered, TookAtProxy
<1>4. ClientTypes' /\ ListTypes' /\ RouteTypes' /\ AliveTypes'
  BY TypeParts DEF OnClientConnectionClusterShard, shardVars, bounds,
     ClientTypes, ListTypes, RouteTypes, AliveTypes
<1>5. ConnTypes'
  BY DEF OnClientConnectionClusterShard, ConnTypes, TypeOK
<1> QED BY <1>1, <1>3, <1>4, <1>5, TypesLater DEF m

LEMMA BreakTypes ==
    ASSUME TypeOK, NEW x \in Proxies, NEW s \in Shards, OnClientLostClusterShard(x, s)
    PROVE  TypeOK'
<1>1. LineTypes' /\ BackTypes'
  BY BreakLines
<1>2. ClientTypes' /\ ListTypes'
  BY TypeParts DEF OnClientLostClusterShard, shardVars, ClientTypes, ListTypes
<1>3. ConnTypes'
  BY DEF OnClientLostClusterShard, ConnTypes, TypeOK
<1>4. RouteTypes'
  BY DEF OnClientLostClusterShard, shardVars, RouteTypes, TypeOK, Forget
<1>5. AliveTypes'
  BY RoutesAssumption DEF OnClientLostClusterShard, shardVars, AliveTypes, TypeOK
<1> QED BY <1>1, <1>2, <1>3, <1>4, <1>5, TypesLater

\* The shard that a request for a room goes to.
Goal(x, o) == IF dynamic[x][o] # None THEN dynamic[x][o] ELSE ShardFor[ring[x]]

LEMMA CreateTypes ==
    ASSUME TypeOK, NEW x \in Proxies, NEW o \in Objects, HandleCreateRoom(x, o)
    PROVE  /\ TypeOK' /\ Goal(x, o) \in Shards /\ ToShard("create", {o}) \in ShardMessages
           /\ Deliver(x, Goal(x, o), ToShard("create", {o}))
<1> DEFINE m == ToShard("create", {o})
<1>1. m \in ShardMessages
  BY Sent
<1>2. PICK s : s = Goal(x, o) /\ s \in Shards
  <2>1. CASE dynamic[x][o] # None
    BY <2>1 DEF TypeOK, Goal
  <2>2. CASE dynamic[x][o] = None
    <3>1. ring[x] # {} /\ ring[x] \in SUBSET Shards
      BY <2>2 DEF HandleCreateRoom, TypeOK
    <3>2. ShardFor[ring[x]] \in ring[x]
      BY <3>1, RoutesAssumption
    <3> QED BY <2>2, <3>1, <3>2 DEF Goal
  <2> QED BY <2>1, <2>2
<1>3. /\ dynamic' = [dynamic EXCEPT ![x][o] = s]
      /\ counted' = [counted EXCEPT ![x] = IF dynamic[x][o] # None THEN @ ELSE @ \cup {s}]
      /\ Deliver(x, s, m)
      /\ ghosts' = [ghosts EXCEPT ![x] = IF s \in conn[x] THEN @ ELSE @ \cup {o}]
      /\ late' = [late EXCEPT ![x] = IF s \in conn[x] THEN @ ELSE @ \cup {s}]
  BY <1>2 DEF HandleCreateRoom, Goal
<1> HIDE DEF m
<1>4. LineTypes'
  BY <1>1, <1>2, <1>3, Delivered
<1>5. ListTypes' /\ AliveTypes' /\ BackTypes'
  BY TypeParts DEF HandleCreateRoom, shardVars, ListTypes, AliveTypes, BackTypes
<1>6. ClientTypes'
  BY RoutesAssumption DEF HandleCreateRoom, TypeOK, ClientTypes, Tolds
<1>7. ConnTypes'
  BY <1>2, <1>3 DEF HandleCreateRoom, ConnTypes, TypeOK
<1>8. RouteTypes'
  BY <1>2, <1>3 DEF HandleCreateRoom, shardVars, RouteTypes, TypeOK
<1> QED BY <1>1, <1>2, <1>3, <1>4, <1>5, <1>6, <1>7, <1>8, TypesLater DEF m

LEMMA AddTypes ==
    ASSUME TypeOK, NEW x \in Proxies, NEW s \in Shards, HandleAddObject(x, s)
    PROVE  TypeOK'
<1> DEFINE m == Head(toProxy[s][x])
<1>1. ProxyGets(s, x, "add") /\ ProxyTook(s, x)
  BY DEF HandleAddObject
<1>2. m \in ProxyMessages /\ BackTypes'
  BY <1>1, TookAtProxy
<1>3. m.what \subseteq Objects
  BY <1>2, ProxyMessage
<1>4. ClientTypes' /\ ListTypes' /\ AliveTypes' /\ LineTypes'
  BY TypeParts DEF HandleAddObject, shardVars, bounds, ClientTypes, ListTypes, AliveTypes, LineTypes
<1>5. ConnTypes'
  BY DEF HandleAddObject, ConnTypes, TypeOK
<1>6. RouteTypes'
  BY <1>3 DEF HandleAddObject, shardVars, RouteTypes, TypeOK
<1> QED BY <1>2, <1>4, <1>5, <1>6, TypesLater

LEMMA RemoveTypes ==
    ASSUME TypeOK, NEW x \in Proxies, NEW s \in Shards, HandleRemoveObject(x, s)
    PROVE  TypeOK'
<1>1. ProxyGets(s, x, "remove") /\ ProxyTook(s, x)
  BY DEF HandleRemoveObject
<1>2. BackTypes'
  BY <1>1, TookAtProxy
<1>4. ClientTypes' /\ ListTypes' /\ AliveTypes' /\ LineTypes' /\ ConnTypes'
  BY TypeParts DEF HandleRemoveObject, shardVars, bounds, ClientTypes, ListTypes, AliveTypes,
     LineTypes, ConnTypes
<1>6. RouteTypes'
  BY DEF HandleRemoveObject, shardVars, RouteTypes, TypeOK
<1> QED BY <1>2, <1>4, <1>6, TypesLater

LEMMA RegisterTypes ==
    ASSUME TypeOK, NEW x \in Proxies, NEW s \in Shards, HandleRegister(s, x)
    PROVE  TypeOK'
<1>1. ShardGets(x, s, "register") /\ RegisterTook(x, s) /\ unsent' = unsent
  BY DEF HandleRegister
<1>2. LineTypes' /\ BackTypes'
  BY <1>1, RegisterTaken, RegisterLines
<1>3. ClientTypes' /\ RouteTypes' /\ AliveTypes' /\ ConnTypes'
  BY TypeParts DEF HandleRegister, proxyVars, bounds, history, ClientTypes, RouteTypes, AliveTypes, ConnTypes
<1>4. ListTypes'
  BY DEF HandleRegister, history, ListTypes, TypeOK
<1> QED BY <1>2, <1>3, <1>4, TypesLater

LEMMA LostTypes ==
    ASSUME TypeOK, NEW x \in Proxies, NEW s \in Shards, OnServerLostHandle(s, x)
    PROVE  TypeOK'
<1>1. ShardGets(x, s, "lost") /\ ShardTook(x, s) /\ unsent' = unsent
  BY DEF OnServerLostHandle
<1>2. LineTypes'
  BY <1>1, TookAtShard
<1>3. ClientTypes' /\ RouteTypes' /\ AliveTypes' /\ ConnTypes' /\ BackTypes'
  BY TypeParts DEF OnServerLostHandle, proxyVars, bounds, history, ClientTypes, RouteTypes, AliveTypes,
     ConnTypes, BackTypes
<1>4. ListTypes'
  BY DEF OnServerLostHandle, history, ListTypes, TypeOK
<1> QED BY <1>2, <1>3, <1>4, TypesLater

LEMMA NoteTypes ==
    ASSUME TypeOK, NEW s \in Shards, NEW m \in ShardMessages, m.type \in {"discover", "gone"}, Note(s, m)
    PROVE  seen' \in [Shards -> Tolds] /\ crossed' \in [Shards -> SUBSET Clients]
<1>1. m.what \subseteq Clients /\ m.told \in Tolds
  BY ShardMessage
<1>2. Overtaken(s, m) \in SUBSET Clients
  BY <1>1 DEF Overtaken
<1> DEFINE new == [c \in Clients |-> IF c \in m.what \ Overtaken(s, m) THEN m.told[c] ELSE seen[s][c]]
<1>3. new \in Tolds
  BY <1>1 DEF TypeOK, Tolds
<1>4. seen' = [seen EXCEPT ![s] = new]
  BY DEF Note
<1>5. crossed' = [crossed EXCEPT ![s] = (crossed[s] \ m.what) \cup Overtaken(s, m)]
  BY DEF Note
<1>6. (crossed[s] \ m.what) \cup Overtaken(s, m) \in SUBSET Clients
  BY <1>2 DEF TypeOK
<1> HIDE DEF new
<1>7. seen' \in [Shards -> Tolds]
  BY <1>3, <1>4 DEF TypeOK
<1> QED BY <1>5, <1>6, <1>7 DEF TypeOK

LEMMA HearTypes ==
    ASSUME TypeOK, NEW x \in Proxies, NEW s \in Shards,
           HandleClusterClientDiscoverReq(s, x) \/ HandleClusterClientLostReq(s, x)
    PROVE  TypeOK'
<1> DEFINE m == Head(toShard[x][s])
<1>1. PICK type \in {"discover", "gone"} : ShardGets(x, s, type) /\ ShardTook(x, s) /\ unsent' = unsent
  BY DEF HandleClusterClientDiscoverReq, HandleClusterClientLostReq
<1>2. LineTypes' /\ m \in ShardMessages /\ m.type \in {"discover", "gone"}
  BY <1>1, TookAtShard
<1>3. ClientTypes' /\ RouteTypes' /\ AliveTypes' /\ ConnTypes' /\ BackTypes'
  BY TypeParts DEF HandleClusterClientDiscoverReq, HandleClusterClientLostReq, proxyVars, bounds,
     ClientTypes, RouteTypes, AliveTypes, ConnTypes, BackTypes
<1>4. Note(s, m)
  BY DEF HandleClusterClientDiscoverReq, HandleClusterClientLostReq
<1>5. seen' \in [Shards -> Tolds] /\ crossed' \in [Shards -> SUBSET Clients]
  BY <1>2, <1>4, NoteTypes
<1>7. m.what \subseteq Clients
  BY <1>2, ShardMessage
<1>6. /\ known' = known /\ loose' \in [Shards -> SUBSET Clients]
      /\ listed' \in [Shards -> [Clients -> Proxies \cup {Stranger, None}]]
  <2>1. CASE HandleClusterClientDiscoverReq(s, x)
    BY <1>7, <2>1 DEF HandleClusterClientDiscoverReq, TypeOK
  <2>2. CASE HandleClusterClientLostReq(s, x)
    BY <1>7, <2>2 DEF HandleClusterClientLostReq, TypeOK
  <2> QED BY <2>1, <2>2
<1>8. ListTypes'
  BY <1>5, <1>6 DEF ListTypes, TypeOK
<1> QED BY <1>2, <1>3, <1>8, TypesLater

LEMMA RoomTypes ==
    ASSUME TypeOK, NEW x \in Proxies, NEW s \in Shards, HandleCreateRoomToShard(s, x)
    PROVE  TypeOK' /\ ToProxy("add", Head(toShard[x][s]).what) \in ProxyMessages
<1> DEFINE m == Head(toShard[x][s])
<1>1. ShardGets(x, s, "create") /\ ShardTook(x, s) /\ unsent' = unsent
  BY DEF HandleCreateRoomToShard
<1>2. LineTypes' /\ m \in ShardMessages /\ m.type = "create"
  BY <1>1, TookAtShard
<1>3. m.what \subseteq Objects
  BY <1>2, ShardMessage
<1>4. ToProxy("add", m.what) \in ProxyMessages
  BY <1>3, Sent
<1>5. BackTypes'
  BY <1>4, Broadcasted DEF HandleCreateRoomToShard
<1>6. ClientTypes' /\ AliveTypes' /\ ConnTypes' /\ ListTypes'
  BY TypeParts DEF HandleCreateRoomToShard, proxyVars, bounds, ClientTypes, AliveTypes, ConnTypes, ListTypes
<1>7. RouteTypes'
  BY <1>3 DEF HandleCreateRoomToShard, proxyVars, RouteTypes, TypeOK
<1> QED BY <1>2, <1>4, <1>5, <1>6, <1>7, TypesLater

LEMMA RoomEndTypes ==
    ASSUME TypeOK, NEW s \in Shards, NEW o \in Objects, RemoveBattleRoom(s, o)
    PROVE  TypeOK' /\ ToProxy("remove", {o}) \in ProxyMessages
<1>4. ToProxy("remove", {o}) \in ProxyMessages
  BY Sent
<1>5. BackTypes'
  BY <1>4, Broadcasted DEF RemoveBattleRoom
<1>6. ClientTypes' /\ AliveTypes' /\ ConnTypes' /\ ListTypes' /\ LineTypes'
  BY TypeParts DEF RemoveBattleRoom, proxyVars, bounds, history, ClientTypes, AliveTypes, ConnTypes,
     ListTypes, LineTypes
<1>7. RouteTypes'
  BY DEF RemoveBattleRoom, proxyVars, history, RouteTypes, TypeOK
<1> QED BY <1>4, <1>5, <1>6, <1>7, TypesLater

LEMMA CrashTypes ==
    ASSUME TypeOK, NEW s \in Shards, Crash(s)
    PROVE  TypeOK'
<1>1. LineTypes'
  <2>1. \A x \in Proxies : toShard[x] \in [Shards -> Seq(ShardMessages)]
    BY DEF TypeOK
  <2>3. unsent' \in [Proxies -> [Shards -> Seq(ShardMessages)]]
    BY DEF Crash, TypeOK
  <2>2. << >> \in Seq(ShardMessages)
    OBVIOUS
  <2> QED BY <2>1, <2>2, <2>3 DEF Crash, LineTypes
<1>2. ConnTypes' /\ ClientTypes' /\ BackTypes'
  BY TypeParts DEF Crash, proxyVars, ConnTypes, ClientTypes, BackTypes
<1>3. AliveTypes'
  BY RoutesAssumption DEF Crash, AliveTypes, TypeOK
<1>4. RouteTypes'
  BY DEF Crash, proxyVars, RouteTypes, TypeOK
<1>5. ListTypes'
  <2>1. [c \in Clients |-> 0] \in Tolds
    BY RoutesAssumption DEF Tolds
  <2> QED BY <2>1 DEF Crash, ListTypes, TypeOK
<1> QED BY <1>1, <1>2, <1>3, <1>4, <1>5, TypesLater

LEMMA StartTypes ==
    ASSUME TypeOK, NEW s \in Shards, Start(s)
    PROVE  TypeOK'
<1>1. ConnTypes' /\ ClientTypes' /\ BackTypes' /\ RouteTypes' /\ ListTypes'
  BY TypeParts DEF Start, proxyVars, bounds, history, ConnTypes, ClientTypes, BackTypes,
     RouteTypes, ListTypes
<1>3. LineTypes'
  <2>1. \A x \in Proxies : unsent[x] \in [Shards -> Seq(ShardMessages)]
    BY DEF TypeOK
  <2>2. << >> \in Seq(ShardMessages)
    OBVIOUS
  <2> QED BY <2>1, <2>2 DEF Start, LineTypes, TypeOK
<1>2. AliveTypes'
  BY DEF Start, bounds, AliveTypes, TypeOK
<1> QED BY <1>1, <1>2, <1>3, TypesLater

LEMMA StutterTypes == TypeOK /\ UNCHANGED vars => TypeOK'
BY DEF vars, proxyVars, shardVars, bounds, history, TypeOK

LEMMA NextTypes == TypeOK /\ [Next]_vars => TypeOK'
BY DiscoverTypes, GoneTypes, ConnectTypes, AckTypes, BreakTypes, CreateTypes, AddTypes, RemoveTypes,
   RegisterTypes, LostTypes, HearTypes, RoomTypes, RoomEndTypes, CrashTypes, StartTypes, StutterTypes
   DEF Next

\* For any proxies, shards, clients and objects: the tables hold what they are for, and
\* every message under way is about clients or about rooms.
THEOREM RouteTables == Spec => []TypeOK
BY InitTypes, NextTypes, PTL DEF Spec
-----------------------------------------------------------------------------
(* What is under way from a proxy to a shard. *)

Has(q, type) == \E i \in 1 .. Len(q) : q[i].type = type

\* Whether the shard has the proxy registered when it has handled n messages of q.
Up(q, up, n) ==
    \/ \E i \in 1 .. n : q[i].type = "register" /\ \A j \in i + 1 .. n : q[j].type # "lost"
    \/ up /\ \A j \in 1 .. n : q[j].type # "lost"

\* A proxy registers where it is not registered; in the end it is registered if the
\* connection is still there.
Line(q, up) == \A i \in 1 .. Len(q) : q[i].type = "register" => ~ Up(q, up, i - 1)
OnLine(q, up, on) == Line(q, up) /\ (Up(q, up, Len(q)) <=> on)

\* What waits for a connection: at most one registration, and no loss.
Fresh(q) == Line(q, FALSE) /\ ~ Has(q, "lost")

LEMMA UpSame ==
    ASSUME NEW q, NEW r, NEW n \in Nat, \A i \in 1 .. n : r[i] = q[i], NEW up
    PROVE  Up(r, up, n) <=> Up(q, up, n)
BY DEF Up

LEMMA UpNext ==
    ASSUME NEW q, NEW n \in Nat, NEW up
    PROVE  Up(q, up, n + 1) <=> q[n + 1].type = "register" \/ (Up(q, up, n) /\ q[n + 1].type # "lost")
<1>1. ASSUME Up(q, up, n + 1), q[n + 1].type # "register"
      PROVE  Up(q, up, n) /\ q[n + 1].type # "lost"
  <2>1. CASE \E i \in 1 .. n + 1 : q[i].type = "register" /\ \A j \in i + 1 .. n + 1 : q[j].type # "lost"
    <3>1. PICK i \in 1 .. n + 1 : q[i].type = "register" /\ \A j \in i + 1 .. n + 1 : q[j].type # "lost"
      BY <2>1
    <3>2. i \in 1 .. n /\ n + 1 \in i + 1 .. n + 1 /\ i + 1 .. n \subseteq i + 1 .. n + 1
      BY <1>1, <3>1
    <3> QED BY <3>1, <3>2 DEF Up
  <2>2. CASE up /\ \A j \in 1 .. n + 1 : q[j].type # "lost"
    BY <2>2 DEF Up
  <2> QED BY <1>1, <2>1, <2>2 DEF Up
<1>2. ASSUME q[n + 1].type = "register" PROVE Up(q, up, n + 1)
  <2>1. n + 1 \in 1 .. n + 1 /\ (n + 1) + 1 .. n + 1 = {}
    OBVIOUS
  <2> QED BY <1>2, <2>1 DEF Up
<1>3. ASSUME Up(q, up, n), q[n + 1].type # "lost" PROVE Up(q, up, n + 1)
  <2>1. CASE \E i \in 1 .. n : q[i].type = "register" /\ \A j \in i + 1 .. n : q[j].type # "lost"
    <3>1. PICK i \in 1 .. n : q[i].type = "register" /\ \A j \in i + 1 .. n : q[j].type # "lost"
      BY <2>1
    <3>2. i \in 1 .. n + 1 /\ \A j \in i + 1 .. n + 1 : j \in i + 1 .. n \/ j = n + 1
      OBVIOUS
    <3> QED BY <1>3, <3>1, <3>2 DEF Up
  <2>2. CASE up /\ \A j \in 1 .. n : q[j].type # "lost"
    <3>1. \A j \in 1 .. n + 1 : j \in 1 .. n \/ j = n + 1
      OBVIOUS
    <3> QED BY <1>3, <2>2, <3>1 DEF Up
  <2> QED BY <1>3, <2>1, <2>2 DEF Up
<1> QED BY <1>1, <1>2, <1>3

\* The same when the first message has been handled.
Next1(up, type) == type = "register" \/ (up /\ type # "lost")

LEMMA UpTail ==
    ASSUME NEW q, NEW r, NEW n \in Nat, \A i \in 1 .. n : r[i] = q[i + 1], NEW up
    PROVE  Up(r, Next1(up, q[1].type), n) <=> Up(q, up, n + 1)
<1> DEFINE now == Next1(up, q[1].type)
<1>1. ASSUME Up(r, now, n) PROVE Up(q, up, n + 1)
  <2>1. CASE \E i \in 1 .. n : r[i].type = "register" /\ \A j \in i + 1 .. n : r[j].type # "lost"
    <3>1. PICK i \in 1 .. n : r[i].type = "register" /\ \A j \in i + 1 .. n : r[j].type # "lost"
      BY <2>1
    <3>2. i + 1 \in 1 .. n + 1 /\ \A j \in (i + 1) + 1 .. n + 1 : j - 1 \in i + 1 .. n /\ j - 1 \in 1 .. n /\ (j - 1) + 1 = j
      OBVIOUS
    <3>3. q[i + 1].type = "register" /\ \A j \in (i + 1) + 1 .. n + 1 : q[j].type # "lost"
      BY <3>1, <3>2
    <3> QED BY <3>2, <3>3 DEF Up
  <2>2. CASE now /\ \A j \in 1 .. n : r[j].type # "lost"
    <3>1. \A j \in 2 .. n + 1 : j - 1 \in 1 .. n /\ (j - 1) + 1 = j
      OBVIOUS
    <3>2. \A j \in 2 .. n + 1 : q[j].type # "lost"
      BY <2>2, <3>1
    <3>3. CASE q[1].type = "register"
      <4>1. 1 \in 1 .. n + 1 /\ 1 + 1 = 2
        OBVIOUS
      <4> QED BY <3>2, <3>3, <4>1 DEF Up
    <3>4. CASE up /\ q[1].type # "lost"
      <4>1. \A j \in 1 .. n + 1 : j = 1 \/ j \in 2 .. n + 1
        OBVIOUS
      <4> QED BY <3>2, <3>4, <4>1 DEF Up
    <3> QED BY <2>2, <3>3, <3>4 DEF Next1
  <2> QED BY <1>1, <2>1, <2>2 DEF Up
<1>2. ASSUME Up(q, up, n + 1) PROVE Up(r, now, n)
  <2>0. \A j \in 1 .. n : j + 1 \in 1 .. n + 1
    OBVIOUS
  <2>1. CASE \E i \in 1 .. n + 1 : q[i].type = "register" /\ \A j \in i + 1 .. n + 1 : q[j].type # "lost"
    <3>1. PICK i \in 1 .. n + 1 : q[i].type = "register" /\ \A j \in i + 1 .. n + 1 : q[j].type # "lost"
      BY <2>1
    <3>2. CASE i = 1
      <4>1. \A j \in 1 .. n : j + 1 \in i + 1 .. n + 1
        BY <3>2
      <4>2. \A j \in 1 .. n : r[j].type # "lost"
        BY <3>1, <4>1
      <4> QED BY <3>1, <3>2, <4>2 DEF Up, Next1
    <3>3. CASE i # 1
      <4>1. i - 1 \in 1 .. n /\ (i - 1) + 1 = i
            /\ \A j \in (i - 1) + 1 .. n : j \in 1 .. n /\ j + 1 \in i + 1 .. n + 1
        BY <3>3
      <4>2. r[i - 1].type = "register" /\ \A j \in (i - 1) + 1 .. n : r[j].type # "lost"
        BY <3>1, <4>1
      <4> QED BY <4>1, <4>2 DEF Up
    <3> QED BY <3>2, <3>3
  <2>2. CASE up /\ \A j \in 1 .. n + 1 : q[j].type # "lost"
    <3>1. \A j \in 1 .. n : r[j].type # "lost"
      BY <2>0, <2>2
    <3>2. 1 \in 1 .. n + 1
      OBVIOUS
    <3> QED BY <2>2, <3>1, <3>2 DEF Up, Next1
  <2> QED BY <1>2, <2>1, <2>2 DEF Up
<1> QED BY <1>1, <1>2

\* Appending.
LEMMA LineAppend ==
    ASSUME NEW M, NEW q \in Seq(M), NEW m \in M, NEW up, NEW on, OnLine(q, up, on),
           m.type = "register" => ~ on
    PROVE  OnLine(Append(q, m), up, Next1(on, m.type))
<1> DEFINE r == Append(q, m)
<1>1. Len(q) \in Nat /\ Len(r) = Len(q) + 1 /\ r[Len(q) + 1] = m /\ \A i \in 1 .. Len(q) : r[i] = q[i]
  BY AppendProperties, LenProperties
<1> HIDE DEF r
<1>2. \A i \in 1 .. Len(q) + 1 : Up(r, up, i - 1) <=> Up(q, up, i - 1)
  <2> SUFFICES ASSUME NEW i \in 1 .. Len(q) + 1 PROVE Up(r, up, i - 1) <=> Up(q, up, i - 1)
    OBVIOUS
  <2>1. i - 1 \in Nat /\ 1 .. i - 1 \subseteq 1 .. Len(q)
    BY <1>1
  <2>2. \A j \in 1 .. i - 1 : r[j] = q[j]
    BY <1>1, <2>1
  <2> QED BY <2>1, <2>2, UpSame
<1>3. Len(q) + 1 \in 1 .. Len(q) + 1 /\ (Len(q) + 1) - 1 = Len(q)
  BY <1>1
<1>4. Up(r, up, Len(q)) <=> on
  BY <1>2, <1>3 DEF OnLine
<1>5. Up(r, up, Len(q) + 1) <=> m.type = "register" \/ (on /\ m.type # "lost")
  BY <1>1, <1>4, UpNext
<1>6. Line(r, up)
  <2> SUFFICES ASSUME NEW i \in 1 .. Len(q) + 1
               PROVE  r[i].type = "register" => ~ Up(r, up, i - 1)
    BY <1>1 DEF Line
  <2>1. CASE i \in 1 .. Len(q)
    BY <1>1, <1>2, <2>1 DEF OnLine, Line
  <2>2. CASE i = Len(q) + 1
    BY <1>1, <1>3, <1>4, <2>2
  <2> QED BY <1>1, <2>1, <2>2
<1>7. Up(r, up, Len(r)) <=> Next1(on, m.type)
  BY <1>1, <1>5 DEF Next1
<1> QED BY <1>6, <1>7 DEF OnLine, r

\* The loss of the connection, after any part of the line.
LEMMA LineCut ==
    ASSUME NEW M, NEW q \in Seq(M), NEW m \in M, m.type = "lost", NEW k \in 0 .. Len(q), NEW up, NEW on, OnLine(q, up, on)
    PROVE  OnLine(Cut(q, m, k), up, FALSE)
<1> DEFINE r == Cut(q, m, k)
<1>1. Len(q) \in Nat /\ k \in Nat /\ 1 .. k \subseteq 1 .. Len(q)
  BY LenProperties
<1>2. Len(r) = k + 1 /\ r[k + 1] = m /\ \A i \in 1 .. k : r[i] = q[i]
  BY CutProperties
<1> HIDE DEF r
<1>3. ~ Up(r, up, k + 1)
  BY <1>1, <1>2, UpNext
<1>4. Line(r, up)
  <2> SUFFICES ASSUME NEW i \in 1 .. k + 1
               PROVE  r[i].type = "register" => ~ Up(r, up, i - 1)
    BY <1>2 DEF Line
  <2>1. CASE i \in 1 .. k
    <3>1. i - 1 \in Nat /\ 1 .. i - 1 \subseteq 1 .. k /\ i \in 1 .. Len(q)
      BY <1>1, <2>1
    <3>2. Up(r, up, i - 1) <=> Up(q, up, i - 1)
      <4>1. \A j \in 1 .. i - 1 : r[j] = q[j]
        BY <1>2, <3>1
      <4> QED BY <3>1, <4>1, UpSame
    <3> QED BY <1>2, <2>1, <3>1, <3>2 DEF OnLine, Line
  <2>2. CASE i = k + 1
    BY <1>2, <2>2
  <2> QED BY <1>1, <2>1, <2>2
<1> QED BY <1>2, <1>3, <1>4 DEF OnLine, r

\* Handling the first message.
LEMMA LineTail ==
    ASSUME NEW M, NEW q \in Seq(M), q # << >>, NEW up, NEW on, OnLine(q, up, on)
    PROVE  /\ OnLine(Tail(q), Next1(up, Head(q).type), on)
           /\ Head(q).type = "register" => ~ up
<1> DEFINE r == Tail(q)
<1>1. Len(q) \in Nat /\ Len(q) >= 1 /\ Len(r) = Len(q) - 1 /\ Head(q) = q[1]
      /\ \A i \in 1 .. Len(r) : r[i] = q[i + 1]
  BY HeadTailProperties, LenProperties, EmptySeq
<1> HIDE DEF r
<1> DEFINE now == Next1(up, q[1].type)
<1>2. \A n \in 0 .. Len(r) : Up(r, now, n) <=> Up(q, up, n + 1)
  <2> SUFFICES ASSUME NEW n \in 0 .. Len(r) PROVE Up(r, now, n) <=> Up(q, up, n + 1)
    OBVIOUS
  <2>1. n \in Nat /\ 1 .. n \subseteq 1 .. Len(r)
    BY <1>1
  <2>2. \A i \in 1 .. n : r[i] = q[i + 1]
    BY <1>1, <2>1
  <2> QED BY <2>1, <2>2, UpTail
<1>3. Up(r, now, Len(r)) <=> on
  <2>1. Len(r) \in 0 .. Len(r) /\ Len(r) + 1 = Len(q)
    BY <1>1
  <2> QED BY <1>2, <2>1 DEF OnLine
<1>4. Line(r, now)
  <2> SUFFICES ASSUME NEW i \in 1 .. Len(r)
               PROVE  r[i].type = "register" => ~ Up(r, now, i - 1)
    BY DEF Line
  <2>1. i - 1 \in 0 .. Len(r) /\ (i - 1) + 1 = i /\ (i + 1) - 1 = i /\ i + 1 \in 1 .. Len(q)
    BY <1>1
  <2>2. Up(r, now, i - 1) <=> Up(q, up, i)
    BY <1>2, <2>1
  <2>3. r[i] = q[i + 1]
    BY <1>1
  <2> QED BY <2>1, <2>2, <2>3 DEF OnLine, Line
<1>5. 1 \in 1 .. Len(q) /\ 1 - 1 = 0 /\ (Up(q, up, 0) <=> up)
  BY <1>1 DEF Up
<1>6. q[1].type = "register" => ~ up
  BY <1>5 DEF OnLine, Line
<1> QED BY <1>1, <1>3, <1>4, <1>6 DEF OnLine, r

\* What is appended is there, and what is not taken stays.
LEMMA HasAppend ==
    ASSUME NEW M, NEW q \in Seq(M), NEW m \in M, NEW type
    PROVE  Has(Append(q, m), type) <=> Has(q, type) \/ m.type = type
<1> DEFINE r == Append(q, m)
<1>1. Len(q) \in Nat /\ Len(r) = Len(q) + 1 /\ r[Len(q) + 1] = m /\ \A i \in 1 .. Len(q) : r[i] = q[i]
  BY AppendProperties, LenProperties
<1> HIDE DEF r
<1>2. \A i \in 1 .. Len(r) : i \in 1 .. Len(q) \/ i = Len(q) + 1
  BY <1>1
<1>3. 1 .. Len(q) \subseteq 1 .. Len(r) /\ Len(q) + 1 \in 1 .. Len(r)
  BY <1>1
<1>4. Has(r, type) <=> Has(q, type) \/ m.type = type
  BY <1>1, <1>2, <1>3 DEF Has
<1> QED BY <1>4 DEF r

LEMMA HasConcat ==
    ASSUME NEW M, NEW q \in Seq(M), NEW w \in Seq(M), NEW type
    PROVE  Has(q \o w, type) <=> Has(q, type) \/ Has(w, type)
<1> DEFINE r == q \o w
<1>1. /\ Len(q) \in Nat /\ Len(w) \in Nat /\ Len(r) = Len(q) + Len(w)
      /\ \A i \in 1 .. Len(q) : r[i] = q[i]
      /\ \A i \in 1 .. Len(w) : r[Len(q) + i] = w[i]
  BY ConcatSeq, LenProperties
<1> HIDE DEF r
<1>2. ASSUME NEW i \in 1 .. Len(r), r[i].type = type PROVE Has(q, type) \/ Has(w, type)
  <2>1. CASE i \in 1 .. Len(q)
    BY <1>1, <1>2, <2>1 DEF Has
  <2>2. CASE i \notin 1 .. Len(q)
    <3>1. i - Len(q) \in 1 .. Len(w) /\ Len(q) + (i - Len(q)) = i
      BY <1>1, <2>2
    <3>2. w[i - Len(q)].type = type
      BY <1>1, <1>2, <3>1
    <3> QED BY <3>1, <3>2 DEF Has
  <2> QED BY <2>1, <2>2
<1>3. \A i \in 1 .. Len(q) : i \in 1 .. Len(r)
  BY <1>1
<1>4. \A i \in 1 .. Len(w) : Len(q) + i \in 1 .. Len(r)
  BY <1>1
<1>5. Has(r, type) <=> Has(q, type) \/ Has(w, type)
  BY <1>1, <1>2, <1>3, <1>4 DEF Has
<1> QED BY <1>5 DEF r

LEMMA HasTail ==
    ASSUME NEW M, NEW q \in Seq(M), q # << >>, NEW type
    PROVE  Has(q, type) <=> Has(Tail(q), type) \/ Head(q).type = type
<1> DEFINE r == Tail(q)
<1>1. Len(q) \in Nat /\ Len(q) >= 1 /\ Len(r) = Len(q) - 1 /\ Head(q) = q[1]
      /\ \A i \in 1 .. Len(r) : r[i] = q[i + 1]
  BY HeadTailProperties, LenProperties, EmptySeq
<1> HIDE DEF r
<1>2. ASSUME Has(q, type) PROVE Has(r, type) \/ q[1].type = type
  <2>1. PICK i \in 1 .. Len(q) : q[i].type = type
    BY <1>2 DEF Has
  <2>2. CASE i # 1
    <3>1. i - 1 \in 1 .. Len(r) /\ (i - 1) + 1 = i
      BY <1>1, <2>2
    <3>2. r[i - 1].type = type
      BY <1>1, <2>1, <3>1
    <3> QED BY <3>1, <3>2 DEF Has
  <2> QED BY <2>1, <2>2
<1>3. ASSUME Has(r, type) PROVE Has(q, type)
  <2>1. PICK i \in 1 .. Len(r) : r[i].type = type
    BY <1>3 DEF Has
  <2>2. i + 1 \in 1 .. Len(q)
    BY <1>1
  <2> QED BY <1>1, <2>1, <2>2 DEF Has
<1>4. 1 \in 1 .. Len(q)
  BY <1>1
<1>5. Has(q, type) <=> Has(r, type) \/ Head(q).type = type
  BY <1>1, <1>2, <1>3, <1>4 DEF Has
<1> QED BY <1>5 DEF r

\* A line that follows, with no loss in it.
LEMMA UpConcat ==
    ASSUME NEW M, NEW q \in Seq(M), NEW w \in Seq(M), ~ Has(w, "lost"), NEW n \in 0 .. Len(w), NEW up
    PROVE  Up(q \o w, up, Len(q) + n) <=>
              Up(q, up, Len(q)) \/ \E i \in 1 .. n : w[i].type = "register"
<1> DEFINE r == q \o w
<1>1. /\ Len(q) \in Nat /\ Len(w) \in Nat /\ n \in Nat
      /\ \A i \in 1 .. Len(q) : r[i] = q[i]
      /\ \A i \in 1 .. Len(w) : r[Len(q) + i] = w[i]
  BY ConcatSeq, LenProperties
<1> HIDE DEF r
<1>2. \A j \in Len(q) + 1 .. Len(q) + n : r[j].type # "lost"
  <2> SUFFICES ASSUME NEW j \in Len(q) + 1 .. Len(q) + n PROVE r[j].type # "lost"
    OBVIOUS
  <2>1. j - Len(q) \in 1 .. Len(w) /\ Len(q) + (j - Len(q)) = j
    BY <1>1
  <2>2. r[j] = w[j - Len(q)]
    BY <1>1, <2>1
  <2> QED BY <2>1, <2>2 DEF Has
<1>3. ASSUME Up(q, up, Len(q)) PROVE Up(r, up, Len(q) + n)
  <2>1. CASE \E i \in 1 .. Len(q) : q[i].type = "register" /\ \A j \in i + 1 .. Len(q) : q[j].type # "lost"
    <3>1. PICK i \in 1 .. Len(q) : q[i].type = "register" /\ \A j \in i + 1 .. Len(q) : q[j].type # "lost"
      BY <2>1
    <3>2. i \in 1 .. Len(q) + n /\ r[i].type = "register"
      BY <1>1, <3>1
    <3>3. \A j \in i + 1 .. Len(q) + n : (j \in i + 1 .. Len(q) /\ j \in 1 .. Len(q)) \/ j \in Len(q) + 1 .. Len(q) + n
      BY <1>1
    <3>4. \A j \in i + 1 .. Len(q) + n : r[j].type # "lost"
      BY <1>1, <1>2, <3>1, <3>3
    <3> QED BY <3>2, <3>4 DEF Up
  <2>2. CASE up /\ \A j \in 1 .. Len(q) : q[j].type # "lost"
    <3>1. \A j \in 1 .. Len(q) + n : j \in 1 .. Len(q) \/ j \in Len(q) + 1 .. Len(q) + n
      BY <1>1
    <3>2. \A j \in 1 .. Len(q) + n : r[j].type # "lost"
      BY <1>1, <1>2, <2>2, <3>1
    <3> QED BY <2>2, <3>2 DEF Up
  <2> QED BY <1>3, <2>1, <2>2 DEF Up
<1>4. ASSUME NEW i \in 1 .. n, w[i].type = "register" PROVE Up(r, up, Len(q) + n)
  <2>1. Len(q) + i \in 1 .. Len(q) + n /\ i \in 1 .. Len(w)
    BY <1>1
  <2>2. \A j \in (Len(q) + i) + 1 .. Len(q) + n : j \in Len(q) + 1 .. Len(q) + n
    BY <1>1
  <2>3. r[Len(q) + i].type = "register"
    BY <1>1, <1>4, <2>1
  <2>4. \A j \in (Len(q) + i) + 1 .. Len(q) + n : r[j].type # "lost"
    BY <1>2, <2>2
  <2> QED BY <2>1, <2>3, <2>4 DEF Up
<1>5. ASSUME Up(r, up, Len(q) + n), ~ \E i \in 1 .. n : w[i].type = "register" PROVE Up(q, up, Len(q))
  <2>1. CASE \E i \in 1 .. Len(q) + n : r[i].type = "register" /\ \A j \in i + 1 .. Len(q) + n : r[j].type # "lost"
    <3>1. PICK i \in 1 .. Len(q) + n : r[i].type = "register" /\ \A j \in i + 1 .. Len(q) + n : r[j].type # "lost"
      BY <2>1
    <3>2. CASE i \in 1 .. Len(q)
      <4>1. \A j \in i + 1 .. Len(q) : j \in i + 1 .. Len(q) + n /\ j \in 1 .. Len(q)
        BY <1>1
      <4>2. \A j \in i + 1 .. Len(q) : q[j].type # "lost"
        BY <1>1, <3>1, <4>1
      <4> QED BY <1>1, <3>1, <3>2, <4>2 DEF Up
    <3>3. CASE i \notin 1 .. Len(q)
      <4>1. i - Len(q) \in 1 .. n /\ i - Len(q) \in 1 .. Len(w) /\ Len(q) + (i - Len(q)) = i
        BY <1>1, <3>3
      <4>2. w[i - Len(q)].type = "register"
        BY <1>1, <3>1, <4>1
      <4> QED BY <1>5, <4>1, <4>2
    <3> QED BY <3>2, <3>3
  <2>2. CASE up /\ \A j \in 1 .. Len(q) + n : r[j].type # "lost"
    <3>1. \A j \in 1 .. Len(q) : j \in 1 .. Len(q) + n
      BY <1>1
    <3>2. \A j \in 1 .. Len(q) : q[j].type # "lost"
      BY <1>1, <2>2, <3>1
    <3> QED BY <2>2, <3>2 DEF Up
  <2> QED BY <1>5, <2>1, <2>2 DEF Up
<1>6. Up(r, up, Len(q) + n) <=> Up(q, up, Len(q)) \/ \E i \in 1 .. n : w[i].type = "register"
  BY <1>3, <1>4, <1>5
<1> QED BY <1>6 DEF r

\* In what waits there is one registration.
LEMMA FreshOne ==
    ASSUME NEW M, NEW w \in Seq(M), Fresh(w),
           NEW i \in 1 .. Len(w), w[i].type = "register", NEW j \in 1 .. i - 1
    PROVE  w[j].type # "register"
<1>1. Len(w) \in Nat /\ i - 1 \in Nat /\ 1 .. i - 1 \subseteq 1 .. Len(w)
  BY LenProperties
<1>2. ~ Up(w, FALSE, i - 1)
  BY DEF Fresh, Line
<1>3. \A k \in j + 1 .. i - 1 : k \in 1 .. Len(w)
  BY <1>1
<1>4. \A k \in j + 1 .. i - 1 : w[k].type # "lost"
  BY <1>3 DEF Fresh, Has
<1> QED BY <1>2, <1>4 DEF Up

LEMMA LineConcat ==
    ASSUME NEW M, NEW q \in Seq(M), NEW w \in Seq(M), NEW up, OnLine(q, up, FALSE), Fresh(w)
    PROVE  OnLine(q \o w, up, Has(w, "register"))
<1> DEFINE r == q \o w
<1>1. /\ Len(q) \in Nat /\ Len(w) \in Nat /\ Len(r) = Len(q) + Len(w)
      /\ \A i \in 1 .. Len(q) : r[i] = q[i]
      /\ \A i \in 1 .. Len(w) : r[Len(q) + i] = w[i]
  BY ConcatSeq, LenProperties
<1>2. ASSUME NEW n \in 0 .. Len(w)
      PROVE  Up(r, up, Len(q) + n) <=> \E i \in 1 .. n : w[i].type = "register"
  <2>1. ~ Up(q, up, Len(q)) /\ ~ Has(w, "lost")
    BY DEF OnLine, Fresh
  <2>2. Up(r, up, Len(q) + n) <=> Up(q, up, Len(q)) \/ \E i \in 1 .. n : w[i].type = "register"
    BY <2>1, UpConcat
  <2> QED BY <2>1, <2>2
<1> HIDE DEF r
<1>3. Line(r, up)
  <2> SUFFICES ASSUME NEW i \in 1 .. Len(q) + Len(w), r[i].type = "register"
               PROVE  ~ Up(r, up, i - 1)
    BY <1>1 DEF Line
  <2>1. CASE i \in 1 .. Len(q)
    <3>1. i - 1 \in Nat /\ 1 .. i - 1 \subseteq 1 .. Len(q)
      BY <1>1, <2>1
    <3>2. \A j \in 1 .. i - 1 : r[j] = q[j]
      BY <1>1, <3>1
    <3>3. Up(r, up, i - 1) <=> Up(q, up, i - 1)
      BY <3>1, <3>2, UpSame
    <3> QED BY <1>1, <2>1, <3>3 DEF OnLine, Line
  <2>2. CASE i \notin 1 .. Len(q)
    <3>1. PICK k \in 1 .. Len(w) : i = Len(q) + k
      <4>1. i - Len(q) \in 1 .. Len(w) /\ i = Len(q) + (i - Len(q))
        BY <1>1, <2>2
      <4> QED BY <4>1
    <3>2. k - 1 \in 0 .. Len(w) /\ Len(q) + (k - 1) = i - 1
      BY <1>1, <3>1
    <3>3. w[k].type = "register"
      BY <1>1, <3>1
    <3>4. \A j \in 1 .. k - 1 : w[j].type # "register"
      BY <3>3, FreshOne
    <3>5. Up(r, up, Len(q) + (k - 1)) <=> \E j \in 1 .. k - 1 : w[j].type = "register"
      BY <1>2, <3>2
    <3> QED BY <3>2, <3>4, <3>5
  <2> QED BY <2>1, <2>2
<1>4. Up(r, up, Len(r)) <=> Has(w, "register")
  <2>1. Len(w) \in 0 .. Len(w)
    BY <1>1
  <2> QED BY <1>1, <1>2, <2>1 DEF Has
<1> QED BY <1>3, <1>4 DEF OnLine, r

\* Only the types of the messages count.
LEMMA SameTypes ==
    ASSUME NEW q, NEW r, Len(q) \in Nat, Len(r) = Len(q), \A i \in 1 .. Len(q) : r[i].type = q[i].type
    PROVE  /\ \A type : Has(r, type) <=> Has(q, type)
           /\ \A up, on : OnLine(q, up, on) => OnLine(r, up, on)
           /\ Fresh(q) => Fresh(r)
<1>1. ASSUME NEW n \in 0 .. Len(q), NEW up PROVE Up(r, up, n) <=> Up(q, up, n)
  <2>1. \A i \in 1 .. n : i \in 1 .. Len(q) /\ \A j \in i + 1 .. n : j \in 1 .. Len(q)
    OBVIOUS
  <2> QED BY <2>1 DEF Up
<1>2. \A i \in 1 .. Len(q) : i - 1 \in 0 .. Len(q)
  OBVIOUS
<1>3. ASSUME NEW up, Line(q, up) PROVE Line(r, up)
  BY <1>1, <1>2, <1>3 DEF Line
<1>4. Len(q) \in 0 .. Len(q)
  OBVIOUS
<1>5. \A type : Has(r, type) <=> Has(q, type)
  BY DEF Has
<1>6. ASSUME NEW up, NEW on, OnLine(q, up, on) PROVE OnLine(r, up, on)
  BY <1>1, <1>3, <1>4, <1>6 DEF OnLine
<1>7. Fresh(q) => Fresh(r)
  BY <1>3, <1>5 DEF Fresh
<1> QED BY <1>5, <1>6, <1>7

\* What is written when a connection is there brings one registration.
LEMMA StraysOnLine ==
    ASSUME NEW q \in Seq(ShardMessages), NEW n
    PROVE  /\ \A type : Has(Strays(q, n), type) <=> Has(q, type)
           /\ \A up, on : OnLine(q, up, on) => OnLine(Strays(q, n), up, on)
           /\ Fresh(q) => Fresh(Strays(q, n))
<1> DEFINE r == Strays(q, n)
<1>1. Len(q) \in Nat /\ Len(r) = Len(q) /\ \A i \in 1 .. Len(q) : r[i].type = q[i].type
  BY StraysProperties, LenProperties
<1> HIDE DEF r
<1>2. /\ \A type : Has(r, type) <=> Has(q, type)
      /\ \A up, on : OnLine(q, up, on) => OnLine(r, up, on)
      /\ Fresh(q) => Fresh(r)
  BY <1>1, SameTypes
<1> QED BY <1>2 DEF r

LEMMA FreshAppend ==
    ASSUME NEW M, NEW q \in Seq(M), NEW m \in M, Fresh(q), m.type # "lost",
           m.type = "register" => ~ Has(q, "register")
    PROVE  Fresh(Append(q, m)) /\ (Has(Append(q, m), "register") <=> Has(q, "register") \/ m.type = "register")
<1>1. << >> \in Seq(M) /\ OnLine(<< >>, FALSE, FALSE) /\ << >> \o q = q
  BY DEF OnLine, Line, Up
<1>2. OnLine(<< >> \o q, FALSE, Has(q, "register"))
  BY <1>1, LineConcat
<1> DEFINE on == Has(q, "register")
<1>3. OnLine(q, FALSE, on)
  BY <1>1, <1>2
<1> HIDE DEF on
<1>4. m.type = "register" => ~ on
  BY DEF on
<1>5. OnLine(Append(q, m), FALSE, Next1(on, m.type))
  BY <1>3, <1>4, LineAppend
<1>6. \A type : Has(Append(q, m), type) <=> Has(q, type) \/ m.type = type
  BY HasAppend
<1> QED BY <1>5, <1>6 DEF Fresh, OnLine

\* The end of a line, with no loss in it.
LEMMA FreshPart ==
    ASSUME NEW M, NEW q \in Seq(M), NEW up, Line(q, up), NEW i \in 0 .. Len(q), NEW j \in i .. Len(q),
           Clear(q, i, j, {"lost"})
    PROVE  Fresh(SubSeq(q, i + 1, j))
<1> DEFINE w == SubSeq(q, i + 1, j)
<1>1. Len(q) \in Nat /\ Len(w) = j - i /\ j - i \in Nat /\ \A k \in 1 .. j - i : w[k] = q[i + k]
  BY PartSeq, LenProperties
<1> HIDE DEF w
<1>2. \A k \in i + 1 .. j : q[k].type # "lost"
  BY DEF Clear
<1>3. ~ Has(w, "lost")
  <2>1. \A k \in 1 .. j - i : i + k \in i + 1 .. j
    BY <1>1
  <2> QED BY <1>1, <1>2, <2>1 DEF Has
<1>4. ASSUME NEW k \in 1 .. j - i, w[k].type = "register" PROVE ~ Up(w, FALSE, k - 1)
  <2>1. i + k \in 1 .. Len(q) /\ q[i + k].type = "register" /\ (i + k) - 1 = i + k - 1
    BY <1>1, <1>4
  <2>2. ~ Up(q, up, i + k - 1)
    BY <2>1 DEF Line
  <2>3. ASSUME NEW l \in 1 .. k - 1 PROVE w[l].type # "register"
    <3>1. l \in 1 .. j - i /\ i + l \in 1 .. i + k - 1
      BY <1>1
    <3>2. \A n \in (i + l) + 1 .. i + k - 1 : n \in i + 1 .. j
      BY <1>1
    <3>3. \A n \in (i + l) + 1 .. i + k - 1 : q[n].type # "lost"
      BY <1>2, <3>2
    <3>4. q[i + l].type # "register"
      BY <2>2, <3>1, <3>3 DEF Up
    <3> QED BY <1>1, <3>1, <3>4
  <2> QED BY <2>3 DEF Up
<1>5. Line(w, FALSE)
  BY <1>1, <1>4 DEF Line
<1> QED BY <1>3, <1>5 DEF Fresh, w

\* What the loss of a connection leaves of a line.
LEMMA LeftOnLine ==
    ASSUME TypeOK, NEW q \in Seq(ShardMessages), NEW up, NEW on, OnLine(q, up, on),
           NEW told \in 0 .. Len(q), NEW got \in told .. Len(q),
           Clear(q, told, got, {"register"}), Clear(q, told, Len(q), {"lost"})
    PROVE  OnLine(Left(q, told, got), up, FALSE)
<1> DEFINE w == SubSeq(q, told + 1, got)
           r == Cut(q, Lost, told)
<1>1. Lost \in ShardMessages /\ Lost.type = "lost" /\ Len(q) \in Nat
  BY Sent, LenProperties DEF Lost, ToShard
<1>2. OnLine(r, up, FALSE)
  BY <1>1, LineCut
<1>3. r \in Seq(ShardMessages) /\ w \in Seq(ShardMessages)
  BY LeftSeq
<1>4. Fresh(w)
  <2>1. Clear(q, told, got, {"lost"})
    BY <1>1 DEF Clear
  <2>2. Line(q, up)
    BY DEF OnLine
  <2> QED BY <2>1, <2>2, FreshPart
<1>5. ~ Has(w, "register")
  <2>1. Len(w) = got - told /\ got - told \in Nat /\ \A k \in 1 .. got - told : w[k] = q[told + k]
    BY <1>1, PartSeq
  <2> HIDE DEF w
  <2>2. \A k \in 1 .. got - told : told + k \in told + 1 .. got
    BY <1>1
  <2> QED BY <2>1, <2>2 DEF Clear, Has
<1> HIDE DEF w, r
<1>6. OnLine(r \o w, up, Has(w, "register"))
  BY <1>2, <1>3, <1>4, LineConcat
<1>7. OnLine(r \o w, up, FALSE)
  BY <1>5, <1>6 DEF OnLine
<1> QED BY <1>7 DEF Left, r, w

\* Registered and not lost, or connected with no registration under way: the same.
LEMMA LineReaches ==
    ASSUME NEW M, NEW q \in Seq(M), NEW up, NEW on, OnLine(q, up, on)
    PROVE  (up /\ ~ Has(q, "lost")) <=> (on /\ ~ Has(q, "register"))
<1>1. Len(q) \in Nat
  BY LenProperties
<1>2. ASSUME up, ~ Has(q, "lost") PROVE on /\ ~ Has(q, "register")
  <2>1. \A n \in 0 .. Len(q) : Up(q, up, n)
    <3>1. \A n \in 0 .. Len(q) : 1 .. n \subseteq 1 .. Len(q)
      BY <1>1
    <3> QED BY <1>2, <3>1 DEF Up, Has
  <2>2. \A i \in 1 .. Len(q) : i - 1 \in 0 .. Len(q)
    BY <1>1
  <2>3. Len(q) \in 0 .. Len(q)
    BY <1>1
  <2> QED BY <2>1, <2>2, <2>3 DEF OnLine, Line, Has
<1>3. ASSUME on, ~ Has(q, "register") PROVE up /\ ~ Has(q, "lost")
  <2>1. Up(q, up, Len(q))
    BY <1>3 DEF OnLine
  <2> QED BY <1>3, <2>1 DEF Up, Has
<1> QED BY <1>2, <1>3

-----------------------------------------------------------------------------
(* Every connection is on line. *)

Lines == \A x \in Proxies, s \in Shards :
    /\ Line(toShard[x][s], x \in known[s])
    /\ alive[s] => OnLine(toShard[x][s], x \in known[s], s \in conn[x])
    /\ Fresh(unsent[x][s])

\* A shard that does not run knows nothing and is sent nothing but over connections
\* whose loss is not noticed.
Dead == \A s \in Shards : ~ alive[s] =>
    /\ known[s] = {} /\ hosted[s] = {}
    /\ \A c \in Clients : listed[s][c] = None
    /\ \A x \in Proxies : s \notin conn[x] => toShard[x][s] = << >>

LineInv == TypeOK /\ Lines /\ Dead

\* A message about client c, told by proxy x now.
Names(m, c) == m.type \in {"discover", "gone"} /\ c \in m.what
Current(m, x) == \A c \in Clients : Names(m, c) =>
    m.told[c] = moves'[c] /\ at'[c] = IF m.type = "discover" THEN x ELSE None

\* What a step may do to the connection of x and s.
Keeps(x, s) ==
    /\ toShard'[x][s] = toShard[x][s]
    /\ x \in known'[s] <=> x \in known[s]
    /\ s \in conn'[x] <=> s \in conn[x]
Grows(x, s) == \E m \in ShardMessages :
    /\ toShard'[x][s] = Append(toShard[x][s], m)
    /\ x \in known'[s] <=> x \in known[s]
    /\ s \in conn[x] /\ s \in conn'[x]
    /\ m.type \notin {"register", "lost"}
    /\ Current(m, x)
IsJoined(x, s) ==
    /\ Connect(x, s)
    /\ \E n \in Registers(Waiting(x, s)) : Joins(x, s, n)
    /\ x \in known'[s] <=> x \in known[s]
    /\ alive[s] /\ s \notin conn[x] /\ s \in conn'[x]
IsLeft(x, s, told, got) ==
    /\ Clear(toShard[x][s], told, got, {"register"})
    /\ Clear(toShard[x][s], told, Len(toShard[x][s]), {"lost"})
    /\ alive[s] => toShard'[x][s] = Left(toShard[x][s], told, got)
    /\ ~ alive[s] => toShard'[x][s] = << >>
IsCut(x, s) ==
    /\ OnClientLostClusterShard(x, s)
    /\ \E told \in 0 .. Len(toShard[x][s]) : \E got \in told .. Len(toShard[x][s]) :
          IsLeft(x, s, told, got)
    /\ x \in known'[s] <=> x \in known[s]
    /\ s \in conn[x] /\ s \notin conn'[x]
Handler(type, s, x) ==
    /\ type = "register" => HandleRegister(s, x)
    /\ type = "lost" => OnServerLostHandle(s, x)
    /\ type = "discover" => HandleClusterClientDiscoverReq(s, x)
    /\ type = "gone" => HandleClusterClientLostReq(s, x)
    /\ type = "create" => HandleCreateRoomToShard(s, x)
Handles(x, s) ==
    /\ alive[s] /\ toShard[x][s] # << >>
    /\ IF Head(toShard[x][s]).type = "register"
       THEN \E n \in 0 .. Len(Tail(toShard[x][s])) : RegisterIs(x, s, n)
       ELSE toShard'[x][s] = Tail(toShard[x][s])
    /\ x \in known'[s] <=> Next1(x \in known[s], Head(toShard[x][s]).type)
    /\ s \in conn'[x] <=> s \in conn[x]
    /\ Handler(Head(toShard[x][s]).type, s, x)
Moves(x, s) == Keeps(x, s) \/ Grows(x, s) \/ IsJoined(x, s) \/ IsCut(x, s) \/ Handles(x, s)

\* What a step may do to what waits for a connection.
WaitKept(x, s) == unsent'[x][s] = unsent[x][s]
WaitEmpty(x, s) == unsent'[x][s] = << >>
WaitGrown(x, s) == \E m \in ShardMessages :
    /\ unsent'[x][s] = Append(unsent[x][s], m)
    /\ m.type \notin {"register", "lost"} /\ s \notin conn[x]
    /\ Current(m, x)
WaitLeft(x, s) ==
    /\ OnClientLostClusterShard(x, s)
    /\ \E kept \in 0 .. Len(toShard[x][s]) :
          /\ Clear(toShard[x][s], kept, Len(toShard[x][s]), {"lost"})
          /\ unsent'[x][s] = SubSeq(toShard[x][s], kept + 1, Len(toShard[x][s]))
Waits(x, s) == WaitKept(x, s) \/ WaitEmpty(x, s) \/ WaitGrown(x, s) \/ WaitLeft(x, s)

LEMMA SameLine ==
    ASSUME NEW q, NEW up, NEW on, OnLine(q, up, on), NEW now, now <=> up, NEW there, there <=> on
    PROVE  OnLine(q, now, there)
BY DEF OnLine, Line, Up

LEMMA LineLower ==
    ASSUME NEW q, NEW up, Line(q, up), NEW now, now => up
    PROVE  Line(q, now)
BY DEF Line, Up

LEMMA EmptyLine ==
    /\ \A up : Line(<< >>, up)
    /\ \A up : OnLine(<< >>, up, up)
    /\ Fresh(<< >>)
BY DEF OnLine, Line, Up, Fresh, Has

\* What is written when a connection is there: one registration.
LEMMA JoinLine ==
    ASSUME LineInv, NEW x \in Proxies, NEW s \in Shards
    PROVE  /\ Waiting(x, s) \in Seq(ShardMessages)
           /\ Fresh(Waiting(x, s)) /\ Has(Waiting(x, s), "register")
<1> DEFINE u == unsent[x][s]
           m == ToShard("register", {})
<1>1. u \in Seq(ShardMessages) /\ Fresh(u) /\ m \in ShardMessages /\ m.type = "register"
  BY Pair, Sent DEF LineInv, Lines, ToShard
<1>2. Registers(u) = {} <=> ~ Has(u, "register")
  BY DEF Registers, Has
<1> HIDE DEF u, m
<1>3. CASE Has(u, "register")
  <2>1. Waiting(x, s) = u
    BY <1>2, <1>3 DEF Waiting, u, m
  <2> QED BY <1>1, <1>3, <2>1
<1>4. CASE ~ Has(u, "register")
  <2>1. Waiting(x, s) = Append(u, m)
    BY <1>2, <1>4 DEF Waiting, u, m
  <2>2. Append(u, m) \in Seq(ShardMessages)
    BY <1>1, AppendProperties
  <2>3. Fresh(Append(u, m)) /\ Has(Append(u, m), "register")
    BY <1>1, <1>4, FreshAppend
  <2> QED BY <2>1, <2>2, <2>3
<1> QED BY <1>3, <1>4

LEMMA MoveLine ==
    ASSUME LineInv, NEW x \in Proxies, NEW s \in Shards, alive[s], Moves(x, s)
    PROVE  OnLine(toShard'[x][s], x \in known'[s], s \in conn'[x])
<1> DEFINE T == toShard[x][s]
           up == x \in known[s]
           on == s \in conn[x]
           now == x \in known'[s]
           there == s \in conn'[x]
<1>1. T \in Seq(ShardMessages) /\ OnLine(T, up, on) /\ TypeOK
  BY Pair DEF LineInv, Lines
<1> HIDE DEF T, up, on, now, there
<1> SUFFICES OnLine(toShard'[x][s], now, there)
  BY DEF now, there
<1>2. CASE Keeps(x, s)
  <2>1. /\ toShard'[x][s] = T
        /\ now <=> up
        /\ there <=> on
    BY <1>2 DEF Keeps, T, up, on, now, there
  <2> QED BY <1>1, <2>1, SameLine
<1>3. CASE Grows(x, s)
  <2>1. PICK m \in ShardMessages :
            /\ toShard'[x][s] = Append(T, m)
            /\ now <=> up
            /\ there /\ on
            /\ m.type \notin {"register", "lost"}
    BY <1>3 DEF Grows, T, up, on, now, there
  <2>2. OnLine(Append(T, m), up, Next1(on, m.type))
    BY <1>1, <2>1, LineAppend
  <2>3. there <=> Next1(on, m.type)
    BY <2>1 DEF Next1
  <2>4. now <=> up
    BY <2>1
  <2>5. OnLine(Append(T, m), now, there)
    BY <2>2, <2>3, <2>4, SameLine
  <2> QED BY <2>1, <2>5
<1>4. CASE IsCut(x, s)
  <2>1. /\ now <=> up
        /\ ~ there
    BY <1>4 DEF IsCut, up, now, there
  <2>2. PICK told \in 0 .. Len(T) : \E got \in told .. Len(T) : IsLeft(x, s, told, got)
    BY <1>4 DEF IsCut, T
  <2>3. PICK got \in told .. Len(T) : IsLeft(x, s, told, got)
    BY <2>2
  <2>4. toShard'[x][s] = Left(T, told, got) /\ Clear(T, told, got, {"register"}) /\ Clear(T, told, Len(T), {"lost"})
    BY <2>3 DEF IsLeft, T
  <2>5. OnLine(Left(T, told, got), up, FALSE)
    BY <1>1, <2>4, LeftOnLine
  <2>6. there <=> FALSE
    BY <2>1
  <2>7. now <=> up
    BY <2>1
  <2>8. OnLine(Left(T, told, got), now, there)
    BY <2>5, <2>6, <2>7, SameLine
  <2> QED BY <2>4, <2>8
<1>5. CASE Handles(x, s)
  <2>1. /\ T # << >>
        /\ IF Head(T).type = "register" THEN \E n \in 0 .. Len(Tail(T)) : RegisterIs(x, s, n)
                                        ELSE toShard'[x][s] = Tail(T)
        /\ now <=> Next1(up, Head(T).type)
        /\ there <=> on
    BY <1>5 DEF Handles, T, up, on, now, there
  <2>2. OnLine(Tail(T), Next1(up, Head(T).type), on) /\ Tail(T) \in Seq(ShardMessages)
    BY <1>1, <2>1, LineTail, HeadTailProperties
  <2>3. OnLine(Tail(T), now, there)
    <3>1. now <=> Next1(up, Head(T).type)
      BY <2>1
    <3>2. there <=> on
      BY <2>1
    <3> QED BY <2>2, <3>1, <3>2, SameLine
  <2>4. CASE Head(T).type = "register"
    <3>1. PICK n : toShard'[x][s] = Strays(Tail(T), n)
      BY <2>1, <2>4 DEF RegisterIs, T
    <3> QED BY <2>2, <2>3, <3>1, StraysOnLine
  <2>5. CASE Head(T).type # "register"
    BY <2>1, <2>3, <2>5
  <2> QED BY <2>4, <2>5
<1>6. CASE IsJoined(x, s)
  <2>1. /\ now <=> up
        /\ ~ on /\ there
    BY <1>6 DEF IsJoined, up, on, now, there
  <2>2. PICK n : toShard'[x][s] = T \o Strays(Waiting(x, s), n)
    BY <1>6 DEF IsJoined, Joins, T
  <2>3. Waiting(x, s) \in Seq(ShardMessages) /\ Fresh(Waiting(x, s)) /\ Has(Waiting(x, s), "register")
    BY JoinLine
  <2>4. PICK w : w = Strays(Waiting(x, s), n) /\ w \in Seq(ShardMessages) /\ Fresh(w) /\ Has(w, "register")
    BY <2>3, StraysProperties, StraysOnLine
  <2>5. OnLine(T, up, FALSE)
    BY <1>1, <2>1 DEF OnLine
  <2>6. OnLine(T \o w, up, Has(w, "register"))
    BY <1>1, <2>4, <2>5, LineConcat
  <2>7. there <=> Has(w, "register")
    BY <2>1, <2>4
  <2>8. now <=> up
    BY <2>1
  <2>9. OnLine(T \o w, now, there)
    BY <2>6, <2>7, <2>8, SameLine
  <2> QED BY <2>2, <2>4, <2>9
<1>7. OnLine(toShard'[x][s], now, there)
  BY <1>2, <1>3, <1>4, <1>5, <1>6 DEF Moves
<1> QED BY <1>7 DEF now, there

\* The same while the shard is down.
LEMMA MoveDead ==
    ASSUME LineInv, NEW x \in Proxies, NEW s \in Shards, ~ alive[s], Moves(x, s)
    PROVE  /\ Line(toShard'[x][s], x \in known'[s])
           /\ s \notin conn'[x] => toShard'[x][s] = << >>
<1> DEFINE T == toShard[x][s]
           up == x \in known[s]
           on == s \in conn[x]
           now == x \in known'[s]
           there == s \in conn'[x]
<1>1. T \in Seq(ShardMessages) /\ Line(T, up) /\ (~ on => T = << >>)
  BY Pair DEF LineInv, Lines, Dead
<1> HIDE DEF T, up, on, now, there
<1> SUFFICES Line(toShard'[x][s], now) /\ (~ there => toShard'[x][s] = << >>)
  BY DEF now, there
<1>2. CASE Keeps(x, s)
  <2>1. /\ toShard'[x][s] = T
        /\ now => up
        /\ there <=> on
    BY <1>2 DEF Keeps, T, up, on, now, there
  <2>2. now => up
    BY <2>1
  <2>3. Line(T, now)
    BY <1>1, <2>2, LineLower
  <2> QED BY <1>1, <2>1, <2>3
<1>3. CASE Grows(x, s)
  <2>1. PICK m \in ShardMessages :
            /\ toShard'[x][s] = Append(T, m)
            /\ now => up
            /\ there
            /\ m.type \notin {"register", "lost"}
    BY <1>3 DEF Grows, T, up, now, there
  <2> DEFINE full == Up(T, up, Len(T))
  <2>2. OnLine(T, up, full)
    BY <1>1 DEF OnLine
  <2> HIDE DEF full
  <2>3. OnLine(Append(T, m), up, Next1(full, m.type))
    BY <1>1, <2>1, <2>2, LineAppend
  <2>4. Line(Append(T, m), up)
    BY <2>3 DEF OnLine
  <2>5. now => up
    BY <2>1
  <2>6. Line(Append(T, m), now)
    BY <2>4, <2>5, LineLower
  <2> QED BY <2>1, <2>6
<1>4. CASE IsCut(x, s)
  <2>1. toShard'[x][s] = << >>
    BY <1>4 DEF IsCut, IsLeft
  <2> QED BY <2>1, EmptyLine
<1>5. CASE IsJoined(x, s) \/ Handles(x, s)
  BY <1>5 DEF IsJoined, Handles
<1> QED BY <1>2, <1>3, <1>4, <1>5 DEF Moves

LEMMA MoveFresh ==
    ASSUME LineInv, NEW x \in Proxies, NEW s \in Shards, Waits(x, s)
    PROVE  Fresh(unsent'[x][s])
<1>1. /\ unsent[x][s] \in Seq(ShardMessages) /\ Fresh(unsent[x][s])
      /\ toShard[x][s] \in Seq(ShardMessages) /\ Len(toShard[x][s]) \in Nat
  BY Pair, LenProperties DEF LineInv, Lines
<1>2. CASE WaitKept(x, s)
  BY <1>1, <1>2 DEF WaitKept
<1>3. CASE WaitEmpty(x, s)
  BY <1>3, EmptyLine DEF WaitEmpty
<1>4. CASE WaitGrown(x, s)
  <2>1. PICK m \in ShardMessages : unsent'[x][s] = Append(unsent[x][s], m) /\ m.type \notin {"register", "lost"}
    BY <1>4 DEF WaitGrown
  <2>2. Fresh(Append(unsent[x][s], m))
    BY <1>1, <2>1, FreshAppend
  <2> QED BY <2>1, <2>2
<1>5. CASE WaitLeft(x, s)
  <2> DEFINE T == toShard[x][s]
             up == x \in known[s]
  <2>1. PICK kept \in 0 .. Len(T) : Clear(T, kept, Len(T), {"lost"}) /\ unsent'[x][s] = SubSeq(T, kept + 1, Len(T))
    BY <1>5 DEF WaitLeft
  <2>2. Line(T, up) /\ T \in Seq(ShardMessages) /\ Len(T) \in kept .. Len(T)
    BY <1>1 DEF LineInv, Lines
  <2> HIDE DEF T, up
  <2>3. Fresh(SubSeq(T, kept + 1, Len(T)))
    BY <2>1, <2>2, FreshPart
  <2> QED BY <2>1, <2>3
<1> QED BY <1>2, <1>3, <1>4, <1>5 DEF Waits

\* What a shard handles first: a registration of a proxy it does not have, or something
\* else.
LEMMA FirstOfLine ==
    ASSUME LineInv, NEW x \in Proxies, NEW s \in Shards, alive[s], toShard[x][s] # << >>
    PROVE  Head(toShard[x][s]).type = "register" => x \notin known[s]
<1> DEFINE T == toShard[x][s]
           up == x \in known[s]
           on == s \in conn[x]
<1>2. T \in Seq(ShardMessages) /\ OnLine(T, up, on) /\ T # << >>
  BY Pair DEF LineInv, Lines
<1> HIDE DEF T, up, on
<1>3. Head(T).type = "register" => ~ up
  BY <1>2, LineTail
<1> QED BY <1>3 DEF T, up

\* A message, to shards that are connected or not.
LEMMA DeliverMoves ==
    ASSUME NEW x \in Proxies, NEW s \in Shards, NEW m \in ShardMessages,
           m.type \notin {"register", "lost"}, UNCHANGED << known, conn >>,
           \/ toShard'[x][s] = toShard[x][s]
           \/ Current(m, x) /\ s \in conn[x] /\ toShard'[x][s] = Append(toShard[x][s], m),
           \/ unsent'[x][s] = unsent[x][s]
           \/ Current(m, x) /\ s \notin conn[x] /\ unsent'[x][s] = Append(unsent[x][s], m)
    PROVE  Waits(x, s) /\ Moves(x, s)
BY DEF Moves, Keeps, Grows, Waits, WaitKept, WaitGrown

LEMMA HandleMoves ==
    ASSUME TypeOK, NEW x \in Proxies, NEW s \in Shards, NEW type, ShardGets(x, s, type), ShardTook(x, s),
           UNCHANGED << conn, unsent >>, Handler(type, s, x), type # "register",
           known' = IF type = "lost" THEN [known EXCEPT ![s] = @ \ {x}] ELSE known,
           NEW y \in Proxies, NEW t \in Shards
    PROVE  Waits(y, t) /\ Moves(y, t)
<1>1. /\ toShard[x][s] # << >> /\ Head(toShard[x][s]).type = type
      /\ toShard'[y][t] = IF y = x /\ t = s THEN Tail(toShard[x][s]) ELSE toShard[y][t]
  BY TookAtShard
<1>2. y \in known'[t] <=> IF y = x /\ t = s THEN Next1(x \in known[s], type) ELSE y \in known[t]
  BY DEF TypeOK, Next1
<1>3. ASSUME y = x, t = s PROVE Moves(y, t)
  BY <1>1, <1>2, <1>3 DEF Moves, Handles, ShardGets
<1>4. ASSUME y # x \/ t # s PROVE Moves(y, t)
  BY <1>1, <1>2, <1>4 DEF Moves, Keeps
<1>5. Waits(y, t)
  BY DEF Waits, WaitKept
<1> QED BY <1>3, <1>4, <1>5

LEMMA RegisterMoves ==
    ASSUME TypeOK, NEW x \in Proxies, NEW s \in Shards, HandleRegister(s, x),
           NEW y \in Proxies, NEW t \in Shards
    PROVE  Waits(y, t) /\ Moves(y, t)
<1>0. /\ ShardGets(x, s, "register") /\ RegisterTook(x, s) /\ UNCHANGED << conn, unsent >>
      /\ known' = [known EXCEPT ![s] = @ \cup {x}]
  BY DEF HandleRegister, proxyVars
<1>1. /\ toShard[x][s] # << >> /\ Head(toShard[x][s]).type = "register" /\ alive[s]
      /\ \E n \in 0 .. Len(Tail(toShard[x][s])) : RegisterIs(x, s, n)
      /\ y # x \/ t # s => toShard'[y][t] = toShard[y][t]
  BY <1>0, RegisterTaken DEF ShardGets
<1>2. y \in known'[t] <=> IF y = x /\ t = s THEN Next1(x \in known[s], "register") ELSE y \in known[t]
  BY <1>0 DEF TypeOK, Next1
<1>3. ASSUME y = x, t = s PROVE Moves(y, t)
  <2>1. Handler("register", s, x)
    BY DEF Handler
  <2> QED BY <1>0, <1>1, <1>2, <1>3, <2>1 DEF Moves, Handles
<1>4. ASSUME y # x \/ t # s PROVE Moves(y, t)
  BY <1>0, <1>1, <1>2, <1>4 DEF Moves, Keeps
<1>5. Waits(y, t)
  BY <1>0 DEF Waits, WaitKept
<1> QED BY <1>3, <1>4, <1>5

LEMMA NextMoves ==
    ASSUME LineInv, Next, NEW x \in Proxies, NEW s \in Shards
    PROVE  Waits(x, s) /\ (alive[s] = alive'[s] => Moves(x, s))
<1> DEFINE Goal1 == Waits(x, s) /\ (alive[s] = alive'[s] => Moves(x, s))
<1>0. TypeOK
  BY DEF LineInv
<1>1. ASSUME NEW c \in Clients, NEW y \in Proxies, ClientDiscover(c, y) PROVE Goal1
  <2> DEFINE m == [ToShard("discover", {c}) EXCEPT !.told = moves']
  <2>1. m \in ShardMessages /\ DeliverAll(y, m) /\ m.type = "discover" /\ UNCHANGED << known, conn >>
    BY <1>0, <1>1, DiscoverTypes DEF ClientDiscover, shardVars, ToShard
  <2>c. Current(m, y)
    <3>1. at'[c] = y
      BY <1>0, <1>1 DEF ClientDiscover, TypeOK
    <3> QED BY <3>1 DEF Current, Names, ToShard
  <2> HIDE DEF m
  <2>2. /\ toShard'[x][s] = IF x = y /\ s \in conn[y] THEN Append(toShard[x][s], m) ELSE toShard[x][s]
        /\ unsent'[x][s] = IF x = y /\ s \notin conn[y] THEN Append(unsent[x][s], m) ELSE unsent[x][s]
    BY <1>0, <2>1, DeliveredAll
  <2>3. /\ \/ toShard'[x][s] = toShard[x][s]
           \/ Current(m, x) /\ s \in conn[x] /\ toShard'[x][s] = Append(toShard[x][s], m)
        /\ \/ unsent'[x][s] = unsent[x][s]
           \/ Current(m, x) /\ s \notin conn[x] /\ unsent'[x][s] = Append(unsent[x][s], m)
    BY <2>c, <2>2
  <2> QED BY <2>1, <2>3, DeliverMoves
<1>2. ASSUME NEW c \in Clients, ClientLost(c) PROVE Goal1
  <2> DEFINE m == [ToShard("gone", {c}) EXCEPT !.told = moves']
  <2>1. m \in ShardMessages /\ DeliverAll(at[c], m) /\ m.type = "gone" /\ UNCHANGED << known, conn >> /\ at[c] \in Proxies
    BY <1>0, <1>2, GoneTypes DEF ClientLost, shardVars, ToShard
  <2>c. Current(m, at[c])
    <3>1. at'[c] = None
      BY <1>0, <1>2 DEF ClientLost, TypeOK
    <3> QED BY <3>1 DEF Current, Names, ToShard
  <2> HIDE DEF m
  <2>2. /\ toShard'[x][s] = IF x = at[c] /\ s \in conn[at[c]] THEN Append(toShard[x][s], m) ELSE toShard[x][s]
        /\ unsent'[x][s] = IF x = at[c] /\ s \notin conn[at[c]] THEN Append(unsent[x][s], m) ELSE unsent[x][s]
    BY <1>0, <2>1, DeliveredAll
  <2>3. /\ \/ toShard'[x][s] = toShard[x][s]
           \/ Current(m, x) /\ s \in conn[x] /\ toShard'[x][s] = Append(toShard[x][s], m)
        /\ \/ unsent'[x][s] = unsent[x][s]
           \/ Current(m, x) /\ s \notin conn[x] /\ unsent'[x][s] = Append(unsent[x][s], m)
    BY <2>c, <2>2
  <2> QED BY <2>1, <2>3, DeliverMoves
<1>3. ASSUME NEW y \in Proxies, NEW o \in Objects, HandleCreateRoom(y, o) PROVE Goal1
  <2> DEFINE m == ToShard("create", {o})
  <2>1. m \in ShardMessages /\ Deliver(y, Goal(y, o), m) /\ Goal(y, o) \in Shards
    BY <1>0, <1>3, CreateTypes
  <2>c. m.type = "create" /\ UNCHANGED << known, conn >> /\ Current(m, y)
    BY <1>3 DEF HandleCreateRoom, shardVars, ToShard, Current, Names
  <2> HIDE DEF m
  <2>2. /\ toShard'[x][s] = IF x = y /\ s = Goal(y, o) /\ Goal(y, o) \in conn[y]
                            THEN Append(toShard[x][s], m) ELSE toShard[x][s]
        /\ unsent'[x][s] = IF x = y /\ s = Goal(y, o) /\ Goal(y, o) \notin conn[y]
                           THEN Append(unsent[x][s], m) ELSE unsent[x][s]
    BY <1>0, <2>1, Delivered
  <2>3. /\ \/ toShard'[x][s] = toShard[x][s]
           \/ Current(m, x) /\ s \in conn[x] /\ toShard'[x][s] = Append(toShard[x][s], m)
        /\ \/ unsent'[x][s] = unsent[x][s]
           \/ Current(m, x) /\ s \notin conn[x] /\ unsent'[x][s] = Append(unsent[x][s], m)
    BY <2>c, <2>2
  <2> QED BY <2>1, <2>c, <2>3, DeliverMoves
<1>4. ASSUME NEW y \in Proxies, NEW t \in Shards, Connect(y, t) PROVE Goal1
  <2>1. /\ conn' = [conn EXCEPT ![y] = @ \cup {t}] /\ t \notin conn[y] /\ alive[t] /\ UNCHANGED known
    BY <1>4 DEF Connect, shardVars
  <2>2. s \in conn'[x] <=> s \in conn[x] \/ (x = y /\ s = t)
    BY <1>0, <2>1 DEF TypeOK
  <2>3. CASE x = y /\ s = t
    <3>1. \E n \in Registers(Waiting(y, t)) : Joins(y, t, n)
      BY <1>0, <1>4, ConnectLines
    <3>2. IsJoined(x, s)
      BY <1>4, <2>1, <2>2, <2>3, <3>1 DEF IsJoined
    <3>3. WaitEmpty(x, s)
      BY <2>3, <3>1 DEF Joins, WaitEmpty
    <3> QED BY <3>2, <3>3 DEF Moves, Waits
  <2>4. CASE x # y \/ s # t
    <3>1. toShard'[x][s] = toShard[x][s] /\ unsent'[x][s] = unsent[x][s]
      BY <1>0, <1>4, <2>4, ConnectLines
    <3> QED BY <2>1, <2>2, <2>4, <3>1 DEF Moves, Keeps, Waits, WaitKept
  <2> QED BY <2>3, <2>4
<1>5. ASSUME NEW y \in Proxies, NEW t \in Shards, OnClientConnectionClusterShard(y, t) PROVE Goal1
  <2> DEFINE m == ToShard("discover", {c \in Clients : at[c] = y})
  <2>1. m \in ShardMessages
    BY <1>0, <1>5, AckTypes
  <2>2. m.type = "discover" /\ UNCHANGED << known, conn >> /\ Deliver(y, t, m)
    BY <1>5 DEF OnClientConnectionClusterShard, shardVars, ToShard
  <2>c. Current(m, y)
    BY <1>5 DEF OnClientConnectionClusterShard, bounds, ToShard, Current, Names
  <2> HIDE DEF m
  <2>3. /\ toShard'[x][s] = IF x = y /\ s = t /\ t \in conn[y] THEN Append(toShard[x][s], m) ELSE toShard[x][s]
        /\ unsent'[x][s] = IF x = y /\ s = t /\ t \notin conn[y] THEN Append(unsent[x][s], m) ELSE unsent[x][s]
    BY <1>0, <2>1, <2>2, Delivered
  <2>4. /\ \/ toShard'[x][s] = toShard[x][s]
           \/ Current(m, x) /\ s \in conn[x] /\ toShard'[x][s] = Append(toShard[x][s], m)
        /\ \/ unsent'[x][s] = unsent[x][s]
           \/ Current(m, x) /\ s \notin conn[x] /\ unsent'[x][s] = Append(unsent[x][s], m)
    BY <2>c, <2>3
  <2> QED BY <2>1, <2>2, <2>4, DeliverMoves
<1>6. ASSUME NEW y \in Proxies, NEW t \in Shards, OnClientLostClusterShard(y, t) PROVE Goal1
  <2>1. conn' = [conn EXCEPT ![y] = @ \ {t}] /\ t \in conn[y] /\ UNCHANGED known
    BY <1>6 DEF OnClientLostClusterShard, shardVars
  <2>2. s \in conn'[x] <=> s \in conn[x] /\ (x # y \/ s # t)
    BY <1>0, <2>1 DEF TypeOK
  <2>3. CASE x = y /\ s = t
    <3> DEFINE T == toShard[x][s]
    <3>0. Len(T) \in Nat
      BY <1>0, Pair, LenProperties
    <3>1. PICK told \in 0 .. Len(T), n \in 0 .. Len(toProxy[s][x]) :
             \E got \in told .. Len(T) : \E kept \in got .. Len(T) : Breaks(x, s, told, got, kept, n)
      BY <1>0, <1>6, <2>3, BreakLines
    <3>2. PICK got \in told .. Len(T) : \E kept \in got .. Len(T) : Breaks(x, s, told, got, kept, n)
      BY <3>1
    <3>3. PICK kept \in got .. Len(T) : Breaks(x, s, told, got, kept, n)
      BY <3>2
    <3>4. IsLeft(x, s, told, got)
      BY <3>3 DEF IsLeft, Breaks
    <3>5. IsCut(x, s)
      BY <1>6, <2>1, <2>2, <2>3, <3>4 DEF IsCut
    <3>6. WaitLeft(x, s)
      <4>1. kept \in 0 .. Len(T) /\ \A i \in kept + 1 .. Len(T) : i \in told + 1 .. Len(T)
        BY <3>0
      <4>2. Clear(T, told, Len(T), {"lost"}) /\ unsent'[x][s] = SubSeq(T, kept + 1, Len(T))
        BY <3>3 DEF Breaks
      <4>3. Clear(T, kept, Len(T), {"lost"})
        BY <4>1, <4>2 DEF Clear
      <4> QED BY <1>6, <2>3, <4>1, <4>2, <4>3 DEF WaitLeft
    <3> QED BY <3>5, <3>6 DEF Moves, Waits
  <2>4. CASE x # y \/ s # t
    <3>1. toShard'[x][s] = toShard[x][s] /\ unsent'[x][s] = unsent[x][s]
      BY <1>0, <1>6, <2>4, BreakLines
    <3> QED BY <2>1, <2>2, <2>4, <3>1 DEF Moves, Keeps, Waits, WaitKept
  <2> QED BY <2>3, <2>4
<1>7. ASSUME NEW y \in Proxies, NEW t \in Shards, HandleAddObject(y, t) \/ HandleRemoveObject(y, t)
      PROVE  Goal1
  BY <1>7 DEF HandleAddObject, HandleRemoveObject, shardVars, Moves, Keeps, Waits, WaitKept
<1>8. ASSUME NEW y \in Proxies, NEW t \in Shards, HandleRegister(t, y) PROVE Goal1
  BY <1>0, <1>8, RegisterMoves
<1>9. ASSUME NEW y \in Proxies, NEW t \in Shards, OnServerLostHandle(t, y) PROVE Goal1
  BY <1>0, <1>9, HandleMoves DEF OnServerLostHandle, proxyVars, Handler
<1>10. ASSUME NEW y \in Proxies, NEW t \in Shards, HandleClusterClientDiscoverReq(t, y) PROVE Goal1
  BY <1>0, <1>10, HandleMoves DEF HandleClusterClientDiscoverReq, proxyVars, Handler
<1>11. ASSUME NEW y \in Proxies, NEW t \in Shards, HandleClusterClientLostReq(t, y) PROVE Goal1
  BY <1>0, <1>11, HandleMoves DEF HandleClusterClientLostReq, proxyVars, Handler
<1>12. ASSUME NEW y \in Proxies, NEW t \in Shards, HandleCreateRoomToShard(t, y) PROVE Goal1
  BY <1>0, <1>12, HandleMoves DEF HandleCreateRoomToShard, proxyVars, Handler
<1>13. ASSUME NEW t \in Shards, NEW o \in Objects, RemoveBattleRoom(t, o) PROVE Goal1
  BY <1>13 DEF RemoveBattleRoom, proxyVars, Moves, Keeps, Waits, WaitKept
<1>14. ASSUME NEW t \in Shards, Crash(t) PROVE Goal1
  <2>1. s = t => alive[s] # alive'[s]
    BY <1>0, <1>14 DEF Crash, TypeOK
  <2>2. s # t => toShard'[x][s] = toShard[x][s] /\ known'[s] = known[s]
    BY <1>0, <1>14 DEF Crash, TypeOK
  <2> QED BY <1>14, <2>1, <2>2 DEF Crash, proxyVars, Moves, Keeps, Waits, WaitKept
<1>15. ASSUME NEW t \in Shards, Start(t) PROVE Goal1
  <2>1. unsent'[x][s] = unsent[x][s] \/ unsent'[x][s] = << >>
    <3>1. PICK anew \in SUBSET Proxies :
             unsent' = [y \in Proxies |-> [unsent[y] EXCEPT ![t] = IF y \in anew THEN << >> ELSE @]]
      BY <1>15 DEF Start
    <3>2. unsent'[x] = [unsent[x] EXCEPT ![t] = IF x \in anew THEN << >> ELSE @]
      BY <3>1
    <3>3. unsent[x] \in [Shards -> Seq(ShardMessages)]
      BY <1>0 DEF TypeOK
    <3> QED BY <3>2, <3>3
  <2> QED BY <1>15, <2>1 DEF Start, proxyVars, Moves, Keeps, Waits, WaitKept, WaitEmpty
<1> QED BY <1>1, <1>2, <1>3, <1>4, <1>5, <1>6, <1>7, <1>8, <1>9, <1>10, <1>11, <1>12, <1>13, <1>14, <1>15 DEF Next

LEMMA InitLines == Init => LineInv
<1> SUFFICES ASSUME Init PROVE LineInv
  OBVIOUS
<1>1. TypeOK
  BY InitTypes
<1>2. Lines
  <2> SUFFICES ASSUME NEW x \in Proxies, NEW s \in Shards
               PROVE  /\ Line(toShard[x][s], x \in known[s])
                      /\ OnLine(toShard[x][s], x \in known[s], s \in conn[x])
                      /\ Fresh(unsent[x][s])
    BY DEF Lines
  <2>1. toShard[x][s] = << >> /\ unsent[x][s] = << >> /\ x \in known[s] /\ s \in conn[x]
    BY DEF Init
  <2>2. Line(<< >>, TRUE) /\ OnLine(<< >>, TRUE, TRUE) /\ Fresh(<< >>)
    BY EmptyLine
  <2> QED BY <2>1, <2>2
<1>3. Dead
  BY DEF Init, Dead
<1> QED BY <1>1, <1>2, <1>3 DEF LineInv

\* What the tables of shard s keep while it is down.
Still(s) == known'[s] = known[s] /\ hosted'[s] = hosted[s] /\ listed'[s] = listed[s]

LEMMA DeadStill ==
    ASSUME TypeOK, Next, NEW s \in Shards, ~ alive[s], hosted[s] = {}
    PROVE  Still(s)
<1>1. ASSUME NEW c \in Clients, ClientLost(c) \/ \E y \in Proxies : ClientDiscover(c, y) PROVE Still(s)
  BY <1>1 DEF ClientLost, ClientDiscover, Still, shardVars
<1>2. ASSUME NEW y \in Proxies, NEW o \in Objects, HandleCreateRoom(y, o) PROVE Still(s)
  BY <1>2 DEF HandleCreateRoom, Still, shardVars
<1>3. ASSUME NEW y \in Proxies, NEW t \in Shards, Connect(y, t) \/ OnClientConnectionClusterShard(y, t)
                 \/ OnClientLostClusterShard(y, t) \/ HandleAddObject(y, t) \/ HandleRemoveObject(y, t)
      PROVE  Still(s)
  BY <1>3 DEF Connect, OnClientConnectionClusterShard, OnClientLostClusterShard, HandleAddObject,
     HandleRemoveObject, Still, shardVars
<1>4. ASSUME NEW y \in Proxies, NEW t \in Shards, HandleRegister(t, y) PROVE Still(s)
  BY <1>4 DEF HandleRegister, ShardGets, Still, TypeOK
<1>5. ASSUME NEW y \in Proxies, NEW t \in Shards, OnServerLostHandle(t, y) PROVE Still(s)
  BY <1>5 DEF OnServerLostHandle, ShardGets, Still, TypeOK
<1>6. ASSUME NEW y \in Proxies, NEW t \in Shards, HandleClusterClientDiscoverReq(t, y) PROVE Still(s)
  BY <1>6 DEF HandleClusterClientDiscoverReq, ShardGets, Still, TypeOK
<1>7. ASSUME NEW y \in Proxies, NEW t \in Shards, HandleClusterClientLostReq(t, y) PROVE Still(s)
  BY <1>7 DEF HandleClusterClientLostReq, ShardGets, Still, TypeOK
<1>8. ASSUME NEW y \in Proxies, NEW t \in Shards, HandleCreateRoomToShard(t, y) PROVE Still(s)
  BY <1>8 DEF HandleCreateRoomToShard, ShardGets, Still, TypeOK
<1>10. ASSUME NEW t \in Shards, Crash(t) PROVE Still(s)
  BY <1>10 DEF Crash, Still, TypeOK
<1>11. ASSUME NEW t \in Shards, Start(t) PROVE Still(s)
  BY <1>11 DEF Start, Still
<1>9. ASSUME NEW t \in Shards, NEW o \in Objects, RemoveBattleRoom(t, o), hosted[s] = {} PROVE Still(s)
  BY <1>9 DEF RemoveBattleRoom, Still, TypeOK
<1> QED BY <1>1, <1>2, <1>3, <1>4, <1>5, <1>6, <1>7, <1>8, <1>9, <1>10, <1>11 DEF Next

\* Which shards run changes by a crash or a start.
LEMMA AliveSteps ==
    ASSUME TypeOK, Next, NEW s \in Shards
    PROVE  /\ alive[s] /\ ~ alive'[s] => Crash(s)
           /\ ~ alive[s] /\ alive'[s] => Start(s)
<1>1. ASSUME NEW t \in Shards, Crash(t) PROVE alive'[s] = (alive[s] /\ s # t)
  BY <1>1 DEF Crash, TypeOK
<1>2. ASSUME NEW t \in Shards, Start(t) PROVE alive'[s] = (alive[s] \/ s = t)
  BY <1>2 DEF Start, TypeOK
<1>3. ASSUME NEW c \in Clients, ClientLost(c) \/ \E x \in Proxies : ClientDiscover(c, x)
      PROVE  UNCHANGED alive
  BY <1>3 DEF ClientLost, ClientDiscover, shardVars
<1>4. ASSUME NEW x \in Proxies, NEW o \in Objects, HandleCreateRoom(x, o) PROVE UNCHANGED alive
  BY <1>4 DEF HandleCreateRoom, shardVars
<1>5. ASSUME NEW x \in Proxies, NEW t \in Shards, Connect(x, t) \/ OnClientConnectionClusterShard(x, t)
                 \/ OnClientLostClusterShard(x, t) \/ HandleAddObject(x, t) \/ HandleRemoveObject(x, t)
      PROVE  UNCHANGED alive
  BY <1>5 DEF Connect, OnClientConnectionClusterShard, OnClientLostClusterShard, HandleAddObject,
     HandleRemoveObject, shardVars
<1>6. ASSUME NEW x \in Proxies, NEW t \in Shards, HandleRegister(t, x) \/ OnServerLostHandle(t, x)
                 \/ HandleClusterClientDiscoverReq(t, x) \/ HandleClusterClientLostReq(t, x)
                 \/ HandleCreateRoomToShard(t, x)
      PROVE  UNCHANGED alive
  BY <1>6 DEF HandleRegister, OnServerLostHandle, HandleClusterClientDiscoverReq,
     HandleClusterClientLostReq, HandleCreateRoomToShard
<1>7. ASSUME NEW t \in Shards, NEW o \in Objects, RemoveBattleRoom(t, o) PROVE UNCHANGED alive
  BY <1>7 DEF RemoveBattleRoom
<1>8. \/ UNCHANGED alive
      \/ \E t \in Shards : Crash(t) \/ Start(t)
  BY <1>3, <1>4, <1>5, <1>6, <1>7 DEF Next
<1> QED BY <1>1, <1>2, <1>8

\* A connection ends only by its loss.
LEMMA ConnSteps ==
    ASSUME TypeOK, Next, NEW x \in Proxies, NEW s \in Shards, s \in conn[x]
    PROVE  s \in conn'[x] \/ OnClientLostClusterShard(x, s)
<1>1. ASSUME NEW c \in Clients, ClientLost(c) \/ \E y \in Proxies : ClientDiscover(c, y)
      PROVE  UNCHANGED conn
  BY <1>1 DEF ClientLost, ClientDiscover
<1>2. ASSUME NEW y \in Proxies, NEW o \in Objects, HandleCreateRoom(y, o) PROVE UNCHANGED conn
  BY <1>2 DEF HandleCreateRoom
<1>3. ASSUME NEW y \in Proxies, NEW t \in Shards, Connect(y, t) PROVE s \in conn'[x]
  BY <1>3 DEF Connect, TypeOK
<1>4. ASSUME NEW y \in Proxies, NEW t \in Shards, OnClientLostClusterShard(y, t), y # x \/ t # s
      PROVE  s \in conn'[x]
  BY <1>4 DEF OnClientLostClusterShard, TypeOK
<1>5. ASSUME NEW y \in Proxies, NEW t \in Shards, OnClientConnectionClusterShard(y, t)
                 \/ HandleAddObject(y, t) \/ HandleRemoveObject(y, t)
      PROVE  UNCHANGED conn
  BY <1>5 DEF OnClientConnectionClusterShard, HandleAddObject, HandleRemoveObject
<1>6. ASSUME NEW y \in Proxies, NEW t \in Shards, HandleRegister(t, y) \/ OnServerLostHandle(t, y)
                 \/ HandleClusterClientDiscoverReq(t, y) \/ HandleClusterClientLostReq(t, y)
                 \/ HandleCreateRoomToShard(t, y)
      PROVE  UNCHANGED conn
  BY <1>6 DEF HandleRegister, OnServerLostHandle, HandleClusterClientDiscoverReq,
     HandleClusterClientLostReq, HandleCreateRoomToShard, proxyVars
<1>7. ASSUME NEW t \in Shards, (\E o \in Objects : RemoveBattleRoom(t, o)) \/ Crash(t) \/ Start(t)
      PROVE  UNCHANGED conn
  BY <1>7 DEF RemoveBattleRoom, Crash, Start, proxyVars
<1> QED BY <1>1, <1>2, <1>3, <1>4, <1>5, <1>6, <1>7 DEF Next

LEMMA NextLines == LineInv /\ [Next]_vars => LineInv'
<1> SUFFICES ASSUME LineInv, [Next]_vars PROVE LineInv'
  OBVIOUS
<1>0. TypeOK /\ TypeOK'
  BY NextTypes DEF LineInv
<1>1. CASE UNCHANGED vars
  <2>1. /\ toShard' = toShard /\ unsent' = unsent /\ known' = known /\ conn' = conn /\ alive' = alive
        /\ hosted' = hosted /\ listed' = listed
    BY <1>1 DEF vars, proxyVars, shardVars
  <2>2. Lines'
    <3> SUFFICES ASSUME NEW x \in Proxies, NEW s \in Shards
                 PROVE  /\ Line(toShard'[x][s], x \in known'[s])
                        /\ alive'[s] => OnLine(toShard'[x][s], x \in known'[s], s \in conn'[x])
                        /\ Fresh(unsent'[x][s])
      BY DEF Lines, Fresh, Has
    <3> QED BY <2>1 DEF LineInv, Lines
  <2>3. Dead'
    BY <2>1 DEF LineInv, Dead
  <2> QED BY <1>0, <2>2, <2>3 DEF LineInv
<1>2. CASE Next
  <2>0. ASSUME NEW s \in Shards, alive[s], ~ alive'[s]
        PROVE  /\ known'[s] = {} /\ hosted'[s] = {} /\ conn' = conn
               /\ \A c \in Clients : listed'[s][c] = None
               /\ \A x \in Proxies : toShard'[x][s] = IF s \in conn[x] THEN toShard[x][s] ELSE << >>
    <3>1. Crash(s)
      BY <1>0, <1>2, <2>0, AliveSteps
    <3> QED BY <1>0, <3>1 DEF Crash, proxyVars, TypeOK
  <2>1. Lines'
    <3> SUFFICES ASSUME NEW x \in Proxies, NEW s \in Shards
                 PROVE  /\ Line(toShard'[x][s], x \in known'[s])
                        /\ alive'[s] => OnLine(toShard'[x][s], x \in known'[s], s \in conn'[x])
                        /\ Fresh(unsent'[x][s])
      BY DEF Lines, Fresh, Has
    <3> DEFINE now == x \in known'[s]
               there == s \in conn'[x]
    <3>1. Fresh(unsent'[x][s])
      BY <1>2, NextMoves, MoveFresh
    <3>2. CASE alive[s] /\ alive'[s]
      <4>1. OnLine(toShard'[x][s], now, there)
        <5>1. alive[s] = alive'[s]
          BY <1>0, <3>2 DEF TypeOK
        <5> QED BY <1>2, <3>2, <5>1, NextMoves, MoveLine
      <4> QED BY <3>1, <4>1 DEF OnLine
    <3>3. CASE ~ alive[s] /\ ~ alive'[s]
      <4>1. alive[s] = alive'[s]
        BY <1>0, <3>3 DEF TypeOK
      <4> QED BY <1>2, <3>1, <3>3, <4>1, NextMoves, MoveDead
    <3>4. CASE alive[s] /\ ~ alive'[s]
      <4>1. ~ now /\ toShard'[x][s] = IF s \in conn[x] THEN toShard[x][s] ELSE << >>
        BY <2>0, <3>4
      <4> DEFINE up == x \in known[s]
      <4>2. Line(toShard[x][s], up)
        BY DEF LineInv, Lines
      <4>3. now => up
        BY <4>1
      <4> HIDE DEF now, up
      <4>4. Line(toShard[x][s], now) /\ Line(<< >>, now)
        BY <4>2, <4>3, LineLower, EmptyLine
      <4>5. Line(toShard'[x][s], now)
        BY <4>1, <4>4
      <4> QED BY <3>1, <3>4, <4>5 DEF now
    <3>5. CASE ~ alive[s] /\ alive'[s]
      <4>1. Start(s)
        BY <1>0, <1>2, <3>5, AliveSteps
      <4>2. toShard'[x][s] = << >> /\ ~ now /\ ~ there
        BY <3>5, <4>1 DEF LineInv, Dead, Start, proxyVars
      <4> HIDE DEF now, there
      <4>3. OnLine(<< >>, FALSE, FALSE)
        BY EmptyLine
      <4>5. OnLine(<< >>, now, there)
        BY <4>2, <4>3, SameLine
      <4>6. Line(<< >>, now)
        BY EmptyLine
      <4> QED BY <3>1, <4>2, <4>5, <4>6 DEF now, there
    <3> QED BY <3>2, <3>3, <3>4, <3>5
  <2>2. Dead'
    <3> SUFFICES ASSUME NEW s \in Shards, ~ alive'[s]
                 PROVE  /\ known'[s] = {} /\ hosted'[s] = {}
                        /\ \A c \in Clients : listed'[s][c] = None
                        /\ \A x \in Proxies : s \notin conn'[x] => toShard'[x][s] = << >>
      BY DEF Dead
    <3>1. CASE alive[s]
      BY <2>0, <3>1
    <3>2. CASE ~ alive[s]
      <4>1. known[s] = {} /\ hosted[s] = {} /\ \A c \in Clients : listed[s][c] = None
        BY <3>2 DEF LineInv, Dead
      <4>2. Still(s)
        BY <1>0, <1>2, <3>2, <4>1, DeadStill
      <4>3. alive[s] = alive'[s]
        BY <1>0, <3>2 DEF TypeOK
      <4>4. \A x \in Proxies : s \notin conn'[x] => toShard'[x][s] = << >>
        BY <1>2, <3>2, <4>3, NextMoves, MoveDead
      <4> QED BY <4>1, <4>2, <4>4 DEF Still
    <3> QED BY <3>1, <3>2
  <2> QED BY <1>0, <2>1, <2>2 DEF LineInv
<1> QED BY <1>1, <1>2

-----------------------------------------------------------------------------
(* Proxies that are registered, with nothing under way that changes it. *)

Linked(x, s) == s \in conn[x] /\ ~ Has(toShard[x][s], "register")

LEMMA HasLost ==
    ASSUME TypeOK, NEW x \in Proxies, NEW s \in Shards
    PROVE  Broken(x, s) <=> Has(toShard[x][s], "lost")
<1>1. DOMAIN toShard[x][s] = 1 .. Len(toShard[x][s])
  BY Pair, LenProperties
<1> QED BY <1>1 DEF Broken, Has

LEMMA Reaches ==
    ASSUME LineInv, NEW x \in Proxies, NEW s \in Shards, alive[s]
    PROVE  x \in known[s] /\ ~ Broken(x, s) <=> Linked(x, s)
<1> DEFINE T == toShard[x][s]
           up == x \in known[s]
           on == s \in conn[x]
<1>1. T \in Seq(ShardMessages) /\ OnLine(T, up, on)
  BY Pair DEF LineInv, Lines
<1>2. Broken(x, s) <=> Has(T, "lost")
  BY HasLost DEF LineInv
<1> HIDE DEF T, up, on
<1>3. (up /\ ~ Has(T, "lost")) <=> (on /\ ~ Has(T, "register"))
  BY <1>1, LineReaches
<1> QED BY <1>2, <1>3 DEF Linked, T, up, on

\* Only the answer to the registration links, and only the loss of the connection unlinks.
LEMMA LinkMoves ==
    ASSUME LineInv, NEW x \in Proxies, NEW s \in Shards, Moves(x, s)
    PROVE  /\ Linked(x, s)' => Linked(x, s) \/ HandleRegister(s, x)
           /\ Linked(x, s) => Linked(x, s)' \/ OnClientLostClusterShard(x, s)
<1> DEFINE T == toShard[x][s]
           R == toShard'[x][s]
<1>1. T \in Seq(ShardMessages) /\ Linked(x, s) = (s \in conn[x] /\ ~ Has(T, "register"))
      /\ Linked(x, s)' = (s \in conn'[x] /\ ~ Has(R, "register"))
  BY Pair DEF LineInv, Linked, Has
<1> HIDE DEF T, R
<1>2. CASE Keeps(x, s)
  BY <1>1, <1>2 DEF Keeps, T, R
<1>3. CASE Grows(x, s)
  <2>1. PICK m \in ShardMessages :
            /\ R = Append(T, m)
            /\ s \in conn'[x] /\ s \in conn[x]
            /\ m.type \notin {"register", "lost"}
    BY <1>3 DEF Grows, T, R
  <2>2. Has(R, "register") <=> Has(T, "register") \/ m.type = "register"
    BY <1>1, <2>1, HasAppend
  <2> QED BY <1>1, <2>1, <2>2
<1>4. CASE IsCut(x, s)
  BY <1>1, <1>4 DEF IsCut
<1>5. CASE Handles(x, s)
  <2>1. /\ T # << >>
        /\ IF Head(T).type = "register" THEN \E n : R = Strays(Tail(T), n) ELSE R = Tail(T)
        /\ s \in conn'[x] <=> s \in conn[x]
        /\ Head(T).type = "register" => HandleRegister(s, x)
    BY <1>5 DEF Handles, Handler, RegisterIs, T, R
  <2>2. Tail(T) \in Seq(ShardMessages)
    BY <1>1, <2>1, HeadTailProperties
  <2>3. Has(T, "register") <=> Has(Tail(T), "register") \/ Head(T).type = "register"
    BY <1>1, <2>1, HasTail
  <2>4. Has(R, "register") <=> Has(Tail(T), "register")
    BY <2>1, <2>2, StraysOnLine
  <2> QED BY <1>1, <2>1, <2>3, <2>4
<1>6. CASE IsJoined(x, s)
  <2>1. s \notin conn[x] /\ \E n : R = T \o Strays(Waiting(x, s), n)
    BY <1>6 DEF IsJoined, Joins, T, R
  <2>2. PICK n : R = T \o Strays(Waiting(x, s), n)
    BY <2>1
  <2>3. Waiting(x, s) \in Seq(ShardMessages) /\ Has(Waiting(x, s), "register")
    BY JoinLine
  <2>4. PICK w : w = Strays(Waiting(x, s), n) /\ w \in Seq(ShardMessages) /\ Has(w, "register")
    BY <2>3, StraysProperties, StraysOnLine
  <2>5. Has(R, "register")
    BY <1>1, <2>2, <2>4, HasConcat
  <2> QED BY <1>1, <2>1, <2>5
<1> QED BY <1>2, <1>3, <1>4, <1>5, <1>6 DEF Moves

LEMMA LinkSteps ==
    ASSUME LineInv, Next, NEW x \in Proxies, NEW s \in Shards
    PROVE  /\ alive'[s] /\ Linked(x, s)' => (alive[s] /\ Linked(x, s)) \/ HandleRegister(s, x)
           /\ Linked(x, s) => Linked(x, s)' \/ OnClientLostClusterShard(x, s)
<1>0. TypeOK
  BY DEF LineInv
<1>1. CASE alive[s] = alive'[s]
  <2>1. Moves(x, s)
    BY <1>1, NextMoves
  <2>2. ShardGets(x, s, "register") => alive[s]
    BY DEF ShardGets
  <2>3. HandleRegister(s, x) => alive[s]
    BY <2>2 DEF HandleRegister
  <2> QED BY <1>1, <2>1, <2>3, LinkMoves
<1>2. CASE alive[s] /\ ~ alive'[s]
  <2>1. Crash(s)
    BY <1>0, <1>2, AliveSteps
  <2>2. conn' = conn /\ (s \in conn[x] => toShard'[x][s] = toShard[x][s])
    BY <1>0, <2>1 DEF Crash, proxyVars, TypeOK
  <2> QED BY <1>2, <2>2 DEF Linked, Has
<1>3. CASE ~ alive[s] /\ alive'[s]
  <2>1. Start(s)
    BY <1>0, <1>3, AliveSteps
  <2>2. s \notin conn[x] /\ s \notin conn'[x]
    BY <2>1 DEF Start, proxyVars
  <2> QED BY <2>2 DEF Linked
<1>4. alive[s] \in BOOLEAN /\ alive'[s] \in BOOLEAN
  BY <1>0, NextTypes DEF TypeOK
<1> QED BY <1>1, <1>2, <1>3, <1>4

AllReach == \A x \in Proxies, s \in Shards :
    alive[s] => (x \in known[s] /\ ~ Broken(x, s) <=> Linked(x, s))

LEMMA ReachLater == LineInv => AllReach
BY Reaches DEF AllReach

\* The answer to the registration goes out where it links.
LEMMA RegisterLinks ==
    ASSUME LineInv, LineInv', NEW x \in Proxies, NEW s \in Shards, HandleRegister(s, x)
    PROVE  alive[s] /\ alive'[s] /\ (Linked(x, s)' <=> ~ Broken(x, s))
<1>1. /\ ShardGets(x, s, "register") /\ RegisterTook(x, s) /\ UNCHANGED << alive, unsent >>
      /\ known' = [known EXCEPT ![s] = @ \cup {x}]
  BY DEF HandleRegister
<1>2. /\ toShard[x][s] # << >> /\ Head(toShard[x][s]).type = "register"
      /\ \E n : toShard'[x][s] = Strays(Tail(toShard[x][s]), n)
  BY <1>1, RegisterTaken DEF LineInv, RegisterIs
<1>3. alive[s] /\ alive'[s]
  BY <1>1 DEF ShardGets
<1>4. toShard[x][s] \in Seq(ShardMessages) /\ Tail(toShard[x][s]) \in Seq(ShardMessages)
  BY <1>2, Pair, HeadTailProperties DEF LineInv
<1>5. Has(toShard[x][s], "lost") <=> Has(toShard'[x][s], "lost")
  <2>1. Has(toShard[x][s], "lost") <=> Has(Tail(toShard[x][s]), "lost")
    BY <1>2, <1>4, HasTail
  <2>2. PICK n : toShard'[x][s] = Strays(Tail(toShard[x][s]), n)
    BY <1>2
  <2>3. Has(Strays(Tail(toShard[x][s]), n), "lost") <=> Has(Tail(toShard[x][s]), "lost")
    BY <1>4, StraysOnLine
  <2> QED BY <2>1, <2>2, <2>3
<1>6. /\ Broken(x, s) <=> Has(toShard[x][s], "lost")
      /\ Broken(x, s)' <=> Has(toShard[x][s], "lost")'
  BY HasLost, PTL DEF LineInv
<1>7. x \in known'[s]
  BY <1>1 DEF LineInv, TypeOK
<1>9. AllReach'
  BY ReachLater, PTL
<1>10. (x \in known[s] /\ ~ Broken(x, s) <=> Linked(x, s))'
  BY <1>3, <1>9 DEF AllReach
<1> QED BY <1>3, <1>5, <1>6, <1>7, <1>10 DEF Has

-----------------------------------------------------------------------------
(* What a step does to the messages from a shard to a proxy. *)

BackKept(x, s) == toProxy'[s][x] = toProxy[s][x]
BackTaken(x, s) ==
    /\ toProxy[s][x] # << >> /\ toProxy'[s][x] = Tail(toProxy[s][x])
    /\ Head(toProxy[s][x]).type = "ack" => OnClientConnectionClusterShard(x, s)
    /\ Head(toProxy[s][x]).type = "add" => HandleAddObject(x, s)
    /\ Head(toProxy[s][x]).type = "remove" => HandleRemoveObject(x, s)
BackAged(x, s) ==
    /\ OnClientLostClusterShard(x, s)
    /\ \E n \in 0 .. Len(toProxy[s][x]) : toProxy'[s][x] = Aged(toProxy[s][x], n)
BackGrown(x, s) == Linked(x, s) /\ \E m \in ProxyMessages :
    /\ ~ m.old /\ m.type \in {"add", "remove"}
    /\ \/ m.type = "add" /\ \E y \in Proxies : HandleCreateRoomToShard(s, y) /\ m.what = Head(toShard[y][s]).what
       \/ m.type = "remove" /\ \E o \in Objects : RemoveBattleRoom(s, o) /\ m.what = {o}
    /\ toProxy'[s][x] = Append(toProxy[s][x], m)
BackAnswered(x, s) ==
    HandleRegister(s, x) /\ Linked(x, s)' /\ toProxy'[s][x] = Answered(toProxy[s][x], s)
BackMoves(x, s) ==
    BackKept(x, s) \/ BackTaken(x, s) \/ BackAged(x, s) \/ BackGrown(x, s) \/ BackAnswered(x, s)

LEMMA BreakAged ==
    ASSUME TypeOK, NEW x \in Proxies, NEW s \in Shards, OnClientLostClusterShard(x, s)
    PROVE  \E n \in 0 .. Len(toProxy[s][x]) : toProxy'[s][x] = Aged(toProxy[s][x], n)
BY BreakLines DEF Breaks

LEMMA TakenMoves ==
    ASSUME TypeOK, NEW x \in Proxies, NEW s \in Shards, NEW type, ProxyGets(s, x, type), ProxyTook(s, x),
           type = "ack" => OnClientConnectionClusterShard(x, s),
           type = "add" => HandleAddObject(x, s),
           type = "remove" => HandleRemoveObject(x, s),
           NEW y \in Proxies, NEW t \in Shards
    PROVE  BackMoves(y, t)
<1>1. /\ toProxy[s][x] # << >> /\ Head(toProxy[s][x]).type = type
      /\ toProxy'[t][y] = IF y = x /\ t = s THEN Tail(toProxy[s][x]) ELSE toProxy[t][y]
  BY TookAtProxy
<1>2. CASE y = x /\ t = s
  <2>1. BackTaken(y, t)
    BY <1>1, <1>2 DEF BackTaken
  <2> QED BY <2>1 DEF BackMoves
<1>3. CASE y # x \/ t # s
  BY <1>1, <1>3 DEF BackMoves, BackKept
<1> QED BY <1>2, <1>3

\* A broadcast reaches the proxies that are linked.
LEMMA LinkedGets ==
    ASSUME LineInv, NEW s \in Shards, alive[s], NEW m \in ProxyMessages, Broadcast(s, m),
           NEW x \in Proxies, NEW t \in Shards
    PROVE  toProxy'[t][x] = IF t = s /\ Linked(x, s) THEN Append(toProxy[s][x], m) ELSE toProxy[t][x]
<1>1. toProxy'[t][x] = IF t = s /\ x \in known[s] /\ ~ Broken(x, s) THEN Append(toProxy[t][x], m) ELSE toProxy[t][x]
  BY Broadcasted DEF LineInv
<1>2. x \in known[s] /\ ~ Broken(x, s) <=> Linked(x, s)
  BY Reaches
<1> QED BY <1>1, <1>2

LEMMA RoomGrows ==
    ASSUME LineInv, NEW y \in Proxies, NEW t \in Shards, HandleCreateRoomToShard(t, y),
           NEW x \in Proxies, NEW s \in Shards
    PROVE  /\ alive[t] /\ alive'[t]
           /\ toProxy'[s][x] = IF s = t /\ Linked(x, t)
                               THEN Append(toProxy[t][x], ToProxy("add", Head(toShard[y][t]).what))
                               ELSE toProxy[s][x]
<1>1. ShardGets(y, t, "create") /\ ShardTook(y, t) /\ UNCHANGED alive
  BY DEF HandleCreateRoomToShard
<1>3. alive[t]
  BY <1>1 DEF ShardGets
<1> DEFINE m == ToProxy("add", Head(toShard[y][t]).what)
<1>4. m \in ProxyMessages /\ Broadcast(t, m)
  BY RoomTypes DEF HandleCreateRoomToShard, LineInv
<1> HIDE DEF m
<1>5. toProxy'[s][x] = IF s = t /\ Linked(x, t) THEN Append(toProxy[t][x], m) ELSE toProxy[s][x]
  BY <1>3, <1>4, LinkedGets
<1> QED BY <1>1, <1>3, <1>5 DEF m

LEMMA RoomEndGrows ==
    ASSUME LineInv, NEW t \in Shards, NEW o \in Objects, RemoveBattleRoom(t, o),
           NEW x \in Proxies, NEW s \in Shards
    PROVE  /\ alive[t] /\ alive'[t]
           /\ toProxy'[s][x] = IF s = t /\ Linked(x, t)
                               THEN Append(toProxy[t][x], ToProxy("remove", {o})) ELSE toProxy[s][x]
<1>1. alive[t] /\ alive'[t]
  BY DEF RemoveBattleRoom, LineInv, Dead
<1> DEFINE m == ToProxy("remove", {o})
<1>2. m \in ProxyMessages /\ Broadcast(t, m)
  BY RoomEndTypes DEF RemoveBattleRoom, LineInv
<1> HIDE DEF m
<1>3. toProxy'[s][x] = IF s = t /\ Linked(x, t) THEN Append(toProxy[t][x], m) ELSE toProxy[s][x]
  BY <1>1, <1>2, LinkedGets
<1> QED BY <1>1, <1>3 DEF m

LEMMA NextBack ==
    ASSUME LineInv, LineInv', Next, NEW x \in Proxies, NEW s \in Shards
    PROVE  BackMoves(x, s)
<1>0. TypeOK
  BY DEF LineInv
<1>1. ASSUME NEW c \in Clients, ClientLost(c) \/ \E y \in Proxies : ClientDiscover(c, y)
      PROVE  BackMoves(x, s)
  BY <1>1 DEF ClientLost, ClientDiscover, BackMoves, BackKept
<1>2. ASSUME NEW y \in Proxies, NEW o \in Objects, HandleCreateRoom(y, o) PROVE BackMoves(x, s)
  BY <1>2 DEF HandleCreateRoom, BackMoves, BackKept
<1>3. ASSUME NEW y \in Proxies, NEW t \in Shards, Connect(y, t) PROVE BackMoves(x, s)
  BY <1>3 DEF Connect, BackMoves, BackKept
<1>4. ASSUME NEW y \in Proxies, NEW t \in Shards, OnClientConnectionClusterShard(y, t)
      PROVE  BackMoves(x, s)
  BY <1>0, <1>4, TakenMoves DEF OnClientConnectionClusterShard
<1>5. ASSUME NEW y \in Proxies, NEW t \in Shards, HandleAddObject(y, t) PROVE BackMoves(x, s)
  BY <1>0, <1>5, TakenMoves DEF HandleAddObject
<1>6. ASSUME NEW y \in Proxies, NEW t \in Shards, HandleRemoveObject(y, t) PROVE BackMoves(x, s)
  BY <1>0, <1>6, TakenMoves DEF HandleRemoveObject
<1>7. ASSUME NEW y \in Proxies, NEW t \in Shards, OnClientLostClusterShard(y, t) PROVE BackMoves(x, s)
  <2>1. CASE x = y /\ s = t
    <3>2. BackAged(x, s)
      BY <1>0, <1>7, <2>1, BreakAged DEF BackAged
    <3> QED BY <3>2 DEF BackMoves
  <2>2. CASE x # y \/ s # t
    <3>1. toProxy'[s][x] = toProxy[s][x]
      BY <1>0, <1>7, <2>2, BreakLines
    <3> QED BY <3>1 DEF BackMoves, BackKept
  <2> QED BY <2>1, <2>2
<1>8. ASSUME NEW y \in Proxies, NEW t \in Shards, HandleRegister(t, y) PROVE BackMoves(x, s)
  <2>1. toProxy'[s][x] = IF x = y /\ s = t /\ ~ Broken(y, t) THEN Answered(toProxy[t][y], t) ELSE toProxy[s][x]
    BY <1>0, <1>8, RegisterLines
  <2>2. Linked(y, t)' <=> ~ Broken(y, t)
    BY <1>8, RegisterLinks
  <2>3. CASE x = y /\ s = t /\ ~ Broken(y, t)
    <3>1. BackAnswered(x, s)
      BY <1>8, <2>1, <2>2, <2>3 DEF BackAnswered
    <3> QED BY <3>1 DEF BackMoves
  <2>4. CASE ~ (x = y /\ s = t /\ ~ Broken(y, t))
    BY <2>1, <2>4 DEF BackMoves, BackKept
  <2> QED BY <2>3, <2>4
<1>9. ASSUME NEW y \in Proxies, NEW t \in Shards, OnServerLostHandle(t, y)
                 \/ HandleClusterClientDiscoverReq(t, y) \/ HandleClusterClientLostReq(t, y)
      PROVE  BackMoves(x, s)
  BY <1>9 DEF OnServerLostHandle, HandleClusterClientDiscoverReq, HandleClusterClientLostReq, BackMoves, BackKept
<1>10. ASSUME NEW y \in Proxies, NEW t \in Shards, HandleCreateRoomToShard(t, y) PROVE BackMoves(x, s)
  <2> DEFINE m == ToProxy("add", Head(toShard[y][t]).what)
  <2>1. toProxy'[s][x] = IF s = t /\ Linked(x, t) THEN Append(toProxy[t][x], m) ELSE toProxy[s][x]
    BY <1>10, RoomGrows
  <2>2. m \in ProxyMessages /\ ~ m.old /\ m.type = "add" /\ m.what = Head(toShard[y][t]).what
    BY <1>0, <1>10, RoomTypes DEF ToProxy
  <2> HIDE DEF m
  <2>3. CASE s = t /\ Linked(x, t)
    <3>1. BackGrown(x, s)
      BY <1>10, <2>1, <2>2, <2>3 DEF BackGrown
    <3> QED BY <3>1 DEF BackMoves
  <2>4. CASE ~ (s = t /\ Linked(x, t))
    BY <2>1, <2>4 DEF BackMoves, BackKept
  <2> QED BY <2>3, <2>4
<1>11. ASSUME NEW t \in Shards, NEW o \in Objects, RemoveBattleRoom(t, o) PROVE BackMoves(x, s)
  <2> DEFINE m == ToProxy("remove", {o})
  <2>1. toProxy'[s][x] = IF s = t /\ Linked(x, t) THEN Append(toProxy[t][x], m) ELSE toProxy[s][x]
    BY <1>11, RoomEndGrows
  <2>2. m \in ProxyMessages /\ ~ m.old /\ m.type = "remove" /\ m.what = {o}
    BY <1>0, <1>11, RoomEndTypes DEF ToProxy
  <2> HIDE DEF m
  <2>3. CASE s = t /\ Linked(x, t)
    <3>1. BackGrown(x, s)
      BY <1>11, <2>1, <2>2, <2>3 DEF BackGrown
    <3> QED BY <3>1 DEF BackMoves
  <2>4. CASE ~ (s = t /\ Linked(x, t))
    BY <2>1, <2>4 DEF BackMoves, BackKept
  <2> QED BY <2>3, <2>4
<1>12. ASSUME NEW t \in Shards, Crash(t) \/ Start(t) PROVE BackMoves(x, s)
  BY <1>12 DEF Crash, Start, BackMoves, BackKept
<1> QED BY <1>1, <1>2, <1>3, <1>4, <1>5, <1>6, <1>7, <1>8, <1>9, <1>10, <1>11, <1>12 DEF Next

-----------------------------------------------------------------------------
(* The hash and the counts of a proxy agree with the shards that run. *)

AllOld(q) == \A i \in 1 .. Len(q) : q[i].old

\* Where a proxy is not linked, what is under way to it is from before the loss.
Old == \A x \in Proxies, s \in Shards : ~ Linked(x, s) => AllOld(toProxy[s][x])

\* A shard that is linked is in the tables or about to enter; one without a
\* connection is in them only by what was handled after its loss.
InTables(x, s) ==
    /\ s \notin conn[x] /\ s \in ring[x] \cup counted[x] => s \in late[x]
    /\ alive[s] /\ Linked(x, s) =>
          /\ s \in ring[x] \/ Has(toProxy[s][x], "ack")
          /\ s \in counted[x] \/ Has(toProxy[s][x], "add")
Tables == \A x \in Proxies, s \in Shards : InTables(x, s)

LEMMA OldTail ==
    ASSUME NEW M, NEW q \in Seq(M), q # << >>, AllOld(q)
    PROVE  AllOld(Tail(q)) /\ Head(q).old
<1>1. Len(q) \in Nat /\ Len(q) >= 1 /\ Len(Tail(q)) = Len(q) - 1 /\ Head(q) = q[1]
      /\ \A i \in 1 .. Len(Tail(q)) : Tail(q)[i] = q[i + 1]
  BY HeadTailProperties, LenProperties, EmptySeq
<1>2. 1 \in 1 .. Len(q) /\ \A i \in 1 .. Len(Tail(q)) : i + 1 \in 1 .. Len(q)
  BY <1>1
<1> QED BY <1>1, <1>2 DEF AllOld

LEMMA NextOld == LineInv /\ LineInv' /\ Old /\ [Next]_vars => Old'
<1> SUFFICES ASSUME LineInv, LineInv', Old, [Next]_vars, NEW x \in Proxies, NEW s \in Shards, ~ Linked(x, s)'
             PROVE  AllOld(toProxy[s][x])'
  BY DEF Old
<1> DEFINE P == toProxy[s][x]
<1>0. P \in Seq(ProxyMessages)
  BY Pair DEF LineInv
<1>1. CASE UNCHANGED vars
  BY <1>1 DEF Old, Linked, Has, AllOld, vars, proxyVars
<1>2. CASE Next
  <2>1. CASE OnClientLostClusterShard(x, s)
    <3>2. PICK n \in 0 .. Len(P) : toProxy'[s][x] = Aged(P, n)
      BY <2>1, BreakAged DEF LineInv
    <3>3. AllOld(Aged(P, n))
      BY <1>0, AgedProperties DEF AllOld
    <3> QED BY <3>2, <3>3 DEF AllOld
  <2>2. CASE ~ OnClientLostClusterShard(x, s)
    <3>1. ~ Linked(x, s)
      BY <1>2, <2>2, LinkSteps
    <3>2. AllOld(P)
      BY <3>1 DEF Old
    <3>3. BackMoves(x, s)
      BY <1>2, NextBack
    <3>4. CASE BackKept(x, s)
      BY <3>2, <3>4 DEF BackKept, AllOld
    <3>5. CASE BackTaken(x, s)
      <4>1. P # << >> /\ toProxy'[s][x] = Tail(P)
        BY <3>5 DEF BackTaken
      <4>2. AllOld(Tail(P))
        BY <1>0, <3>2, <4>1, OldTail
      <4> QED BY <4>1, <4>2 DEF AllOld
    <3> QED BY <2>2, <3>1, <3>3, <3>4, <3>5 DEF BackMoves, BackAged, BackGrown, BackAnswered
  <2> QED BY <2>1, <2>2
<1> QED BY <1>1, <1>2

\* Whoever is in a table stays there until the connection is lost.
LEMMA TableSteps ==
    ASSUME TypeOK, Next, NEW x \in Proxies, NEW s \in Shards
    PROVE  \/ OnClientLostClusterShard(x, s)
           \/ /\ s \in ring[x] => s \in ring'[x]
              /\ s \in counted[x] => s \in counted'[x]
<1> DEFINE Stays == /\ s \in ring[x] => s \in ring'[x]
                    /\ s \in counted[x] => s \in counted'[x]
<1>1. ASSUME NEW c \in Clients, ClientLost(c) \/ \E y \in Proxies : ClientDiscover(c, y)
      PROVE  Stays
  BY <1>1 DEF ClientLost, ClientDiscover
<1>2. ASSUME NEW y \in Proxies, NEW o \in Objects, HandleCreateRoom(y, o) PROVE Stays
  BY <1>2 DEF HandleCreateRoom, TypeOK
<1>3. ASSUME NEW y \in Proxies, NEW t \in Shards, Connect(y, t) \/ HandleRemoveObject(y, t) PROVE Stays
  BY <1>3 DEF Connect, HandleRemoveObject
<1>4. ASSUME NEW y \in Proxies, NEW t \in Shards, OnClientLostClusterShard(y, t), y # x \/ t # s
      PROVE  Stays
  BY <1>4 DEF OnClientLostClusterShard, TypeOK
<1>5. ASSUME NEW y \in Proxies, NEW t \in Shards, OnClientConnectionClusterShard(y, t) PROVE Stays
  BY <1>5 DEF OnClientConnectionClusterShard, TypeOK
<1>6. ASSUME NEW y \in Proxies, NEW t \in Shards, HandleAddObject(y, t) PROVE Stays
  BY <1>6 DEF HandleAddObject, TypeOK
<1>7. ASSUME NEW y \in Proxies, NEW t \in Shards, HandleRegister(t, y) \/ OnServerLostHandle(t, y)
                 \/ HandleClusterClientDiscoverReq(t, y) \/ HandleClusterClientLostReq(t, y)
                 \/ HandleCreateRoomToShard(t, y)
      PROVE  Stays
  BY <1>7 DEF HandleRegister, OnServerLostHandle, HandleClusterClientDiscoverReq,
     HandleClusterClientLostReq, HandleCreateRoomToShard, proxyVars
<1>8. ASSUME NEW t \in Shards, (\E o \in Objects : RemoveBattleRoom(t, o)) \/ Crash(t) \/ Start(t)
      PROVE  Stays
  BY <1>8 DEF RemoveBattleRoom, Crash, Start, proxyVars
<1> QED BY <1>1, <1>2, <1>3, <1>4, <1>5, <1>6, <1>7, <1>8 DEF Next

\* Who enters a table without a connection is noted.
LEMMA LateSteps ==
    ASSUME LineInv, Old, Tables, Next, NEW x \in Proxies, NEW s \in Shards,
           s \notin conn'[x], s \in ring'[x] \cup counted'[x]
    PROVE  s \in late'[x]
<1>0. TypeOK /\ (s \notin conn[x] /\ s \in ring[x] \cup counted[x] => s \in late[x])
  BY DEF LineInv, Tables, InTables
<1>1. ASSUME NEW c \in Clients, ClientLost(c) \/ \E y \in Proxies : ClientDiscover(c, y)
      PROVE  s \in late'[x]
  BY <1>0, <1>1 DEF ClientLost, ClientDiscover, history
<1>2. ASSUME NEW y \in Proxies, NEW o \in Objects, HandleCreateRoom(y, o) PROVE s \in late'[x]
  <2>1. PICK t \in Shards : t = Goal(y, o)
    BY <1>0, <1>2, CreateTypes
  <2>2. /\ counted' = [counted EXCEPT ![y] = IF dynamic[y][o] # None THEN @ ELSE @ \cup {t}]
        /\ late' = [late EXCEPT ![y] = IF t \in conn[y] THEN @ ELSE @ \cup {t}]
        /\ UNCHANGED << ring, conn >>
    BY <1>2, <2>1 DEF HandleCreateRoom, Goal
  <2> QED BY <1>0, <2>2 DEF TypeOK
<1>3. ASSUME NEW y \in Proxies, NEW t \in Shards, Connect(y, t) PROVE s \in late'[x]
  BY <1>0, <1>3 DEF Connect, history, TypeOK
<1>4. ASSUME NEW y \in Proxies, NEW t \in Shards, HandleRemoveObject(y, t) PROVE s \in late'[x]
  BY <1>0, <1>4 DEF HandleRemoveObject
<1>5. ASSUME NEW y \in Proxies, NEW t \in Shards, OnClientLostClusterShard(y, t) PROVE s \in late'[x]
  <2>1. /\ conn' = [conn EXCEPT ![y] = @ \ {t}] /\ ring' = [ring EXCEPT ![y] = @ \ {t}]
        /\ counted' = [counted EXCEPT ![y] = @ \ {t}] /\ late' = [late EXCEPT ![y] = @ \ {t}]
    BY <1>5 DEF OnClientLostClusterShard
  <2> QED BY <1>0, <2>1 DEF TypeOK
<1>6. ASSUME NEW y \in Proxies, NEW t \in Shards, ProxyGets(t, y, "ack") \/ ProxyGets(t, y, "add"), t \notin conn[y]
      PROVE  Head(toProxy[t][y]).old
  <2>1. toProxy[t][y] \in Seq(ProxyMessages) /\ toProxy[t][y] # << >>
    BY <1>0, <1>6, Pair DEF ProxyGets
  <2>2. AllOld(toProxy[t][y])
    BY <1>6 DEF Old, Linked
  <2> QED BY <2>1, <2>2, OldTail
<1>7. ASSUME NEW y \in Proxies, NEW t \in Shards, OnClientConnectionClusterShard(y, t)
      PROVE  s \in late'[x]
  <2>1. /\ ring' = [ring EXCEPT ![y] = @ \cup {t}]
        /\ late' = [late EXCEPT ![y] = IF Head(toProxy[t][y]).old THEN @ \cup {t} ELSE @]
        /\ UNCHANGED << conn, counted >> /\ ProxyGets(t, y, "ack")
    BY <1>7 DEF OnClientConnectionClusterShard
  <2>2. t \notin conn[y] => Head(toProxy[t][y]).old
    BY <1>6, <2>1
  <2> QED BY <1>0, <2>1, <2>2 DEF TypeOK
<1>8. ASSUME NEW y \in Proxies, NEW t \in Shards, HandleAddObject(y, t) PROVE s \in late'[x]
  <2>1. /\ counted' = [counted EXCEPT ![y] = @ \cup {t}]
        /\ late' = [late EXCEPT ![y] = IF Head(toProxy[t][y]).old THEN @ \cup {t} ELSE @ \ {t}]
        /\ UNCHANGED << conn, ring >> /\ ProxyGets(t, y, "add")
    BY <1>8 DEF HandleAddObject
  <2>2. t \notin conn[y] => Head(toProxy[t][y]).old
    BY <1>6, <2>1
  <2> QED BY <1>0, <2>1, <2>2 DEF TypeOK
<1>9. ASSUME NEW y \in Proxies, NEW t \in Shards, HandleRegister(t, y) \/ OnServerLostHandle(t, y)
                 \/ HandleClusterClientDiscoverReq(t, y) \/ HandleClusterClientLostReq(t, y)
                 \/ HandleCreateRoomToShard(t, y)
      PROVE  s \in late'[x]
  BY <1>0, <1>9 DEF HandleRegister, OnServerLostHandle, HandleClusterClientDiscoverReq,
     HandleClusterClientLostReq, HandleCreateRoomToShard, proxyVars, history
<1>10. ASSUME NEW t \in Shards, (\E o \in Objects : RemoveBattleRoom(t, o)) \/ Crash(t) \/ Start(t)
      PROVE  s \in late'[x]
  BY <1>0, <1>10 DEF RemoveBattleRoom, Crash, Start, proxyVars, history
<1> QED BY <1>1, <1>2, <1>3, <1>4, <1>5, <1>7, <1>8, <1>9, <1>10 DEF Next

\* The answer to the registration brings both messages.
LEMMA AnsweredHas ==
    ASSUME TypeOK, NEW s \in Shards, NEW q \in Seq(ProxyMessages)
    PROVE  Answered(q, s) \in Seq(ProxyMessages) /\ Has(Answered(q, s), "ack") /\ Has(Answered(q, s), "add")
<1> DEFINE ack == ToProxy("ack", {})
           add == ToProxy("add", hosted[s])
<1>1. ack \in ProxyMessages /\ ack.type = "ack" /\ add \in ProxyMessages /\ add.type = "add"
  BY Sent DEF TypeOK, ToProxy
<1>2. Answered(q, s) = Append(Append(q, ack), add)
  BY DEF Answered
<1> HIDE DEF ack, add
<1>3. PICK r : r = Append(q, ack) /\ r \in Seq(ProxyMessages)
  BY <1>1, AppendProperties
<1>4. Has(r, "ack")
  BY <1>1, <1>3, HasAppend
<1>5. Append(r, add) \in Seq(ProxyMessages)
  BY <1>1, <1>3, AppendProperties
<1>6. Has(Append(r, add), "ack")
  BY <1>1, <1>3, <1>4, HasAppend
<1>7. Has(Append(r, add), "add")
  BY <1>1, <1>3, HasAppend
<1> QED BY <1>2, <1>3, <1>5, <1>6, <1>7

LEMMA NextTables == LineInv /\ LineInv' /\ Old /\ Tables /\ [Next]_vars => Tables'
<1> SUFFICES ASSUME LineInv, LineInv', Old, Tables, [Next]_vars, NEW x \in Proxies, NEW s \in Shards
             PROVE  InTables(x, s)'
  BY DEF Tables
<1>0. TypeOK
  BY DEF LineInv
<1>1. CASE UNCHANGED vars
  BY <1>1 DEF Tables, InTables, Linked, Has, vars, proxyVars, shardVars, history
<1>2. CASE Next
  <2>1. s \notin conn'[x] /\ s \in ring'[x] \cup counted'[x] => s \in late'[x]
    BY <1>2, LateSteps
  <2>2. ASSUME alive'[s], Linked(x, s)'
        PROVE  /\ s \in ring'[x] \/ Has(toProxy'[s][x], "ack")
               /\ s \in counted'[x] \/ Has(toProxy'[s][x], "add")
    <3>0. toProxy[s][x] \in Seq(ProxyMessages)
      BY <1>0, Pair
    <3>1. CASE HandleRegister(s, x)
      <4>1. toProxy'[s][x] = Answered(toProxy[s][x], s)
        <5>1. ~ Broken(x, s)
          BY <2>2, <3>1, RegisterLinks
        <5> QED BY <1>0, <3>1, <5>1, RegisterLines
      <4> QED BY <1>0, <3>0, <4>1, AnsweredHas
    <3>2. CASE ~ HandleRegister(s, x)
      <4>1. alive[s] /\ Linked(x, s)
        BY <1>2, <2>2, <3>2, LinkSteps
      <4>2. /\ s \in ring[x] \/ Has(toProxy[s][x], "ack")
            /\ s \in counted[x] \/ Has(toProxy[s][x], "add")
        BY <4>1 DEF Tables, InTables
      <4>3. ~ OnClientLostClusterShard(x, s)
        <5>1. OnClientLostClusterShard(x, s) => s \notin conn'[x]
          BY <1>0 DEF OnClientLostClusterShard, TypeOK
        <5> QED BY <2>2, <5>1 DEF Linked
      <4>4. /\ s \in ring[x] => s \in ring'[x]
            /\ s \in counted[x] => s \in counted'[x]
        BY <1>0, <1>2, <4>3, TableSteps
      <4>5. BackMoves(x, s)
        BY <1>2, NextBack
      <4>6. CASE BackKept(x, s)
        BY <4>2, <4>4, <4>6 DEF BackKept
      <4>7. CASE BackTaken(x, s)
        <5>1. toProxy[s][x] # << >> /\ toProxy'[s][x] = Tail(toProxy[s][x])
          BY <4>7 DEF BackTaken
        <5>2. \A type : Has(toProxy[s][x], type) => Has(toProxy'[s][x], type) \/ Head(toProxy[s][x]).type = type
          BY <3>0, <5>1, HasTail
        <5>3. Head(toProxy[s][x]).type = "ack" => s \in ring'[x]
          BY <1>0, <4>7 DEF BackTaken, OnClientConnectionClusterShard, TypeOK
        <5>4. Head(toProxy[s][x]).type = "add" => s \in counted'[x]
          BY <1>0, <4>7 DEF BackTaken, HandleAddObject, TypeOK
        <5> QED BY <4>2, <4>4, <5>2, <5>3, <5>4
      <4>8. CASE BackGrown(x, s)
        <5>1. PICK m \in ProxyMessages : toProxy'[s][x] = Append(toProxy[s][x], m)
          BY <4>8 DEF BackGrown
        <5>2. \A type : Has(toProxy[s][x], type) => Has(toProxy'[s][x], type)
          BY <3>0, <5>1, HasAppend
        <5> QED BY <4>2, <4>4, <5>2
      <4> QED BY <3>2, <4>3, <4>5, <4>6, <4>7, <4>8 DEF BackMoves, BackAged, BackAnswered
    <3> QED BY <3>1, <3>2
  <2>3. Linked(x, s)' = (s \in conn'[x] /\ ~ Has(toShard'[x][s], "register")) /\ \A type : Has(toProxy[s][x], type)' = Has(toProxy'[s][x], type)
    BY DEF Linked, Has
  <2> QED BY <2>1, <2>2 DEF InTables, Linked, Has
<1> QED BY <1>1, <1>2

LEMMA InitTables == Init => Old /\ Tables
<1> SUFFICES ASSUME Init, NEW x \in Proxies, NEW s \in Shards
             PROVE  AllOld(toProxy[s][x]) /\ InTables(x, s)
  BY DEF Old, Tables
<1>1. toProxy[s][x] = << >> /\ s \in conn[x] /\ s \in ring[x] /\ s \in counted[x]
  BY DEF Init
<1> QED BY <1>1 DEF AllOld, InTables

\* OnClientConnectionClusterShard, OnClientLostClusterShard, HandleAddObject and
\* HandleCreateRoom, for any number of proxies, shards and losses: at rest a proxy has in
\* its hash and in its counts the shards that run, unless what a shard had sent before
\* its loss was handled after it.
THEOREM TablesAgree == Spec => []ShardsAgree
<1>1. LineInv /\ Tables => ShardsAgree
  <2> SUFFICES ASSUME LineInv, Tables, AtRest, NEW x \in Proxies, NEW s \in Shards, s \notin late[x]
               PROVE  (s \in ring[x] <=> alive[s]) /\ (s \in counted[x] <=> alive[s])
    BY DEF ShardsAgree
  <2>1. /\ toShard[x][s] = << >> /\ toProxy[s][x] = << >>
        /\ s \in conn[x] <=> alive[s]
    BY DEF AtRest
  <2>2. ~ Has(<< >>, "register") /\ ~ Has(<< >>, "ack") /\ ~ Has(<< >>, "add")
    BY DEF Has
  <2>3. InTables(x, s)
    BY DEF Tables
  <2>4. alive[s] => Linked(x, s)
    BY <2>1, <2>2 DEF Linked
  <2>5. CASE alive[s]
    BY <2>1, <2>2, <2>3, <2>4, <2>5 DEF InTables
  <2>6. CASE ~ alive[s]
    BY <2>1, <2>3, <2>6 DEF InTables
  <2> QED BY <2>5, <2>6
<1> QED BY <1>1, InitLines, NextLines, InitTables, NextOld, NextTables, PTL DEF Spec

-----------------------------------------------------------------------------
(* What is on its way about one room. *)

\* To a proxy: the last message announces the room, or none is about it.
Stands(q, o) == \E i \in 1 .. Len(q) :
    q[i].type = "add" /\ o \in q[i].what /\ \A j \in i + 1 .. Len(q) : o \notin q[j].what
Silent(q, o) == \A i \in 1 .. Len(q) : o \notin q[i].what
\* After message i the room is taken back.
Removes(q, i, o) == \E j \in i + 1 .. Len(q) : q[j].type = "remove" /\ o \in q[j].what
\* A room announced on this connection is there or is taken back.
Sound(q, o, there) == \A i \in 1 .. Len(q) :
    ~ q[i].old /\ q[i].type = "add" /\ o \in q[i].what => there \/ Removes(q, i, o)
\* To a shard: it will create the room, registered.
Creates(q, o) == \E i \in 1 .. Len(q) :
    q[i].type = "create" /\ o \in q[i].what /\ \A j \in i + 1 .. Len(q) : q[j].type # "register"

LEMMA BackAppend ==
    ASSUME NEW q \in Seq(ProxyMessages), NEW m \in ProxyMessages, NEW o, NEW there
    PROVE  /\ Stands(q, o) /\ o \notin m.what => Stands(Append(q, m), o)
           /\ m.type = "add" /\ o \in m.what => Stands(Append(q, m), o)
           /\ Silent(Append(q, m), o) <=> Silent(q, o) /\ o \notin m.what
           /\ \A i \in 0 .. Len(q) : Removes(q, i, o) \/ (m.type = "remove" /\ o \in m.what)
                                     => Removes(Append(q, m), i, o)
<1> DEFINE r == Append(q, m)
<1>1. Len(q) \in Nat /\ Len(r) = Len(q) + 1 /\ r[Len(q) + 1] = m /\ \A j \in 1 .. Len(q) : r[j] = q[j]
  BY AppendProperties, LenProperties
<1> HIDE DEF r
<1>2. /\ 1 .. Len(q) \subseteq 1 .. Len(r)
      /\ Len(q) + 1 \in 1 .. Len(r)
      /\ \A j \in 1 .. Len(r) : j \in 1 .. Len(q) \/ j = Len(q) + 1
      /\ (Len(q) + 1) + 1 .. Len(r) = {}
  BY <1>1
<1>3. ASSUME Stands(q, o), o \notin m.what PROVE Stands(r, o)
  <2>1. PICK i \in 1 .. Len(q) :
            q[i].type = "add" /\ o \in q[i].what /\ \A j \in i + 1 .. Len(q) : o \notin q[j].what
    BY <1>3 DEF Stands
  <2>2. \A j \in i + 1 .. Len(r) : (j \in i + 1 .. Len(q) /\ j \in 1 .. Len(q)) \/ j = Len(q) + 1
    BY <1>1
  <2>3. \A j \in i + 1 .. Len(r) : o \notin r[j].what
    BY <1>1, <1>3, <2>1, <2>2
  <2> QED BY <1>1, <1>2, <2>1, <2>3 DEF Stands
<1>4. ASSUME m.type = "add", o \in m.what PROVE Stands(r, o)
  BY <1>1, <1>2, <1>4 DEF Stands
<1>5. Silent(r, o) <=> Silent(q, o) /\ o \notin m.what
  BY <1>1, <1>2 DEF Silent
<1>6. ASSUME NEW i \in 0 .. Len(q), Removes(q, i, o) \/ (m.type = "remove" /\ o \in m.what)
      PROVE  Removes(r, i, o)
  <2>1. (\A j \in i + 1 .. Len(q) : j \in i + 1 .. Len(r) /\ j \in 1 .. Len(q)) /\ Len(q) + 1 \in i + 1 .. Len(r)
    BY <1>1
  <2> QED BY <1>1, <1>6, <2>1 DEF Removes
<1> QED BY <1>3, <1>4, <1>5, <1>6 DEF r

LEMMA SoundAppend ==
    ASSUME NEW q \in Seq(ProxyMessages), NEW m \in ProxyMessages, NEW o, NEW there,
           (m.type = "remove" /\ o \in m.what) \/ Sound(q, o, there),
           m.type = "add" /\ o \in m.what => there
    PROVE  Sound(Append(q, m), o, there)
<1> DEFINE r == Append(q, m)
<1>1. Len(q) \in Nat /\ Len(r) = Len(q) + 1 /\ r[Len(q) + 1] = m /\ \A j \in 1 .. Len(q) : r[j] = q[j]
  BY AppendProperties, LenProperties
<1>2. \A i \in 1 .. Len(q) : Removes(q, i, o) \/ (m.type = "remove" /\ o \in m.what) => Removes(r, i, o)
  <2>1. \A i \in 1 .. Len(q) : i \in 0 .. Len(q)
    OBVIOUS
  <2> QED BY <2>1, BackAppend
<1> HIDE DEF r
<1> SUFFICES ASSUME NEW i \in 1 .. Len(r), ~ r[i].old, r[i].type = "add", o \in r[i].what
             PROVE  there \/ Removes(r, i, o)
  BY DEF Sound, r
<1>3. CASE i \in 1 .. Len(q)
  BY <1>1, <1>2, <1>3 DEF Sound
<1>4. CASE i = Len(q) + 1
  BY <1>1, <1>4
<1> QED BY <1>1, <1>3, <1>4

LEMMA BackTail ==
    ASSUME NEW q \in Seq(ProxyMessages), q # << >>, NEW o
    PROVE  /\ Stands(q, o) => \/ Stands(Tail(q), o)
                              \/ Head(q).type = "add" /\ o \in Head(q).what /\ Silent(Tail(q), o)
           /\ Silent(q, o) => Silent(Tail(q), o) /\ o \notin Head(q).what
           /\ \A i \in Nat : Removes(q, i + 1, o) => Removes(Tail(q), i, o)
           /\ Removes(q, 0, o) => Removes(Tail(q), 0, o) \/ (Head(q).type = "remove" /\ o \in Head(q).what)
<1> DEFINE r == Tail(q)
<1>1. Len(q) \in Nat /\ Len(q) >= 1 /\ Len(r) = Len(q) - 1 /\ Head(q) = q[1]
      /\ \A j \in 1 .. Len(r) : r[j] = q[j + 1]
  BY HeadTailProperties, LenProperties, EmptySeq
<1> HIDE DEF r
<1>2. 1 \in 1 .. Len(q) /\ \A j \in 1 .. Len(r) : j + 1 \in 1 .. Len(q)
  BY <1>1
<1>3. ASSUME Stands(q, o)
      PROVE  Stands(r, o) \/ (q[1].type = "add" /\ o \in q[1].what /\ Silent(r, o))
  <2>1. PICK i \in 1 .. Len(q) :
            q[i].type = "add" /\ o \in q[i].what /\ \A j \in i + 1 .. Len(q) : o \notin q[j].what
    BY <1>3 DEF Stands
  <2>2. CASE i = 1
    <3>1. \A j \in 1 .. Len(r) : j + 1 \in i + 1 .. Len(q)
      BY <1>1, <2>2
    <3>2. Silent(r, o)
      BY <1>1, <2>1, <3>1 DEF Silent
    <3> QED BY <2>1, <2>2, <3>2
  <2>3. CASE i # 1
    <3>1. i - 1 \in 1 .. Len(r) /\ (i - 1) + 1 = i
          /\ \A j \in (i - 1) + 1 .. Len(r) : j \in 1 .. Len(r) /\ j + 1 \in i + 1 .. Len(q)
      BY <1>1, <2>3
    <3>2. r[i - 1] = q[i] /\ \A j \in (i - 1) + 1 .. Len(r) : o \notin r[j].what
      BY <1>1, <2>1, <3>1
    <3> QED BY <2>1, <3>1, <3>2 DEF Stands
  <2> QED BY <2>2, <2>3
<1>4. Silent(q, o) => Silent(r, o) /\ o \notin q[1].what
  BY <1>1, <1>2 DEF Silent
<1>5. ASSUME NEW i \in Nat, Removes(q, i + 1, o) PROVE Removes(r, i, o)
  <2>1. PICK j \in (i + 1) + 1 .. Len(q) : q[j].type = "remove" /\ o \in q[j].what
    BY <1>5 DEF Removes
  <2>2. j - 1 \in i + 1 .. Len(r) /\ j - 1 \in 1 .. Len(r) /\ (j - 1) + 1 = j
    BY <1>1
  <2>3. r[j - 1] = q[j]
    BY <1>1, <2>2
  <2> QED BY <2>1, <2>2, <2>3 DEF Removes
<1>6. ASSUME Removes(q, 0, o) PROVE Removes(r, 0, o) \/ (q[1].type = "remove" /\ o \in q[1].what)
  <2>1. PICK j \in 0 + 1 .. Len(q) : q[j].type = "remove" /\ o \in q[j].what
    BY <1>6 DEF Removes
  <2>2. j = 1 \/ (j - 1 \in 0 + 1 .. Len(r) /\ j - 1 \in 1 .. Len(r) /\ (j - 1) + 1 = j)
    BY <1>1
  <2>3. j # 1 => r[j - 1] = q[j]
    BY <1>1, <2>2
  <2> QED BY <2>1, <2>2, <2>3 DEF Removes
<1> QED BY <1>1, <1>3, <1>4, <1>5, <1>6 DEF r

LEMMA SoundTail ==
    ASSUME NEW q \in Seq(ProxyMessages), q # << >>, NEW o, NEW there, Sound(q, o, there)
    PROVE  /\ Sound(Tail(q), o, there)
           /\ ~ Head(q).old /\ Head(q).type = "add" /\ o \in Head(q).what => there \/ Removes(Tail(q), 0, o)
<1> DEFINE r == Tail(q)
<1>1. Len(q) \in Nat /\ Len(q) >= 1 /\ Len(r) = Len(q) - 1 /\ Head(q) = q[1]
      /\ \A j \in 1 .. Len(r) : r[j] = q[j + 1]
  BY HeadTailProperties, LenProperties, EmptySeq
<1>2. \A i \in Nat : Removes(q, i + 1, o) => Removes(r, i, o)
  BY BackTail
<1> HIDE DEF r
<1>3. Sound(r, o, there)
  <2> SUFFICES ASSUME NEW i \in 1 .. Len(r), ~ r[i].old, r[i].type = "add", o \in r[i].what
               PROVE  there \/ Removes(r, i, o)
    BY DEF Sound
  <2>1. i + 1 \in 1 .. Len(q) /\ i \in Nat /\ r[i] = q[i + 1]
    BY <1>1
  <2> QED BY <1>2, <2>1 DEF Sound
<1>4. 1 \in 1 .. Len(q) /\ (Removes(q, 1, o) => Removes(r, 0, o))
  <2>1. 0 \in Nat /\ 0 + 1 = 1
    OBVIOUS
  <2> QED BY <1>1, <1>2, <2>1
<1>5. ~ q[1].old /\ q[1].type = "add" /\ o \in q[1].what => there \/ Removes(r, 0, o)
  BY <1>4 DEF Sound
<1> QED BY <1>1, <1>3, <1>5 DEF r

LEMMA CreatesAppend ==
    ASSUME NEW q \in Seq(ShardMessages), NEW m \in ShardMessages, NEW o, m.type # "register"
    PROVE  /\ Creates(q, o) => Creates(Append(q, m), o)
           /\ m.type = "create" /\ o \in m.what => Creates(Append(q, m), o)
<1> DEFINE r == Append(q, m)
<1>1. Len(q) \in Nat /\ Len(r) = Len(q) + 1 /\ r[Len(q) + 1] = m /\ \A j \in 1 .. Len(q) : r[j] = q[j]
  BY AppendProperties, LenProperties
<1> HIDE DEF r
<1>2. 1 .. Len(q) \subseteq 1 .. Len(r) /\ Len(q) + 1 \in 1 .. Len(r) /\ (Len(q) + 1) + 1 .. Len(r) = {}
  BY <1>1
<1>3. ASSUME Creates(q, o) PROVE Creates(r, o)
  <2>1. PICK i \in 1 .. Len(q) :
            q[i].type = "create" /\ o \in q[i].what /\ \A j \in i + 1 .. Len(q) : q[j].type # "register"
    BY <1>3 DEF Creates
  <2>2. \A j \in i + 1 .. Len(r) : (j \in i + 1 .. Len(q) /\ j \in 1 .. Len(q)) \/ j = Len(q) + 1
    BY <1>1
  <2>3. \A j \in i + 1 .. Len(r) : r[j].type # "register"
    BY <1>1, <2>1, <2>2
  <2> QED BY <1>1, <1>2, <2>1, <2>3 DEF Creates
<1>4. ASSUME m.type = "create", o \in m.what PROVE Creates(r, o)
  BY <1>1, <1>2, <1>4 DEF Creates
<1> QED BY <1>3, <1>4 DEF r

LEMMA CreatesTail ==
    ASSUME NEW q \in Seq(ShardMessages), q # << >>, NEW o, Creates(q, o)
    PROVE  \/ Creates(Tail(q), o)
           \/ Head(q).type = "create" /\ o \in Head(q).what /\ ~ Has(q, "register")
<1> DEFINE r == Tail(q)
<1>1. Len(q) \in Nat /\ Len(q) >= 1 /\ Len(r) = Len(q) - 1 /\ Head(q) = q[1]
      /\ \A j \in 1 .. Len(r) : r[j] = q[j + 1]
  BY HeadTailProperties, LenProperties, EmptySeq
<1> HIDE DEF r
<1>2. PICK i \in 1 .. Len(q) :
          q[i].type = "create" /\ o \in q[i].what /\ \A j \in i + 1 .. Len(q) : q[j].type # "register"
  BY DEF Creates
<1>3. CASE i = 1
  <2>1. \A j \in 1 .. Len(q) : j = 1 \/ j \in i + 1 .. Len(q)
    BY <1>1, <1>3
  <2>2. ~ Has(q, "register")
    BY <1>2, <1>3, <2>1 DEF Has
  <2> QED BY <1>1, <1>2, <1>3, <2>2
<1>4. CASE i # 1
  <2>1. i - 1 \in 1 .. Len(r) /\ (i - 1) + 1 = i
        /\ \A j \in (i - 1) + 1 .. Len(r) : j \in 1 .. Len(r) /\ j + 1 \in i + 1 .. Len(q)
    BY <1>1, <1>4
  <2>2. r[i - 1] = q[i] /\ \A j \in (i - 1) + 1 .. Len(r) : r[j].type # "register"
    BY <1>1, <1>2, <2>1
  <2>3. Creates(r, o)
    BY <1>2, <2>1, <2>2 DEF Creates
  <2> QED BY <2>3 DEF r
<1> QED BY <1>3, <1>4

\* Losing its sender changes nothing in what a message asks for.
LEMMA CreatesStrays ==
    ASSUME NEW q \in Seq(ShardMessages), NEW n, NEW o, Creates(q, o)
    PROVE  Creates(Strays(q, n), o)
<1> DEFINE r == Strays(q, n)
<1>1. /\ Len(q) \in Nat /\ Len(r) = Len(q)
      /\ \A i \in 1 .. Len(q) : r[i].type = q[i].type /\ r[i].what = q[i].what
  BY StraysProperties, LenProperties
<1> HIDE DEF r
<1>2. PICK i \in 1 .. Len(q) :
          q[i].type = "create" /\ o \in q[i].what /\ \A j \in i + 1 .. Len(q) : q[j].type # "register"
  BY DEF Creates
<1>3. \A j \in i + 1 .. Len(r) : j \in 1 .. Len(q) /\ j \in i + 1 .. Len(q)
  BY <1>1
<1>4. \A j \in i + 1 .. Len(r) : r[j].type # "register"
  BY <1>1, <1>2, <1>3
<1>5. Creates(r, o)
  BY <1>1, <1>2, <1>4 DEF Creates
<1> QED BY <1>5 DEF r

-----------------------------------------------------------------------------
(* The steps that make and unmake routes. *)

RouteSame(x, o) == dynamic'[x][o] = dynamic[x][o] /\ (o \in ghosts'[x] <=> o \in ghosts[x])
Announces(s, x, o) == HandleAddObject(x, s) /\ o \in Head(toProxy[s][x]).what
TakesBack(s, x, o) == HandleRemoveObject(x, s) /\ o \in Head(toProxy[s][x]).what
Opens(s, y, o) == HandleCreateRoomToShard(s, y) /\ o \in Head(toShard[y][s]).what

LEMMA RouteMade ==
    ASSUME TypeOK, NEW x \in Proxies, NEW o \in Objects, HandleCreateRoom(x, o)
    PROVE  /\ dynamic'[x][o] = Goal(x, o)
           /\ dynamic[x][o] # None => dynamic[x][o] = Goal(x, o)
           /\ o \in ghosts'[x] <=> o \in ghosts[x] \/ Goal(x, o) \notin conn[x]
           /\ UNCHANGED << conn, alive, hosted, toProxy >>
           /\ Goal(x, o) \in conn[x] => Creates(toShard'[x][Goal(x, o)], o)
<1>1. PICK s \in Shards : s = Goal(x, o)
  BY CreateTypes
<1>2. /\ dynamic' = [dynamic EXCEPT ![x][o] = s]
      /\ ghosts' = [ghosts EXCEPT ![x] = IF s \in conn[x] THEN @ ELSE @ \cup {o}]
      /\ UNCHANGED << conn, alive, hosted, toProxy >>
  BY <1>1 DEF HandleCreateRoom, Goal, shardVars
<1>3. dynamic'[x][o] = s /\ (o \in ghosts'[x] <=> o \in ghosts[x] \/ s \notin conn[x])
  BY <1>2 DEF TypeOK
<1>4. s \in conn[x] => Creates(toShard'[x][s], o)
  <2> DEFINE m == ToShard("create", {o})
  <2>1. m \in ShardMessages /\ Deliver(x, s, m) /\ m.type = "create" /\ o \in m.what
    BY <1>1, CreateTypes DEF ToShard
  <2> HIDE DEF m
  <2>2. s \in conn[x] => toShard'[x][s] = Append(toShard[x][s], m)
    BY <2>1, Delivered
  <2>3. toShard[x][s] \in Seq(ShardMessages)
    BY Pair
  <2>4. Creates(Append(toShard[x][s], m), o)
    BY <2>1, <2>3, CreatesAppend
  <2> QED BY <2>2, <2>4
<1>5. dynamic[x][o] # None => dynamic[x][o] = s
  BY <1>1 DEF Goal
<1> QED BY <1>1, <1>2, <1>3, <1>4, <1>5

LEMMA RouteForgotten ==
    ASSUME TypeOK, NEW x \in Proxies, NEW o \in Objects, NEW s \in Shards, OnClientLostClusterShard(x, s)
    PROVE  /\ dynamic'[x][o] = IF dynamic[x][o] = s THEN None ELSE dynamic[x][o]
           /\ o \in ghosts'[x] <=> o \in ghosts[x] /\ dynamic[x][o] # s
           /\ \A t \in Shards : t \in conn'[x] <=> t \in conn[x] /\ t # s
           /\ UNCHANGED << alive, hosted >>
<1>1. /\ dynamic' = [dynamic EXCEPT ![x] = Forget(@, s)]
      /\ ghosts' = [ghosts EXCEPT ![x] = {p \in @ : dynamic[x][p] # s}]
      /\ conn' = [conn EXCEPT ![x] = @ \ {s}]
      /\ UNCHANGED << alive, hosted >>
  BY DEF OnClientLostClusterShard, shardVars
<1>2. dynamic'[x] = Forget(dynamic[x], s)
  BY <1>1 DEF TypeOK
<1>3. dynamic'[x][o] = IF dynamic[x][o] = s THEN None ELSE dynamic[x][o]
  BY <1>2 DEF Forget
<1> QED BY <1>1, <1>3 DEF TypeOK

LEMMA RouteAnnounced ==
    ASSUME TypeOK, NEW x \in Proxies, NEW o \in Objects, NEW s \in Shards, Announces(s, x, o)
    PROVE  /\ dynamic'[x][o] = s
           /\ o \in ghosts'[x] <=> Head(toProxy[s][x]).old
           /\ toProxy[s][x] # << >> /\ Head(toProxy[s][x]).type = "add"
           /\ Head(toProxy[s][x]) \in ProxyMessages
           /\ toProxy'[s][x] = Tail(toProxy[s][x])
           /\ UNCHANGED << conn, alive, hosted, toShard >>
<1> DEFINE m == Head(toProxy[s][x])
<1>1. /\ ProxyGets(s, x, "add") /\ ProxyTook(s, x) /\ o \in m.what
      /\ dynamic' = [dynamic EXCEPT ![x] = [p \in Objects |-> IF p \in m.what THEN s ELSE @[p]]]
      /\ ghosts' = [ghosts EXCEPT ![x] = IF m.old THEN @ \cup m.what ELSE @ \ m.what]
      /\ UNCHANGED << conn, alive, hosted, toShard >>
  BY DEF Announces, HandleAddObject, shardVars
<1>2. /\ toProxy[s][x] # << >> /\ m.type = "add" /\ m \in ProxyMessages
      /\ toProxy'[s][x] = Tail(toProxy[s][x])
  BY <1>1, TookAtProxy
<1> HIDE DEF m
<1>3. dynamic'[x][o] = s
  BY <1>1 DEF TypeOK
<1>4. o \in ghosts'[x] <=> m.old
  BY <1>1 DEF TypeOK
<1> QED BY <1>1, <1>2, <1>3, <1>4 DEF m

LEMMA RouteTakenBack ==
    ASSUME TypeOK, NEW x \in Proxies, NEW o \in Objects, NEW s \in Shards, TakesBack(s, x, o)
    PROVE  /\ dynamic'[x][o] = None
           /\ toProxy[s][x] # << >> /\ toProxy'[s][x] = Tail(toProxy[s][x])
<1> DEFINE m == Head(toProxy[s][x])
<1>1. /\ ProxyGets(s, x, "remove") /\ ProxyTook(s, x) /\ o \in m.what
      /\ dynamic' = [dynamic EXCEPT ![x] = [p \in Objects |-> IF p \in m.what THEN None ELSE @[p]]]
  BY DEF TakesBack, HandleRemoveObject
<1>2. toProxy[s][x] # << >> /\ toProxy'[s][x] = Tail(toProxy[s][x])
  BY <1>1, TookAtProxy
<1> HIDE DEF m
<1>3. dynamic'[x][o] = None
  BY <1>1 DEF TypeOK
<1> QED BY <1>2, <1>3

LEMMA RouteSteps ==
    ASSUME TypeOK, Next, NEW x \in Proxies, NEW o \in Objects
    PROVE  \/ RouteSame(x, o)
           \/ HandleCreateRoom(x, o)
           \/ \E s \in Shards : OnClientLostClusterShard(x, s) \/ Announces(s, x, o) \/ TakesBack(s, x, o)
<1>1. ASSUME NEW c \in Clients, ClientLost(c) \/ \E y \in Proxies : ClientDiscover(c, y)
      PROVE  RouteSame(x, o)
  BY <1>1 DEF ClientLost, ClientDiscover, history, RouteSame
<1>2. ASSUME NEW y \in Proxies, NEW p \in Objects, HandleCreateRoom(y, p), y # x \/ p # o
      PROVE  RouteSame(x, o)
  <2>1. PICK s \in Shards : s = Goal(y, p)
    BY <1>2, CreateTypes
  <2>2. /\ dynamic' = [dynamic EXCEPT ![y][p] = s]
        /\ ghosts' = [ghosts EXCEPT ![y] = IF s \in conn[y] THEN @ ELSE @ \cup {p}]
    BY <1>2, <2>1 DEF HandleCreateRoom, Goal
  <2> QED BY <1>2, <2>2 DEF TypeOK, RouteSame
<1>3. ASSUME NEW y \in Proxies, NEW t \in Shards, Connect(y, t) \/ OnClientConnectionClusterShard(y, t)
      PROVE  RouteSame(x, o)
  BY <1>3 DEF Connect, OnClientConnectionClusterShard, history, RouteSame
<1>4. ASSUME NEW y \in Proxies, NEW t \in Shards, OnClientLostClusterShard(y, t), y # x
      PROVE  RouteSame(x, o)
  BY <1>4 DEF OnClientLostClusterShard, RouteSame, TypeOK
<1>5. ASSUME NEW y \in Proxies, NEW t \in Shards, HandleAddObject(y, t), ~ (y = x /\ Announces(t, x, o))
      PROVE  RouteSame(x, o)
  <2> DEFINE m == Head(toProxy[t][y])
  <2>1. /\ dynamic' = [dynamic EXCEPT ![y] = [p \in Objects |-> IF p \in m.what THEN t ELSE @[p]]]
        /\ ghosts' = [ghosts EXCEPT ![y] = IF m.old THEN @ \cup m.what ELSE @ \ m.what]
        /\ y # x \/ o \notin m.what
    BY <1>5 DEF HandleAddObject, Announces
  <2> HIDE DEF m
  <2> QED BY <2>1 DEF TypeOK, RouteSame
<1>6. ASSUME NEW y \in Proxies, NEW t \in Shards, HandleRemoveObject(y, t), ~ (y = x /\ TakesBack(t, x, o))
      PROVE  RouteSame(x, o)
  <2> DEFINE m == Head(toProxy[t][y])
  <2>1. /\ dynamic' = [dynamic EXCEPT ![y] = [p \in Objects |-> IF p \in m.what THEN None ELSE @[p]]]
        /\ ghosts' = [ghosts EXCEPT ![y] = @ \ m.what]
        /\ y # x \/ o \notin m.what
    BY <1>6 DEF HandleRemoveObject, TakesBack
  <2> HIDE DEF m
  <2> QED BY <2>1 DEF TypeOK, RouteSame
<1>7. ASSUME NEW y \in Proxies, NEW t \in Shards, HandleRegister(t, y) \/ OnServerLostHandle(t, y)
                 \/ HandleClusterClientDiscoverReq(t, y) \/ HandleClusterClientLostReq(t, y)
                 \/ HandleCreateRoomToShard(t, y)
      PROVE  RouteSame(x, o)
  BY <1>7 DEF HandleRegister, OnServerLostHandle, HandleClusterClientDiscoverReq,
     HandleClusterClientLostReq, HandleCreateRoomToShard, proxyVars, history, RouteSame
<1>8. ASSUME NEW t \in Shards, (\E p \in Objects : RemoveBattleRoom(t, p)) \/ Crash(t) \/ Start(t)
      PROVE  RouteSame(x, o)
  BY <1>8 DEF RemoveBattleRoom, Crash, Start, proxyVars, history, RouteSame
<1> QED BY <1>1, <1>2, <1>3, <1>4, <1>5, <1>6, <1>7, <1>8 DEF Next

LEMMA HostSteps ==
    ASSUME TypeOK, Next, NEW s \in Shards, NEW o \in Objects
    PROVE  /\ twice \subseteq twice'
           /\ o \in hosted[s] => o \in hosted'[s] \/ RemoveBattleRoom(s, o) \/ Crash(s)
           /\ o \in hosted'[s] => o \in hosted[s] \/ \E y \in Proxies : Opens(s, y, o)
<1> DEFINE Fits == /\ twice \subseteq twice'
                   /\ o \in hosted[s] => o \in hosted'[s] \/ RemoveBattleRoom(s, o) \/ Crash(s)
                   /\ o \in hosted'[s] => o \in hosted[s] \/ \E y \in Proxies : Opens(s, y, o)
<1>1. ASSUME UNCHANGED << hosted, twice >> PROVE Fits
  BY <1>1
<1>2. ASSUME NEW y \in Proxies, NEW t \in Shards, HandleCreateRoomToShard(t, y) PROVE Fits
  <2> DEFINE m == Head(toShard[y][t])
  <2>1. /\ hosted' = [hosted EXCEPT ![t] = @ \cup m.what] /\ twice \subseteq twice'
        /\ s = t /\ o \in m.what => Opens(s, y, o)
    BY <1>2 DEF HandleCreateRoomToShard, Opens
  <2> HIDE DEF m
  <2> QED BY <2>1 DEF TypeOK
<1>3. ASSUME NEW t \in Shards, NEW p \in Objects, RemoveBattleRoom(t, p) PROVE Fits
  BY <1>3 DEF RemoveBattleRoom, history, TypeOK
<1>4. ASSUME NEW t \in Shards, Crash(t) PROVE Fits
  BY <1>4 DEF Crash, TypeOK
<1>5. ASSUME NEW c \in Clients, ClientLost(c) \/ \E y \in Proxies : ClientDiscover(c, y)
      PROVE  UNCHANGED << hosted, twice >>
  BY <1>5 DEF ClientLost, ClientDiscover, history, shardVars
<1>6. ASSUME NEW y \in Proxies, NEW p \in Objects, HandleCreateRoom(y, p) PROVE UNCHANGED << hosted, twice >>
  BY <1>6 DEF HandleCreateRoom, shardVars
<1>7. ASSUME NEW y \in Proxies, NEW t \in Shards, Connect(y, t) \/ OnClientConnectionClusterShard(y, t)
                 \/ OnClientLostClusterShard(y, t) \/ HandleAddObject(y, t) \/ HandleRemoveObject(y, t)
      PROVE  UNCHANGED << hosted, twice >>
  BY <1>7 DEF Connect, OnClientConnectionClusterShard, OnClientLostClusterShard, HandleAddObject,
     HandleRemoveObject, shardVars, history
<1>8. ASSUME NEW y \in Proxies, NEW t \in Shards, HandleRegister(t, y) \/ OnServerLostHandle(t, y)
                 \/ HandleClusterClientDiscoverReq(t, y) \/ HandleClusterClientLostReq(t, y)
      PROVE  UNCHANGED << hosted, twice >>
  BY <1>8 DEF HandleRegister, OnServerLostHandle, HandleClusterClientDiscoverReq,
     HandleClusterClientLostReq, history
<1>9. ASSUME NEW t \in Shards, Start(t) PROVE UNCHANGED << hosted, twice >>
  BY <1>9 DEF Start, history
<1> QED BY <1>1, <1>2, <1>3, <1>4, <1>5, <1>6, <1>7, <1>8, <1>9 DEF Next

-----------------------------------------------------------------------------
(* Who has a room, or is saying something of it, is one shard. *)

Says(s, o) ==
    \/ o \in hosted[s]
    \/ \E x \in Proxies : ~ Silent(toProxy[s][x], o)

Single == \A o \in Objects \ twice, s \in Shards, t \in Shards : Says(s, o) /\ Says(t, o) => s = t

LEMMA AboutSays ==
    ASSUME TypeOK, NEW s \in Shards, NEW o
    PROVE  About(o, s) <=> \E t \in Shards \ {s} : Says(t, o)
<1>1. \A t \in Shards, x \in Proxies : DOMAIN toProxy[t][x] = 1 .. Len(toProxy[t][x])
  BY Pair, LenProperties
<1> QED BY <1>1 DEF About, Says, Silent

\* A shard begins to speak of a room by creating it.
LEMMA SaysSteps ==
    ASSUME LineInv, LineInv', Next, NEW s \in Shards, NEW o \in Objects, Says(s, o)'
    PROVE  Says(s, o) \/ \E y \in Proxies : Opens(s, y, o)
<1>0. TypeOK
  BY DEF LineInv
<1>1. CASE o \in hosted'[s]
  BY <1>0, <1>1, HostSteps DEF Says
<1>2. CASE \E x \in Proxies : ~ Silent(toProxy'[s][x], o)
  <2>1. PICK x \in Proxies : ~ Silent(toProxy'[s][x], o)
    BY <1>2
  <2> DEFINE P == toProxy[s][x]
  <2>2. P \in Seq(ProxyMessages) /\ BackMoves(x, s)
    BY <1>0, Pair, NextBack
  <2>3. ASSUME ~ Silent(P, o) PROVE Says(s, o)
    BY <2>3 DEF Says
  <2>4. CASE BackKept(x, s)
    BY <2>1, <2>3, <2>4 DEF BackKept
  <2>5. CASE BackTaken(x, s)
    <3>1. P # << >> /\ toProxy'[s][x] = Tail(P)
      BY <2>5 DEF BackTaken
    <3>2. Silent(P, o) => Silent(Tail(P), o)
      BY <2>2, <3>1, BackTail
    <3> QED BY <2>1, <2>3, <3>1, <3>2
  <2>6. CASE BackAged(x, s)
    <3>1. PICK n \in 0 .. Len(P) : toProxy'[s][x] = Aged(P, n)
      BY <2>6 DEF BackAged
    <3>2. Len(P) \in Nat /\ Len(Aged(P, n)) = n /\ \A i \in 1 .. n : Aged(P, n)[i].what = P[i].what
      BY <2>2, AgedProperties, LenProperties
    <3>3. Silent(P, o) => Silent(Aged(P, n), o)
      BY <3>2 DEF Silent
    <3> QED BY <2>1, <2>3, <3>1, <3>3
  <2>7. CASE BackGrown(x, s)
    <3>1. PICK m \in ProxyMessages :
              /\ \/ m.type = "add" /\ \E y \in Proxies : HandleCreateRoomToShard(s, y) /\ m.what = Head(toShard[y][s]).what
                 \/ m.type = "remove" /\ \E p \in Objects : RemoveBattleRoom(s, p) /\ m.what = {p}
              /\ toProxy'[s][x] = Append(P, m)
      BY <2>7 DEF BackGrown
    <3>2. Silent(Append(P, m), o) <=> Silent(P, o) /\ o \notin m.what
      BY <2>2, BackAppend
    <3>3. o \in m.what => Says(s, o) \/ \E y \in Proxies : Opens(s, y, o)
      BY <3>1 DEF Opens, Says, RemoveBattleRoom
    <3> QED BY <2>1, <2>3, <3>1, <3>2, <3>3
  <2>8. CASE BackAnswered(x, s)
    <3> DEFINE ack == ToProxy("ack", {})
               add == ToProxy("add", hosted[s])
    <3>1. /\ toProxy'[s][x] = Append(Append(P, ack), add)
          /\ ack \in ProxyMessages /\ ack.what = {} /\ add \in ProxyMessages /\ add.what = hosted[s]
      BY <1>0, <2>8, Sent DEF BackAnswered, Answered, ToProxy, TypeOK
    <3> HIDE DEF ack, add, P
    <3>2. PICK r \in Seq(ProxyMessages) : r = Append(P, ack)
      BY <2>2, <3>1, AppendProperties
    <3>3. Silent(r, o) <=> Silent(P, o) /\ o \notin ack.what
      BY <2>2, <3>1, <3>2, BackAppend
    <3>4. Silent(Append(r, add), o) <=> Silent(r, o) /\ o \notin add.what
      BY <3>1, <3>2, BackAppend
    <3>5. ~ Silent(P, o) \/ o \in hosted[s]
      BY <2>1, <3>1, <3>2, <3>3, <3>4
    <3> QED BY <2>3, <3>5 DEF Says
  <2> QED BY <2>2, <2>4, <2>5, <2>6, <2>7, <2>8 DEF BackMoves
<1>3. Says(s, o)' <=> o \in hosted'[s] \/ \E x \in Proxies : ~ Silent(toProxy'[s][x], o)
  BY DEF Says, Silent
<1> QED BY <1>1, <1>2, <1>3

\* A room created where another shard speaks of it is noted.
LEMMA OpensAlone ==
    ASSUME TypeOK, NEW s \in Shards, NEW y \in Proxies, NEW o \in Objects, Opens(s, y, o)
    PROVE  /\ o \notin twice' => \A t \in Shards : Says(t, o) => t = s
           /\ o \in hosted'[s] /\ \A t \in Shards : t # s => hosted'[t] = hosted[t]
<1> DEFINE m == Head(toShard[y][s])
<1>1. /\ hosted' = [hosted EXCEPT ![s] = @ \cup m.what] /\ o \in m.what
      /\ twice' = twice \cup {p \in m.what : About(p, s)}
  BY DEF Opens, HandleCreateRoomToShard
<1> HIDE DEF m
<1>2. o \notin twice' => \A t \in Shards : Says(t, o) => t = s
  BY <1>1, AboutSays
<1>3. o \in hosted'[s] /\ \A t \in Shards : t # s => hosted'[t] = hosted[t]
  BY <1>1 DEF TypeOK
<1> QED BY <1>2, <1>3

LEMMA NextSingle == LineInv /\ LineInv' /\ Single /\ [Next]_vars => Single'
<1> SUFFICES ASSUME LineInv, LineInv', Single, [Next]_vars, NEW o \in Objects \ twice',
                    NEW s \in Shards, NEW t \in Shards, Says(s, o)', Says(t, o)'
             PROVE  s = t
  BY DEF Single
<1>0. TypeOK
  BY DEF LineInv
<1>1. CASE UNCHANGED vars
  BY <1>1 DEF vars, shardVars, history, Single, Says, Silent
<1>2. CASE Next
  <2>1. o \in Objects \ twice
    BY <1>0, <1>2, HostSteps
  <2>2. /\ Says(s, o) \/ \E y \in Proxies : Opens(s, y, o)
        /\ Says(t, o) \/ \E y \in Proxies : Opens(t, y, o)
    BY <1>2, SaysSteps
  <2>3. CASE Says(s, o) /\ Says(t, o)
    BY <2>1, <2>3 DEF Single
  <2>4. CASE ~ Says(s, o)
    <3>1. PICK y \in Proxies : Opens(s, y, o)
      BY <2>2, <2>4
    <3>2. CASE Says(t, o)
      BY <1>0, <3>1, <3>2, OpensAlone
    <3>3. CASE ~ Says(t, o)
      <4>1. PICK z \in Proxies : Opens(t, z, o)
        BY <2>2, <3>3
      <4>2. o \in hosted'[t] /\ o \notin hosted[t] /\ (t # s => hosted'[t] = hosted[t])
        BY <1>0, <3>1, <3>3, <4>1, OpensAlone DEF Says
      <4> QED BY <4>2
    <3> QED BY <3>2, <3>3
  <2>5. CASE ~ Says(t, o)
    <3>1. PICK y \in Proxies : Opens(t, y, o)
      BY <2>2, <2>5
    <3>2. CASE Says(s, o)
      BY <1>0, <3>1, <3>2, OpensAlone
    <3> QED BY <2>4, <3>2
  <2> QED BY <2>3, <2>4, <2>5
<1> QED BY <1>1, <1>2

-----------------------------------------------------------------------------
(* The routes of a proxy. *)

\* A room of a shard that is linked is routed there or about to be.
Routed(x, s, o) == alive[s] /\ Linked(x, s) /\ o \in hosted[s] /\ o \notin twice =>
    Stands(toProxy[s][x], o) \/ (Silent(toProxy[s][x], o) /\ dynamic[x][o] = s)
\* A route without a connection is a ghost.
Haunted(x, s, o) == s \notin conn[x] /\ dynamic[x][o] = s => o \in ghosts[x]
\* Any other leads to a shard that has the room, will create it or has taken it back.
Served(x, s, o) == alive[s] /\ s \in conn[x] /\ dynamic[x][o] = s /\ o \notin ghosts[x] =>
    \/ Creates(toShard[x][s], o)
    \/ Linked(x, s) /\ (o \in hosted[s] \/ Removes(toProxy[s][x], 0, o))
Honest(x, s, o) == alive[s] => Sound(toProxy[s][x], o, o \in hosted[s])

Routings == \A x \in Proxies, s \in Shards, o \in Objects :
    Routed(x, s, o) /\ Haunted(x, s, o) /\ Served(x, s, o) /\ Honest(x, s, o)
RouteInv == LineInv /\ Old /\ Single /\ Routings

LEMMA RouteFacts ==
    ASSUME RouteInv, NEW x \in Proxies, NEW s \in Shards, NEW o \in Objects
    PROVE  /\ Routed(x, s, o) /\ Haunted(x, s, o) /\ Served(x, s, o) /\ Honest(x, s, o)
           /\ toProxy[s][x] \in Seq(ProxyMessages) /\ toShard[x][s] \in Seq(ShardMessages)
           /\ TypeOK /\ LineInv
<1>1. TypeOK /\ LineInv
  BY DEF RouteInv, LineInv
<1> QED BY <1>1, Pair DEF RouteInv, Routings

LEMMA LinkLasts ==
    ASSUME LineInv, Next, NEW x \in Proxies, NEW s \in Shards
    PROVE  OnClientLostClusterShard(x, s) => s \notin conn'[x] /\ ~ Linked(x, s)'
<1>1. OnClientLostClusterShard(x, s) => s \notin conn'[x]
  BY DEF OnClientLostClusterShard, LineInv, TypeOK
<1> QED BY <1>1 DEF Linked

\* Where the proxy is linked, what opens or ends a room is said to it.
LEMMA OpensSaid ==
    ASSUME LineInv, NEW s \in Shards, NEW y \in Proxies, NEW o \in Objects, Opens(s, y, o),
           NEW x \in Proxies, Linked(x, s)
    PROVE  \E m \in ProxyMessages : m.type = "add" /\ o \in m.what /\ toProxy'[s][x] = Append(toProxy[s][x], m)
<1> DEFINE m == ToProxy("add", Head(toShard[y][s]).what)
<1>1. m \in ProxyMessages /\ m.type = "add" /\ o \in m.what
  BY RoomTypes DEF LineInv, Opens, ToProxy
<1>2. toProxy'[s][x] = Append(toProxy[s][x], m)
  BY RoomGrows DEF Opens
<1> QED BY <1>1, <1>2

LEMMA EndSaid ==
    ASSUME LineInv, NEW s \in Shards, NEW o \in Objects, RemoveBattleRoom(s, o),
           NEW x \in Proxies, Linked(x, s)
    PROVE  \E m \in ProxyMessages : m.type = "remove" /\ o \in m.what /\ toProxy'[s][x] = Append(toProxy[s][x], m)
<1> DEFINE m == ToProxy("remove", {o})
<1>1. m \in ProxyMessages /\ m.type = "remove" /\ o \in m.what
  BY RoomEndTypes DEF LineInv, ToProxy
<1>2. toProxy'[s][x] = Append(toProxy[s][x], m)
  BY RoomEndGrows
<1> QED BY <1>1, <1>2

\* An announcement that is not from before a loss comes over the connection there is.
LEMMA NewIsLinked ==
    ASSUME RouteInv, NEW x \in Proxies, NEW s \in Shards, toProxy[s][x] # << >>, ~ Head(toProxy[s][x]).old
    PROVE  Linked(x, s)
<1> SUFFICES ASSUME ~ Linked(x, s) PROVE FALSE
  OBVIOUS
<1>1. AllOld(toProxy[s][x])
  BY DEF RouteInv, Old
<1>2. toProxy[s][x] \in Seq(ProxyMessages)
  BY Pair DEF RouteInv, LineInv
<1> QED BY <1>1, <1>2, OldTail

LEMMA NextHonest ==
    ASSUME RouteInv, LineInv', Next, NEW x \in Proxies, NEW s \in Shards, NEW o \in Objects, alive'[s]
    PROVE  Sound(toProxy'[s][x], o, o \in hosted'[s])
<1> DEFINE P == toProxy[s][x]
           there == o \in hosted[s]
           now == o \in hosted'[s]
<1>0. TypeOK /\ LineInv /\ P \in Seq(ProxyMessages)
  BY RouteFacts
<1>1. ASSUME AllOld(P) PROVE \A h : Sound(P, o, h)
  BY <1>1 DEF Sound, AllOld
<1>2. there => now \/ RemoveBattleRoom(s, o)
  <2>1. ~ Crash(s)
    BY <1>0 DEF Crash, TypeOK
  <2> QED BY <1>0, <2>1, HostSteps
<1>3. ASSUME NEW h, Sound(P, o, h), h => now PROVE Sound(P, o, now)
  <2> HIDE DEF P, now
  <2> QED BY <1>3 DEF Sound
<1>4. CASE Linked(x, s) /\ RemoveBattleRoom(s, o)
  <2>1. PICK m \in ProxyMessages : m.type = "remove" /\ o \in m.what /\ toProxy'[s][x] = Append(P, m)
    BY <1>0, <1>4, EndSaid
  <2>2. Sound(Append(P, m), o, now)
    <3> HIDE DEF P, now
    <3> QED BY <1>0, <2>1, SoundAppend
  <2> QED BY <2>1, <2>2
<1>5. CASE ~ (Linked(x, s) /\ RemoveBattleRoom(s, o))
  <2>1. Sound(P, o, now)
    <3>1. CASE ~ Linked(x, s)
      <4>1. AllOld(P)
        BY <3>1 DEF RouteInv, Old
      <4> QED BY <1>1, <4>1
    <3>2. CASE Linked(x, s) /\ alive[s]
      <4>1. Sound(P, o, there)
        BY <3>2, RouteFacts DEF Honest
      <4>2. there => now
        BY <1>2, <1>5, <3>2
      <4> HIDE DEF P, there, now
      <4> QED BY <1>3, <4>1, <4>2
    <3>3. ~ alive[s] => ~ Linked(x, s)
      <4>1. ~ alive[s] => Start(s)
        BY <1>0, AliveSteps
      <4> QED BY <4>1 DEF Start, Linked
    <3> QED BY <3>1, <3>2, <3>3
  <2>2. BackMoves(x, s)
    BY <1>0, NextBack
  <2>3. CASE BackKept(x, s)
    BY <2>1, <2>3 DEF BackKept
  <2>4. CASE BackTaken(x, s)
    <3>1. P # << >> /\ toProxy'[s][x] = Tail(P)
      BY <2>4 DEF BackTaken
    <3>2. Sound(Tail(P), o, now)
      <4> HIDE DEF P, now
      <4> QED BY <1>0, <2>1, <3>1, SoundTail
    <3> QED BY <3>1, <3>2
  <2>5. CASE BackAged(x, s)
    <3>1. PICK n \in 0 .. Len(P) : toProxy'[s][x] = Aged(P, n)
      BY <2>5 DEF BackAged
    <3>2. Sound(Aged(P, n), o, now)
      <4> HIDE DEF P, now
      <4> QED BY <1>0, AgedProperties DEF Sound
    <3> QED BY <3>1, <3>2
  <2>6. CASE BackGrown(x, s)
    <3>1. PICK m \in ProxyMessages :
              /\ m.type = "add" => \E y \in Proxies : HandleCreateRoomToShard(s, y) /\ m.what = Head(toShard[y][s]).what
              /\ toProxy'[s][x] = Append(P, m)
      BY <2>6 DEF BackGrown
    <3>2. m.type = "add" /\ o \in m.what => now
      <4> SUFFICES ASSUME m.type = "add", o \in m.what PROVE now
        OBVIOUS
      <4>1. PICK y \in Proxies : Opens(s, y, o)
        BY <3>1 DEF Opens
      <4> QED BY <1>0, <4>1, OpensAlone
    <3>3. Sound(Append(P, m), o, now)
      <4> HIDE DEF P, now
      <4> QED BY <1>0, <2>1, <3>2, SoundAppend
    <3> QED BY <3>1, <3>3
  <2>7. CASE BackAnswered(x, s)
    <3> DEFINE ack == ToProxy("ack", {})
               add == ToProxy("add", hosted[s])
    <3>1. /\ toProxy'[s][x] = Append(Append(P, ack), add)
          /\ ack \in ProxyMessages /\ ack.type = "ack" /\ add \in ProxyMessages /\ (o \in add.what => now)
      BY <1>0, <2>7, Sent DEF BackAnswered, Answered, ToProxy, TypeOK, HandleRegister
    <3> HIDE DEF ack, add, P, now
    <3>2. PICK r \in Seq(ProxyMessages) : r = Append(P, ack)
      BY <1>0, <3>1, AppendProperties
    <3>3. Sound(r, o, now)
      BY <1>0, <2>1, <3>1, <3>2, SoundAppend
    <3>4. Sound(Append(r, add), o, now)
      BY <3>1, <3>2, <3>3, SoundAppend
    <3> QED BY <3>1, <3>2, <3>4 DEF now
  <2> QED BY <2>2, <2>3, <2>4, <2>5, <2>6, <2>7 DEF BackMoves
<1> QED BY <1>4, <1>5

LEMMA NextHaunted ==
    ASSUME RouteInv, Next, NEW x \in Proxies, NEW s \in Shards, NEW o \in Objects,
           s \notin conn'[x], dynamic'[x][o] = s
    PROVE  o \in ghosts'[x]
<1>0. TypeOK /\ LineInv /\ (s \notin conn[x] /\ dynamic[x][o] = s => o \in ghosts[x]) /\ s # None
  BY RouteFacts, RoutesAssumption DEF Haunted
<1>1. ~ OnClientLostClusterShard(x, s)
  BY <1>0, RouteForgotten
<1>2. s \notin conn[x]
  BY <1>0, <1>1, ConnSteps
<1>3. CASE RouteSame(x, o)
  BY <1>0, <1>2, <1>3 DEF RouteSame
<1>4. CASE HandleCreateRoom(x, o)
  BY <1>0, <1>2, <1>4, RouteMade
<1>5. ASSUME NEW t \in Shards, OnClientLostClusterShard(x, t) PROVE o \in ghosts'[x]
  BY <1>0, <1>1, <1>2, <1>5, RouteForgotten
<1>6. ASSUME NEW t \in Shards, Announces(t, x, o) PROVE o \in ghosts'[x]
  <2>1. t = s /\ toProxy[s][x] # << >> /\ (o \in ghosts'[x] <=> Head(toProxy[s][x]).old)
    BY <1>0, <1>6, RouteAnnounced
  <2>2. ~ Linked(x, s)
    BY <1>2 DEF Linked
  <2> QED BY <2>1, <2>2, NewIsLinked
<1>7. ASSUME NEW t \in Shards, TakesBack(t, x, o) PROVE FALSE
  BY <1>0, <1>7, RouteTakenBack
<1> QED BY <1>0, <1>3, <1>4, <1>5, <1>6, <1>7, RouteSteps

\* A route that an announcement makes.
LEMMA AnnouncedServed ==
    ASSUME RouteInv, NEW x \in Proxies, NEW s \in Shards, NEW o \in Objects, Announces(s, x, o),
           o \notin ghosts'[x], alive[s]
    PROVE  Linked(x, s)' /\ (o \in hosted'[s] \/ Removes(toProxy'[s][x], 0, o))
<1> DEFINE P == toProxy[s][x]
           there == o \in hosted[s]
<1>0. TypeOK /\ P \in Seq(ProxyMessages) /\ Sound(P, o, there)
  BY RouteFacts DEF Honest
<1>1. /\ ~ Head(P).old /\ P # << >> /\ Head(P).type = "add" /\ o \in Head(P).what
      /\ toProxy'[s][x] = Tail(P)
      /\ UNCHANGED << conn, hosted, toShard >>
  BY <1>0, RouteAnnounced DEF Announces
<1>2. Linked(x, s)
  BY <1>1, NewIsLinked
<1>3. Linked(x, s)'
  BY <1>1, <1>2 DEF Linked, Has
<1>4. there \/ Removes(Tail(P), 0, o)
  <2> HIDE DEF P, there
  <2> QED BY <1>0, <1>1, SoundTail
<1> QED BY <1>1, <1>3, <1>4

\* A route that was there.
LEMMA KeptServed ==
    ASSUME RouteInv, LineInv', Next, NEW x \in Proxies, NEW s \in Shards, NEW o \in Objects,
           alive[s], alive'[s], s \in conn[x], s \in conn'[x],
           dynamic[x][o] = s, dynamic'[x][o] = s, o \notin ghosts[x]
    PROVE  \/ Creates(toShard'[x][s], o)
           \/ Linked(x, s)' /\ (o \in hosted'[s] \/ Removes(toProxy'[s][x], 0, o))
<1> DEFINE T == toShard[x][s]
           P == toProxy[s][x]
<1>0. TypeOK /\ LineInv /\ P \in Seq(ProxyMessages) /\ T \in Seq(ShardMessages) /\ s # None
  BY RouteFacts, RoutesAssumption
<1>1. ~ OnClientLostClusterShard(x, s)
  BY <1>0, LinkLasts
<1>2. CASE Creates(T, o)
  <2>0. alive[s] = alive'[s]
    BY <1>0, NextTypes DEF TypeOK
  <2>1. Moves(x, s)
    BY <1>0, <2>0, NextMoves
  <2>2. CASE Keeps(x, s)
    BY <1>2, <2>2 DEF Keeps
  <2>3. CASE Grows(x, s)
    <3>1. PICK m \in ShardMessages : toShard'[x][s] = Append(T, m) /\ m.type # "register"
      BY <2>3 DEF Grows
    <3>2. Creates(Append(T, m), o)
      <4> HIDE DEF T
      <4> QED BY <1>0, <1>2, <3>1, CreatesAppend
    <3> QED BY <3>1, <3>2
  <2>4. CASE Handles(x, s)
    <3>1. /\ T # << >> /\ Handler(Head(T).type, s, x)
          /\ IF Head(T).type = "register" THEN \E n : toShard'[x][s] = Strays(Tail(T), n)
                                         ELSE toShard'[x][s] = Tail(T)
      BY <2>4 DEF Handles, RegisterIs
    <3>2. /\ Tail(T) \in Seq(ShardMessages)
          /\ \/ Creates(Tail(T), o)
             \/ Head(T).type = "create" /\ o \in Head(T).what /\ ~ Has(T, "register")
      <4> HIDE DEF T
      <4> QED BY <1>0, <1>2, <3>1, CreatesTail, HeadTailProperties
    <3>4. CASE Creates(Tail(T), o)
      <4> HIDE DEF T
      <4> QED BY <3>1, <3>2, <3>4, CreatesStrays
    <3>3. CASE Head(T).type = "create" /\ o \in Head(T).what /\ ~ Has(T, "register")
      <4>1. Opens(s, x, o)
        BY <3>1, <3>3 DEF Handler, Opens
      <4>2. o \in hosted'[s]
        BY <1>0, <4>1, OpensAlone
      <4>3. ~ Has(Tail(T), "register")
        <5> HIDE DEF T
        <5> QED BY <1>0, <3>1, <3>3, HasTail
      <4>4. toShard'[x][s] = Tail(T)
        BY <3>1, <3>3
      <4>5. Linked(x, s)'
        BY <4>3, <4>4 DEF Linked, Has
      <4> QED BY <4>2, <4>5
    <3> QED BY <3>2, <3>3, <3>4
  <2> QED BY <1>1, <2>1, <2>2, <2>3, <2>4 DEF Moves, IsCut, IsJoined
<1>3. CASE Linked(x, s) /\ (o \in hosted[s] \/ Removes(P, 0, o))
  <2>1. Linked(x, s)'
    BY <1>0, <1>1, <1>3, LinkSteps
  <2>2. CASE RemoveBattleRoom(s, o)
    <3>1. PICK m \in ProxyMessages : m.type = "remove" /\ o \in m.what /\ toProxy'[s][x] = Append(P, m)
      BY <1>0, <1>3, <2>2, EndSaid
    <3>2. Removes(Append(P, m), 0, o)
      <4>1. 0 \in 0 .. Len(P)
        BY <1>0, LenProperties
      <4> HIDE DEF P
      <4> QED BY <1>0, <3>1, <4>1, BackAppend
    <3> QED BY <2>1, <3>1, <3>2
  <2>3. CASE o \in hosted[s] /\ ~ RemoveBattleRoom(s, o)
    <3>1. ~ Crash(s)
      BY <1>0 DEF Crash, TypeOK
    <3> QED BY <1>0, <2>1, <2>3, <3>1, HostSteps
  <2>4. CASE Removes(P, 0, o)
    <3>0. 0 \in 0 .. Len(P)
      BY <1>0, LenProperties
    <3>1. BackMoves(x, s)
      BY <1>0, NextBack
    <3>2. CASE BackKept(x, s)
      BY <2>1, <2>4, <3>2 DEF BackKept
    <3>3. CASE BackTaken(x, s)
      <4>1. P # << >> /\ toProxy'[s][x] = Tail(P) /\ (Head(P).type = "remove" => HandleRemoveObject(x, s))
        BY <3>3 DEF BackTaken
      <4>2. Removes(Tail(P), 0, o) \/ (Head(P).type = "remove" /\ o \in Head(P).what)
        <5> HIDE DEF P
        <5> QED BY <1>0, <2>4, <4>1, BackTail
      <4>3. ~ TakesBack(s, x, o)
        BY <1>0, RouteTakenBack
      <4> QED BY <2>1, <4>1, <4>2, <4>3 DEF TakesBack
    <3>4. CASE BackGrown(x, s)
      <4>1. PICK m \in ProxyMessages : toProxy'[s][x] = Append(P, m)
        BY <3>4 DEF BackGrown
      <4>2. Removes(Append(P, m), 0, o)
        <5> HIDE DEF P
        <5> QED BY <1>0, <2>4, <3>0, BackAppend
      <4> QED BY <2>1, <4>1, <4>2
    <3>5. CASE BackAnswered(x, s)
      <4> DEFINE ack == ToProxy("ack", {})
                 add == ToProxy("add", hosted[s])
      <4>1. /\ toProxy'[s][x] = Append(Append(P, ack), add)
            /\ ack \in ProxyMessages /\ add \in ProxyMessages
        BY <1>0, <3>5, Sent DEF BackAnswered, Answered, ToProxy, TypeOK
      <4> HIDE DEF ack, add, P
      <4>2. PICK r \in Seq(ProxyMessages) : r = Append(P, ack)
        BY <1>0, <4>1, AppendProperties
      <4>3. Removes(r, 0, o)
        BY <1>0, <2>4, <3>0, <4>1, <4>2, BackAppend
      <4>4. 0 \in 0 .. Len(r)
        BY <4>2, LenProperties
      <4>5. Removes(Append(r, add), 0, o)
        BY <4>1, <4>2, <4>3, <4>4, BackAppend
      <4> QED BY <2>1, <4>1, <4>2, <4>5
    <3> QED BY <1>1, <3>1, <3>2, <3>3, <3>4, <3>5 DEF BackMoves, BackAged
  <2> QED BY <1>3, <2>2, <2>3, <2>4
<1>4. Served(x, s, o)
  BY RouteFacts
<1> QED BY <1>2, <1>3, <1>4 DEF Served

LEMMA NextServed ==
    ASSUME RouteInv, LineInv', Next, NEW x \in Proxies, NEW s \in Shards, NEW o \in Objects,
           alive'[s], s \in conn'[x], dynamic'[x][o] = s, o \notin ghosts'[x]
    PROVE  \/ Creates(toShard'[x][s], o)
           \/ Linked(x, s)' /\ (o \in hosted'[s] \/ Removes(toProxy'[s][x], 0, o))
<1>0. TypeOK /\ LineInv /\ s # None /\ (s \notin conn[x] /\ dynamic[x][o] = s => o \in ghosts[x])
  BY RouteFacts, RoutesAssumption DEF Haunted
<1>1. ASSUME ~ alive[s] PROVE s \notin conn[x] /\ s \notin conn'[x]
  <2>1. Start(s)
    BY <1>0, <1>1, AliveSteps
  <2> QED BY <2>1 DEF Start, proxyVars
<1>2. alive[s]
  BY <1>1
<1>3. ASSUME dynamic[x][o] = s, o \notin ghosts[x] 
      PROVE  \/ Creates(toShard'[x][s], o)
             \/ Linked(x, s)' /\ (o \in hosted'[s] \/ Removes(toProxy'[s][x], 0, o))
  BY <1>0, <1>2, <1>3, KeptServed
<1>4. CASE RouteSame(x, o)
  BY <1>3, <1>4 DEF RouteSame
<1>5. CASE HandleCreateRoom(x, o)
  BY <1>0, <1>2, <1>5, RouteMade
<1>6. ASSUME NEW t \in Shards, OnClientLostClusterShard(x, t)
      PROVE  dynamic[x][o] = s /\ o \notin ghosts[x]
  BY <1>0, <1>6, RouteForgotten
<1>7. ASSUME NEW t \in Shards, Announces(t, x, o)
      PROVE  Linked(x, s)' /\ (o \in hosted'[s] \/ Removes(toProxy'[s][x], 0, o))
  <2>1. t = s
    BY <1>0, <1>7, RouteAnnounced
  <2> QED BY <1>2, <1>7, <2>1, AnnouncedServed
<1>8. ASSUME NEW t \in Shards, TakesBack(t, x, o) PROVE FALSE
  BY <1>0, <1>8, RouteTakenBack
<1> QED BY <1>0, <1>3, <1>4, <1>5, <1>6, <1>7, <1>8, RouteSteps

\* Where no message is about the room, its route stays.
LEMMA QuietStays ==
    ASSUME RouteInv, Next, NEW x \in Proxies, NEW s \in Shards, NEW o \in Objects,
           ~ OnClientLostClusterShard(x, s), o \in hosted[s], o \notin twice,
           Silent(toProxy[s][x], o), dynamic[x][o] = s
    PROVE  dynamic'[x][o] = s
<1>0. TypeOK /\ LineInv /\ s # None
  BY RouteFacts, RoutesAssumption
<1>1. ASSUME NEW t \in Shards, Announces(t, x, o) \/ TakesBack(t, x, o) PROVE FALSE
  <2> DEFINE P == toProxy[t][x]
  <2>1. P # << >> /\ o \in Head(P).what /\ P \in Seq(ProxyMessages)
    BY <1>0, <1>1, Pair, RouteAnnounced, RouteTakenBack DEF Announces, TakesBack
  <2>2. ~ Silent(P, o)
    <3> HIDE DEF P
    <3> QED BY <2>1, BackTail
  <2>3. Says(t, o) /\ Says(s, o)
    BY <2>2 DEF Says
  <2>4. t = s
    BY <2>3 DEF RouteInv, Single
  <2> QED BY <2>2, <2>4
<1>2. CASE RouteSame(x, o)
  BY <1>2 DEF RouteSame
<1>3. CASE HandleCreateRoom(x, o)
  BY <1>0, <1>3, RouteMade
<1>4. ASSUME NEW t \in Shards, OnClientLostClusterShard(x, t) PROVE dynamic'[x][o] = s
  BY <1>0, <1>4, RouteForgotten
<1> QED BY <1>0, <1>1, <1>2, <1>3, <1>4, RouteSteps

LEMMA NextRouted ==
    ASSUME RouteInv, LineInv', Next, NEW x \in Proxies, NEW s \in Shards, NEW o \in Objects,
           alive'[s], Linked(x, s)', o \in hosted'[s], o \notin twice'
    PROVE  Stands(toProxy'[s][x], o) \/ (Silent(toProxy'[s][x], o) /\ dynamic'[x][o] = s)
<1> DEFINE P == toProxy[s][x]
           add == ToProxy("add", hosted[s])
<1>0. TypeOK /\ LineInv /\ P \in Seq(ProxyMessages)
  BY RouteFacts
<1>1. CASE HandleRegister(s, x)
  <2> DEFINE ack == ToProxy("ack", {})
  <2>1. ~ Broken(x, s)
    BY <1>0, <1>1, RegisterLinks
  <2>2. toProxy'[s][x] = Answered(P, s)
    BY <1>0, <1>1, <2>1, RegisterLines
  <2>3. /\ toProxy'[s][x] = Append(Append(P, ack), add)
        /\ ack \in ProxyMessages /\ add \in ProxyMessages /\ add.type = "add" /\ o \in add.what
    BY <1>0, <1>1, <2>2, Sent DEF Answered, ToProxy, TypeOK, HandleRegister
  <2> HIDE DEF ack, add, P
  <2>4. PICK r \in Seq(ProxyMessages) : r = Append(P, ack)
    BY <1>0, <2>3, AppendProperties
  <2>5. Stands(Append(r, add), o)
    BY <2>3, <2>4, BackAppend
  <2> QED BY <2>3, <2>4, <2>5
<1>2. CASE ~ HandleRegister(s, x)
  <2>1. alive[s] /\ Linked(x, s)
    BY <1>0, <1>2, LinkSteps
  <2>2. ~ OnClientLostClusterShard(x, s)
    BY <1>0, LinkLasts
  <2>3. CASE \E y \in Proxies : Opens(s, y, o)
    <3>1. PICK y \in Proxies : Opens(s, y, o)
      BY <2>3
    <3>2. PICK m \in ProxyMessages : m.type = "add" /\ o \in m.what /\ toProxy'[s][x] = Append(P, m)
      BY <1>0, <2>1, <3>1, OpensSaid
    <3>3. Stands(Append(P, m), o)
      <4> HIDE DEF P
      <4> QED BY <1>0, <3>2, BackAppend
    <3> QED BY <3>2, <3>3
  <2>4. CASE ~ \E y \in Proxies : Opens(s, y, o)
    <3>1. o \in hosted[s] /\ o \notin twice
      BY <1>0, <2>4, HostSteps
    <3>2. Stands(P, o) \/ (Silent(P, o) /\ dynamic[x][o] = s)
      BY <2>1, <3>1, RouteFacts DEF Routed
    <3>3. Silent(P, o) /\ dynamic[x][o] = s => dynamic'[x][o] = s
      BY <2>2, <3>1, QuietStays
    <3>4. BackMoves(x, s)
      BY <1>0, NextBack
    <3>5. CASE BackKept(x, s)
      BY <3>2, <3>3, <3>5 DEF BackKept
    <3>6. CASE BackTaken(x, s)
      <4>1. P # << >> /\ toProxy'[s][x] = Tail(P) /\ (Head(P).type = "add" => HandleAddObject(x, s))
        BY <3>6 DEF BackTaken
      <4>2. /\ Stands(P, o) => \/ Stands(Tail(P), o)
                               \/ Head(P).type = "add" /\ o \in Head(P).what /\ Silent(Tail(P), o)
            /\ Silent(P, o) => Silent(Tail(P), o)
        <5> HIDE DEF P
        <5> QED BY <1>0, <4>1, BackTail
      <4>3. Head(P).type = "add" /\ o \in Head(P).what => dynamic'[x][o] = s
        <5> SUFFICES ASSUME Head(P).type = "add", o \in Head(P).what PROVE dynamic'[x][o] = s
          OBVIOUS
        <5>1. Announces(s, x, o)
          BY <4>1 DEF Announces
        <5> QED BY <1>0, <5>1, RouteAnnounced
      <4> QED BY <3>2, <3>3, <4>1, <4>2, <4>3
    <3>7. CASE BackGrown(x, s)
      <4>1. PICK m \in ProxyMessages :
                /\ \/ m.type = "add" /\ \E y \in Proxies : HandleCreateRoomToShard(s, y) /\ m.what = Head(toShard[y][s]).what
                   \/ m.type = "remove" /\ \E p \in Objects : RemoveBattleRoom(s, p) /\ m.what = {p}
                /\ toProxy'[s][x] = Append(P, m)
        BY <3>7 DEF BackGrown
      <4>2. o \notin m.what
        <5>1. ~ RemoveBattleRoom(s, o)
          BY <1>0 DEF RemoveBattleRoom, TypeOK
        <5> QED BY <2>4, <4>1, <5>1 DEF Opens
      <4>3. /\ Stands(P, o) => Stands(Append(P, m), o)
            /\ Silent(P, o) => Silent(Append(P, m), o)
        <5> HIDE DEF P
        <5> QED BY <1>0, <4>2, BackAppend
      <4> QED BY <3>2, <3>3, <4>1, <4>3
    <3> QED BY <1>2, <2>2, <3>4, <3>5, <3>6, <3>7 DEF BackMoves, BackAged, BackAnswered
  <2> QED BY <2>3, <2>4
<1> QED BY <1>1, <1>2

LEMMA NextRoutings ==
    LineInv /\ LineInv' /\ Old /\ Single /\ Routings /\ [Next]_vars => Routings'
<1> SUFFICES ASSUME RouteInv, LineInv', [Next]_vars, NEW x \in Proxies, NEW s \in Shards, NEW o \in Objects
             PROVE  Routed(x, s, o)' /\ Haunted(x, s, o)' /\ Served(x, s, o)' /\ Honest(x, s, o)'
  BY DEF Routings, RouteInv
<1>1. CASE UNCHANGED vars
  <2>1. Routed(x, s, o) /\ Haunted(x, s, o) /\ Served(x, s, o) /\ Honest(x, s, o)
    BY RouteFacts
  <2>2. UNCHANGED << conn, alive, hosted, toShard, toProxy, dynamic, ghosts, twice >>
    BY <1>1 DEF vars, proxyVars, shardVars, history
  <2>3. (Routed(x, s, o)' <=> Routed(x, s, o)) /\ (Haunted(x, s, o)' <=> Haunted(x, s, o))
    BY <2>2 DEF Routed, Haunted, Linked, Has, Stands, Silent
  <2>4. (Served(x, s, o)' <=> Served(x, s, o)) /\ (Honest(x, s, o)' <=> Honest(x, s, o))
    BY <2>2 DEF Served, Honest, Linked, Has, Creates, Removes, Sound
  <2> QED BY <2>1, <2>3, <2>4
<1>2. CASE Next
  <2>1. Routed(x, s, o)'
    <3>1. /\ Stands(toProxy[s][x], o)' <=> Stands(toProxy'[s][x], o)
          /\ Silent(toProxy[s][x], o)' <=> Silent(toProxy'[s][x], o)
      BY DEF Stands, Silent
    <3> QED BY <1>2, <3>1, NextRouted DEF Routed
  <2>2. Haunted(x, s, o)'
    BY <1>2, NextHaunted DEF Haunted
  <2>3. Served(x, s, o)'
    <3>1. /\ Creates(toShard[x][s], o)' <=> Creates(toShard'[x][s], o)
          /\ Removes(toProxy[s][x], 0, o)' <=> Removes(toProxy'[s][x], 0, o)
      BY DEF Creates, Removes
    <3> QED BY <1>2, <3>1, NextServed DEF Served
  <2>4. Honest(x, s, o)'
    <3>1. Sound(toProxy[s][x], o, o \in hosted[s])' <=> Sound(toProxy'[s][x], o, o \in hosted'[s])
      BY DEF Sound, Removes
    <3> QED BY <1>2, <3>1, NextHonest DEF Honest
  <2> QED BY <2>1, <2>2, <2>3, <2>4
<1> QED BY <1>1, <1>2

LEMMA InitRoutings == Init => Single /\ Routings
<1> SUFFICES ASSUME Init PROVE Single /\ Routings
  OBVIOUS
<1>1. \A s \in Shards, x \in Proxies : toProxy[s][x] = << >> /\ hosted[s] = {} /\ s \in conn[x] /\ s # None
  BY RoutesAssumption DEF Init
<1>2. \A x \in Proxies, o \in Objects : dynamic[x][o] = None
  BY DEF Init
<1>3. \A o : Silent(<< >>, o) /\ \A there : Sound(<< >>, o, there)
  BY DEF Silent, Sound
<1>4. ASSUME NEW s \in Shards, NEW o \in Objects PROVE ~ Says(s, o)
  <2>1. hosted[s] = {}
    BY DEF Init
  <2> QED BY <1>1, <1>3, <2>1 DEF Says
<1>5. ASSUME NEW x \in Proxies, NEW s \in Shards, NEW o \in Objects
      PROVE  Routed(x, s, o) /\ Haunted(x, s, o) /\ Served(x, s, o) /\ Honest(x, s, o)
  <2>1. toProxy[s][x] = << >> /\ o \notin hosted[s] /\ dynamic[x][o] # s
    BY <1>1, <1>2
  <2>2. Honest(x, s, o)
    BY <1>3, <2>1 DEF Honest
  <2> QED BY <2>1, <2>2 DEF Routed, Haunted, Served
<1> QED BY <1>4, <1>5 DEF Single, Routings

\* HandleAddObject, HandleRemoveObject, HandleCreateRoom, OnClientLostClusterShard and
\* OnServerDiscoverBattleProxy, for any number of proxies, shards, rooms, losses and
\* crashes: at rest every proxy routes an object to the shard that hosts it and has no
\* route for another, unless the object was created at two shards or the route was made
\* without a connection.
THEOREM RoutesAreRight == Spec => []RoutesAgree
<1>1. LineInv /\ Old /\ Single /\ Routings => RoutesAgree
  <2> SUFFICES ASSUME RouteInv, AtRest, NEW x \in Proxies, NEW o \in Objects \ twice, NEW s \in Shards
               PROVE  /\ o \in hosted[s] => dynamic[x][o] = s
                      /\ dynamic[x][o] = s /\ o \notin ghosts[x] => o \in hosted[s]
    BY DEF RoutesAgree, RouteInv
  <2>1. /\ toShard[x][s] = << >> /\ toProxy[s][x] = << >>
        /\ s \in conn[x] <=> alive[s]
    BY DEF AtRest
  <2>2. /\ ~ Stands(<< >>, o) /\ ~ Creates(<< >>, o) /\ ~ Removes(<< >>, 0, o)
        /\ ~ Has(<< >>, "register")
    BY DEF Stands, Creates, Removes, Has
  <2>3. Routed(x, s, o) /\ Haunted(x, s, o) /\ Served(x, s, o)
    BY RouteFacts
  <2>4. o \in hosted[s] => alive[s]
    BY DEF RouteInv, LineInv, Dead
  <2>5. alive[s] => Linked(x, s)
    BY <2>1, <2>2 DEF Linked
  <2>6. o \in hosted[s] => dynamic[x][o] = s
    BY <2>1, <2>2, <2>3, <2>4, <2>5 DEF Routed
  <2>7. dynamic[x][o] = s /\ o \notin ghosts[x] => o \in hosted[s]
    BY <2>1, <2>2, <2>3 DEF Haunted, Served
  <2> QED BY <2>6, <2>7
<1>2. Init => LineInv /\ Old /\ Single /\ Routings
  BY InitLines, InitTables, InitRoutings
<1> QED BY <1>1, <1>2, NextLines, NextOld, NextSingle, NextRoutings, PTL DEF Spec
=============================================================================
