------------------------------ MODULE ConHash ------------------------------
(***************************************************************************)
(* KFContrib/KFConHash/KFHashLogic.cpp: the consistent hash by which a     *)
(* master spreads its clients over proxies, a proxy its objects over       *)
(* shards, a gate its accounts over login servers and a world its players  *)
(* over games.  Each node stands on a ring of hash values at the values of *)
(* its virtual nodes; data belongs to the first virtual node at or after   *)
(* the hash value of the data, and what was selected may be cached.        *)
(*                                                                         *)
(* The hash function is a constant: nothing is assumed of it but what a    *)
(* property names.                                                         *)
(***************************************************************************)
EXTENDS Naturals

CONSTANTS
    Nodes,     \* ids of nodes
    KeysOf,    \* Nodes -> hash values of the node's virtual nodes
    Data,      \* what is looked up
    HashOf,    \* Data -> its hash value
    NoNode     \* _invalid_int

ASSUME HashAssumption ==
    /\ KeysOf \in [Nodes -> SUBSET Nat]
    /\ \A n \in Nodes : KeysOf[n] # {}
    /\ HashOf \in [Data -> Nat]
    /\ NoNode \notin Nodes

Keys == UNION {KeysOf[n] : n \in Nodes}

VARIABLES
    nodes,    \* _node_list; the _virtual_list of a node there is KeysOf of it
    virtual,  \* _virtual_list: hash value -> the node it points to, or NoNode
    select    \* _select_list: data -> the node cached for it, or NoNode

hashVars == << nodes, virtual, select >>

NothingSelected == [d \in Data |-> NoNode]

HashInit ==
    /\ nodes = {}
    /\ virtual = [k \in Keys |-> NoNode]
    /\ select = NothingSelected

-----------------------------------------------------------------------------
(* Operations *)

\* A virtual node that exists is pointed to the new node.  A node that is already
\* listed has its virtual nodes.
AddHashNode(n) ==
    /\ nodes' = nodes \cup {n}
    /\ virtual' = IF n \in nodes THEN virtual
                  ELSE [k \in Keys |-> IF k \in KeysOf[n] THEN n ELSE virtual[k]]
    /\ select' = NothingSelected

\* Variant with a bug: the virtual nodes stay.
RemoveHashNodeKeepsKeys(n) ==
    /\ n \in nodes
    /\ nodes' = nodes \ {n}
    /\ select' = NothingSelected
    /\ UNCHANGED virtual

\* Variant with a bug: what was selected stays.
RemoveHashNodeKeepsSelect(n) ==
    /\ n \in nodes
    /\ nodes' = nodes \ {n}
    /\ virtual' = [k \in Keys |-> IF k \in KeysOf[n] THEN NoNode ELSE virtual[k]]
    /\ UNCHANGED select

\* Variant with a bug: all virtual nodes from the first to the last are removed.
RemoveHashNodeRange(n) ==
    /\ n \in nodes
    /\ nodes' = nodes \ {n}
    /\ virtual' = [k \in Keys |->
                    IF \E i, j \in KeysOf[n] : i <= k /\ k <= j THEN NoNode ELSE virtual[k]]
    /\ select' = NothingSelected

\* The virtual nodes are removed by hash value, whichever node they point to.
RemoveHashNode(n) ==
    /\ n \in nodes
    /\ nodes' = nodes \ {n}
    /\ virtual' = [k \in Keys |-> IF k \in KeysOf[n] THEN NoNode ELSE virtual[k]]
    /\ select' = NothingSelected

ClearHashNode == nodes' = {} /\ virtual' = [k \in Keys |-> NoNode] /\ select' = NothingSelected

InRing == {k \in Keys : virtual[k] # NoNode}
Least(S) == CHOOSE k \in S : \A j \in S : k <= j

\* lower_bound of h in a ring, or its beginning.
Successor(points, h) ==
    LET above == {k \in points : k >= h}
    IN IF above # {} THEN Least(above) ELSE Least(points)

Lookup(d) == IF InRing = {} THEN NoNode ELSE virtual[Successor(InRing, HashOf[d])]

\* Variant with a bug: the hash value of the virtual node is cached, not its node.
FindHashNodeCachesKey(d) ==
    /\ select[d] = NoNode
    /\ InRing # {}
    /\ select' = [select EXCEPT ![d] = Successor(InRing, HashOf[d])]
    /\ UNCHANGED << nodes, virtual >>

\* FindHashNode with cache: the cached node, or the one looked up, which is cached.
FindHashNode(d) ==
    /\ select[d] = NoNode
    /\ InRing # {}
    /\ select' = [select EXCEPT ![d] = Lookup(d)]
    /\ UNCHANGED << nodes, virtual >>

HashNext ==
    \/ \E n \in Nodes : AddHashNode(n) \/ RemoveHashNode(n)
    \/ ClearHashNode
    \/ \E d \in Data : FindHashNode(d)

HashSpec == HashInit /\ [][HashNext]_hashVars

-----------------------------------------------------------------------------
(* Properties *)

\* The three maps hold what the operations store in them.
HashTypeOK ==
    /\ nodes \subseteq Nodes
    /\ virtual \in [Keys -> Nodes \cup {NoNode}]
    /\ select \in [Data -> Nodes \cup {NoNode}]

\* A virtual node points to a listed node, one of whose hash values it is, also
\* when hash values of different nodes collide: FindHashNode follows no pointer
\* to a node that was destroyed.
VirtualBacked ==
    \A k \in Keys : virtual[k] # NoNode => virtual[k] \in nodes /\ k \in KeysOf[virtual[k]]

\* A cached selection is what the ring selects now, and a listed node: it does not
\* outlive a change of the ring.
CacheIsFresh ==
    \A d \in Data : select[d] # NoNode => select[d] = Lookup(d) /\ select[d] \in nodes

\* Hash values that virtual nodes of different nodes share.
Contested ==
    {k \in Keys : \E m, n \in Nodes : m # n /\ k \in KeysOf[m] /\ k \in KeysOf[n]}

\* Where hash values do not collide the ring is a function of the listed nodes,
\* however it came about: two processes that list the same nodes, having learnt of
\* them in any order, have the same ring there.
RingIsNodes ==
    \A k \in Keys \ Contested, n \in Nodes : virtual[k] = n <=> n \in nodes /\ k \in KeysOf[n]

\* Consistent hashing: when the list of nodes changes, data moves only to a node that
\* has been added or from a node that has been removed, or because the hash value it
\* was found at belongs to a removed node as well as to its own.
MovesLittle ==
    [][\A d \in Data : \/ Lookup(d)' = Lookup(d)
                       \/ Lookup(d)' \in nodes' \ nodes
                       \/ Lookup(d) \notin nodes'
                       \/ Successor(InRing, HashOf[d]) \in Contested]_hashVars
=============================================================================
