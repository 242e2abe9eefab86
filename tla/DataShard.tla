----------------------------- MODULE DataShard -----------------------------
(***************************************************************************)
(* Saving and loading the data of players: the shards of the data process  *)
(* in front of one redis.  A save redis refused is kept by the shard that  *)
(* handled it, _kf_data_keeper, and tried again every ten seconds; a load  *)
(* looks there first.  The proxies route by a hash of the zone over the    *)
(* shards they are connected to, so while shards come and go the requests  *)
(* for one player reach several shards.  Here any shard may get any.       *)
(***************************************************************************)
EXTENDS Naturals

CONSTANTS
    Shards,
    Players,   \* player ids, 64 bits wide in messages and keys
    Wrap,      \* 2^32: KFDataKeeper keeps the id of its player in 32 bits
    MaxSaves,  \* bound: saves
    MaxStops,  \* bound: shards that stop
    None

Cut(p) == p % Wrap
Keys == Players \cup {Cut(p) : p \in Players}

\* What a save writes: the player, and which save of all it was.
Data == [player : Players, n : 1 .. MaxSaves]

ASSUME DataAssumption ==
    /\ Players \subseteq Nat /\ Wrap \in Nat \ {0}
    /\ MaxSaves \in Nat /\ MaxStops \in Nat
    /\ None \notin Data /\ None \notin [shard : Shards, data : Data]

VARIABLES
    redis,     \* key -> what "hget player:key data" gives, or None
    keeper,    \* shard -> player -> the save that is kept, or None
    saves, stops,
    \* history
    last,      \* player -> the last save a shard handled and that shard, or None
    spoiled    \* players whose last save a stop, or another shard's old one, undid

vars == << redis, keeper, saves, stops, last, spoiled >>

Init ==
    /\ redis = [k \in Keys |-> None]
    /\ keeper = [s \in Shards |-> [p \in Players |-> None]]
    /\ saves = 0 /\ stops = 0
    /\ last = [p \in Players |-> None]
    /\ spoiled = {}

-----------------------------------------------------------------------------
\* LoadPlayerData when redis answers, for a login and for a query.
LoadPlayerData(s, p) == IF keeper[s][p] # None THEN keeper[s][p] ELSE redis[p]

\* Variant with a bug: a save that succeeds leaves the kept one.
HandleSavePlayerReqLeaves(s, p) ==
    LET d == [player |-> p, n |-> saves + 1] IN
    /\ saves < MaxSaves
    /\ saves' = saves + 1
    /\ \E written, ok \in BOOLEAN :
          /\ ok => written
          /\ redis' = IF written THEN [redis EXCEPT ![p] = d] ELSE redis
          /\ keeper' = IF ok THEN keeper ELSE [keeper EXCEPT ![s][p] = d]
    /\ last' = [last EXCEPT ![p] = [shard |-> s, data |-> d]]
    /\ spoiled' = spoiled \ {p}
    /\ UNCHANGED stops

\* A write redis reports as failed may have been done: the answer, and the
\* second attempt on a new connection, can be lost.
HandleSavePlayerReq(s, p) ==
    LET d == [player |-> p, n |-> saves + 1] IN
    /\ saves < MaxSaves
    /\ saves' = saves + 1
    /\ \E written, ok \in BOOLEAN :
          /\ ok => written
          /\ redis' = IF written THEN [redis EXCEPT ![p] = d] ELSE redis
          /\ keeper' = [keeper EXCEPT ![s][p] = IF ok THEN None ELSE d]
    /\ last' = [last EXCEPT ![p] = [shard |-> s, data |-> d]]
    /\ spoiled' = spoiled \ {p}
    /\ UNCHANGED stops

Kept(s) == {p \in Players : keeper[s][p] # None}

\* What the key holds after the saves of a set of players were written in the
\* order of their ids, each under the id its keeper has.
Rewritten(s, ps, k) ==
    LET to == {p \in ps : Cut(p) = k}
        final == {p \in to : \A q \in to : q <= p}
    IN  IF final = {} THEN redis[k] ELSE keeper[s][CHOOSE p \in final : TRUE]

\* Every kept save is written again; those redis accepts are dropped, by the
\* id they were looked up with.
OnTimerSaveDataKeeper(s) ==
    /\ Kept(s) # {}
    /\ \E written \in SUBSET Kept(s) : \E ok \in SUBSET written :
          /\ redis' = [k \in Keys |-> Rewritten(s, written, k)]
          /\ keeper' = [keeper EXCEPT ![s] = [p \in Players |-> IF p \in ok THEN None ELSE @[p]]]
    /\ spoiled' = spoiled \cup
          {p \in Players : /\ last[p] # None /\ redis'[p] # redis[p]
                           /\ last[p].shard # s /\ keeper[last[p].shard][p] = None}
    /\ UNCHANGED << saves, stops, last >>

\* Variant with a bug: the table itself is lost.
StopWithoutTable(s) ==
    /\ stops < MaxStops
    /\ stops' = stops + 1
    /\ keeper' = [keeper EXCEPT ![s] = None]
    /\ UNCHANGED << redis, saves, last, spoiled >>

\* The process ends, BeforeShut included, with what it kept; a new one starts empty.
Stop(s) ==
    /\ stops < MaxStops
    /\ stops' = stops + 1
    /\ keeper' = [keeper EXCEPT ![s] = [p \in Players |-> None]]
    /\ spoiled' = spoiled \cup
          {p \in Kept(s) : last[p].shard = s /\ redis[p] # keeper[s][p]}
    /\ UNCHANGED << redis, saves, last >>

Next == \E s \in Shards :
    \/ \E p \in Players : HandleSavePlayerReq(s, p)
    \/ OnTimerSaveDataKeeper(s)
    \/ Stop(s)

Spec == Init /\ [][Next]_vars

-----------------------------------------------------------------------------
\* Types of the tables: redis and the keepers hold saves.
TypeOK ==
    /\ redis \in [Keys -> Data \cup {None}]
    /\ keeper \in [Shards -> [Players -> Data \cup {None}]]
    /\ saves \in 0 .. MaxSaves /\ stops \in 0 .. MaxStops
    /\ last \in [Players -> [shard : Shards, data : Data] \cup {None}]
    /\ spoiled \subseteq Players

\* The id has 32 bits, and no longer one is cut to it.
Fits(p) == Cut(p) = p /\ \A q \in Players \ {p} : Cut(q) # p

\* However saves, failures and retries follow each other, a shard loads what it
\* was last asked to save of a player with an id of 32 bits, as long as it does
\* not stop and no other shard still keeps an older save.
SaveIsKept ==
    \A p \in Players : Fits(p) /\ last[p] # None /\ p \notin spoiled =>
        LoadPlayerData(last[p].shard, p) = last[p].data

Number(d) == IF d = None THEN 0 ELSE d.n

\* Only a shard that lost the player to another may keep a save of it.
Sole(p) == \A s \in Shards : keeper[s][p] # None => s = last[p].shard

\* What redis has of a player never goes back to an earlier save by a retry,
\* unless a shard still keeps a save although another handled a later one.
NeverGoesBack ==
    [][\A p \in Players : Fits(p) /\ Sole(p) => Number(redis'[p]) >= Number(redis[p])]_vars
=============================================================================
