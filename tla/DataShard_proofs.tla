-------------------------- MODULE DataShard_proofs --------------------------
(***************************************************************************)
(* The data service never loses a save it handled, but for the two cases   *)
(* SaveIsKept names, for any shards, ids, failures of redis and orders of  *)
(* saves, retries and stops.  What carries the induction is KeptIsLast: a  *)
(* save that is kept by the shard that handled the last one is that one.   *)
(***************************************************************************)
EXTENDS DataShard, TLAPS

\* A kept save belongs to a player that was saved, is no later than the last
\* save, and is the last one at the shard that handled it.
KeptIsLast ==
    \A s \in Shards, p \in Players : keeper[s][p] # None =>
        /\ last[p] # None
        /\ keeper[s][p].n <= last[p].data.n
        /\ last[p].shard = s => keeper[s][p] = last[p].data

\* Redis holds no later save of the player than the last one, and that one
\* unless it is kept or spoiled.
RedisIsLast ==
    \A p \in Players : Fits(p) =>
        /\ redis[p] # None => last[p] # None /\ redis[p].n <= last[p].data.n
        /\ last[p] # None /\ p \notin spoiled /\ keeper[last[p].shard][p] = None =>
               redis[p] = last[p].data

NumbersRise == \A p \in Players : last[p] # None => last[p].data.n <= saves

Inv == TypeOK /\ KeptIsLast /\ RedisIsLast /\ NumbersRise

\* The key of a player whose id fits is rewritten by that player's save alone.
LEMMA RewrittenOwn ==
    ASSUME NEW s \in Shards, NEW ps \in SUBSET Players, NEW p \in Players, Fits(p)
    PROVE  Rewritten(s, ps, p) = IF p \in ps THEN keeper[s][p] ELSE redis[p]
<1> DEFINE to == {q \in ps : Cut(q) = p}
           final == {r \in to : \A q \in to : q <= r}
<1>1. to = IF p \in ps THEN {p} ELSE {}
  BY DEF Fits
<1>2. final = to
  <2>1. p <= p
    BY DataAssumption
  <2>2. QED
    BY <1>1, <2>1
<1>3. Rewritten(s, ps, p) = IF final = {} THEN redis[p]
                            ELSE keeper[s][CHOOSE r \in final : TRUE]
  BY DEF Rewritten
<1>4. CASE p \in ps
  <2>1. final = {p}
    BY <1>1, <1>2, <1>4
  <2>2. (CHOOSE r \in final : TRUE) = p
    BY <2>1
  <2>3. QED
    BY <1>3, <1>4, <2>1, <2>2
<1>5. CASE p \notin ps
  <2>1. final = {}
    BY <1>1, <1>2, <1>5
  <2>2. QED
    BY <1>3, <1>5, <2>1
<1>6. QED
  BY <1>4, <1>5

\* What a rewritten key holds is what it held or a kept save.
LEMMA RewrittenType ==
    ASSUME TypeOK, NEW s \in Shards, NEW ps \in SUBSET Kept(s), NEW k \in Keys
    PROVE  Rewritten(s, ps, k) \in Data \cup {None}
<1> DEFINE to == {q \in ps : Cut(q) = k}
           final == {r \in to : \A q \in to : q <= r}
<1>1. CASE final = {}
  BY <1>1 DEF Rewritten, TypeOK
<1>2. CASE final # {}
  <2>1. (CHOOSE r \in final : TRUE) \in Players
    BY <1>2 DEF Kept
  <2>2. Rewritten(s, ps, k) = keeper[s][CHOOSE r \in final : TRUE]
    BY <1>2 DEF Rewritten
  <2>3. QED
    BY <2>1, <2>2 DEF TypeOK
<1>3. QED
  BY <1>1, <1>2

LEMMA InitInv == Init => Inv
<1> SUFFICES ASSUME Init
             PROVE  Inv
  OBVIOUS
<1> USE DEF Init
<1>1. TypeOK
  BY DataAssumption DEF TypeOK
<1>2. KeptIsLast /\ RedisIsLast /\ NumbersRise
  BY DEF KeptIsLast, RedisIsLast, NumbersRise, Fits, Keys
<1>3. QED
  BY <1>1, <1>2 DEF Inv

LEMMA SaveInv ==
    ASSUME Inv, NEW s \in Shards, NEW p \in Players, HandleSavePlayerReq(s, p)
    PROVE  Inv'
<1> DEFINE d == [player |-> p, n |-> saves + 1]
<1> USE DEF Inv
<1>1. d \in Data /\ d # None /\ p \in Keys
  BY DataAssumption DEF HandleSavePlayerReq, TypeOK, Data, Keys
<1>2. PICK written \in BOOLEAN, ok \in BOOLEAN :
         /\ ok => written
         /\ redis' = IF written THEN [redis EXCEPT ![p] = d] ELSE redis
         /\ keeper' = [keeper EXCEPT ![s][p] = IF ok THEN None ELSE d]
  BY DEF HandleSavePlayerReq
<1>3. /\ last' = [last EXCEPT ![p] = [shard |-> s, data |-> d]]
      /\ saves' = saves + 1 /\ stops' = stops /\ spoiled' = spoiled \ {p}
      /\ saves < MaxSaves
  BY DEF HandleSavePlayerReq
<1>4. last'[p] = [shard |-> s, data |-> d] /\ last'[p] # None /\ last'[p].data.n = saves'
  BY <1>1, <1>3, DataAssumption DEF TypeOK
<1>5. \A q \in Players \ {p} : last'[q] = last[q]
  BY <1>3 DEF TypeOK
<1>6. TypeOK'
  <2>1. redis' \in [Keys -> Data \cup {None}]
    BY <1>1, <1>2 DEF TypeOK
  <2>2. keeper' \in [Shards -> [Players -> Data \cup {None}]]
    BY <1>1, <1>2 DEF TypeOK
  <2>3. last' \in [Players -> [shard : Shards, data : Data] \cup {None}]
    BY <1>1, <1>3 DEF TypeOK
  <2>4. saves' \in 0 .. MaxSaves /\ stops' \in 0 .. MaxStops /\ spoiled' \subseteq Players
    BY <1>3, DataAssumption DEF TypeOK
  <2>5. QED
    BY <2>1, <2>2, <2>3, <2>4 DEF TypeOK
<1>7. NumbersRise'
  BY <1>3, <1>4, <1>5, DataAssumption DEF NumbersRise, TypeOK, Data
<1>8. KeptIsLast'
  <2> SUFFICES ASSUME NEW t \in Shards, NEW q \in Players, keeper'[t][q] # None
               PROVE  /\ last'[q] # None
                      /\ keeper'[t][q].n <= last'[q].data.n
                      /\ last'[q].shard = t => keeper'[t][q] = last'[q].data
    BY DEF KeptIsLast
  <2>1. CASE q # p
    BY <1>2, <1>5, <2>1 DEF KeptIsLast, TypeOK
  <2>2. CASE q = p /\ t = s
    BY <1>1, <1>2, <1>4, <2>2, DataAssumption DEF TypeOK
  <2>3. CASE q = p /\ t # s
    <3>1. keeper'[t][q] = keeper[t][q]
      BY <1>2, <2>3 DEF TypeOK
    <3>2. keeper[t][q].n <= last[q].data.n /\ last[q] # None
      BY <3>1 DEF KeptIsLast
    <3>3. keeper[t][q].n \in Nat /\ last[q].data.n \in Nat /\ saves \in Nat
      BY <3>1, <3>2, DataAssumption DEF TypeOK, Data
    <3>4. keeper[t][q].n <= saves + 1
      BY <3>2, <3>3 DEF NumbersRise
    <3>5. QED
      BY <1>3, <1>4, <2>3, <3>1, <3>4
  <2>4. QED
    BY <2>1, <2>2, <2>3
<1>9. RedisIsLast'
  <2> SUFFICES ASSUME NEW q \in Players, Fits(q)
               PROVE  /\ redis'[q] # None => last'[q] # None /\ redis'[q].n <= last'[q].data.n
                      /\ last'[q] # None /\ q \notin spoiled' /\ keeper'[last'[q].shard][q] = None =>
                             redis'[q] = last'[q].data
    BY DEF RedisIsLast, Fits, Cut
  <2>1. CASE q # p
    <3>1. redis'[q] = redis[q]
      BY <1>1, <1>2, <2>1 DEF TypeOK, Keys
    <3>2. \A t \in Shards : keeper'[t][q] = keeper[t][q]
      BY <1>2, <2>1 DEF TypeOK
    <3>3. last[q] # None => last[q].shard \in Shards
      BY DEF TypeOK
    <3>4. QED
      BY <1>3, <1>5, <2>1, <3>1, <3>2, <3>3 DEF RedisIsLast
  <2>2. CASE q = p
    <3>1. redis'[p] \in {d, redis[p]}
      BY <1>1, <1>2 DEF TypeOK
    <3>2. redis[p] # None => redis[p].n <= saves + 1
      <4>1. redis[p] # None => last[p] # None /\ redis[p].n <= last[p].data.n
        BY <2>2 DEF RedisIsLast
      <4>2. redis[p] # None => redis[p].n \in Nat
        BY <1>1, DataAssumption DEF TypeOK, Data
      <4>3. last[p] # None => last[p].data.n \in Nat /\ last[p].data.n <= saves
        BY DataAssumption DEF NumbersRise, TypeOK, Data
      <4>4. saves \in Nat
        BY DataAssumption DEF TypeOK
      <4>5. QED
        BY <4>1, <4>2, <4>3, <4>4
    <3>3. d.n <= saves + 1
      BY DataAssumption DEF TypeOK
    <3>4. keeper'[s][p] = IF ok THEN None ELSE d
      BY <1>2 DEF TypeOK
    <3>5. ok => redis'[p] = d
      BY <1>1, <1>2 DEF TypeOK
    <3>6. QED
      BY <1>1, <1>3, <1>4, <2>2, <3>1, <3>2, <3>3, <3>4, <3>5
  <2>3. QED
    BY <2>1, <2>2
<1>10. QED
  BY <1>6, <1>7, <1>8, <1>9

LEMMA RetryInv ==
    ASSUME Inv, NEW s \in Shards, OnTimerSaveDataKeeper(s)
    PROVE  Inv'
<1> USE DEF Inv
<1>1. PICK written \in SUBSET Kept(s), ok \in SUBSET Players :
         /\ ok \subseteq written
         /\ redis' = [k \in Keys |-> Rewritten(s, written, k)]
         /\ keeper' = [keeper EXCEPT ![s] = [p \in Players |-> IF p \in ok THEN None ELSE @[p]]]
  BY DEF OnTimerSaveDataKeeper, Kept
<1>2. /\ saves' = saves /\ stops' = stops /\ last' = last
      /\ spoiled' = spoiled \cup
            {p \in Players : /\ last[p] # None /\ redis'[p] # redis[p]
                             /\ last[p].shard # s /\ keeper[last[p].shard][p] = None}
  BY DEF OnTimerSaveDataKeeper
<1>3. /\ \A p \in Players : keeper'[s][p] = IF p \in ok THEN None ELSE keeper[s][p]
      /\ \A t \in Shards \ {s} : keeper'[t] = keeper[t]
  BY <1>1 DEF TypeOK
<1>4. TypeOK'
  <2>1. redis' \in [Keys -> Data \cup {None}]
    BY <1>1, RewrittenType
  <2>2. keeper' \in [Shards -> [Players -> Data \cup {None}]]
    BY <1>1 DEF TypeOK
  <2>3. QED
    BY <1>2, <2>1, <2>2 DEF TypeOK
<1>5. KeptIsLast'
  BY <1>2, <1>3 DEF KeptIsLast
<1>6. NumbersRise'
  BY <1>2 DEF NumbersRise
<1>7. RedisIsLast'
  <2> SUFFICES ASSUME NEW p \in Players, Fits(p)
               PROVE  /\ redis'[p] # None => last'[p] # None /\ redis'[p].n <= last'[p].data.n
                      /\ last'[p] # None /\ p \notin spoiled' /\ keeper'[last'[p].shard][p] = None =>
                             redis'[p] = last'[p].data
    BY DEF RedisIsLast, Fits, Cut
  <2>1. redis'[p] = IF p \in written THEN keeper[s][p] ELSE redis[p]
    <3>1. p \in Keys /\ written \in SUBSET Players
      BY DEF Keys, Kept
    <3>2. QED
      BY <1>1, <3>1, RewrittenOwn
  <2>2. redis'[p] # None => last'[p] # None /\ redis'[p].n <= last'[p].data.n
    BY <1>2, <2>1 DEF RedisIsLast, KeptIsLast
  <2>3. ASSUME last[p] # None, p \notin spoiled', keeper'[last[p].shard][p] = None
        PROVE  redis'[p] = last[p].data
    <3>1. last[p].shard \in Shards
      BY <2>3 DEF TypeOK
    <3>2. CASE last[p].shard = s
      <4>1. p \in ok => p \in written /\ keeper[s][p] # None
        BY <1>1 DEF Kept
      <4>2. p \in written => redis'[p] = last[p].data
        BY <2>1, <3>2 DEF Kept, KeptIsLast
      <4>3. p \notin written => keeper[s][p] = None
        BY <1>3, <2>3, <3>2, <4>1
      <4>4. p \notin written => redis'[p] = last[p].data
        BY <1>2, <2>1, <2>3, <3>2, <4>3 DEF RedisIsLast
      <4>5. QED
        BY <4>2, <4>4
    <3>3. CASE last[p].shard # s
      <4>1. keeper[last[p].shard][p] = None
        BY <1>3, <2>3, <3>1, <3>3
      <4>2. p \notin spoiled /\ redis'[p] = redis[p]
        BY <1>2, <2>3, <3>3, <4>1
      <4>3. QED
        BY <2>3, <4>1, <4>2 DEF RedisIsLast
    <3>4. QED
      BY <3>2, <3>3
  <2>4. QED
    BY <1>2, <2>2, <2>3
<1>8. QED
  BY <1>4, <1>5, <1>6, <1>7

LEMMA StopInv ==
    ASSUME Inv, NEW s \in Shards, Stop(s)
    PROVE  Inv'
<1> USE DEF Inv
<1>1. /\ redis' = redis /\ saves' = saves /\ last' = last /\ stops' = stops + 1
      /\ stops < MaxStops
      /\ keeper' = [keeper EXCEPT ![s] = [p \in Players |-> None]]
      /\ spoiled' = spoiled \cup
            {p \in Kept(s) : last[p].shard = s /\ redis[p] # keeper[s][p]}
  BY DEF Stop
<1>2. /\ \A p \in Players : keeper'[s][p] = None
      /\ \A t \in Shards \ {s} : keeper'[t] = keeper[t]
  BY <1>1 DEF TypeOK
<1>3. TypeOK'
  <2>1. keeper' \in [Shards -> [Players -> Data \cup {None}]]
    BY <1>1 DEF TypeOK
  <2>2. stops' \in 0 .. MaxStops
    BY <1>1, DataAssumption DEF TypeOK
  <2>3. spoiled' \subseteq Players
    BY <1>1 DEF TypeOK, Kept
  <2>4. QED
    BY <1>1, <2>1, <2>2, <2>3 DEF TypeOK
<1>4. KeptIsLast' /\ NumbersRise'
  BY <1>1, <1>2 DEF KeptIsLast, NumbersRise
<1>5. RedisIsLast'
  <2> SUFFICES ASSUME NEW p \in Players, Fits(p), last[p] # None, p \notin spoiled',
                      keeper'[last[p].shard][p] = None
               PROVE  redis[p] = last[p].data
    BY <1>1 DEF RedisIsLast, Fits, Cut
  <2>1. last[p].shard \in Shards /\ p \notin spoiled
    BY <1>1 DEF TypeOK
  <2>2. CASE keeper[last[p].shard][p] = None
    BY <2>1, <2>2 DEF RedisIsLast
  <2>3. CASE keeper[last[p].shard][p] # None
    <3>1. last[p].shard = s
      BY <1>2, <2>1, <2>3
    <3>2. p \in Kept(s) /\ redis[p] = keeper[s][p]
      BY <1>1, <2>3, <3>1 DEF Kept
    <3>3. QED
      BY <2>3, <3>1, <3>2 DEF KeptIsLast
  <2>4. QED
    BY <2>2, <2>3
<1>6. QED
  BY <1>3, <1>4, <1>5

LEMMA NextInv == Inv /\ [Next]_vars => Inv'
<1> SUFFICES ASSUME Inv, [Next]_vars
             PROVE  Inv'
  OBVIOUS
<1>1. ASSUME NEW s \in Shards, NEW p \in Players, HandleSavePlayerReq(s, p)
      PROVE  Inv'
  BY <1>1, SaveInv
<1>2. ASSUME NEW s \in Shards, OnTimerSaveDataKeeper(s)
      PROVE  Inv'
  BY <1>2, RetryInv
<1>3. ASSUME NEW s \in Shards, Stop(s)
      PROVE  Inv'
  BY <1>3, StopInv
<1>4. CASE UNCHANGED vars
  BY <1>4 DEF vars, Inv, TypeOK, KeptIsLast, RedisIsLast, NumbersRise, Fits, Cut
<1>5. QED
  BY <1>1, <1>2, <1>3, <1>4 DEF Next

LEMMA Invariance == Spec => []Inv
  BY InitInv, NextInv, PTL DEF Spec

\* The tables of the data service have their types, for any shards and ids.
THEOREM DataTypes == Spec => []TypeOK
<1>1. Inv => TypeOK
  BY DEF Inv
<1>2. QED
  BY <1>1, Invariance, PTL

\* A handled save is what the shard that handled it loads, through any failures
\* of redis and any retries, but for stops, older saves kept elsewhere and long ids.
THEOREM SaveSafe == Spec => []SaveIsKept
<1>1. Inv => SaveIsKept
  BY DEF Inv, SaveIsKept, KeptIsLast, RedisIsLast, LoadPlayerData, TypeOK
<1>2. QED
  BY <1>1, Invariance, PTL

\* A retry never puts an earlier save of a player back, while only the shard
\* that handled the last one keeps a save.
THEOREM RetryGoesForward == Spec => NeverGoesBack
<1> DEFINE Forward == \A p \in Players : Fits(p) /\ Sole(p) => Number(redis'[p]) >= Number(redis[p])
<1>1. Inv /\ Inv' /\ [Next]_vars => [Forward]_vars
  <2> SUFFICES ASSUME Inv, Inv', [Next]_vars, NEW p \in Players, Fits(p), Sole(p)
               PROVE  Number(redis'[p]) >= Number(redis[p])
    OBVIOUS
  <2> USE DEF Inv
  <2>1. p \in Keys
    BY DEF Keys
  <2>2. Number(redis[p]) \in Nat
    BY <2>1, DataAssumption DEF Number, TypeOK, Data
  <2>3. ASSUME NEW s \in Shards, NEW q \in Players, HandleSavePlayerReq(s, q)
        PROVE  Number(redis'[p]) >= Number(redis[p])
    <3>1. CASE redis'[p] = redis[p]
      BY <2>2, <3>1
    <3>2. CASE redis'[p] # redis[p]
      <4>1. redis'[p] = [player |-> q, n |-> saves + 1]
        BY <2>1, <2>3, <3>2 DEF HandleSavePlayerReq, TypeOK
      <4>2. saves \in Nat /\ None # [player |-> q, n |-> saves + 1]
        BY <2>3, DataAssumption DEF TypeOK, HandleSavePlayerReq, Data
      <4>3. Number(redis[p]) <= saves
        <5>1. redis[p] # None => redis[p].n <= last[p].data.n /\ last[p] # None
          BY DEF RedisIsLast
        <5>2. last[p] # None => last[p].data.n \in Nat /\ last[p].data.n <= saves
          BY DataAssumption DEF NumbersRise, TypeOK, Data
        <5>3. QED
          BY <2>2, <4>2, <5>1, <5>2 DEF Number
      <4>4. QED
        BY <2>2, <4>1, <4>2, <4>3 DEF Number
    <3>3. QED
      BY <3>1, <3>2
  <2>4. ASSUME NEW s \in Shards, OnTimerSaveDataKeeper(s)
        PROVE  Number(redis'[p]) >= Number(redis[p])
    <3>1. PICK written \in SUBSET Kept(s) : redis' = [k \in Keys |-> Rewritten(s, written, k)]
      BY <2>4 DEF OnTimerSaveDataKeeper
    <3>2. redis'[p] = IF p \in written THEN keeper[s][p] ELSE redis[p]
      BY <2>1, <3>1, RewrittenOwn DEF Kept
    <3>3. CASE p \in written
      <4>1. keeper[s][p] # None /\ last[p] # None /\ keeper[s][p] = last[p].data
        BY <3>3 DEF Kept, Sole, KeptIsLast
      <4>2. redis[p] # None => redis[p].n <= last[p].data.n
        BY DEF RedisIsLast
      <4>3. last[p].data \in Data /\ last[p].data.n \in Nat
        BY <4>1, DataAssumption DEF TypeOK, Data
      <4>4. QED
        BY <2>2, <3>2, <3>3, <4>1, <4>2, <4>3, DataAssumption DEF Number
    <3>4. CASE p \notin written
      BY <2>2, <3>2, <3>4
    <3>5. QED
      BY <3>3, <3>4
  <2>5. ASSUME NEW s \in Shards, Stop(s)
        PROVE  Number(redis'[p]) >= Number(redis[p])
    BY <2>2, <2>5 DEF Stop
  <2>6. CASE UNCHANGED vars
    BY <2>2, <2>6 DEF vars
  <2>7. QED
    BY <2>3, <2>4, <2>5, <2>6 DEF Next
<1>2. QED
  BY <1>1, Invariance, PTL DEF Spec, NeverGoesBack
=============================================================================
