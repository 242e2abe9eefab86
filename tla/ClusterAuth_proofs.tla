------------------------- MODULE ClusterAuth_proofs -------------------------
(***************************************************************************)
(* For any number of clients and proxies, whatever fails, is delayed or    *)
(* repeated: the types and the bounds of the queues (ClusterTyped), that   *)
(* only a refused connection stops a client (ClientsKeepJoining), that a   *)
(* token lets a process in once (TokenAdmitsOnce) and that it never lets   *)
(* in a process whose id does not fit 32 bits (OnlyNarrowIds).             *)
(***************************************************************************)
EXTENDS ClusterAuth, SequenceTheorems, TLAPS

-----------------------------------------------------------------------------
(* Types. *)

\* TypeOK in the parts that change together.
ClientTypes == client \in [Clients -> Records]

ChannelTypes ==
    /\ unsent \in [Clients -> [Servers -> Seq(Requests)]]
    /\ toServer \in [Clients -> [Servers -> Seq(Requests)]]
    /\ toClient \in [Clients -> [Servers -> Seq(Replies)]]

ChannelBounds ==
    \A c \in Clients, s \in Servers : /\ Len(unsent[c][s]) + Len(toServer[c][s]) <= MaxChannel
                                      /\ Len(toClient[c][s]) <= MaxChannel

ClusterTypes ==
    /\ alive \subseteq Proxies /\ inService \subseteq Proxies /\ updates \subseteq Proxies
    /\ gone \subseteq Proxies /\ listed \subseteq Proxies
    /\ tokenReqs \in [Proxies -> Seq([token : 1 .. MaxTokens, gate : Nat])]
    /\ tokens \in [Proxies -> SUBSET [token : 1 .. MaxTokens, gate : Nat]]

HistoryTypes ==
    /\ granted \in [Clients -> SUBSET Proxies]
    /\ accepted \subseteq 1 .. MaxTokens /\ failures \in 0 .. MaxFailures
    /\ repeats \in 0 .. MaxRepeats

LostTypes == lost \in [Clients -> SUBSET Servers]

LEMMA TypeParts ==
    TypeOK <=> /\ ClientTypes /\ ChannelTypes /\ ChannelBounds
               /\ ClusterTypes /\ HistoryTypes /\ LostTypes
BY DEF TypeOK, ClientTypes, ChannelTypes, ChannelBounds, ClusterTypes, HistoryTypes, LostTypes

LEMMA TypesLater ==
    ASSUME ClientTypes', ChannelTypes', ChannelBounds', ClusterTypes', HistoryTypes', LostTypes'
    PROVE  TypeOK'
BY DEF TypeOK, ClientTypes, ChannelTypes, ChannelBounds, ClusterTypes, HistoryTypes, LostTypes

\* App ids are positive: 0 is nobody.
LEMMA Ids == /\ Master \in Servers /\ Proxies \subseteq Servers /\ 0 \notin Servers
             /\ \A id \in Clients \cup Servers : id \in Nat /\ id # 0
             /\ Master \notin Proxies
BY AuthAssumption DEF Servers

\* An id that was cut is still a number; 0 stays 0.
LEMMA LowTypes == /\ \A id \in Nat : Low(id) \in Nat
                  /\ Low(0) = 0
BY AuthAssumption, SMT DEF Low

\* What the handlers make of a client's record.
LEMMA LinkTypes ==
    ASSUME NEW r \in Records, NEW s \in Servers, NEW l \in LinkState
    PROVE  [r EXCEPT !.link[s] = l] \in Records
BY DEF Records

LEMMA CloseTypes ==
    ASSUME NEW r \in Records, NEW s
    PROVE  CloseClient(r, s) \in Records
<1>1. "closing" \in LinkState
  BY DEF LinkState
<1> QED BY <1>1, LinkTypes DEF CloseClient, Known

LEMMA StartTypes ==
    ASSUME NEW r \in Records, NEW s \in Servers
    PROVE  StartClient(r, s) \in Records
<1>1. "wait" \in LinkState
  BY DEF LinkState
<1>2. [r EXCEPT !.refused = r.link[s] # "open"] \in Records
  BY DEF Records
<1>3. [r EXCEPT !.link[s] = "wait", !.refused = FALSE] \in Records
  BY <1>1 DEF Records
<1> QED BY <1>2, <1>3 DEF StartClient

LEMMA RestartTypes ==
    ASSUME NEW r \in Records
    PROVE  StartClusterMasterClient(r) \in Records
<1> DEFINE x == CloseClient(r, r.proxy)
           y == [x EXCEPT !.proxy = 0, !.service = FALSE]
<1>1. x \in Records
  BY CloseTypes
<1> HIDE DEF x
<1>2. y \in Records
  BY <1>1 DEF Records
<1>3. StartClusterMasterClient(r) = StartClient(y, Master)
  BY DEF StartClusterMasterClient, x
<1> HIDE DEF y
<1> QED BY <1>2, <1>3, StartTypes, Ids

LEMMA HandlerTypes ==
    ASSUME NEW r \in Records, NEW s \in Servers
    PROVE  /\ OnConnectionClusterServer(r, s) \in Records
           /\ OnLostClusterServer(r, s) \in Records
<1>1. OnConnectionClusterServer(r, s) \in Records
  BY DEF OnConnectionClusterServer, Records, Servers
<1>2. OnLostClusterServer(r, s) \in Records
  BY RestartTypes DEF OnLostClusterServer
<1> QED BY <1>1, <1>2

LEMMA AuthTypes ==
    ASSUME NEW r \in Records, NEW m, m.proxy \in Proxies \cup {0}, m.token \in 0 .. MaxTokens
    PROVE  ProcessClusterAuth(r, m) \in Records
<1> DEFINE x == CloseClient(r, Master)
           y == [x EXCEPT !.auth = FALSE, !.token = m.token, !.proxy = m.proxy]
<1>1. x \in Records
  BY CloseTypes
<1> HIDE DEF x
<1>2. y \in Records
  BY <1>1 DEF Records
<1>3. CASE m.proxy = 0
  BY <1>3 DEF ProcessClusterAuth
<1>4. CASE m.proxy # 0
  <2>1. ProcessClusterAuth(r, m) = StartClient(y, m.proxy)
    BY <1>4 DEF ProcessClusterAuth, x
  <2>2. m.proxy \in Servers
    BY <1>4, Ids
  <2> HIDE DEF y
  <2> QED BY <1>2, <2>1, <2>2, StartTypes
<1> QED BY <1>3, <1>4

LEMMA VerifyTypes ==
    ASSUME NEW r \in Records, NEW m
    PROVE  ProcessClusterVerify(r, m) \in Records
<1> DEFINE x == [r EXCEPT !.timers = @ \ {r.proxy}]
<1>1. x \in Records
  BY DEF Records
<1>2. [x EXCEPT !.service = TRUE] \in Records
  BY <1>1 DEF Records
<1>3. ProcessClusterVerify(r, m) =
        IF m.id # 0 THEN [x EXCEPT !.service = TRUE] ELSE StartClusterMasterClient(x)
  BY DEF ProcessClusterVerify
<1> HIDE DEF x
<1> QED BY <1>1, <1>2, <1>3, RestartTypes

\* One channel changes.
LEMMA ChannelUpdate ==
    ASSUME NEW M, NEW f \in [Clients -> [Servers -> M]],
           NEW c \in Clients, NEW s \in Servers, NEW q \in M, NEW g,
           g = [f EXCEPT ![c][s] = q]
    PROVE  /\ g \in [Clients -> [Servers -> M]]
           /\ g[c][s] = q
           /\ \A d \in Clients, u \in Servers : d # c \/ u # s => g[d][u] = f[d][u]
OBVIOUS

-----------------------------------------------------------------------------
LEMMA InitTypes == Init => TypeOK
<1> SUFFICES ASSUME Init PROVE TypeOK
  OBVIOUS
<1>1. ClientTypes
  <2>1. {"wait", "none"} \subseteq LinkState
    BY DEF LinkState
  <2>2. 0 \in 0 .. MaxTokens
    BY AuthAssumption
  <2> QED BY <2>1, <2>2 DEF Init, ClientTypes, Records
<1>2. ChannelTypes
  BY DEF Init, ChannelTypes
<1>3. ChannelBounds
  <2>1. \A c \in Clients, s \in Servers :
           Len(unsent[c][s]) = 0 /\ Len(toServer[c][s]) = 0 /\ Len(toClient[c][s]) = 0
    BY DEF Init
  <2>2. 0 <= MaxChannel /\ 0 + 0 <= MaxChannel
    BY AuthAssumption, SMT
  <2> QED BY <2>1, <2>2, Zenon DEF ChannelBounds
<1>4. ClusterTypes
  BY DEF Init, ClusterTypes
<1>5. HistoryTypes
  BY AuthAssumption DEF Init, HistoryTypes
<1>6. LostTypes
  BY DEF Init, LostTypes
<1> QED BY <1>1, <1>2, <1>3, <1>4, <1>5, <1>6, TypeParts

\* The record of one client changes.
LEMMA ClientStepTypes ==
    ASSUME TypeOK, NEW c \in Clients, NEW r \in Records,
           client' = [client EXCEPT ![c] = r]
    PROVE  ClientTypes'
BY TypeParts DEF ClientTypes

LEMMA NoLonger ==
    ASSUME NEW a \in Nat, NEW b \in Nat, NEW m \in Nat, NEW x \in Nat, NEW y \in Nat,
           a + b <= m, x <= a, y <= b
    PROVE  x + y <= m
OBVIOUS

LEMMA Joined ==
    ASSUME NEW a \in Nat, NEW b \in Nat, NEW m \in Nat, a + b <= m
    PROVE  0 + (b + a) <= m
OBVIOUS

LEMMA RoomForOne ==
    ASSUME NEW a \in Nat, NEW b \in Nat, NEW m \in Nat, a + b < m
    PROVE  (a + 1) + b <= m /\ a + (b + 1) <= m
OBVIOUS

\* A channel is shortened or emptied, or stays.
LEMMA SendTypes ==
    ASSUME TypeOK, NEW c \in Clients, NEW s \in Servers, NEW t \in 0 .. MaxTokens,
           Room(c, s), Send(c, s, t), UNCHANGED toClient
    PROVE  ChannelTypes' /\ ChannelBounds'
<1>1. MaxChannel \in Nat
  BY AuthAssumption
<1>2. ChannelTypes /\ ChannelBounds
  BY TypeParts
<1>3. [from |-> c, token |-> t] \in Requests /\ [from |-> 0, token |-> t] \in Requests
  BY DEF Requests
<1>4. unsent[c][s] \in Seq(Requests) /\ toServer[c][s] \in Seq(Requests)
  BY <1>2 DEF ChannelTypes
<1>5. Len(unsent[c][s]) + Len(toServer[c][s]) < MaxChannel
  BY DEF Room
<1>6. CASE UNCHANGED << unsent, toServer >>
  BY <1>2, <1>6 DEF ChannelTypes, ChannelBounds
<1>7. ASSUME NEW m \in Requests, UNCHANGED unsent,
             toServer' = [toServer EXCEPT ![c][s] = Append(@, m)]
      PROVE  ChannelTypes' /\ ChannelBounds'
  <2> DEFINE q == Append(toServer[c][s], m)
  <2>1. q \in Seq(Requests) /\ Len(q) = Len(toServer[c][s]) + 1
    BY <1>4, AppendProperties
  <2>2. toServer' = [toServer EXCEPT ![c][s] = q]
    BY <1>7
  <2> HIDE DEF q
  <2>3. /\ toServer' \in [Clients -> [Servers -> Seq(Requests)]]
        /\ toServer'[c][s] = q
        /\ \A d \in Clients, u \in Servers : d # c \/ u # s => toServer'[d][u] = toServer[d][u]
    BY <1>2, <2>1, <2>2, ChannelUpdate DEF ChannelTypes
  <2>4. ChannelTypes'
    BY <1>2, <1>7, <2>3 DEF ChannelTypes
  <2>5. Len(unsent'[c][s]) + Len(toServer'[c][s]) <= MaxChannel
    <3>1. Len(unsent[c][s]) \in Nat /\ Len(toServer[c][s]) \in Nat
      BY <1>4
    <3>2. Len(unsent'[c][s]) = Len(unsent[c][s]) /\ Len(toServer'[c][s]) = Len(toServer[c][s]) + 1
      BY <1>7, <2>1, <2>3
    <3> QED BY <1>1, <1>5, <3>1, <3>2, RoomForOne
  <2>6. ChannelBounds'
    BY <1>2, <1>7, <2>3, <2>5 DEF ChannelBounds
  <2> QED BY <2>4, <2>6
<1>8. ASSUME NEW m \in Requests, UNCHANGED toServer,
             unsent' = [unsent EXCEPT ![c][s] = Append(@, m)]
      PROVE  ChannelTypes' /\ ChannelBounds'
  <2> DEFINE q == Append(unsent[c][s], m)
  <2>1. q \in Seq(Requests) /\ Len(q) = Len(unsent[c][s]) + 1
    BY <1>4, AppendProperties
  <2>2. unsent' = [unsent EXCEPT ![c][s] = q]
    BY <1>8
  <2> HIDE DEF q
  <2>3. /\ unsent' \in [Clients -> [Servers -> Seq(Requests)]]
        /\ unsent'[c][s] = q
        /\ \A d \in Clients, u \in Servers : d # c \/ u # s => unsent'[d][u] = unsent[d][u]
    BY <1>2, <2>1, <2>2, ChannelUpdate DEF ChannelTypes
  <2>4. ChannelTypes'
    BY <1>2, <1>8, <2>3 DEF ChannelTypes
  <2>5. Len(unsent'[c][s]) + Len(toServer'[c][s]) <= MaxChannel
    <3>1. Len(unsent[c][s]) \in Nat /\ Len(toServer[c][s]) \in Nat
      BY <1>4
    <3>2. Len(unsent'[c][s]) = Len(unsent[c][s]) + 1 /\ Len(toServer'[c][s]) = Len(toServer[c][s])
      BY <1>8, <2>1, <2>3
    <3> QED BY <1>1, <1>5, <3>1, <3>2, RoomForOne
  <2>6. ChannelBounds'
    BY <1>2, <1>8, <2>3, <2>5 DEF ChannelBounds
  <2> QED BY <2>4, <2>6
<1>9. \/ UNCHANGED << unsent, toServer >>
      \/ toServer' = [toServer EXCEPT ![c][s] = Append(@, [from |-> c, token |-> t])] /\ UNCHANGED unsent
      \/ unsent' = [unsent EXCEPT ![c][s] = Append(@, [from |-> 0, token |-> t])] /\ UNCHANGED toServer
  BY DEF Send
<1> QED BY <1>3, <1>6, <1>7, <1>8, <1>9

\* Queues that did not grow.
LEMMA FewerBounds ==
    ASSUME ChannelBounds, ChannelTypes, ChannelTypes',
           \A c \in Clients, s \in Servers :
              /\ Len(unsent'[c][s]) <= Len(unsent[c][s])
              /\ Len(toServer'[c][s]) <= Len(toServer[c][s])
              /\ Len(toClient'[c][s]) <= Len(toClient[c][s])
    PROVE  ChannelBounds'
<1> SUFFICES ASSUME NEW c \in Clients, NEW s \in Servers
             PROVE  /\ Len(unsent'[c][s]) + Len(toServer'[c][s]) <= MaxChannel
                    /\ Len(toClient'[c][s]) <= MaxChannel
  BY DEF ChannelBounds
<1>1. /\ Len(unsent[c][s]) + Len(toServer[c][s]) <= MaxChannel
      /\ Len(toClient[c][s]) <= MaxChannel
  BY DEF ChannelBounds
<1>2. /\ Len(unsent[c][s]) \in Nat /\ Len(toServer[c][s]) \in Nat /\ Len(toClient[c][s]) \in Nat
      /\ Len(unsent'[c][s]) \in Nat /\ Len(toServer'[c][s]) \in Nat /\ Len(toClient'[c][s]) \in Nat
  BY DEF ChannelTypes
<1>3. MaxChannel \in Nat
  BY AuthAssumption
<1>4. /\ Len(unsent'[c][s]) <= Len(unsent[c][s])
      /\ Len(toServer'[c][s]) <= Len(toServer[c][s])
      /\ Len(toClient'[c][s]) <= Len(toClient[c][s])
  OBVIOUS
<1>5. Len(unsent'[c][s]) + Len(toServer'[c][s]) <= MaxChannel
  BY <1>1, <1>2, <1>3, <1>4, NoLonger
<1>6. Len(toClient'[c][s]) <= MaxChannel
  BY <1>1, <1>2, <1>3, <1>4, SMT
<1> QED BY <1>5, <1>6

\* A queue that loses messages is a queue that is not longer.
LEMMA Shorter ==
    ASSUME NEW M, NEW q \in Seq(M)
    PROVE  /\ << >> \in Seq(M) /\ Len(<< >>) <= Len(q)
           /\ \A n \in 0 .. Len(q) : SubSeq(q, 1, n) \in Seq(M) /\ Len(SubSeq(q, 1, n)) <= Len(q)
           /\ q # << >> => /\ Head(q) \in M /\ Tail(q) \in Seq(M)
                           /\ Len(Tail(q)) = Len(q) - 1 /\ Len(Tail(q)) <= Len(q)
<1>1. << >> \in Seq(M) /\ Len(<< >>) <= Len(q)
  OBVIOUS
<1>2. ASSUME NEW n \in 0 .. Len(q)
      PROVE  SubSeq(q, 1, n) \in Seq(M) /\ Len(SubSeq(q, 1, n)) <= Len(q)
  <2>1. Len(q) \in Nat /\ n \in Nat /\ n <= Len(q)
    OBVIOUS
  <2>2. \A i \in 1 .. n : q[i] \in M
    BY <2>1, ElementOfSeq
  <2>3. SubSeq(q, 1, n) \in Seq(M) /\ Len(SubSeq(q, 1, n)) = n
    <3>1. \A i \in 1 .. n : i \in 1 .. Len(q)
      BY <2>1
    <3> QED BY <2>1, <2>2, <3>1, SubSeqProperties
  <2> QED BY <2>1, <2>3
<1>3. ASSUME q # << >>
      PROVE  /\ Head(q) \in M /\ Tail(q) \in Seq(M)
             /\ Len(Tail(q)) = Len(q) - 1 /\ Len(Tail(q)) <= Len(q)
  <2>1. Head(q) \in M /\ Tail(q) \in Seq(M) /\ Len(Tail(q)) = Len(q) - 1
    BY <1>3, HeadTailProperties
  <2>2. Len(q) \in Nat
    OBVIOUS
  <2> QED BY <2>1, <2>2
<1> QED BY <1>1, <1>2, <1>3

-----------------------------------------------------------------------------
(* The steps of a client. *)

LEMMA AuthTimerTypes ==
    ASSUME TypeOK, NEW c \in Clients, OnTimerSendClusterAuthMessage(c)
    PROVE  TypeOK'
<1>1. /\ Room(c, Master) /\ Send(c, Master, 0) /\ UNCHANGED toClient
      /\ UNCHANGED << client, lost, cluster, granted, accepted, failures >>
  BY DEF OnTimerSendClusterAuthMessage
<1>2. 0 \in 0 .. MaxTokens
  BY AuthAssumption
<1>3. ChannelTypes' /\ ChannelBounds'
  BY <1>1, <1>2, SendTypes, Ids
<1>4. repeats' \in 0 .. MaxRepeats
  BY TypeParts, AuthAssumption DEF OnTimerSendClusterAuthMessage, Repeats, HistoryTypes
<1>5. ClientTypes' /\ LostTypes' /\ ClusterTypes' /\ HistoryTypes'
  BY <1>1, <1>4, TypeParts DEF ClientTypes, LostTypes, ClusterTypes, HistoryTypes, cluster
<1> QED BY <1>3, <1>5, TypesLater

LEMMA TokenTimerTypes ==
    ASSUME TypeOK, NEW c \in Clients, NEW p \in Proxies, OnTimerSendClusterTokenMessage(c, p)
    PROVE  TypeOK'
<1>1. /\ Room(c, p) /\ UNCHANGED toClient
      /\ UNCHANGED << lost, cluster, granted, accepted, failures >>
  BY DEF OnTimerSendClusterTokenMessage
<1>2. repeats' \in 0 .. MaxRepeats
  BY TypeParts, AuthAssumption DEF OnTimerSendClusterTokenMessage, Repeats, HistoryTypes
<1>3. LostTypes' /\ ClusterTypes' /\ HistoryTypes'
  BY <1>1, <1>2, TypeParts DEF LostTypes, ClusterTypes, HistoryTypes, cluster
<1>4. client[c] \in Records /\ client[c].token \in 0 .. MaxTokens
  BY TypeParts DEF ClientTypes, Records
<1>5. CASE Send(c, p, client[c].token) /\ UNCHANGED client
  <2>1. ChannelTypes' /\ ChannelBounds'
    BY <1>1, <1>4, <1>5, SendTypes, Ids
  <2>2. ClientTypes'
    BY <1>5, TypeParts DEF ClientTypes
  <2> QED BY <1>3, <2>1, <2>2, TypesLater
<1>6. CASE /\ client' = [client EXCEPT ![c] = StartClusterMasterClient(@)]
           /\ UNCHANGED << unsent, toServer >>
  <2>1. ClientTypes'
    BY <1>4, <1>6, RestartTypes, ClientStepTypes
  <2>2. ChannelTypes' /\ ChannelBounds'
    BY <1>1, <1>6, TypeParts DEF ChannelTypes, ChannelBounds
  <2> QED BY <1>3, <2>1, <2>2, TypesLater
<1> QED BY <1>5, <1>6 DEF OnTimerSendClusterTokenMessage

LEMMA WaitTypes ==
    ASSUME TypeOK, NEW c \in Clients, NEW s \in Servers, RunWaitClient(c, s)
    PROVE  TypeOK'
<1>1. /\ client' = [client EXCEPT ![c].link[s] = "open"]
      /\ UNCHANGED << channels, cluster, history >>
  BY DEF RunWaitClient
<1>2. client[c] \in Records
  BY TypeParts DEF ClientTypes
<1>3. "open" \in LinkState
  BY DEF LinkState
<1>4. [client[c] EXCEPT !.link[s] = "open"] \in Records
  BY <1>2, <1>3, LinkTypes
<1>5. client' = [client EXCEPT ![c] = [client[c] EXCEPT !.link[s] = "open"]]
  BY <1>1
<1>6. ClientTypes'
  BY <1>4, <1>5, ClientStepTypes
<1>7. ChannelTypes' /\ ChannelBounds' /\ LostTypes'
  BY <1>1, TypeParts DEF ChannelTypes, ChannelBounds, LostTypes, channels
<1>8. ClusterTypes' /\ HistoryTypes'
  BY <1>1, TypeParts DEF ClusterTypes, HistoryTypes, cluster, history
<1> QED BY <1>6, <1>7, <1>8, TypesLater

LEMMA ConnectTypes ==
    ASSUME TypeOK, NEW c \in Clients, NEW s \in Servers, Connect(c, s)
    PROVE  TypeOK'
<1> DEFINE m == [kind |-> "registered"]
           a == Append(toClient[c][s], m)
           q == toServer[c][s] \o unsent[c][s]
<1>1. /\ client' = [client EXCEPT ![c].link[s] = "up"]
      /\ toClient' = [toClient EXCEPT ![c][s] = a]
      /\ toServer' = [toServer EXCEPT ![c][s] = q]
      /\ unsent' = [unsent EXCEPT ![c][s] = << >>]
      /\ UNCHANGED << lost, cluster, history >>
      /\ Len(toClient[c][s]) < MaxChannel
  BY DEF Connect
<1>2. client[c] \in Records
  BY TypeParts DEF ClientTypes
<1>3. ClientTypes'
  <2>1. "up" \in LinkState
    BY DEF LinkState
  <2>2. [client[c] EXCEPT !.link[s] = "up"] \in Records
    BY <1>2, <2>1, LinkTypes
  <2>3. client' = [client EXCEPT ![c] = [client[c] EXCEPT !.link[s] = "up"]]
    BY <1>1
  <2> QED BY <2>2, <2>3, ClientStepTypes
<1>4. ChannelTypes /\ ChannelBounds
  BY TypeParts
<1>5. /\ toClient[c][s] \in Seq(Replies)
      /\ toServer[c][s] \in Seq(Requests) /\ unsent[c][s] \in Seq(Requests)
  BY <1>4 DEF ChannelTypes
<1>6. m \in Replies
  BY DEF Replies
<1> HIDE DEF m
<1>7. a \in Seq(Replies) /\ Len(a) = Len(toClient[c][s]) + 1
  BY <1>5, <1>6, AppendProperties
<1>8. q \in Seq(Requests) /\ Len(q) = Len(toServer[c][s]) + Len(unsent[c][s])
  BY <1>5, ConcatProperties
<1> HIDE DEF a, q
<1>9. << >> \in Seq(Requests) /\ Len(<< >>) = 0
  OBVIOUS
<1>10. /\ toClient' \in [Clients -> [Servers -> Seq(Replies)]]
       /\ toClient'[c][s] = a
       /\ \A d \in Clients, u \in Servers : d # c \/ u # s => toClient'[d][u] = toClient[d][u]
  BY <1>1, <1>4, <1>7, ChannelUpdate DEF ChannelTypes
<1>11. /\ toServer' \in [Clients -> [Servers -> Seq(Requests)]]
       /\ toServer'[c][s] = q
       /\ \A d \in Clients, u \in Servers : d # c \/ u # s => toServer'[d][u] = toServer[d][u]
  BY <1>1, <1>4, <1>8, ChannelUpdate DEF ChannelTypes
<1>12. /\ unsent' \in [Clients -> [Servers -> Seq(Requests)]]
       /\ unsent'[c][s] = << >>
       /\ \A d \in Clients, u \in Servers : d # c \/ u # s => unsent'[d][u] = unsent[d][u]
  BY <1>1, <1>4, <1>9, ChannelUpdate DEF ChannelTypes
<1>13. ChannelTypes'
  BY <1>10, <1>11, <1>12 DEF ChannelTypes
<1>14. /\ Len(unsent'[c][s]) + Len(toServer'[c][s]) <= MaxChannel
       /\ Len(toClient'[c][s]) <= MaxChannel
  <2>1. /\ Len(toServer[c][s]) \in Nat /\ Len(unsent[c][s]) \in Nat /\ Len(toClient[c][s]) \in Nat
        /\ MaxChannel \in Nat
    BY <1>5, AuthAssumption
  <2>2. Len(unsent[c][s]) + Len(toServer[c][s]) <= MaxChannel
    BY <1>4 DEF ChannelBounds
  <2>3. 0 + (Len(toServer[c][s]) + Len(unsent[c][s])) <= MaxChannel
    BY <2>1, <2>2, Joined
  <2>4. Len(toClient[c][s]) + 1 <= MaxChannel
    BY <1>1, <2>1, SMT
  <2> QED BY <1>7, <1>8, <1>9, <1>10, <1>11, <1>12, <2>3, <2>4, Zenon
<1>15. ChannelBounds'
  <2> SUFFICES ASSUME NEW d \in Clients, NEW u \in Servers
               PROVE  /\ Len(unsent'[d][u]) + Len(toServer'[d][u]) <= MaxChannel
                      /\ Len(toClient'[d][u]) <= MaxChannel
    BY DEF ChannelBounds
  <2>1. CASE d = c /\ u = s
    BY <1>14, <2>1
  <2>2. CASE d # c \/ u # s
    BY <1>4, <1>10, <1>11, <1>12, <2>2, Zenon DEF ChannelBounds
  <2> QED BY <2>1, <2>2
<1>16. LostTypes' /\ ClusterTypes' /\ HistoryTypes'
  BY <1>1, TypeParts DEF LostTypes, ClusterTypes, HistoryTypes, cluster, history
<1> QED BY <1>3, <1>13, <1>15, <1>16, TypesLater

LEMMA DisconnectTypes ==
    ASSUME TypeOK, NEW c \in Clients, NEW s \in Servers, OnClientDisconnect(c, s)
    PROVE  TypeOK'
<1>1. /\ lost' = [lost EXCEPT ![c] = @ \ {s}]
      /\ client' = [client EXCEPT ![c] = OnLostClusterServer(@, s)]
      /\ UNCHANGED << unsent, toServer, toClient, cluster, history >>
  BY DEF OnClientDisconnect
<1>2. client[c] \in Records
  BY TypeParts DEF ClientTypes
<1>3. ClientTypes'
  BY <1>1, <1>2, HandlerTypes, ClientStepTypes
<1>4. LostTypes'
  BY <1>1, TypeParts DEF LostTypes
<1>5. ChannelTypes' /\ ChannelBounds'
  BY <1>1, TypeParts DEF ChannelTypes, ChannelBounds
<1>6. ClusterTypes' /\ HistoryTypes'
  BY <1>1, TypeParts DEF ClusterTypes, HistoryTypes, cluster, history
<1> QED BY <1>3, <1>4, <1>5, <1>6, TypesLater

LEMMA ShutDownTypes ==
    ASSUME TypeOK, NEW c \in Clients, NEW s \in Servers, OnClientShutDown(c, s)
    PROVE  TypeOK'
<1>1. /\ client' = [client EXCEPT ![c].link[s] = "none"]
      /\ toClient' = [toClient EXCEPT ![c][s] = << >>]
      /\ unsent' = [unsent EXCEPT ![c][s] = << >>]
      /\ UNCHANGED << toServer, lost, cluster, history >>
  BY DEF OnClientShutDown
<1>2. client[c] \in Records
  BY TypeParts DEF ClientTypes
<1>3. ClientTypes'
  <2>1. "none" \in LinkState
    BY DEF LinkState
  <2>2. [client[c] EXCEPT !.link[s] = "none"] \in Records
    BY <1>2, <2>1, LinkTypes
  <2>3. client' = [client EXCEPT ![c] = [client[c] EXCEPT !.link[s] = "none"]]
    BY <1>1
  <2> QED BY <2>2, <2>3, ClientStepTypes
<1>4. ChannelTypes /\ ChannelBounds
  BY TypeParts
<1>5. << >> \in Seq(Requests) /\ << >> \in Seq(Replies)
  OBVIOUS
<1>6. /\ toClient' \in [Clients -> [Servers -> Seq(Replies)]]
      /\ toClient'[c][s] = << >>
      /\ \A d \in Clients, u \in Servers : d # c \/ u # s => toClient'[d][u] = toClient[d][u]
  BY <1>1, <1>4, <1>5, ChannelUpdate DEF ChannelTypes
<1>7. /\ unsent' \in [Clients -> [Servers -> Seq(Requests)]]
      /\ unsent'[c][s] = << >>
      /\ \A d \in Clients, u \in Servers : d # c \/ u # s => unsent'[d][u] = unsent[d][u]
  BY <1>1, <1>4, <1>5, ChannelUpdate DEF ChannelTypes
<1>8. ChannelTypes'
  BY <1>1, <1>4, <1>6, <1>7 DEF ChannelTypes
<1>9. ASSUME NEW d \in Clients, NEW u \in Servers
      PROVE  /\ Len(unsent'[d][u]) <= Len(unsent[d][u])
             /\ Len(toServer'[d][u]) <= Len(toServer[d][u])
             /\ Len(toClient'[d][u]) <= Len(toClient[d][u])
  <2>1. /\ unsent[d][u] \in Seq(Requests) /\ toServer[d][u] \in Seq(Requests)
        /\ toClient[d][u] \in Seq(Replies)
    BY <1>4 DEF ChannelTypes
  <2>2. unsent'[d][u] \in {unsent[d][u], << >>}
    BY <1>7
  <2>3. toClient'[d][u] \in {toClient[d][u], << >>}
    BY <1>6
  <2>4. toServer'[d][u] = toServer[d][u]
    BY <1>1
  <2>5. /\ Len(unsent[d][u]) \in Nat /\ Len(toServer[d][u]) \in Nat /\ Len(toClient[d][u]) \in Nat
        /\ Len(<< >>) = 0
    BY <2>1
  <2>6. /\ 0 <= Len(unsent[d][u]) /\ Len(unsent[d][u]) <= Len(unsent[d][u])
        /\ 0 <= Len(toClient[d][u]) /\ Len(toClient[d][u]) <= Len(toClient[d][u])
        /\ Len(toServer[d][u]) <= Len(toServer[d][u])
    BY <2>5, SMT
  <2>7. Len(unsent'[d][u]) <= Len(unsent[d][u])
    BY <2>2, <2>5, <2>6, Zenon
  <2>8. Len(toClient'[d][u]) <= Len(toClient[d][u])
    BY <2>3, <2>5, <2>6, Zenon
  <2> QED BY <2>4, <2>6, <2>7, <2>8, Zenon
<1>10. ChannelBounds'
  BY <1>4, <1>8, <1>9, FewerBounds
<1>11. LostTypes' /\ ClusterTypes' /\ HistoryTypes'
  BY <1>1, TypeParts DEF LostTypes, ClusterTypes, HistoryTypes, cluster, history
<1> QED BY <1>3, <1>8, <1>10, <1>11, TypesLater

\* What a client hears has the type of what servers say.
LEMMA MessageTypes ==
    ASSUME NEW r \in Records, NEW s \in Servers, NEW m \in Replies
    PROVE  (CASE m.kind = "registered" -> OnConnectionClusterServer(r, s)
              [] m.kind = "auth"       -> ProcessClusterAuth(r, m)
              [] m.kind = "verify"     -> ProcessClusterVerify(r, m)) \in Records
<1>1. /\ m.kind \in {"registered", "auth", "verify"}
      /\ m.kind = "auth" => m.proxy \in Proxies \cup {0} /\ m.token \in 0 .. MaxTokens
  BY DEF Replies
<1>2. CASE m.kind = "registered"
  <2>1. OnConnectionClusterServer(r, s) \in Records
    BY HandlerTypes
  <2> QED BY <1>2, <2>1
<1>3. CASE m.kind = "auth"
  <2>1. ProcessClusterAuth(r, m) \in Records
    BY <1>1, <1>3, AuthTypes
  <2> QED BY <1>3, <2>1
<1>4. CASE m.kind = "verify"
  <2>1. ProcessClusterVerify(r, m) \in Records
    BY VerifyTypes
  <2> QED BY <1>4, <2>1
<1> QED BY <1>1, <1>2, <1>3, <1>4

\* The oldest message of one direction of a connection is taken.
LEMMA TakeTypes ==
    ASSUME NEW M, NEW f \in [Clients -> [Servers -> Seq(M)]], NEW c \in Clients, NEW s \in Servers,
           f[c][s] # << >>, NEW g, g = [f EXCEPT ![c][s] = Tail(@)]
    PROVE  /\ Head(f[c][s]) \in M
           /\ g \in [Clients -> [Servers -> Seq(M)]]
           /\ g[c][s] = Tail(f[c][s])
           /\ \A d \in Clients, u \in Servers : d # c \/ u # s => g[d][u] = f[d][u]
           /\ \A d \in Clients, u \in Servers : Len(g[d][u]) <= Len(f[d][u])
<1> DEFINE q == Tail(f[c][s])
<1>1. f[c][s] \in Seq(M)
  OBVIOUS
<1>2. Head(f[c][s]) \in M /\ q \in Seq(M) /\ Len(q) <= Len(f[c][s])
  BY <1>1, Shorter
<1>3. g = [f EXCEPT ![c][s] = q]
  OBVIOUS
<1> HIDE DEF q
<1>4. /\ g \in [Clients -> [Servers -> Seq(M)]]
      /\ g[c][s] = q
      /\ \A d \in Clients, u \in Servers : d # c \/ u # s => g[d][u] = f[d][u]
  BY <1>2, <1>3, ChannelUpdate
<1>5. ASSUME NEW d \in Clients, NEW u \in Servers
      PROVE  Len(g[d][u]) <= Len(f[d][u])
  <2>1. CASE d = c /\ u = s
    BY <1>2, <1>4, <2>1
  <2>2. CASE d # c \/ u # s
    <3>1. g[d][u] = f[d][u]
      BY <1>4, <2>2
    <3>2. Len(f[d][u]) \in Nat
      OBVIOUS
    <3>3. Len(f[d][u]) <= Len(f[d][u])
      BY <3>2, SMT
    <3> QED BY <3>1, <3>3, Zenon
  <2> QED BY <2>1, <2>2
<1> QED BY <1>2, <1>4, <1>5 DEF q

LEMMA HearTypes ==
    ASSUME TypeOK, NEW c \in Clients, NEW s \in Servers, HandleClientMessage(c, s)
    PROVE  TypeOK'
<1> DEFINE m == Head(toClient[c][s])
           r == CASE m.kind = "registered" -> OnConnectionClusterServer(client[c], s)
                  [] m.kind = "auth"       -> ProcessClusterAuth(client[c], m)
                  [] m.kind = "verify"     -> ProcessClusterVerify(client[c], m)
<1>1. /\ toClient[c][s] # << >>
      /\ client' = [client EXCEPT ![c] = r]
      /\ toClient' = [toClient EXCEPT ![c][s] = Tail(@)]
      /\ UNCHANGED << unsent, toServer, lost, cluster, history >>
  BY DEF HandleClientMessage
<1>2. client[c] \in Records /\ ChannelTypes /\ ChannelBounds
  BY TypeParts DEF ClientTypes
<1>3. /\ m \in Replies
      /\ toClient' \in [Clients -> [Servers -> Seq(Replies)]]
      /\ \A d \in Clients, u \in Servers : Len(toClient'[d][u]) <= Len(toClient[d][u])
  BY <1>1, <1>2, TakeTypes DEF ChannelTypes
<1> HIDE DEF m
<1>4. r \in Records
  BY <1>2, <1>3, MessageTypes
<1> HIDE DEF r
<1>5. ClientTypes'
  BY <1>1, <1>4, ClientStepTypes
<1>6. ChannelTypes'
  BY <1>1, <1>2, <1>3 DEF ChannelTypes
<1>7. ASSUME NEW d \in Clients, NEW u \in Servers
      PROVE  Len(unsent'[d][u]) <= Len(unsent[d][u]) /\ Len(toServer'[d][u]) <= Len(toServer[d][u])
  <2>1. Len(unsent[d][u]) \in Nat /\ Len(toServer[d][u]) \in Nat
    BY <1>2 DEF ChannelTypes
  <2>2. Len(unsent[d][u]) <= Len(unsent[d][u]) /\ Len(toServer[d][u]) <= Len(toServer[d][u])
    BY <2>1, SMT
  <2> QED BY <1>1, <2>2
<1>8. ChannelBounds'
  BY <1>2, <1>3, <1>6, <1>7, FewerBounds
<1>9. LostTypes' /\ ClusterTypes' /\ HistoryTypes'
  BY <1>1, TypeParts DEF LostTypes, ClusterTypes, HistoryTypes, cluster, history
<1> QED BY <1>5, <1>6, <1>8, <1>9, TypesLater

-----------------------------------------------------------------------------
(* The steps of the cluster. *)

\* A request is taken and perhaps answered.
LEMMA TakeReplyTypes ==
    ASSUME TypeOK, NEW c \in Clients, NEW s \in Servers, NEW to, NEW m \in Replies,
           toServer[c][s] # << >>, toServer' = [toServer EXCEPT ![c][s] = Tail(@)],
           Reply(s, to, m), UNCHANGED << client, unsent, lost >>
    PROVE  ClientTypes' /\ ChannelTypes' /\ ChannelBounds' /\ LostTypes'
<1>1. ChannelTypes /\ ChannelBounds
  BY TypeParts
<1>2. /\ toServer' \in [Clients -> [Servers -> Seq(Requests)]]
      /\ \A d \in Clients, u \in Servers : Len(toServer'[d][u]) <= Len(toServer[d][u])
  BY <1>1, TakeTypes DEF ChannelTypes
<1>3. ClientTypes' /\ LostTypes'
  BY TypeParts DEF ClientTypes, LostTypes
<1>4. ASSUME NEW d \in Clients, NEW u \in Servers
      PROVE  Len(unsent'[d][u]) + Len(toServer'[d][u]) <= MaxChannel
  <2>1. /\ Len(unsent[d][u]) \in Nat /\ Len(toServer[d][u]) \in Nat /\ MaxChannel \in Nat
        /\ Len(unsent[d][u]) <= Len(unsent[d][u])
    <3>1. Len(unsent[d][u]) \in Nat /\ Len(toServer[d][u]) \in Nat
      BY <1>1 DEF ChannelTypes
    <3>2. MaxChannel \in Nat
      BY AuthAssumption
    <3>3. Len(unsent[d][u]) <= Len(unsent[d][u])
      BY <3>1, SMT
    <3> QED BY <3>1, <3>2, <3>3
  <2>2. Len(unsent[d][u]) + Len(toServer[d][u]) <= MaxChannel
    BY <1>1 DEF ChannelBounds
  <2>3. Len(toServer'[d][u]) \in Nat /\ Len(toServer'[d][u]) <= Len(toServer[d][u])
    BY <1>2
  <2>4. Len(unsent[d][u]) + Len(toServer'[d][u]) <= MaxChannel
    BY <2>1, <2>2, <2>3, NoLonger
  <2> QED BY <2>4
<1>5. CASE UNCHANGED toClient
  <2>1. ChannelTypes'
    BY <1>1, <1>2, <1>5 DEF ChannelTypes
  <2>2. ChannelBounds'
    BY <1>1, <1>4, <1>5 DEF ChannelBounds
  <2> QED BY <1>3, <2>1, <2>2
<1>6. CASE /\ to \in Clients /\ Len(toClient[to][s]) < MaxChannel
           /\ toClient' = [toClient EXCEPT ![to][s] = Append(@, m)]
  <2> DEFINE q == Append(toClient[to][s], m)
  <2>1. toClient[to][s] \in Seq(Replies)
    BY <1>1, <1>6 DEF ChannelTypes
  <2>2. q \in Seq(Replies) /\ Len(q) = Len(toClient[to][s]) + 1
    BY <2>1, AppendProperties
  <2>3. toClient' = [toClient EXCEPT ![to][s] = q]
    BY <1>6
  <2> HIDE DEF q
  <2>4. /\ toClient' \in [Clients -> [Servers -> Seq(Replies)]]
        /\ toClient'[to][s] = q
        /\ \A d \in Clients, u \in Servers : d # to \/ u # s => toClient'[d][u] = toClient[d][u]
    BY <1>1, <1>6, <2>2, <2>3, ChannelUpdate DEF ChannelTypes
  <2>5. Len(q) <= MaxChannel
    <3>1. Len(toClient[to][s]) \in Nat /\ MaxChannel \in Nat
      BY <2>1, AuthAssumption
    <3> QED BY <1>6, <2>2, <3>1, SMT
  <2>6. ChannelTypes'
    BY <1>1, <1>2, <2>4 DEF ChannelTypes
  <2>7. ASSUME NEW d \in Clients, NEW u \in Servers
        PROVE  Len(toClient'[d][u]) <= MaxChannel
    <3>1. CASE d = to /\ u = s
      BY <2>4, <2>5, <3>1, Zenon
    <3>2. CASE d # to \/ u # s
      BY <1>1, <2>4, <3>2, Zenon DEF ChannelBounds
    <3> QED BY <3>1, <3>2
  <2>8. ChannelBounds'
    BY <1>4, <2>7 DEF ChannelBounds
  <2> QED BY <1>3, <2>6, <2>8
<1> QED BY <1>5, <1>6 DEF Reply

LEMMA AuthReqTypes ==
    ASSUME TypeOK, NEW c \in Clients, HandleClusterAuthReq(c)
    PROVE  TypeOK'
<1> DEFINE handleid == Low(Head(toServer[c][Master]).from)
<1>1. /\ toServer[c][Master] # << >>
      /\ toServer' = [toServer EXCEPT ![c][Master] = Tail(@)]
      /\ UNCHANGED << client, unsent, lost, alive, inService, updates, gone, listed, tokens,
                      granted, failures, repeats >>
  BY DEF HandleClusterAuthReq
<1>2. handleid \in Nat
  <2>1. toServer[c][Master] \in Seq(Requests)
    BY TypeParts, Ids DEF ChannelTypes
  <2>2. Head(toServer[c][Master]) \in Requests
    BY <1>1, <2>1, Shorter
  <2>3. Head(toServer[c][Master]).from \in Nat
    BY <2>2, Ids DEF Requests
  <2> QED BY <2>3, LowTypes
<1>3. CASE /\ Reply(Master, handleid, [kind |-> "auth", proxy |-> 0, token |-> 0])
           /\ UNCHANGED << tokenReqs, accepted >>
  <2>1. [kind |-> "auth", proxy |-> 0, token |-> 0] \in Replies
    BY AuthAssumption DEF Replies
  <2>2. ClientTypes' /\ ChannelTypes' /\ ChannelBounds' /\ LostTypes'
    BY <1>1, <1>3, <2>1, TakeReplyTypes, Ids
  <2>3. ClusterTypes' /\ HistoryTypes'
    BY <1>1, <1>3, TypeParts DEF ClusterTypes, HistoryTypes
  <2> QED BY <2>2, <2>3, TypesLater
<1>4. ASSUME NEW p \in listed, NEW t \in Fresh,
             Reply(Master, handleid, [kind |-> "auth", proxy |-> p, token |-> t]),
             accepted' = accepted \ {t},
             IF p \in alive
             THEN /\ Len(tokenReqs[p]) < MaxChannel
                  /\ tokenReqs' = [tokenReqs EXCEPT ![p] = Append(@, [token |-> t, gate |-> handleid])]
             ELSE UNCHANGED tokenReqs
      PROVE  TypeOK'
  <2>1. p \in Proxies /\ t \in 1 .. MaxTokens
    BY TypeParts DEF ClusterTypes, Fresh
  <2>2. t \in 0 .. MaxTokens
    BY <2>1
  <2>3. [kind |-> "auth", proxy |-> p, token |-> t] \in Replies
    BY <2>1, <2>2 DEF Replies
  <2>4. ClientTypes' /\ ChannelTypes' /\ ChannelBounds' /\ LostTypes'
    BY <1>1, <1>4, <2>3, TakeReplyTypes, Ids
  <2>5. tokenReqs \in [Proxies -> Seq([token : 1 .. MaxTokens, gate : Nat])]
    BY TypeParts DEF ClusterTypes
  <2>6. tokenReqs' \in [Proxies -> Seq([token : 1 .. MaxTokens, gate : Nat])]
    <3> DEFINE q == Append(tokenReqs[p], [token |-> t, gate |-> handleid])
    <3>1. q \in Seq([token : 1 .. MaxTokens, gate : Nat])
      <4> HIDE DEF handleid
      <4>1. [token |-> t, gate |-> handleid] \in [token : 1 .. MaxTokens, gate : Nat]
        BY <1>2, <2>1
      <4>2. tokenReqs[p] \in Seq([token : 1 .. MaxTokens, gate : Nat])
        BY <2>1, <2>5
      <4> QED BY <4>1, <4>2, AppendProperties
    <3>2. tokenReqs' \in {tokenReqs, [tokenReqs EXCEPT ![p] = q]}
      BY <1>4
    <3> HIDE DEF q
    <3> QED BY <2>1, <2>5, <3>1, <3>2
  <2>7. ClusterTypes' /\ HistoryTypes'
    BY <1>1, <1>4, <2>6, TypeParts DEF ClusterTypes, HistoryTypes
  <2> QED BY <2>4, <2>7, TypesLater
<1> QED BY <1>3, <1>4 DEF HandleClusterAuthReq

LEMMA VerifyReqTypes ==
    ASSUME TypeOK, NEW c \in Clients, NEW p \in Proxies, HandleClusterVerifyReq(c, p)
    PROVE  TypeOK'
<1> DEFINE m == Head(toServer[c][p])
           found == ClusterVerifyLogin(p, m.token, c)
           id == Low(found)
<1>1. /\ toServer[c][p] # << >>
      /\ toServer' = [toServer EXCEPT ![c][p] = Tail(@)]
      /\ tokens' = [tokens EXCEPT ![p] = {t \in @ : t.token # m.token}]
      /\ Reply(p, m.from, [kind |-> "verify", id |-> id])
      /\ granted' = [granted EXCEPT ![c] = IF id # 0 THEN @ \cup {p} ELSE @]
      /\ accepted' = IF id # 0 THEN accepted \cup {m.token} ELSE accepted
      /\ UNCHANGED << client, unsent, lost, alive, inService, updates, gone, listed, tokenReqs,
                      failures, repeats >>
  BY DEF HandleClusterVerifyReq, Answer
<1> HIDE DEF m
<1>2. found \in Nat /\ (found # 0 => [token |-> m.token, gate |-> c] \in tokens[p])
  BY Ids DEF ClusterVerifyLogin
<1>3. m.token \in 1 .. MaxTokens \/ found = 0
  <2>1. tokens[p] \subseteq [token : 1 .. MaxTokens, gate : Nat]
    BY TypeParts DEF ClusterTypes
  <2>2. [token |-> m.token, gate |-> c].token = m.token
    OBVIOUS
  <2> QED BY <1>2, <2>1, <2>2
<1> HIDE DEF found
<1>4. id \in Nat /\ (found = 0 => id = 0)
  BY <1>2, LowTypes
<1> HIDE DEF id
<1>5. [kind |-> "verify", id |-> id] \in Replies
  BY <1>4 DEF Replies
<1>6. ClientTypes' /\ ChannelTypes' /\ ChannelBounds' /\ LostTypes'
  BY <1>1, <1>5, TakeReplyTypes, Ids
<1>7. ClusterTypes'
  BY <1>1, TypeParts DEF ClusterTypes
<1>8. HistoryTypes'
  <2>1. accepted' \subseteq 1 .. MaxTokens
    BY <1>1, <1>3, <1>4, TypeParts DEF HistoryTypes
  <2>2. granted' \in [Clients -> SUBSET Proxies]
    BY <1>1, TypeParts DEF HistoryTypes
  <2> QED BY <1>1, <2>1, <2>2, TypeParts DEF HistoryTypes
<1> QED BY <1>6, <1>7, <1>8, TypesLater

LEMMA TokenReqTypes ==
    ASSUME TypeOK, NEW p \in Proxies, HandleClusterTokenReq(p)
    PROVE  TypeOK'
<1>1. /\ tokenReqs[p] # << >>
      /\ tokens' = [tokens EXCEPT ![p] = @ \cup {Head(tokenReqs[p])}]
      /\ tokenReqs' = [tokenReqs EXCEPT ![p] = Tail(@)]
      /\ UNCHANGED << client, channels, alive, inService, updates, gone, listed, history >>
  BY DEF HandleClusterTokenReq
<1>2. tokenReqs \in [Proxies -> Seq([token : 1 .. MaxTokens, gate : Nat])]
  BY TypeParts DEF ClusterTypes
<1>3. /\ Head(tokenReqs[p]) \in [token : 1 .. MaxTokens, gate : Nat]
      /\ Tail(tokenReqs[p]) \in Seq([token : 1 .. MaxTokens, gate : Nat])
  <2>1. tokenReqs[p] \in Seq([token : 1 .. MaxTokens, gate : Nat])
    BY <1>2
  <2> QED BY <1>1, <2>1, Shorter
<1>4. tokenReqs' \in [Proxies -> Seq([token : 1 .. MaxTokens, gate : Nat])]
  BY <1>1, <1>2, <1>3
<1>5. tokens' \in [Proxies -> SUBSET [token : 1 .. MaxTokens, gate : Nat]]
  BY <1>1, <1>3, TypeParts DEF ClusterTypes
<1>6. ClusterTypes'
  BY <1>1, <1>4, <1>5, TypeParts DEF ClusterTypes
<1>7. ClientTypes' /\ ChannelTypes' /\ ChannelBounds' /\ LostTypes' /\ HistoryTypes'
  BY <1>1, TypeParts DEF ClientTypes, ChannelTypes, ChannelBounds, LostTypes, HistoryTypes,
                         channels, history
<1> QED BY <1>6, <1>7, TypesLater

\* The other steps of a proxy and of the master's lists.
LEMMA ListStepTypes ==
    ASSUME TypeOK, NEW p \in Proxies,
           \/ OnClientConnectionClusterShard(p) \/ OnTimerSendClusterUpdateMessage(p)
           \/ HandleClusterUpdateReq(p) \/ OnServerLostClusterProxy(p)
           \/ RunRemoveClusterToken(p) \/ Restart(p)
    PROVE  TypeOK'
<1> USE DEF OnClientConnectionClusterShard, OnTimerSendClusterUpdateMessage, HandleClusterUpdateReq,
            OnServerLostClusterProxy, RunRemoveClusterToken, Restart
<1>1. UNCHANGED << client, channels, tokenReqs, history >>
  OBVIOUS
<1>2. ClientTypes' /\ ChannelTypes' /\ ChannelBounds' /\ LostTypes' /\ HistoryTypes'
  BY <1>1, TypeParts DEF ClientTypes, ChannelTypes, ChannelBounds, LostTypes, HistoryTypes,
                         channels, history
<1>3. /\ alive' \subseteq Proxies /\ inService' \subseteq Proxies /\ updates' \subseteq Proxies
      /\ gone' \subseteq Proxies /\ listed' \subseteq Proxies
  BY TypeParts DEF ClusterTypes
<1>4. tokens' \in [Proxies -> SUBSET [token : 1 .. MaxTokens, gate : Nat]]
  BY TypeParts DEF ClusterTypes
<1>5. ClusterTypes'
  BY <1>1, <1>3, <1>4, TypeParts DEF ClusterTypes
<1> QED BY <1>2, <1>5, TypesLater

-----------------------------------------------------------------------------
(* Failures. *)

LEMMA OneMoreFailure ==
    ASSUME TypeOK, failures < MaxFailures, failures' = failures + 1
    PROVE  failures' \in 0 .. MaxFailures
BY TypeParts, AuthAssumption DEF HistoryTypes

LEMMA PrefixTypes ==
    ASSUME NEW M, NEW q \in Seq(M), NEW x \in Prefixes(q)
    PROVE  x \in Seq(M) /\ Len(x) <= Len(q)
BY Shorter DEF Prefixes

LEMMA BreakTypes ==
    ASSUME TypeOK, NEW c \in Clients, NEW s \in Servers, Break(c, s)
    PROVE  TypeOK'
<1>1. PICK in \in Prefixes(toServer[c][s]) : toServer' = [toServer EXCEPT ![c][s] = in]
  BY DEF Break
<1>2. PICK out \in Prefixes(toClient[c][s]) : toClient' = [toClient EXCEPT ![c][s] = out]
  BY DEF Break
<1>3. /\ client' = [client EXCEPT ![c].link[s] = "open"]
      /\ lost' = [lost EXCEPT ![c] = @ \cup {s}]
      /\ UNCHANGED << unsent, cluster, granted, accepted, repeats >>
      /\ failures' \in 0 .. MaxFailures
  BY OneMoreFailure DEF Break
<1>4. ChannelTypes /\ ChannelBounds /\ client[c] \in Records
  BY TypeParts DEF ClientTypes
<1>5. toServer[c][s] \in Seq(Requests) /\ toClient[c][s] \in Seq(Replies)
  BY <1>4 DEF ChannelTypes
<1>6. in \in Seq(Requests) /\ Len(in) <= Len(toServer[c][s])
  BY <1>5, PrefixTypes
<1>7. out \in Seq(Replies) /\ Len(out) <= Len(toClient[c][s])
  BY <1>5, PrefixTypes
<1>8. /\ toServer' \in [Clients -> [Servers -> Seq(Requests)]]
      /\ toServer'[c][s] = in
      /\ \A d \in Clients, u \in Servers : d # c \/ u # s => toServer'[d][u] = toServer[d][u]
  BY <1>1, <1>4, <1>6, ChannelUpdate DEF ChannelTypes
<1>9. /\ toClient' \in [Clients -> [Servers -> Seq(Replies)]]
      /\ toClient'[c][s] = out
      /\ \A d \in Clients, u \in Servers : d # c \/ u # s => toClient'[d][u] = toClient[d][u]
  BY <1>2, <1>4, <1>7, ChannelUpdate DEF ChannelTypes
<1>10. ChannelTypes'
  BY <1>3, <1>4, <1>8, <1>9 DEF ChannelTypes
<1>11. ASSUME NEW d \in Clients, NEW u \in Servers
       PROVE  /\ Len(unsent'[d][u]) <= Len(unsent[d][u])
              /\ Len(toServer'[d][u]) <= Len(toServer[d][u])
              /\ Len(toClient'[d][u]) <= Len(toClient[d][u])
  <2>1. /\ Len(unsent[d][u]) \in Nat /\ Len(toServer[d][u]) \in Nat /\ Len(toClient[d][u]) \in Nat
    BY <1>4 DEF ChannelTypes
  <2>2. /\ Len(unsent[d][u]) <= Len(unsent[d][u])
        /\ Len(toServer[d][u]) <= Len(toServer[d][u])
        /\ Len(toClient[d][u]) <= Len(toClient[d][u])
    BY <2>1, SMT
  <2>3. unsent'[d][u] = unsent[d][u]
    BY <1>3
  <2>4. Len(toServer'[d][u]) <= Len(toServer[d][u])
    BY <1>6, <1>8, <2>2, Zenon
  <2>5. Len(toClient'[d][u]) <= Len(toClient[d][u])
    BY <1>7, <1>9, <2>2, Zenon
  <2> QED BY <2>2, <2>3, <2>4, <2>5, Zenon
<1>12. ChannelBounds'
  BY <1>4, <1>10, <1>11, FewerBounds
<1>13. ClientTypes'
  <2>1. "open" \in LinkState
    BY DEF LinkState
  <2>2. [client[c] EXCEPT !.link[s] = "open"] \in Records
    BY <1>4, <2>1, LinkTypes
  <2>3. client' = [client EXCEPT ![c] = [client[c] EXCEPT !.link[s] = "open"]]
    BY <1>3
  <2> QED BY <2>2, <2>3, ClientStepTypes
<1>14. LostTypes'
  BY <1>3, TypeParts DEF LostTypes
<1>15. ClusterTypes' /\ HistoryTypes'
  BY <1>3, TypeParts DEF ClusterTypes, HistoryTypes, cluster
<1> QED BY <1>10, <1>12, <1>13, <1>14, <1>15, TypesLater

LEMMA CancelTypes ==
    ASSUME TypeOK, NEW c \in Clients, NEW s \in Servers, CancelledWrite(c, s)
    PROVE  TypeOK'
<1>1. /\ lost' = [lost EXCEPT ![c] = @ \cup {s}]
      /\ UNCHANGED << client, unsent, toServer, toClient, cluster, granted, accepted, repeats >>
      /\ failures' \in 0 .. MaxFailures
  BY OneMoreFailure DEF CancelledWrite
<1>2. ClientTypes' /\ ChannelTypes' /\ ChannelBounds'
  BY <1>1, TypeParts DEF ClientTypes, ChannelTypes, ChannelBounds
<1>3. LostTypes'
  BY <1>1, TypeParts DEF LostTypes
<1>4. ClusterTypes' /\ HistoryTypes'
  BY <1>1, TypeParts DEF ClusterTypes, HistoryTypes, cluster
<1> QED BY <1>2, <1>3, <1>4, TypesLater

LEMMA CrashTypes ==
    ASSUME TypeOK, NEW p \in Proxies, Crash(p)
    PROVE  TypeOK'
<1>1. /\ client' = [c \in Clients |-> [client[c] EXCEPT !.link[p] = IF @ = "up" THEN "open" ELSE @]]
      /\ lost' = [c \in Clients |-> IF client[c].link[p] = "up" THEN lost[c] \cup {p} ELSE lost[c]]
      /\ toServer' = [c \in Clients |-> [toServer[c] EXCEPT ![p] = << >>]]
      /\ tokens' = [tokens EXCEPT ![p] = {}]
      /\ tokenReqs' = [tokenReqs EXCEPT ![p] = << >>]
      /\ UNCHANGED << unsent, toClient, listed, granted, accepted, repeats >>
      /\ failures' \in 0 .. MaxFailures
  BY OneMoreFailure DEF Crash
<1>2. ChannelTypes /\ ChannelBounds /\ p \in Servers
  BY TypeParts, Ids
<1>3. ClientTypes'
  <2>1. ASSUME NEW c \in Clients
        PROVE  [client[c] EXCEPT !.link[p] = IF @ = "up" THEN "open" ELSE @] \in Records
    <3> DEFINE l == IF client[c].link[p] = "up" THEN "open" ELSE client[c].link[p]
    <3>1. client[c] \in Records
      BY TypeParts DEF ClientTypes
    <3>2. l \in LinkState
      BY <1>2, <3>1 DEF Records, LinkState
    <3>3. [client[c] EXCEPT !.link[p] = IF @ = "up" THEN "open" ELSE @] = [client[c] EXCEPT !.link[p] = l]
      OBVIOUS
    <3> HIDE DEF l
    <3> QED BY <1>2, <3>1, <3>2, <3>3, LinkTypes
  <2> QED BY <1>1, <2>1 DEF ClientTypes
<1>4. LostTypes'
  BY <1>1, <1>2, TypeParts DEF LostTypes
<1>5. toServer' \in [Clients -> [Servers -> Seq(Requests)]]
  <2>1. << >> \in Seq(Requests)
    OBVIOUS
  <2> QED BY <1>1, <1>2, <2>1 DEF ChannelTypes
<1>6. ChannelTypes'
  BY <1>1, <1>2, <1>5 DEF ChannelTypes
<1>7. ASSUME NEW d \in Clients, NEW u \in Servers
      PROVE  /\ Len(unsent'[d][u]) <= Len(unsent[d][u])
             /\ Len(toServer'[d][u]) <= Len(toServer[d][u])
             /\ Len(toClient'[d][u]) <= Len(toClient[d][u])
  <2>1. /\ Len(unsent[d][u]) \in Nat /\ Len(toServer[d][u]) \in Nat /\ Len(toClient[d][u]) \in Nat
        /\ Len(<< >>) = 0
    BY <1>2 DEF ChannelTypes
  <2>2. /\ Len(unsent[d][u]) <= Len(unsent[d][u]) /\ 0 <= Len(toServer[d][u])
        /\ Len(toServer[d][u]) <= Len(toServer[d][u])
        /\ Len(toClient[d][u]) <= Len(toClient[d][u])
    BY <2>1, SMT
  <2>3. toServer'[d][u] \in {toServer[d][u], << >>}
    <3>1. toServer[d] \in [Servers -> Seq(Requests)] /\ toServer'[d] = [toServer[d] EXCEPT ![p] = << >>]
      BY <1>1, <1>2 DEF ChannelTypes
    <3> QED BY <3>1
  <2>4. Len(toServer'[d][u]) <= Len(toServer[d][u])
    BY <2>1, <2>2, <2>3, Zenon
  <2> QED BY <1>1, <2>2, <2>4, Zenon
<1>8. ChannelBounds'
  BY <1>2, <1>6, <1>7, FewerBounds
<1>9. ClusterTypes'
  <2>1. /\ alive' \subseteq Proxies /\ inService' \subseteq Proxies
        /\ gone' \subseteq Proxies /\ updates' \subseteq Proxies
    BY TypeParts DEF Crash, ClusterTypes
  <2>2. tokens' \in [Proxies -> SUBSET [token : 1 .. MaxTokens, gate : Nat]]
    BY <1>1, TypeParts DEF ClusterTypes
  <2>3. tokenReqs' \in [Proxies -> Seq([token : 1 .. MaxTokens, gate : Nat])]
    <3>1. << >> \in Seq([token : 1 .. MaxTokens, gate : Nat])
      OBVIOUS
    <3> QED BY <1>1, <3>1, TypeParts DEF ClusterTypes
  <2> QED BY <1>1, <2>1, <2>2, <2>3, TypeParts DEF ClusterTypes
<1>10. HistoryTypes'
  BY <1>1, TypeParts DEF HistoryTypes
<1> QED BY <1>3, <1>4, <1>6, <1>8, <1>9, <1>10, TypesLater

LEMMA StutterTypes ==
    ASSUME TypeOK, UNCHANGED vars
    PROVE  TypeOK'
<1>1. ClientTypes' /\ ChannelTypes' /\ ChannelBounds' /\ LostTypes'
  BY TypeParts DEF ClientTypes, ChannelTypes, ChannelBounds, LostTypes, vars, channels
<1>2. ClusterTypes' /\ HistoryTypes'
  BY TypeParts DEF ClusterTypes, HistoryTypes, vars, cluster, history
<1> QED BY <1>1, <1>2, TypesLater

LEMMA NextTypes == TypeOK /\ [Next]_vars => TypeOK'
<1> SUFFICES ASSUME TypeOK, [Next]_vars PROVE TypeOK'
  OBVIOUS
<1>1. ASSUME NEW c \in Clients, NEW s \in Servers, ClientStep(c, s) \/ Connect(c, s)
      PROVE  TypeOK'
  BY <1>1, WaitTypes, DisconnectTypes, ShutDownTypes, HearTypes, ConnectTypes DEF ClientStep
<1>2. CASE Failure
  BY <1>2, BreakTypes, CancelTypes, CrashTypes, ListStepTypes DEF Failure
<1>3. ASSUME NEW c \in Clients, OnTimerSendClusterAuthMessage(c) \/ HandleClusterAuthReq(c)
      PROVE  TypeOK'
  BY <1>3, AuthTimerTypes, AuthReqTypes
<1>4. ASSUME NEW c \in Clients, NEW p \in Proxies,
             OnTimerSendClusterTokenMessage(c, p) \/ HandleClusterVerifyReq(c, p)
      PROVE  TypeOK'
  BY <1>4, TokenTimerTypes, VerifyReqTypes
<1>5. ASSUME NEW p \in Proxies,
             \/ OnClientConnectionClusterShard(p) \/ OnTimerSendClusterUpdateMessage(p)
             \/ HandleClusterUpdateReq(p) \/ OnServerLostClusterProxy(p)
             \/ HandleClusterTokenReq(p) \/ RunRemoveClusterToken(p)
      PROVE  TypeOK'
  BY <1>5, TokenReqTypes, ListStepTypes
<1> QED BY <1>1, <1>2, <1>3, <1>4, <1>5, StutterTypes DEF Next

\* The queues of every connection, the records of every client, the tables of the
\* master and the proxies: for any clients and proxies they hold what the handlers
\* put there, and no queue grows past its bound.
THEOREM ClusterTyped == Spec => []TypeOK
BY InitTypes, NextTypes, PTL DEF Spec

-----------------------------------------------------------------------------
(* Joining. *)

\* A client with record r and what servers sent it, in, is on its way back.
Registered(in) == \E i \in 1 .. Len(in) : in[i].kind = "registered"

Trying(r, in) ==
    \/ r.service \/ r.auth \/ r.timers # {} \/ r.refused
    \/ \E s \in Servers : \/ r.link[s] \in {"wait", "open"}
                          \/ r.link[s] = "up" /\ Registered(in[s])

LEMMA KeepsJoiningIs == KeepsJoining <=> \A c \in Clients : Trying(client[c], toClient[c])
BY DEF KeepsJoining, Trying, Registered

\* A started connection is made or refused.
LEMMA StartTries ==
    ASSUME NEW r \in Records, NEW s \in Servers, NEW in
    PROVE  Trying(StartClient(r, s), in)
<1>1. CASE Known(r, s) /\ r.link[s] # "open"
  <2>1. StartClient(r, s).refused
    BY <1>1 DEF StartClient, Records
  <2> QED BY <2>1 DEF Trying
<1>2. CASE Known(r, s) /\ r.link[s] = "open"
  <2>1. StartClient(r, s).link[s] = "open"
    BY <1>2 DEF StartClient, Records
  <2> QED BY <2>1 DEF Trying
<1>3. CASE ~ Known(r, s)
  <2>1. StartClient(r, s).link[s] = "wait"
    BY <1>3 DEF StartClient, Records
  <2> QED BY <2>1 DEF Trying
<1> QED BY <1>1, <1>2, <1>3

LEMMA RestartTries ==
    ASSUME NEW r \in Records, NEW in
    PROVE  Trying(StartClusterMasterClient(r), in)
<1> DEFINE x == CloseClient(r, r.proxy)
           y == [x EXCEPT !.proxy = 0, !.service = FALSE]
<1>1. x \in Records
  BY CloseTypes
<1> HIDE DEF x
<1>2. y \in Records
  BY <1>1 DEF Records
<1>3. StartClusterMasterClient(r) = StartClient(y, Master)
  BY DEF StartClusterMasterClient, x
<1> HIDE DEF y
<1> QED BY <1>2, <1>3, StartTries, Ids

LEMMA AuthTries ==
    ASSUME NEW r \in Records, NEW in, Trying(r, in),
           NEW m, m.proxy \in Proxies \cup {0}, m.token \in 0 .. MaxTokens
    PROVE  Trying(ProcessClusterAuth(r, m), in)
<1> DEFINE x == CloseClient(r, Master)
           y == [x EXCEPT !.auth = FALSE, !.token = m.token, !.proxy = m.proxy]
<1>1. x \in Records
  BY CloseTypes
<1> HIDE DEF x
<1>2. y \in Records
  BY <1>1 DEF Records
<1>3. CASE m.proxy = 0
  BY <1>3 DEF ProcessClusterAuth
<1>4. CASE m.proxy # 0
  <2>1. ProcessClusterAuth(r, m) = StartClient(y, m.proxy)
    BY <1>4 DEF ProcessClusterAuth, x
  <2>2. m.proxy \in Servers
    BY <1>4, Ids
  <2> HIDE DEF y
  <2> QED BY <1>2, <2>1, <2>2, StartTries
<1> QED BY <1>3, <1>4

LEMMA VerifyTries ==
    ASSUME NEW r \in Records, NEW m, NEW in
    PROVE  Trying(ProcessClusterVerify(r, m), in)
<1> DEFINE x == [r EXCEPT !.timers = @ \ {r.proxy}]
<1>1. x \in Records
  BY DEF Records
<1>2. ProcessClusterVerify(r, m) =
        IF m.id # 0 THEN [x EXCEPT !.service = TRUE] ELSE StartClusterMasterClient(x)
  BY DEF ProcessClusterVerify
<1> HIDE DEF x
<1>3. [x EXCEPT !.service = TRUE].service
  BY <1>1 DEF Records
<1>4. Trying([x EXCEPT !.service = TRUE], in)
  BY <1>3 DEF Trying
<1> QED BY <1>1, <1>2, <1>4, RestartTries

\* A connection's acknowledgement makes the client ask.
LEMMA RegisteredTries ==
    ASSUME NEW r \in Records, NEW s \in Servers, NEW in
    PROVE  Trying(OnConnectionClusterServer(r, s), in)
<1>1. \/ OnConnectionClusterServer(r, s).auth
      \/ OnConnectionClusterServer(r, s).timers # {}
  BY DEF OnConnectionClusterServer, Records
<1> QED BY <1>1 DEF Trying

\* What is read from a connection is no acknowledgement, or it is handled.
LEMMA StillRegistered ==
    ASSUME NEW q \in Seq(Replies), q # << >>, Head(q).kind # "registered", Registered(q)
    PROVE  Registered(Tail(q))
<1>1. PICK i \in 1 .. Len(q) : q[i].kind = "registered"
  BY DEF Registered
<1>2. /\ Len(q) \in Nat /\ Len(Tail(q)) = Len(q) - 1 /\ Head(q) = q[1]
      /\ \A k \in 1 .. Len(Tail(q)) : Tail(q)[k] = q[k + 1]
  BY HeadTailProperties
<1>3. i # 1
  BY <1>1, <1>2
<1>4. i - 1 \in 1 .. Len(Tail(q)) /\ Tail(q)[i - 1] = q[i]
  BY <1>2, <1>3
<1> QED BY <1>1, <1>4 DEF Registered

\* More messages, the same record.
LEMMA MoreIsTrying ==
    ASSUME NEW r \in Records, NEW in, NEW out, Trying(r, in),
           \A s \in Servers : r.link[s] = "up" /\ Registered(in[s]) => Registered(out[s])
    PROVE  Trying(r, out)
BY DEF Trying

LEMMA AppendRegistered ==
    ASSUME NEW q \in Seq(Replies), NEW m \in Replies, Registered(q)
    PROVE  Registered(Append(q, m))
BY DEF Registered

-----------------------------------------------------------------------------
\* One client's record and messages change.
LEMMA OneTries ==
    ASSUME TypeOK, KeepsJoining, NEW c \in Clients, NEW r, NEW in,
           client' = [client EXCEPT ![c] = r], toClient' = [toClient EXCEPT ![c] = in],
           Trying(r, in)
    PROVE  KeepsJoining'
<1>1. DOMAIN client = Clients /\ DOMAIN toClient = Clients
  BY TypeParts DEF ClientTypes, ChannelTypes
<1>2. \A d \in Clients : Trying(client'[d], toClient'[d])
  BY <1>1, KeepsJoiningIs
<1>3. KeepsJoining' <=> \A d \in Clients : Trying(client'[d], toClient'[d])
  BY DEF KeepsJoining, Trying, Registered
<1> QED BY <1>2, <1>3

\* Only what clients are told changes, and nothing that waits for them is lost.
LEMMA ToldTries ==
    ASSUME TypeOK, KeepsJoining, UNCHANGED client,
           \A c \in Clients, s \in Servers :
              client[c].link[s] = "up" /\ Registered(toClient[c][s]) => Registered(toClient'[c][s])
    PROVE  KeepsJoining'
<1>1. \A c \in Clients : client[c] \in Records /\ Trying(client[c], toClient[c])
  BY TypeParts, KeepsJoiningIs DEF ClientTypes
<1>2. \A c \in Clients : Trying(client'[c], toClient'[c])
  BY <1>1, MoreIsTrying
<1>3. KeepsJoining' <=> \A c \in Clients : Trying(client'[c], toClient'[c])
  BY DEF KeepsJoining, Trying, Registered
<1> QED BY <1>2, <1>3

LEMMA ReplyTries ==
    ASSUME TypeOK, KeepsJoining, NEW s \in Servers, NEW to, NEW m \in Replies,
           Reply(s, to, m), UNCHANGED client
    PROVE  KeepsJoining'
<1>1. toClient \in [Clients -> [Servers -> Seq(Replies)]]
  BY TypeParts DEF ChannelTypes
<1>2. CASE UNCHANGED toClient
  BY <1>2, ToldTries
<1>3. CASE to \in Clients /\ toClient' = [toClient EXCEPT ![to][s] = Append(@, m)]
  <2> DEFINE q == Append(toClient[to][s], m)
  <2>1. q \in Seq(Replies) /\ (Registered(toClient[to][s]) => Registered(q))
    BY <1>1, <1>3, AppendRegistered, AppendProperties
  <2>2. toClient' = [toClient EXCEPT ![to][s] = q]
    BY <1>3
  <2> HIDE DEF q
  <2>3. /\ toClient'[to][s] = q
        /\ \A d \in Clients, u \in Servers : d # to \/ u # s => toClient'[d][u] = toClient[d][u]
    BY <1>1, <1>3, <2>1, <2>2, ChannelUpdate
  <2>4. \A d \in Clients, u \in Servers : Registered(toClient[d][u]) => Registered(toClient'[d][u])
    BY <2>1, <2>3, Zenon
  <2> QED BY <2>4, ToldTries
<1> QED BY <1>2, <1>3 DEF Reply

LEMMA TimerTries ==
    ASSUME TypeOK, KeepsJoining, NEW c \in Clients,
           \/ OnTimerSendClusterAuthMessage(c)
           \/ \E p \in Proxies : OnTimerSendClusterTokenMessage(c, p)
    PROVE  KeepsJoining'
<1>1. UNCHANGED toClient
  BY DEF OnTimerSendClusterAuthMessage, OnTimerSendClusterTokenMessage
<1>2. CASE UNCHANGED client
  BY <1>1, <1>2, ToldTries
<1>3. CASE client' = [client EXCEPT ![c] = StartClusterMasterClient(@)]
  <2>1. client[c] \in Records /\ toClient \in [Clients -> [Servers -> Seq(Replies)]]
    BY TypeParts DEF ClientTypes, ChannelTypes
  <2>2. Trying(StartClusterMasterClient(client[c]), toClient[c])
    BY <2>1, RestartTries
  <2>3. toClient' = [toClient EXCEPT ![c] = toClient[c]]
    BY <1>1, <2>1
  <2>4. client' = [client EXCEPT ![c] = StartClusterMasterClient(client[c])]
    BY <1>3
  <2> QED BY <2>2, <2>3, <2>4, OneTries
<1> QED BY <1>2, <1>3 DEF OnTimerSendClusterAuthMessage, OnTimerSendClusterTokenMessage

\* A connection changes: it is made anew, or it was closing.
LEMMA LinkTries ==
    ASSUME TypeOK, KeepsJoining, NEW c \in Clients, NEW s \in Servers, NEW l \in LinkState, NEW q,
           client' = [client EXCEPT ![c].link[s] = l],
           toClient' = [toClient EXCEPT ![c][s] = q],
           \/ l \in {"wait", "open"}
           \/ l = "up" /\ Registered(q)
           \/ client[c].link[s] = "closing"
    PROVE  KeepsJoining'
<1> DEFINE r == [client[c] EXCEPT !.link[s] = l]
           in == [toClient[c] EXCEPT ![s] = q]
<1>1. client[c] \in Records /\ toClient \in [Clients -> [Servers -> Seq(Replies)]]
  BY TypeParts DEF ClientTypes, ChannelTypes
<1>2. client' = [client EXCEPT ![c] = r] /\ toClient' = [toClient EXCEPT ![c] = in]
  BY <1>1
<1>3. r \in Records /\ r.link[s] = l /\ in[s] = q
  <2>1. r \in Records
    BY <1>1, LinkTypes
  <2>2. r.link[s] = l
    BY <1>1 DEF Records
  <2>3. in[s] = q
    <3>1. toClient[c] \in [Servers -> Seq(Replies)]
      BY <1>1
    <3> QED BY <3>1
  <2> QED BY <2>1, <2>2, <2>3
<1>4. /\ r.service = client[c].service /\ r.auth = client[c].auth
      /\ r.timers = client[c].timers /\ r.refused = client[c].refused
  BY <1>1 DEF Records
<1>5. \A u \in Servers \ {s} : r.link[u] = client[c].link[u] /\ in[u] = toClient[c][u]
  BY <1>1 DEF Records
<1>6. Trying(client[c], toClient[c])
  BY KeepsJoiningIs
<1> HIDE DEF r, in
<1>7. CASE l \in {"wait", "open"} \/ (l = "up" /\ Registered(q))
  <2>1. Trying(r, in)
    BY <1>3, <1>7 DEF Trying
  <2> QED BY <1>2, <2>1, OneTries
<1>8. CASE client[c].link[s] = "closing"
  <2>1. Trying(r, in)
    BY <1>4, <1>5, <1>6, <1>8 DEF Trying
  <2> QED BY <1>2, <2>1, OneTries
<1> QED BY <1>7, <1>8

LEMMA ConnectTries ==
    ASSUME TypeOK, KeepsJoining, NEW c \in Clients, NEW s \in Servers,
           \/ RunWaitClient(c, s) \/ Connect(c, s) \/ OnClientShutDown(c, s) \/ Break(c, s)
    PROVE  KeepsJoining'
<1>1. toClient \in [Clients -> [Servers -> Seq(Replies)]]
  BY TypeParts DEF ChannelTypes
<1>2. {"open", "up", "none"} \subseteq LinkState
  BY DEF LinkState
<1>3. CASE RunWaitClient(c, s)
  <2>1. toClient' = [toClient EXCEPT ![c][s] = toClient[c][s]]
    BY <1>1, <1>3 DEF RunWaitClient, channels
  <2> QED BY <1>2, <1>3, <2>1, LinkTries DEF RunWaitClient
<1>4. CASE Connect(c, s)
  <2> DEFINE m == [kind |-> "registered"]
             q == Append(toClient[c][s], m)
  <2>1. m \in Replies /\ m.kind = "registered"
    BY DEF Replies
  <2> HIDE DEF m
  <2>2. Registered(q)
    <3>1. toClient[c][s] \in Seq(Replies)
      BY <1>1
    <3>2. Len(q) \in 1 .. Len(q) /\ q[Len(q)] = m
      BY <2>1, <3>1
    <3> QED BY <2>1, <3>2 DEF Registered
  <2>3. client' = [client EXCEPT ![c].link[s] = "up"] /\ toClient' = [toClient EXCEPT ![c][s] = q]
    BY <1>4 DEF Connect, m
  <2> HIDE DEF q
  <2> QED BY <1>2, <2>2, <2>3, LinkTries
<1>5. CASE OnClientShutDown(c, s)
  BY <1>2, <1>5, LinkTries DEF OnClientShutDown
<1>6. CASE Break(c, s)
  <2>1. PICK q : toClient' = [toClient EXCEPT ![c][s] = q]
    BY <1>6 DEF Break
  <2>2. client' = [client EXCEPT ![c].link[s] = "open"]
    BY <1>6 DEF Break
  <2> QED BY <1>2, <2>1, <2>2, LinkTries
<1> QED BY <1>3, <1>4, <1>5, <1>6

LEMMA DisconnectTries ==
    ASSUME TypeOK, KeepsJoining, NEW c \in Clients, NEW s \in Servers, OnClientDisconnect(c, s)
    PROVE  KeepsJoining'
<1>1. client[c] \in Records /\ toClient \in [Clients -> [Servers -> Seq(Replies)]]
  BY TypeParts DEF ClientTypes, ChannelTypes
<1>2. Trying(client[c], toClient[c])
  BY KeepsJoiningIs
<1>3. Trying(OnLostClusterServer(client[c], s), toClient[c])
  BY <1>1, <1>2, RestartTries DEF OnLostClusterServer
<1>4. client' = [client EXCEPT ![c] = OnLostClusterServer(client[c], s)]
  BY DEF OnClientDisconnect
<1>5. toClient' = [toClient EXCEPT ![c] = toClient[c]]
  BY <1>1 DEF OnClientDisconnect
<1> QED BY <1>3, <1>4, <1>5, OneTries

LEMMA HearTries ==
    ASSUME TypeOK, KeepsJoining, NEW c \in Clients, NEW s \in Servers, HandleClientMessage(c, s)
    PROVE  KeepsJoining'
<1> DEFINE r == client[c]
           m == Head(toClient[c][s])
           q == Tail(toClient[c][s])
           in == [toClient[c] EXCEPT ![s] = q]
           z == CASE m.kind = "registered" -> OnConnectionClusterServer(r, s)
                  [] m.kind = "auth"       -> ProcessClusterAuth(r, m)
                  [] m.kind = "verify"     -> ProcessClusterVerify(r, m)
<1>1. r \in Records /\ toClient \in [Clients -> [Servers -> Seq(Replies)]]
  BY TypeParts DEF ClientTypes, ChannelTypes
<1>2. toClient[c][s] \in Seq(Replies) /\ toClient[c][s] # << >>
  BY <1>1 DEF HandleClientMessage
<1>3. m \in Replies
  BY <1>2, Shorter
<1>4. client' = [client EXCEPT ![c] = z] /\ toClient' = [toClient EXCEPT ![c] = in]
  BY <1>1 DEF HandleClientMessage
<1>5. m.kind # "registered" /\ Registered(toClient[c][s]) => Registered(q)
  BY <1>2, StillRegistered
<1>6. Trying(r, toClient[c])
  BY KeepsJoiningIs
<1>7. in[s] = q /\ \A u \in Servers \ {s} : in[u] = toClient[c][u]
  BY <1>1
<1>8. /\ m.kind \in {"registered", "auth", "verify"}
      /\ m.kind = "auth" => m.proxy \in Proxies \cup {0} /\ m.token \in 0 .. MaxTokens
  BY <1>3 DEF Replies
<1> HIDE DEF r, m, q, in
<1>9. m.kind # "registered" => Trying(r, in)
  <2>1. ASSUME m.kind # "registered"
        PROVE  \A u \in Servers : r.link[u] = "up" /\ Registered(toClient[c][u]) => Registered(in[u])
    BY <1>5, <1>7, <2>1, Zenon
  <2> QED BY <1>1, <1>6, <2>1, MoreIsTrying
<1>10. CASE m.kind = "registered"
  <2>1. z = OnConnectionClusterServer(r, s)
    BY <1>10
  <2> HIDE DEF z
  <2> QED BY <1>1, <1>4, <2>1, RegisteredTries, OneTries
<1>11. CASE m.kind = "auth"
  <2>1. z = ProcessClusterAuth(r, m)
    BY <1>11
  <2> HIDE DEF z
  <2>2. Trying(ProcessClusterAuth(r, m), in)
    BY <1>1, <1>8, <1>9, <1>11, AuthTries
  <2> QED BY <1>4, <2>1, <2>2, OneTries
<1>12. CASE m.kind = "verify"
  <2>1. z = ProcessClusterVerify(r, m)
    BY <1>12
  <2> HIDE DEF z
  <2>2. Trying(ProcessClusterVerify(r, m), in)
    BY <1>1, VerifyTries
  <2> QED BY <1>4, <2>1, <2>2, OneTries
<1> QED BY <1>8, <1>10, <1>11, <1>12

LEMMA AnswerTries ==
    ASSUME TypeOK, KeepsJoining, NEW c \in Clients,
           HandleClusterAuthReq(c) \/ \E p \in Proxies : HandleClusterVerifyReq(c, p)
    PROVE  KeepsJoining'
<1>1. UNCHANGED client
  BY DEF HandleClusterAuthReq, HandleClusterVerifyReq
<1>2. ASSUME HandleClusterAuthReq(c) PROVE KeepsJoining'
  <2>1. [kind |-> "auth", proxy |-> 0, token |-> 0] \in Replies
    BY AuthAssumption DEF Replies
  <2>2. \A p \in listed, t \in Fresh : [kind |-> "auth", proxy |-> p, token |-> t] \in Replies
    BY TypeParts DEF ClusterTypes, Fresh, Replies
  <2>3. \E m \in Replies : Reply(Master, Low(Head(toServer[c][Master]).from), m)
    BY <1>2, <2>1, <2>2 DEF HandleClusterAuthReq
  <2> QED BY <1>1, <2>3, ReplyTries, Ids
<1>3. ASSUME NEW p \in Proxies, HandleClusterVerifyReq(c, p) PROVE KeepsJoining'
  <2> DEFINE m == Head(toServer[c][p])
             id == Low(ClusterVerifyLogin(p, m.token, c))
  <2>1. id \in Nat
    BY LowTypes, Ids DEF ClusterVerifyLogin
  <2>2. Reply(p, m.from, [kind |-> "verify", id |-> id])
    BY <1>3 DEF HandleClusterVerifyReq, Answer
  <2> HIDE DEF id
  <2>3. [kind |-> "verify", id |-> id] \in Replies
    BY <2>1 DEF Replies
  <2> QED BY <1>1, <2>2, <2>3, ReplyTries, Ids
<1> QED BY <1>2, <1>3

LEMMA CrashTries ==
    ASSUME TypeOK, KeepsJoining, NEW p \in Proxies, Crash(p)
    PROVE  KeepsJoining'
<1>1. /\ client' = [c \in Clients |-> [client[c] EXCEPT !.link[p] = IF @ = "up" THEN "open" ELSE @]]
      /\ UNCHANGED toClient
  BY DEF Crash
<1>2. ASSUME NEW c \in Clients PROVE Trying(client'[c], toClient'[c])
  <2> DEFINE r == client[c]
             l == IF r.link[p] = "up" THEN "open" ELSE r.link[p]
             z == [r EXCEPT !.link[p] = l]
  <2>1. r \in Records /\ p \in Servers
    BY TypeParts, Ids DEF ClientTypes
  <2>2. client'[c] = z
    BY <1>1
  <2>3. /\ z.service = r.service /\ z.auth = r.auth /\ z.timers = r.timers
        /\ z.refused = r.refused /\ z.link[p] = l
        /\ \A u \in Servers \ {p} : z.link[u] = r.link[u]
    BY <2>1 DEF Records
  <2>4. Trying(r, toClient[c])
    BY KeepsJoiningIs
  <2>5. Trying(z, toClient[c])
    <3> HIDE DEF r, z
    <3> QED BY <2>1, <2>3, <2>4 DEF Trying
  <2> QED BY <1>1, <2>2, <2>5
<1>3. KeepsJoining' <=> \A c \in Clients : Trying(client'[c], toClient'[c])
  BY DEF KeepsJoining, Trying, Registered
<1> QED BY <1>2, <1>3

LEMMA NextTries == TypeOK /\ KeepsJoining /\ [Next]_vars => KeepsJoining'
<1> SUFFICES ASSUME TypeOK, KeepsJoining, [Next]_vars PROVE KeepsJoining'
  OBVIOUS
<1>1. CASE UNCHANGED << client, toClient >>
  BY <1>1, ToldTries
<1>2. ASSUME NEW p \in Proxies,
             \/ OnClientConnectionClusterShard(p) \/ OnTimerSendClusterUpdateMessage(p)
             \/ HandleClusterUpdateReq(p) \/ OnServerLostClusterProxy(p)
             \/ HandleClusterTokenReq(p) \/ RunRemoveClusterToken(p) \/ Restart(p)
      PROVE  KeepsJoining'
  BY <1>1, <1>2 DEF OnClientConnectionClusterShard, OnTimerSendClusterUpdateMessage,
                    HandleClusterUpdateReq, OnServerLostClusterProxy, HandleClusterTokenReq,
                    RunRemoveClusterToken, Restart, channels
<1>3. ASSUME NEW c \in Clients, NEW s \in Servers, CancelledWrite(c, s) PROVE KeepsJoining'
  BY <1>1, <1>3 DEF CancelledWrite
<1>4. ASSUME NEW c \in Clients, NEW s \in Servers, ClientStep(c, s) \/ Connect(c, s) \/ Break(c, s)
      PROVE  KeepsJoining'
  BY <1>4, ConnectTries, DisconnectTries, HearTries DEF ClientStep
<1>5. ASSUME NEW c \in Clients,
             \/ OnTimerSendClusterAuthMessage(c) \/ HandleClusterAuthReq(c)
             \/ \E p \in Proxies : OnTimerSendClusterTokenMessage(c, p) \/ HandleClusterVerifyReq(c, p)
      PROVE  KeepsJoining'
  BY <1>5, TimerTries, AnswerTries
<1>6. CASE UNCHANGED vars
  BY <1>1, <1>6 DEF vars, channels
<1> QED BY <1>2, <1>3, <1>4, <1>5, <1>6, CrashTries DEF Next, Failure

\* OnTimerSendClusterAuthMessage, OnTimerSendClusterTokenMessage, ProcessClusterAuth,
\* ProcessClusterVerify and OnLostClusterServer, for any ids, clients and proxies,
\* whatever fails, is repeated or confused: a client that is not in service has a
\* connection or a request to come, unless StartClient refused the one it asked for.
THEOREM ClientsKeepJoining == Spec => []KeepsJoining
<1>1. Init => KeepsJoining
  <2>1. ASSUME Init, NEW c \in Clients PROVE client[c].link[Master] = "wait"
    BY <2>1, Ids DEF Init
  <2> QED BY <2>1, Ids DEF KeepsJoining
<1> QED BY <1>1, InitTypes, NextTypes, NextTries, PTL DEF Spec

-----------------------------------------------------------------------------
(* Tokens: what is on offer, and where. *)

\* The requests on their way to a proxy are a sequence, whoever they are for.
TokenTypes ==
    /\ DOMAIN tokens = Proxies /\ tokens = [p \in Proxies |-> tokens[p]]
    /\ \E G : tokenReqs \in [Proxies -> Seq([token : 1 .. MaxTokens, gate : G])]

\* A token is on offer in one place: at one proxy or in one message to one.
OneOffer ==
    /\ \A p, q \in Proxies : \A t \in tokens[p] :
          /\ \A u \in tokens[q] : t.token = u.token => p = q
          /\ \A i \in 1 .. Len(tokenReqs[q]) : tokenReqs[q][i].token # t.token
    /\ \A p, q \in Proxies : \A i \in 1 .. Len(tokenReqs[p]), j \in 1 .. Len(tokenReqs[q]) :
          tokenReqs[p][i].token = tokenReqs[q][j].token => p = q /\ i = j

\* TokenOnce, place by place.
NoneAccepted ==
    \A p \in Proxies :
        /\ \A t \in tokens[p] : t.token \notin accepted
        /\ \A i \in 1 .. Len(tokenReqs[p]) : tokenReqs[p][i].token \notin accepted

IInv == TokenTypes /\ OneOffer /\ NoneAccepted

-----------------------------------------------------------------------------
(* How the tokens move. *)

\* What a queue of token requests holds, as InUse and TokenOnce see it.
LEMMA TokensOfRequests ==
    ASSUME NEW T, NEW G, NEW s \in Seq([token : T, gate : G])
    PROVE  TokensIn(s) = {s[i].token : i \in 1 .. Len(s)}
<1>1. \A i \in 1 .. Len(s) : s[i] \in [token : T, gate : G]
  BY ElementOfSeq
<1>2. \A i \in 1 .. Len(s) : "token" \in DOMAIN s[i]
  BY <1>1
<1> QED BY <1>2 DEF TokensIn

\* More senders, more requests.
LEMMA MoreGates ==
    ASSUME NEW T, NEW G, NEW H, G \subseteq H, NEW s \in Seq([token : T, gate : G])
    PROVE  s \in Seq([token : T, gate : H])
<1>1. [token : T, gate : G] \subseteq [token : T, gate : H]
  OBVIOUS
<1> QED BY <1>1, SeqMonotonic

\* At the start no token exists.
LEMMA InitIInv == Init => IInv
<1> SUFFICES ASSUME Init PROVE IInv
  OBVIOUS
<1>1. tokenReqs \in [Proxies -> Seq([token : 1 .. MaxTokens, gate : Nat])]
  BY DEF Init
<1>2. \A p \in Proxies : tokens[p] = {} /\ Len(tokenReqs[p]) = 0
  BY DEF Init
<1> QED BY <1>1, <1>2 DEF Init, IInv, TokenTypes, OneOffer, NoneAccepted

\* A fresh token is on offer nowhere.
LEMMA FreshIsNew ==
    ASSUME IInv, NEW t \in Fresh
    PROVE  \A p \in Proxies : /\ \A u \in tokens[p] : u.token # t
                              /\ \A i \in 1 .. Len(tokenReqs[p]) : tokenReqs[p][i].token # t
<1>1. t \notin InUse
  BY DEF Fresh
<1> SUFFICES ASSUME NEW p \in Proxies
             PROVE  /\ \A u \in tokens[p] : u.token # t
                    /\ \A i \in 1 .. Len(tokenReqs[p]) : tokenReqs[p][i].token # t
  OBVIOUS
<1>2. t \notin Offered
  BY <1>1 DEF InUse
<1>3. t \notin TokensIn(tokenReqs[p]) \cup {u.token : u \in tokens[p]}
  BY <1>2 DEF Offered
<1>4. \A u \in tokens[p] : u.token # t
  BY <1>3
<1>5. TokensIn(tokenReqs[p]) = {tokenReqs[p][i].token : i \in 1 .. Len(tokenReqs[p])}
  <2>1. PICK G : tokenReqs \in [Proxies -> Seq([token : 1 .. MaxTokens, gate : G])]
    BY DEF IInv, TokenTypes
  <2>2. tokenReqs[p] \in Seq([token : 1 .. MaxTokens, gate : G])
    BY <2>1
  <2> QED BY <2>2, TokensOfRequests
<1>6. \A i \in 1 .. Len(tokenReqs[p]) : tokenReqs[p][i].token # t
  BY <1>3, <1>5
<1> QED BY <1>4, <1>6

\* What is on offer becomes less.
LEMMA FewerStep ==
    ASSUME IInv, accepted' \subseteq accepted, TokenTypes',
           \A p \in Proxies : tokens'[p] \subseteq tokens[p],
           \A p \in Proxies : tokenReqs'[p] \in {tokenReqs[p], << >>}
    PROVE  IInv'
<1>1. \A p \in Proxies : \A i \in 1 .. Len(tokenReqs'[p]) :
         i \in 1 .. Len(tokenReqs[p]) /\ tokenReqs'[p][i] = tokenReqs[p][i]
  <2> TAKE p \in Proxies
  <2>1. CASE tokenReqs'[p] = tokenReqs[p]
    BY <2>1
  <2>2. CASE tokenReqs'[p] = << >>
    <3>1. Len(tokenReqs'[p]) = 0
      BY <2>2
    <3>2. \A i \in 1 .. 0 : FALSE
      OBVIOUS
    <3> QED BY <3>1, <3>2, Zenon
  <2> QED BY <2>1, <2>2
<1>2. OneOffer'
  <2>1. ASSUME NEW p \in Proxies, NEW q \in Proxies, NEW t \in tokens'[p]
        PROVE  /\ \A u \in tokens'[q] : t.token = u.token => p = q
               /\ \A i \in 1 .. Len(tokenReqs'[q]) : tokenReqs'[q][i].token # t.token
    <3>1. t \in tokens[p] /\ tokens'[q] \subseteq tokens[q]
      OBVIOUS
    <3>2. /\ \A u \in tokens[q] : t.token = u.token => p = q
          /\ \A i \in 1 .. Len(tokenReqs[q]) : tokenReqs[q][i].token # t.token
      BY <3>1 DEF IInv, OneOffer
    <3> QED BY <1>1, <3>1, <3>2
  <2>2. ASSUME NEW p \in Proxies, NEW q \in Proxies,
               NEW i \in 1 .. Len(tokenReqs'[p]), NEW j \in 1 .. Len(tokenReqs'[q]),
               tokenReqs'[p][i].token = tokenReqs'[q][j].token
        PROVE  p = q /\ i = j
    <3>1. /\ i \in 1 .. Len(tokenReqs[p]) /\ tokenReqs'[p][i] = tokenReqs[p][i]
          /\ j \in 1 .. Len(tokenReqs[q]) /\ tokenReqs'[q][j] = tokenReqs[q][j]
      BY <1>1
    <3> QED BY <2>2, <3>1 DEF IInv, OneOffer
  <2> QED BY <2>1, <2>2 DEF OneOffer
<1>3. NoneAccepted'
  BY <1>1 DEF IInv, NoneAccepted
<1> QED BY <1>2, <1>3 DEF IInv

LEMMA SameStep ==
    ASSUME IInv, UNCHANGED << tokens, tokenReqs >>, accepted' \subseteq accepted
    PROVE  IInv'
<1>1. TokenTypes'
  <2>1. PICK G : tokenReqs \in [Proxies -> Seq([token : 1 .. MaxTokens, gate : G])]
    BY DEF IInv, TokenTypes
  <2>2. tokenReqs' \in [Proxies -> Seq([token : 1 .. MaxTokens, gate : G])]
    BY <2>1
  <2> QED BY <2>2 DEF IInv, TokenTypes
<1> QED BY <1>1, FewerStep

\* A token is issued: it is fresh.
LEMMA IssueStep ==
    ASSUME IInv, NEW p \in Proxies, NEW t \in Fresh, NEW g,
           UNCHANGED tokens, accepted' = accepted \ {t},
           tokenReqs' = [tokenReqs EXCEPT ![p] = Append(@, [token |-> t, gate |-> g])]
    PROVE  IInv'
<1> DEFINE new == [token |-> t, gate |-> g]
<1>1. PICK G : tokenReqs \in [Proxies -> Seq([token : 1 .. MaxTokens, gate : G])]
  BY DEF IInv, TokenTypes
<1> DEFINE H == G \cup {g}
           R == [token : 1 .. MaxTokens, gate : H]
<1>2. t \in 1 .. MaxTokens /\ new \in R /\ new.token = t
  BY DEF Fresh
<1>3. tokenReqs \in [Proxies -> Seq(R)]
  <2>1. \A q \in Proxies : tokenReqs[q] \in Seq(R)
    BY <1>1, MoreGates
  <2> QED BY <1>1, <2>1
<1>4. tokenReqs' = [tokenReqs EXCEPT ![p] = Append(@, new)]
  OBVIOUS
<1> HIDE DEF new, R
<1>5. tokenReqs' \in [Proxies -> Seq(R)]
  BY <1>2, <1>3, <1>4
<1>6. TokenTypes'
  BY <1>5 DEF IInv, TokenTypes, R
<1>7. /\ Len(tokenReqs'[p]) = Len(tokenReqs[p]) + 1 /\ Len(tokenReqs[p]) \in Nat
      /\ tokenReqs'[p][Len(tokenReqs[p]) + 1] = new
      /\ \A i \in 1 .. Len(tokenReqs[p]) : tokenReqs'[p][i] = tokenReqs[p][i]
      /\ \A q \in Proxies \ {p} : tokenReqs'[q] = tokenReqs[q]
  BY <1>2, <1>3, <1>4
<1>8. \A q \in Proxies : \A i \in 1 .. Len(tokenReqs'[q]) :
         \/ q = p /\ i = Len(tokenReqs[p]) + 1 /\ tokenReqs'[q][i].token = t
         \/ i \in 1 .. Len(tokenReqs[q]) /\ tokenReqs'[q][i] = tokenReqs[q][i]
  BY <1>2, <1>7
<1>9. \A q \in Proxies : /\ \A u \in tokens[q] : u.token # t
                         /\ \A i \in 1 .. Len(tokenReqs[q]) : tokenReqs[q][i].token # t
  BY FreshIsNew
<1>10. \A q, r \in Proxies : \A i \in 1 .. Len(tokenReqs'[q]), j \in 1 .. Len(tokenReqs'[r]) :
          tokenReqs'[q][i].token = tokenReqs'[r][j].token => q = r /\ i = j
  <2> SUFFICES ASSUME NEW q \in Proxies, NEW r \in Proxies,
                      NEW i \in 1 .. Len(tokenReqs'[q]), NEW j \in 1 .. Len(tokenReqs'[r]),
                      tokenReqs'[q][i].token = tokenReqs'[r][j].token
               PROVE  q = r /\ i = j
    OBVIOUS
  <2>1. CASE tokenReqs'[q][i].token = t
    BY <1>8, <1>9, <2>1
  <2>2. CASE tokenReqs'[q][i].token # t
    <3>1. i \in 1 .. Len(tokenReqs[q]) /\ tokenReqs'[q][i] = tokenReqs[q][i]
      BY <1>8, <2>2
    <3>2. j \in 1 .. Len(tokenReqs[r]) /\ tokenReqs'[r][j] = tokenReqs[r][j]
      BY <1>8, <2>2
    <3> QED BY <3>1, <3>2 DEF IInv, OneOffer
  <2> QED BY <2>1, <2>2
<1>11. \A q, r \in Proxies : \A u \in tokens[q] :
          /\ \A v \in tokens[r] : u.token = v.token => q = r
          /\ \A i \in 1 .. Len(tokenReqs'[r]) : tokenReqs'[r][i].token # u.token
  BY <1>8, <1>9 DEF IInv, OneOffer
<1>12. OneOffer'
  BY <1>10, <1>11 DEF OneOffer
<1>13. NoneAccepted'
  BY <1>8, <1>9 DEF IInv, NoneAccepted
<1> QED BY <1>6, <1>12, <1>13 DEF IInv

LEMMA AuthReqStep ==
    ASSUME IInv, NEW c \in Clients, HandleClusterAuthReq(c)
    PROVE  IInv'
<1> DEFINE handleid == Low(Head(toServer[c][Master]).from)
<1>1. UNCHANGED tokens
  BY DEF HandleClusterAuthReq
<1>2. CASE UNCHANGED << tokenReqs, accepted >>
  BY <1>1, <1>2, SameStep
<1>3. CASE \E p \in listed, t \in Fresh :
              /\ accepted' = accepted \ {t}
              /\ IF p \in alive
                 THEN tokenReqs' = [tokenReqs EXCEPT ![p] = Append(@, [token |-> t, gate |-> handleid])]
                 ELSE UNCHANGED tokenReqs
  <2> HIDE DEF handleid
  <2>1. PICK p \in listed, t \in Fresh :
              /\ accepted' = accepted \ {t}
              /\ IF p \in alive
                 THEN tokenReqs' = [tokenReqs EXCEPT ![p] = Append(@, [token |-> t, gate |-> handleid])]
                 ELSE UNCHANGED tokenReqs
    BY <1>3
  <2>2. CASE UNCHANGED tokenReqs
    BY <1>1, <2>1, <2>2, SameStep
  <2>3. CASE tokenReqs' = [tokenReqs EXCEPT ![p] = Append(@, [token |-> t, gate |-> handleid])]
    <3>1. CASE p \in Proxies
      BY <1>1, <2>1, <2>3, <3>1, IssueStep
    <3>2. CASE p \notin Proxies
      <4>1. tokenReqs' = tokenReqs
        BY <2>3, <3>2 DEF IInv, TokenTypes
      <4> QED BY <2>2, <4>1
    <3> QED BY <3>1, <3>2
  <2> QED BY <2>1, <2>2, <2>3
<1> QED BY <1>2, <1>3 DEF HandleClusterAuthReq

\* A token reaches its proxy.
LEMMA TokenReqStep ==
    ASSUME IInv, NEW p \in Proxies, HandleClusterTokenReq(p)
    PROVE  IInv'
<1> DEFINE m == Head(tokenReqs[p])
<1>1. PICK G : tokenReqs \in [Proxies -> Seq([token : 1 .. MaxTokens, gate : G])]
  BY DEF IInv, TokenTypes
<1> DEFINE R == [token : 1 .. MaxTokens, gate : G]
<1>2. /\ tokenReqs[p] # << >>
      /\ tokens' = [tokens EXCEPT ![p] = @ \cup {m}]
      /\ tokenReqs' = [tokenReqs EXCEPT ![p] = Tail(@)] /\ UNCHANGED accepted
  BY DEF HandleClusterTokenReq, history
<1>3. tokenReqs \in [Proxies -> Seq(R)]
  BY <1>1
<1> HIDE DEF R
<1>4. tokenReqs' \in [Proxies -> Seq(R)]
  BY <1>2, <1>3
<1>5. /\ m = tokenReqs[p][1] /\ 1 \in 1 .. Len(tokenReqs[p])
      /\ \A i \in 1 .. Len(tokenReqs'[p]) : /\ i + 1 \in 2 .. Len(tokenReqs[p])
                                            /\ tokenReqs'[p][i] = tokenReqs[p][i + 1]
  <2>1. tokenReqs[p] \in Seq(R) /\ tokenReqs'[p] = Tail(tokenReqs[p])
    BY <1>2, <1>3
  <2>2. /\ Len(tokenReqs[p]) \in Nat /\ Len(tokenReqs[p]) # 0
        /\ Len(Tail(tokenReqs[p])) = Len(tokenReqs[p]) - 1
        /\ \A i \in 1 .. Len(Tail(tokenReqs[p])) : Tail(tokenReqs[p])[i] = tokenReqs[p][i + 1]
    BY <1>2, <2>1, HeadTailProperties, EmptySeq
  <2>3. m = tokenReqs[p][1]
    BY <1>2, <2>1
  <2> HIDE DEF m
  <2> QED BY <2>1, <2>2, <2>3, SMT
<1> HIDE DEF m
<1>6. TokenTypes'
  BY <1>2, <1>4 DEF IInv, TokenTypes, R
<1>7. /\ tokens'[p] = tokens[p] \cup {m}
      /\ \A q \in Proxies \ {p} : tokens'[q] = tokens[q] /\ tokenReqs'[q] = tokenReqs[q]
  BY <1>2 DEF IInv, TokenTypes
<1>8. \A q \in Proxies : \A i \in 1 .. Len(tokenReqs'[q]) :
         \E j \in 1 .. Len(tokenReqs[q]) : /\ tokenReqs'[q][i] = tokenReqs[q][j]
                                          /\ IF q = p THEN j = i + 1 /\ j # 1 ELSE j = i
  <2> TAKE q \in Proxies
  <2> TAKE i \in 1 .. Len(tokenReqs'[q])
  <2>1. CASE q = p
    <3>1. i + 1 \in 2 .. Len(tokenReqs[p]) /\ tokenReqs'[p][i] = tokenReqs[p][i + 1]
      BY <1>5, <2>1
    <3>2. i + 1 \in 1 .. Len(tokenReqs[p]) /\ i + 1 # 1
      BY <3>1, SMT
    <3> QED BY <2>1, <3>1, <3>2
  <2>2. CASE q # p
    BY <1>7, <2>2
  <2> QED BY <2>1, <2>2
<1>9. \A q, r \in Proxies : \A i \in 1 .. Len(tokenReqs'[q]), j \in 1 .. Len(tokenReqs'[r]) :
         tokenReqs'[q][i].token = tokenReqs'[r][j].token => q = r /\ i = j
  <2> SUFFICES ASSUME NEW q \in Proxies, NEW r \in Proxies,
                      NEW i \in 1 .. Len(tokenReqs'[q]), NEW j \in 1 .. Len(tokenReqs'[r]),
                      tokenReqs'[q][i].token = tokenReqs'[r][j].token
               PROVE  q = r /\ i = j
    OBVIOUS
  <2>1. PICK k \in 1 .. Len(tokenReqs[q]) : /\ tokenReqs'[q][i] = tokenReqs[q][k]
                                           /\ IF q = p THEN k = i + 1 /\ k # 1 ELSE k = i
    BY <1>8
  <2>2. PICK l \in 1 .. Len(tokenReqs[r]) : /\ tokenReqs'[r][j] = tokenReqs[r][l]
                                           /\ IF r = p THEN l = j + 1 /\ l # 1 ELSE l = j
    BY <1>8
  <2>3. q = r /\ k = l
    BY <2>1, <2>2 DEF IInv, OneOffer
  <2> QED BY <2>1, <2>2, <2>3
<1>10. \A r \in Proxies : \A i \in 1 .. Len(tokenReqs'[r]) : tokenReqs'[r][i].token # m.token
  <2> SUFFICES ASSUME NEW r \in Proxies, NEW i \in 1 .. Len(tokenReqs'[r]),
                      tokenReqs'[r][i].token = m.token
               PROVE  FALSE
    OBVIOUS
  <2>1. PICK j \in 1 .. Len(tokenReqs[r]) : /\ tokenReqs'[r][i] = tokenReqs[r][j]
                                           /\ IF r = p THEN j = i + 1 /\ j # 1 ELSE j = i
    BY <1>8
  <2>2. r = p /\ j = 1
    BY <1>5, <2>1 DEF IInv, OneOffer
  <2> QED BY <2>1, <2>2
<1>11. \A q, r \in Proxies : \A u \in tokens'[q] :
          /\ \A v \in tokens'[r] : u.token = v.token => q = r
          /\ \A i \in 1 .. Len(tokenReqs'[r]) : tokenReqs'[r][i].token # u.token
  <2> TAKE q, r \in Proxies
  <2> TAKE u \in tokens'[q]
  <2>1. u \in tokens[q] \/ (q = p /\ u = m)
    BY <1>7
  <2>2. \A w \in Proxies : \A v \in tokens[w] : v.token # m.token
    BY <1>5 DEF IInv, OneOffer
  <2>3. \A v \in tokens'[r] : v \in tokens[r] \/ (r = p /\ v = m)
    BY <1>7
  <2>4. \A v \in tokens'[r] : u.token = v.token => q = r
    BY <2>1, <2>2, <2>3 DEF IInv, OneOffer
  <2>5. \A i \in 1 .. Len(tokenReqs'[r]) : tokenReqs'[r][i].token # u.token
    BY <1>8, <1>10, <2>1 DEF IInv, OneOffer
  <2> QED BY <2>4, <2>5
<1>12. OneOffer'
  BY <1>9, <1>11 DEF OneOffer
<1>13. NoneAccepted'
  <2>1. m.token \notin accepted
    BY <1>5 DEF IInv, NoneAccepted
  <2> QED BY <1>2, <1>7, <1>8, <2>1 DEF IInv, NoneAccepted
<1> QED BY <1>6, <1>12, <1>13 DEF IInv

\* A token is shown: it is off the list before anybody else can show it.
LEMMA VerifyReqStep ==
    ASSUME IInv, NEW c \in Clients, NEW p \in Proxies, HandleClusterVerifyReq(c, p)
    PROVE  IInv'
<1> DEFINE token == Head(toServer[c][p]).token
           id == ClusterVerifyLogin(p, token, c)
<1>1. /\ tokens' = [tokens EXCEPT ![p] = {t \in @ : t.token # token}]
      /\ UNCHANGED tokenReqs
      /\ accepted' = IF Low(id) # 0 THEN accepted \cup {token} ELSE accepted
  BY DEF HandleClusterVerifyReq, Answer
<1>2. Low(0) = 0
  BY AuthAssumption, SMT DEF Low
<1>3. Low(id) # 0 => [token |-> token, gate |-> c] \in tokens[p]
  <2> HIDE DEF token
  <2> QED BY <1>2 DEF ClusterVerifyLogin
<1> HIDE DEF token, id
<1>4. accepted' = accepted \/ (accepted' = accepted \cup {token} /\ \E t \in tokens[p] : t.token = token)
  <2>1. [token |-> token, gate |-> c].token = token
    OBVIOUS
  <2> QED BY <1>1, <1>3, <2>1
<1>5. TokenTypes'
  BY <1>1 DEF IInv, TokenTypes
<1>6. /\ tokens'[p] = {t \in tokens[p] : t.token # token}
      /\ \A q \in Proxies \ {p} : tokens'[q] = tokens[q]
  BY <1>1 DEF IInv, TokenTypes
<1>7. \A q \in Proxies : tokens'[q] \subseteq tokens[q]
  BY <1>6
<1>8. OneOffer'
  BY <1>1, <1>7 DEF IInv, OneOffer
<1>9. NoneAccepted'
  <2>1. CASE accepted' = accepted
    BY <1>1, <1>7, <2>1 DEF IInv, NoneAccepted
  <2>2. CASE accepted' = accepted \cup {token} /\ \E t \in tokens[p] : t.token = token
    <3>1. \A q \in Proxies : \A t \in tokens'[q] : t.token # token
      BY <1>6, <2>2 DEF IInv, OneOffer
    <3>2. \A q \in Proxies : \A i \in 1 .. Len(tokenReqs[q]) : tokenReqs[q][i].token # token
      BY <2>2 DEF IInv, OneOffer
    <3> QED BY <1>1, <1>7, <2>2, <3>1, <3>2 DEF IInv, NoneAccepted
  <2> QED BY <1>4, <2>1, <2>2
<1> QED BY <1>5, <1>8, <1>9 DEF IInv

\* A token expires, or its proxy crashes.
LEMMA LoseStep ==
    ASSUME IInv, NEW p \in Proxies, RunRemoveClusterToken(p) \/ Crash(p)
    PROVE  IInv'
<1>1. UNCHANGED accepted
  BY DEF RunRemoveClusterToken, Crash, history
<1>2. \A q \in Proxies : tokens'[q] \subseteq tokens[q] /\ tokenReqs'[q] \in {tokenReqs[q], << >>}
  BY DEF RunRemoveClusterToken, Crash, IInv, TokenTypes
<1>3. TokenTypes'
  <2>1. PICK G : tokenReqs \in [Proxies -> Seq([token : 1 .. MaxTokens, gate : G])]
    BY DEF IInv, TokenTypes
  <2>2. tokenReqs' \in [Proxies -> Seq([token : 1 .. MaxTokens, gate : G])]
    <3>1. << >> \in Seq([token : 1 .. MaxTokens, gate : G])
      OBVIOUS
    <3> QED BY <2>1, <3>1 DEF RunRemoveClusterToken, Crash
  <2>3. DOMAIN tokens' = Proxies /\ tokens' = [q \in Proxies |-> tokens'[q]]
    BY DEF RunRemoveClusterToken, Crash, IInv, TokenTypes
  <2> QED BY <2>2, <2>3 DEF TokenTypes
<1> QED BY <1>1, <1>2, <1>3, FewerStep

\* Nothing else touches a token.
LEMMA NextIInv == IInv /\ [Next]_vars => IInv'
<1> SUFFICES ASSUME IInv, [Next]_vars PROVE IInv'
  OBVIOUS
<1>1. CASE UNCHANGED << tokens, tokenReqs, accepted >>
  BY <1>1, SameStep
<1>2. CASE UNCHANGED vars
  BY <1>1, <1>2 DEF vars, cluster, history
<1>3. ASSUME NEW c \in Clients, OnTimerSendClusterAuthMessage(c) PROVE IInv'
  BY <1>1, <1>3 DEF OnTimerSendClusterAuthMessage, cluster
<1>4. ASSUME NEW c \in Clients, NEW s \in Servers, ClientStep(c, s) \/ Connect(c, s) PROVE IInv'
  BY <1>1, <1>4 DEF ClientStep, RunWaitClient, OnClientDisconnect, OnClientShutDown,
                    HandleClientMessage, Connect, cluster, history
<1>5. ASSUME NEW c \in Clients, NEW p \in Proxies, OnTimerSendClusterTokenMessage(c, p) PROVE IInv'
  BY <1>1, <1>5 DEF OnTimerSendClusterTokenMessage, cluster
<1>6. ASSUME NEW p \in Proxies,
             \/ OnClientConnectionClusterShard(p) \/ OnTimerSendClusterUpdateMessage(p)
             \/ HandleClusterUpdateReq(p) \/ OnServerLostClusterProxy(p) \/ Restart(p)
      PROVE IInv'
  BY <1>1, <1>6 DEF OnClientConnectionClusterShard, OnTimerSendClusterUpdateMessage,
                    HandleClusterUpdateReq, OnServerLostClusterProxy, Restart, history
<1>7. ASSUME NEW c \in Clients, NEW s \in Servers, Break(c, s) \/ CancelledWrite(c, s) PROVE IInv'
  BY <1>1, <1>7 DEF Break, CancelledWrite, cluster
<1> QED BY <1>2, <1>3, <1>4, <1>5, <1>6, <1>7, AuthReqStep, TokenReqStep, VerifyReqStep, LoseStep
        DEF Next, Failure

-----------------------------------------------------------------------------
\* MakeAuthToken, HandleClusterTokenReq and ClusterVerifyLogin, for any clients and
\* proxies, however often the client shows its token, whatever crashes or is lost:
\* what a proxy has accepted is on offer nowhere until it is issued anew.
THEOREM TokenAdmitsOnce == Spec => []TokenOnce
<1>1. IInv => TokenOnce
  <2> SUFFICES ASSUME IInv, NEW p \in Proxies
               PROVE  /\ \A t \in tokens[p] : t.token \notin accepted
                      /\ TokensIn(tokenReqs[p]) \cap accepted = {}
    BY DEF TokenOnce
  <2>1. PICK G : tokenReqs \in [Proxies -> Seq([token : 1 .. MaxTokens, gate : G])]
    BY DEF IInv, TokenTypes
  <2>2. TokensIn(tokenReqs[p]) = {tokenReqs[p][i].token : i \in 1 .. Len(tokenReqs[p])}
    <3>1. tokenReqs[p] \in Seq([token : 1 .. MaxTokens, gate : G])
      BY <2>1
    <3> QED BY <3>1, TokensOfRequests
  <2> QED BY <2>2 DEF IInv, NoneAccepted
<1> QED BY <1>1, InitIInv, NextIInv, PTL DEF Spec

-----------------------------------------------------------------------------
(* Ids. *)

\* Every gate a token is for went through 32 bits.
NarrowGates ==
    /\ \A p \in Proxies : /\ \A t \in tokens[p] : t.gate < IdWidth
                          /\ \A i \in 1 .. Len(tokenReqs[p]) : tokenReqs[p][i].gate < IdWidth
    /\ updates # {} => Master < IdWidth

NarrowInv == NarrowGates /\ OnlyNarrowIdsJoin

LEMMA LowIsNarrow == \A id \in Nat : Low(id) < IdWidth /\ (Low(id) = id => id < IdWidth)
BY AuthAssumption, SMT DEF Low

\* What decides stays, or becomes less.
LEMMA NarrowSame ==
    ASSUME NarrowInv, granted' = granted, listed' \subseteq listed, updates' \subseteq updates,
           \A p \in Proxies : tokens'[p] \subseteq tokens[p],
           \A p \in Proxies : tokenReqs'[p] = tokenReqs[p] \/ tokenReqs'[p] = << >>
    PROVE  NarrowInv'
<1>1. \A p \in Proxies : \A i \in 1 .. Len(tokenReqs'[p]) : tokenReqs'[p][i].gate < IdWidth
  <2> TAKE p \in Proxies
  <2>1. CASE tokenReqs'[p] = tokenReqs[p]
    BY <2>1 DEF NarrowInv, NarrowGates
  <2>2. CASE tokenReqs'[p] = << >>
    BY <2>2
  <2> QED BY <2>1, <2>2
<1> QED BY <1>1 DEF NarrowInv, NarrowGates, OnlyNarrowIdsJoin

LEMMA NarrowIssue ==
    ASSUME TypeOK, NarrowInv, NEW c \in Clients, HandleClusterAuthReq(c)
    PROVE  NarrowInv'
<1> DEFINE id == Low(Head(toServer[c][Master]).from)
           T == [token : 1 .. MaxTokens, gate : Nat]
<1>1. UNCHANGED << granted, listed, updates, tokens >>
  BY DEF HandleClusterAuthReq
<1>2. id \in Nat /\ id < IdWidth
  <2>1. toServer[c][Master] \in Seq(Requests) /\ toServer[c][Master] # << >>
    BY TypeParts, Ids DEF ChannelTypes, HandleClusterAuthReq
  <2>2. Head(toServer[c][Master]) \in Requests
    BY <2>1, Shorter
  <2>3. Head(toServer[c][Master]).from \in Nat
    BY <2>2, Ids DEF Requests
  <2> QED BY <2>3, LowTypes, LowIsNarrow
<1>3. tokenReqs \in [Proxies -> Seq(T)] /\ listed \subseteq Proxies
  BY TypeParts DEF ClusterTypes
<1>4. CASE UNCHANGED tokenReqs
  BY <1>1, <1>4, NarrowSame
<1>5. ASSUME NEW p \in Proxies, NEW t \in Fresh,
             tokenReqs' = [tokenReqs EXCEPT ![p] = Append(@, [token |-> t, gate |-> id])]
      PROVE  NarrowInv'
  <2> DEFINE k == [token |-> t, gate |-> id]
  <2>1. k \in T /\ k.gate < IdWidth
    <3> HIDE DEF id
    <3> QED BY <1>2 DEF Fresh
  <2>2. tokenReqs' = [tokenReqs EXCEPT ![p] = Append(@, k)]
    BY <1>5
  <2> HIDE DEF k, id, T
  <2>3. \A q \in Proxies : \A i \in 1 .. Len(tokenReqs'[q]) : tokenReqs'[q][i].gate < IdWidth
    <3> TAKE q \in Proxies
    <3> TAKE i \in 1 .. Len(tokenReqs'[q])
    <3>1. \A j \in 1 .. Len(tokenReqs[q]) : tokenReqs[q][j].gate < IdWidth
      BY DEF NarrowInv, NarrowGates
    <3>2. CASE q # p
      BY <1>3, <2>2, <3>1, <3>2
    <3>3. CASE q = p
      <4>1. tokenReqs'[q] = Append(tokenReqs[q], k) /\ tokenReqs[q] \in Seq(T)
        BY <1>3, <2>2, <3>3
      <4>2. tokenReqs'[q][i] = k \/ (i \in 1 .. Len(tokenReqs[q]) /\ tokenReqs'[q][i] = tokenReqs[q][i])
        BY <2>1, <4>1
      <4> QED BY <2>1, <3>1, <4>2
    <3> QED BY <3>2, <3>3
  <2> QED BY <1>1, <2>3 DEF NarrowInv, NarrowGates, OnlyNarrowIdsJoin
<1>6. \/ UNCHANGED tokenReqs
      \/ \E p \in Proxies, t \in Fresh :
            tokenReqs' = [tokenReqs EXCEPT ![p] = Append(@, [token |-> t, gate |-> id])]
  BY <1>3 DEF HandleClusterAuthReq
<1> QED BY <1>4, <1>5, <1>6

LEMMA NarrowArrives ==
    ASSUME TypeOK, NarrowInv, NEW p \in Proxies, HandleClusterTokenReq(p)
    PROVE  NarrowInv'
<1> DEFINE T == [token : 1 .. MaxTokens, gate : Nat]
           q == tokenReqs[p]
<1>1. /\ q # << >> /\ tokens' = [tokens EXCEPT ![p] = @ \cup {Head(q)}]
      /\ tokenReqs' = [tokenReqs EXCEPT ![p] = Tail(q)]
      /\ UNCHANGED << granted, listed, updates >>
  BY DEF HandleClusterTokenReq, history
<1>2. tokenReqs \in [Proxies -> Seq(T)] /\ tokens \in [Proxies -> SUBSET T]
  BY TypeParts DEF ClusterTypes
<1>3. \A i \in 1 .. Len(q) : q[i].gate < IdWidth
  BY DEF NarrowInv, NarrowGates
<1> HIDE DEF T
<1>4. /\ q \in Seq(T) /\ Head(q) = q[1] /\ 1 \in 1 .. Len(q) /\ Len(q) \in Nat
      /\ Len(Tail(q)) = Len(q) - 1
      /\ \A i \in 1 .. Len(Tail(q)) : Tail(q)[i] = q[i + 1]
  BY <1>1, <1>2, HeadTailProperties, EmptySeq
<1> HIDE DEF q
<1>5. Head(q).gate < IdWidth
  BY <1>3, <1>4, Zenon
<1>6. \A i \in 1 .. Len(Tail(q)) : Tail(q)[i].gate < IdWidth
  <2> TAKE i \in 1 .. Len(Tail(q))
  <2>1. i + 1 \in 1 .. Len(q) /\ Tail(q)[i] = q[i + 1]
    BY <1>4
  <2> QED BY <1>3, <2>1
<1>7. \A r \in Proxies : \/ r # p /\ tokens'[r] = tokens[r] /\ tokenReqs'[r] = tokenReqs[r]
                         \/ r = p /\ tokens'[r] = tokens[r] \cup {Head(q)} /\ tokenReqs'[r] = Tail(q)
  BY <1>1, <1>2
<1>8. NarrowGates'
  BY <1>1, <1>5, <1>6, <1>7 DEF NarrowInv, NarrowGates
<1> QED BY <1>1, <1>8 DEF NarrowInv, OnlyNarrowIdsJoin

LEMMA NarrowVerify ==
    ASSUME TypeOK, NarrowInv, NEW c \in Clients, NEW p \in Proxies, HandleClusterVerifyReq(c, p)
    PROVE  NarrowInv'
<1> DEFINE t == Head(toServer[c][p]).token
           found == ClusterVerifyLogin(p, t, c)
<1>1. /\ tokens' = [tokens EXCEPT ![p] = {k \in @ : k.token # t}]
      /\ granted' = [granted EXCEPT ![c] = IF Low(found) # 0 THEN @ \cup {p} ELSE @]
      /\ UNCHANGED << listed, updates, tokenReqs >>
  BY DEF HandleClusterVerifyReq, Answer
<1> HIDE DEF t
<1>2. Low(found) # 0 => c < IdWidth
  <2>1. Low(found) # 0 => [token |-> t, gate |-> c] \in tokens[p]
    BY LowTypes DEF ClusterVerifyLogin
  <2> QED BY <2>1 DEF NarrowInv, NarrowGates
<1> HIDE DEF found
<1>3. granted \in [Clients -> SUBSET Proxies] /\ DOMAIN tokens = Proxies
  BY TypeParts DEF HistoryTypes, ClusterTypes
<1>4. \A d \in Clients : granted'[d] # {} => granted[d] # {} \/ (d = c /\ Low(found) # 0)
  BY <1>1, <1>3
<1>5. \A q \in Proxies : tokens'[q] \subseteq tokens[q]
  BY <1>1, <1>3
<1> QED BY <1>1, <1>2, <1>4, <1>5 DEF NarrowInv, NarrowGates, OnlyNarrowIdsJoin

LEMMA NarrowList ==
    ASSUME NarrowInv, NEW p \in Proxies,
           HandleClusterUpdateReq(p) \/ OnTimerSendClusterUpdateMessage(p)
    PROVE  NarrowInv'
<1>1. CASE HandleClusterUpdateReq(p)
  BY <1>1 DEF HandleClusterUpdateReq, NarrowInv, NarrowGates, OnlyNarrowIdsJoin, history
<1>2. CASE OnTimerSendClusterUpdateMessage(p)
  <2>1. Master < IdWidth
    BY <1>2, LowIsNarrow, Ids DEF OnTimerSendClusterUpdateMessage
  <2> QED BY <1>2, <2>1 DEF OnTimerSendClusterUpdateMessage, NarrowInv, NarrowGates,
                            OnlyNarrowIdsJoin, history
<1> QED BY <1>1, <1>2

LEMMA NextNarrow == TypeOK /\ NarrowInv /\ [Next]_vars => NarrowInv'
<1> SUFFICES ASSUME TypeOK, NarrowInv, [Next]_vars PROVE NarrowInv'
  OBVIOUS
<1>1. CASE UNCHANGED << tokens, tokenReqs, granted, listed, updates >>
  BY <1>1, NarrowSame
<1>2. CASE UNCHANGED vars
  BY <1>1, <1>2 DEF vars, cluster, history
<1>3. ASSUME NEW c \in Clients, OnTimerSendClusterAuthMessage(c) PROVE NarrowInv'
  BY <1>1, <1>3 DEF OnTimerSendClusterAuthMessage, cluster
<1>4. ASSUME NEW c \in Clients, NEW s \in Servers, ClientStep(c, s) \/ Connect(c, s) PROVE NarrowInv'
  BY <1>1, <1>4 DEF ClientStep, RunWaitClient, OnClientDisconnect, OnClientShutDown,
                    HandleClientMessage, Connect, cluster, history
<1>5. ASSUME NEW c \in Clients, NEW p \in Proxies, OnTimerSendClusterTokenMessage(c, p) PROVE NarrowInv'
  BY <1>1, <1>5 DEF OnTimerSendClusterTokenMessage, cluster
<1>6. ASSUME NEW p \in Proxies, OnClientConnectionClusterShard(p) \/ Restart(p) PROVE NarrowInv'
  BY <1>1, <1>6 DEF OnClientConnectionClusterShard, Restart, history
<1>7. ASSUME NEW c \in Clients, NEW s \in Servers, Break(c, s) \/ CancelledWrite(c, s) PROVE NarrowInv'
  BY <1>1, <1>7 DEF Break, CancelledWrite, cluster
<1>8. ASSUME NEW p \in Proxies,
             OnServerLostClusterProxy(p) \/ RunRemoveClusterToken(p) \/ Crash(p)
      PROVE  NarrowInv'
  <2>1. DOMAIN tokens = Proxies /\ DOMAIN tokenReqs = Proxies
    BY TypeParts DEF ClusterTypes
  <2>2. granted' = granted /\ listed' \subseteq listed /\ updates' \subseteq updates
    BY <1>8 DEF OnServerLostClusterProxy, RunRemoveClusterToken, Crash, history
  <2>3. \A q \in Proxies : tokens'[q] \subseteq tokens[q]
    BY <1>8, <2>1 DEF OnServerLostClusterProxy, RunRemoveClusterToken, Crash
  <2>4. \A q \in Proxies : tokenReqs'[q] = tokenReqs[q] \/ tokenReqs'[q] = << >>
    BY <1>8, <2>1 DEF OnServerLostClusterProxy, RunRemoveClusterToken, Crash
  <2> QED BY <2>2, <2>3, <2>4, NarrowSame
<1> QED BY <1>2, <1>3, <1>4, <1>5, <1>6, <1>7, <1>8, NarrowIssue, NarrowArrives, NarrowVerify, NarrowList
        DEF Next, Failure

\* HandleClusterAuthReq, HandleClusterVerifyReq and OnTimerSendClusterUpdateMessage
\* keep ids in a uint32: for any ids and widths, a process with an id that does not
\* fit is never let in, and a master with one never lists a proxy.
THEOREM OnlyNarrowIds == Spec => []OnlyNarrowIdsJoin
<1>1. Init => NarrowInv
  <2> SUFFICES ASSUME Init PROVE NarrowInv
    OBVIOUS
  <2>1. \A p \in Proxies : tokens[p] = {} /\ Len(tokenReqs[p]) = 0
    BY DEF Init
  <2>2. listed = {} /\ updates = {} /\ \A c \in Clients : granted[c] = {}
    BY DEF Init
  <2> QED BY <2>1, <2>2 DEF NarrowInv, NarrowGates, OnlyNarrowIdsJoin
<1>2. NarrowInv => OnlyNarrowIdsJoin
  BY DEF NarrowInv
<1> QED BY <1>1, <1>2, InitTypes, NextTypes, NextNarrow, PTL DEF Spec
=============================================================================
