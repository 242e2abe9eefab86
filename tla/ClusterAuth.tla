---------------------------- MODULE ClusterAuth ----------------------------
(***************************************************************************)
(* How a process joins a cluster: KFClusterClient in the process,          *)
(* KFClusterMaster and KFClusterProxy in the cluster.  The process asks    *)
(* the master for a proxy and a token, leaves the master, connects to the  *)
(* proxy and shows the token; when it loses the proxy it starts again.     *)
(* Timers repeat every request until something stops them.                 *)
(*                                                                         *)
(* A process is named by its app id, a number; Low is what is left of it   *)
(* in a 32 bit variable.  Of the documented ids, channel.type.zone.worker, *)
(* channel and type are left: none fits and workers of a type are one.     *)
(* With ids that fit the cluster works.                                    *)
(*                                                                         *)
(* A connection and the registration that follows it are one step here     *)
(* (NetHandle models them).  Each connection carries a FIFO of messages    *)
(* each way, and its main thread may handle a lost event before messages   *)
(* that arrived earlier, as RunEngine does.  The consistent hash of        *)
(* HashProxyServer is any choice among listed proxies.                     *)
(***************************************************************************)
EXTENDS Naturals, Sequences, FiniteSets

CONSTANTS
    Clients, Proxies, Master,   \* app ids
    IdWidth,     \* ids are cut modulo this where the code stores them in a uint32
    MaxTokens,   \* bound: tokens in use at a time
    MaxChannel,  \* bound: messages in one direction of a connection
    MaxFailures, \* bound: crashes, broken connections, writes cancelled by a close
    MaxRepeats   \* bound: requests repeated because the answer took longer than the timer

Servers == Proxies \cup {Master}

ASSUME AuthAssumption ==
    /\ Clients \cup Servers \subseteq Nat \ {0}
    /\ Master \notin Proxies /\ Clients \cap Servers = {}
    /\ IdWidth \in Nat \ {0}
    /\ {MaxTokens, MaxChannel, MaxFailures, MaxRepeats} \subseteq Nat

VARIABLES
    client,    \* per client: its KFClusterClient and its connections
    unsent,    \* unsent[c][s]: messages queued on a connection that is not connected
    toServer,  \* toServer[c][s]: messages of client c to server s
    toClient,  \* toClient[c][s]: messages of server s to client c
    lost,      \* lost[c]: servers whose disconnect event client c has not handled
    alive,     \* proxies that run and are connected to the master
    inService, \* proxies that have been connected to a shard since they started
    updates,   \* proxies with an UPDATE_REQ waiting at the master
    gone,      \* proxies whose lost event the master has not handled
    listed,    \* _kf_proxy_list
    tokenReqs, \* tokenReqs[p]: TOKEN_REQs on their way to proxy p
    tokens,    \* tokens[p]: _kf_token_list
    granted,   \* history: granted[c]: proxies that accepted a token of client c
    accepted,  \* history: tokens accepted since they were issued
    failures,  \* failures so far
    repeats    \* repeated requests so far

cluster  == << alive, inService, updates, gone, listed, tokenReqs, tokens >>
channels == << unsent, toServer, toClient, lost >>
history  == << granted, accepted, failures, repeats >>
vars == << client, channels, cluster, history >>

\* Variant with a bug: one bit more is kept.
LowWider(id) == id % (2 * IdWidth)

Low(id) == id % IdWidth

\* Where a connection of a client is: absent, in _wait_clients, in _kf_clients and
\* not connected, registered, or closing.
LinkState == {"none", "wait", "open", "up", "closing"}

Init ==
    /\ client = [c \in Clients |->
                   [proxy |-> 0, token |-> 0, service |-> FALSE, auth |-> FALSE, timers |-> {},
                    refused |-> FALSE,
                    link |-> [s \in Servers |-> IF s = Master THEN "wait" ELSE "none"]]]
    /\ unsent = [c \in Clients |-> [s \in Servers |-> << >>]]
    /\ toServer = [c \in Clients |-> [s \in Servers |-> << >>]]
    /\ toClient = [c \in Clients |-> [s \in Servers |-> << >>]]
    /\ lost = [c \in Clients |-> {}]
    /\ alive = Proxies /\ inService = {} /\ updates = {} /\ gone = {} /\ listed = {}
    /\ tokenReqs = [p \in Proxies |-> << >>] /\ tokens = [p \in Proxies |-> {}]
    /\ granted = [c \in Clients |-> {}] /\ accepted = {}
    /\ failures = 0 /\ repeats = 0

-----------------------------------------------------------------------------
(* What the handlers of a client do to its record r. *)

Known(r, s) == s \in Servers /\ r.link[s] \in {"open", "up", "closing"}

\* KFNetClientEngine::CloseClient: an id that only waits is not found.
CloseClient(r, s) ==
    IF Known(r, s) THEN [r EXCEPT !.link[s] = "closing"] ELSE r

\* KFNetClientEngine::StartClient: refused while the old connection is still there,
\* and forgotten; refused (history) says so unless that one is still to be made.
StartClient(r, s) ==
    IF Known(r, s) THEN [r EXCEPT !.refused = r.link[s] # "open"]
    ELSE [r EXCEPT !.link[s] = "wait", !.refused = FALSE]

StartClusterMasterClient(r) ==
    StartClient([CloseClient(r, r.proxy) EXCEPT !.proxy = 0, !.service = FALSE], Master)

\* Variant with a bug: a token timer for the master as well.
OnConnectionClusterServerAny(r, s) == [r EXCEPT !.auth = TRUE, !.timers = @ \cup {s}]

\* OnConnectionClusterServer.
OnConnectionClusterServer(r, s) ==
    IF s = Master THEN [r EXCEPT !.auth = TRUE] ELSE [r EXCEPT !.timers = @ \cup {s}]

\* OnLostClusterServer.
OnLostClusterServer(r, s) == IF s = Master THEN r ELSE StartClusterMasterClient(r)

\* HandleClusterAuthAck and ProcessClusterAuth; an ack without an address is ignored.
ProcessClusterAuth(r, m) ==
    IF m.proxy = 0 THEN r
    ELSE StartClient([CloseClient(r, Master) EXCEPT !.auth = FALSE, !.token = m.token,
                                                    !.proxy = m.proxy], m.proxy)

\* Variant with a bug: a client that is not let in leaves it at that.
ProcessClusterVerifyGivesUp(r, m) ==
    [r EXCEPT !.timers = @ \ {r.proxy}, !.service = @ \/ m.id # 0]

\* ProcessClusterVerify: the timer of the current proxy is stopped, whoever answered.
ProcessClusterVerify(r, m) ==
    LET stopped == [r EXCEPT !.timers = @ \ {r.proxy}]
    IN IF m.id # 0 THEN [stopped EXCEPT !.service = TRUE]
       ELSE StartClusterMasterClient(stopped)

-----------------------------------------------------------------------------
(* Client: timers *)

\* Queue a message on a connection: what is queued while it is not connected is
\* sent before the registration and reaches the server from an unknown sender.
Send(c, s, token) ==
    CASE client[c].link[s] = "up" ->
             /\ toServer' = [toServer EXCEPT ![c][s] = Append(@, [from |-> c, token |-> token])]
             /\ UNCHANGED unsent
      [] client[c].link[s] = "open" ->
             /\ unsent' = [unsent EXCEPT ![c][s] = Append(@, [from |-> 0, token |-> token])]
             /\ UNCHANGED toServer
      [] OTHER -> UNCHANGED << unsent, toServer >>

\* A request of client c to server s is unanswered.
Outstanding(c, s) ==
    unsent[c][s] # << >> \/ toServer[c][s] # << >> \/ toClient[c][s] # << >>

Room(c, s) == Len(unsent[c][s]) + Len(toServer[c][s]) < MaxChannel

\* A timer that fires meanwhile repeats it.
Repeats(c, s) ==
    /\ Outstanding(c, s) => repeats < MaxRepeats
    /\ repeats' = IF Outstanding(c, s) THEN repeats + 1 ELSE repeats

\* OnTimerSendClusterAuthMessage.
OnTimerSendClusterAuthMessage(c) ==
    /\ client[c].auth
    /\ Room(c, Master)
    /\ Repeats(c, Master)
    /\ Send(c, Master, 0)
    /\ UNCHANGED << client, toClient, lost, cluster, granted, accepted, failures >>

\* OnTimerSendClusterTokenMessage of the timer for proxy p.
OnTimerSendClusterTokenMessage(c, p) ==
    /\ p \in client[c].timers
    /\ Room(c, p)
    /\ Repeats(c, p)
    /\ IF Known(client[c], p)
       THEN Send(c, p, client[c].token) /\ UNCHANGED client
       ELSE /\ client' = [client EXCEPT ![c] = StartClusterMasterClient(@)]
            /\ UNCHANGED << unsent, toServer >>
    /\ UNCHANGED << toClient, lost, cluster, granted, accepted, failures >>

-----------------------------------------------------------------------------
(* Client: events and messages *)

\* RunWaitClient.
RunWaitClient(c, s) ==
    /\ client[c].link[s] = "wait"
    /\ client' = [client EXCEPT ![c].link[s] = "open"]
    /\ UNCHANGED << channels, cluster, history >>

Reachable(s) == s = Master \/ s \in alive

\* The connection is made, the client registers and the server acknowledges.  That
\* takes several turns of the libuv loop, a close that was asked for only one.
Connect(c, s) ==
    /\ client[c].link[s] = "open" /\ s \notin lost[c]
    /\ \A u \in Servers : client[c].link[u] # "closing"
    /\ Reachable(s)
    /\ Len(toClient[c][s]) < MaxChannel
    /\ client' = [client EXCEPT ![c].link[s] = "up"]
    /\ toClient' = [toClient EXCEPT ![c][s] = Append(@, [kind |-> "registered"])]
    /\ toServer' = [toServer EXCEPT ![c][s] = @ \o unsent[c][s]]
    /\ unsent' = [unsent EXCEPT ![c][s] = << >>]
    /\ UNCHANGED << lost, cluster, history >>

\* OnClientDisconnect.
OnClientDisconnect(c, s) ==
    /\ s \in lost[c]
    /\ lost' = [lost EXCEPT ![c] = @ \ {s}]
    /\ client' = [client EXCEPT ![c] = OnLostClusterServer(@, s)]
    /\ UNCHANGED << unsent, toServer, toClient, cluster, history >>

\* OnClientShutDown: the connection object is destroyed with its queues.
OnClientShutDown(c, s) ==
    /\ client[c].link[s] = "closing" /\ s \notin lost[c]
    /\ client' = [client EXCEPT ![c].link[s] = "none"]
    /\ toClient' = [toClient EXCEPT ![c][s] = << >>]
    /\ unsent' = [unsent EXCEPT ![c][s] = << >>]
    /\ UNCHANGED << toServer, lost, cluster, history >>

\* RunUpdate of a connection, one message.  A closing connection is read too.
HandleClientMessage(c, s) ==
    /\ Known(client[c], s)
    /\ toClient[c][s] # << >>
    /\ LET m == Head(toClient[c][s])
       IN client' = [client EXCEPT ![c] =
                        CASE m.kind = "registered" -> OnConnectionClusterServer(@, s)
                          [] m.kind = "auth"       -> ProcessClusterAuth(@, m)
                          [] m.kind = "verify"     -> ProcessClusterVerify(@, m)]
    /\ toClient' = [toClient EXCEPT ![c][s] = Tail(@)]
    /\ UNCHANGED << unsent, toServer, lost, cluster, history >>

-----------------------------------------------------------------------------
(* Master *)

\* KFTcpServerModule::SendNetMessage: only a registered app id is found.
Reply(s, to, m) ==
    IF to \in Clients /\ client[to].link[s] = "up"
    THEN /\ Len(toClient[to][s]) < MaxChannel
         /\ toClient' = [toClient EXCEPT ![to][s] = Append(@, m)]
    ELSE UNCHANGED toClient

TokensIn(s) == {s[i].token : i \in {j \in 1 .. Len(s) : "token" \in DOMAIN s[j]}}

\* Tokens that clients hold or show, and tokens that proxies accept or soon will.
Shown == UNION {{client[c].token} \cup UNION {TokensIn(unsent[c][s]) \cup TokensIn(toServer[c][s])
                                              \cup TokensIn(toClient[c][s]) : s \in Servers}
                : c \in Clients}
Offered == UNION {TokensIn(tokenReqs[p]) \cup {t.token : t \in tokens[p]} : p \in Proxies}

InUse == Shown \cup Offered

\* MakeAuthToken: a token that no other use of it can be confused with.
Fresh == {t \in 1 .. MaxTokens \ InUse : \A u \in 1 .. t - 1 : u \in InUse}

\* HandleClusterAuthReq: the sender's id is stored in a uint32.
HandleClusterAuthReq(c) ==
    /\ toServer[c][Master] # << >>
    /\ toServer' = [toServer EXCEPT ![c][Master] = Tail(@)]
    /\ LET handleid == Low(Head(toServer[c][Master]).from)
       IN IF listed = {}
          THEN /\ Reply(Master, handleid, [kind |-> "auth", proxy |-> 0, token |-> 0])
               /\ UNCHANGED << tokenReqs, accepted >>
          ELSE \E p \in listed, t \in Fresh :
                 /\ Reply(Master, handleid, [kind |-> "auth", proxy |-> p, token |-> t])
                 /\ accepted' = accepted \ {t}
                 /\ IF p \in alive
                    THEN /\ Len(tokenReqs[p]) < MaxChannel
                         /\ tokenReqs' = [tokenReqs EXCEPT ![p] = Append(@, [token |-> t, gate |-> handleid])]
                    ELSE UNCHANGED tokenReqs
    /\ UNCHANGED << client, unsent, lost, alive, inService, updates, gone, listed, tokens,
                    granted, failures, repeats >>

\* HandleClusterUpdateReq and AddProxyServer.
HandleClusterUpdateReq(p) ==
    /\ p \in updates
    /\ updates' = updates \ {p}
    /\ listed' = listed \cup {p}
    /\ UNCHANGED << client, channels, alive, inService, gone, tokenReqs, tokens, history >>

\* OnServerLostClusterProxy and RemoveProxyServer.
OnServerLostClusterProxy(p) ==
    /\ p \in gone
    /\ gone' = gone \ {p}
    /\ listed' = listed \ {p}
    /\ UNCHANGED << client, channels, alive, inService, updates, tokenReqs, tokens, history >>

-----------------------------------------------------------------------------
(* Proxy *)

\* OnClientConnectionClusterShard: the first connection to a shard puts it in service.
OnClientConnectionClusterShard(p) ==
    /\ p \in alive \ inService
    /\ inService' = inService \cup {p}
    /\ UNCHANGED << client, channels, alive, updates, gone, listed, tokenReqs, tokens, history >>

\* OnTimerSendClusterUpdateMessage: the master's id is cut to a uint32 too, and a
\* connection of that id is not found unless nothing was cut off.
OnTimerSendClusterUpdateMessage(p) ==
    /\ p \in inService \ updates
    /\ Low(Master) = Master
    /\ updates' = updates \cup {p}
    /\ UNCHANGED << client, channels, alive, inService, gone, listed, tokenReqs, tokens, history >>

HandleClusterTokenReq(p) ==
    /\ p \in alive /\ tokenReqs[p] # << >>
    /\ tokens' = [tokens EXCEPT ![p] = @ \cup {Head(tokenReqs[p])}]
    /\ tokenReqs' = [tokenReqs EXCEPT ![p] = Tail(@)]
    /\ UNCHANGED << client, channels, alive, inService, updates, gone, listed, history >>

\* RunClusterTokenValidTime and RunRemoveClusterToken: any token may be a minute old.
RunRemoveClusterToken(p) ==
    /\ \E t \in tokens[p] : tokens' = [tokens EXCEPT ![p] = @ \ {t}]
    /\ UNCHANGED << client, channels, alive, inService, updates, gone, listed, tokenReqs, history >>

\* ClusterVerifyLogin: the id, or 0; a token that is found is used up either way.
ClusterVerifyLogin(p, t, serverid) ==
    IF [token |-> t, gate |-> serverid] \in tokens[p] THEN serverid ELSE 0

\* HandleClusterVerifyReq: the outcome passes through a uint32.
Answer(c, p) ==
    LET m == Head(toServer[c][p])
        serverid == Low(ClusterVerifyLogin(p, m.token, c))
    IN /\ Reply(p, m.from, [kind |-> "verify", id |-> serverid])
       /\ granted' = [granted EXCEPT ![c] = IF serverid # 0 THEN @ \cup {p} ELSE @]
       /\ accepted' = IF serverid # 0 THEN accepted \cup {m.token} ELSE accepted

\* Variant with a bug: a token may be shown again.
HandleClusterVerifyReqKeeps(c, p) ==
    /\ p \in alive /\ toServer[c][p] # << >>
    /\ Answer(c, p)
    /\ toServer' = [toServer EXCEPT ![c][p] = Tail(@)]
    /\ UNCHANGED << client, unsent, lost, cluster, failures, repeats >>

HandleClusterVerifyReq(c, p) ==
    /\ p \in alive /\ toServer[c][p] # << >>
    /\ Answer(c, p)
    /\ tokens' = [tokens EXCEPT ![p] = {t \in @ : t.token # Head(toServer[c][p]).token}]
    /\ toServer' = [toServer EXCEPT ![c][p] = Tail(@)]
    /\ UNCHANGED << client, unsent, lost, alive, inService, updates, gone, listed, tokenReqs,
                    failures, repeats >>

-----------------------------------------------------------------------------
(* Failures *)

\* What had arrived before a connection broke is still handled.
Prefixes(s) == {SubSeq(s, 1, n) : n \in 0 .. Len(s)}

\* A connection breaks; the client will connect again by itself.
Break(c, s) ==
    /\ failures < MaxFailures
    /\ client[c].link[s] = "up"
    /\ failures' = failures + 1
    /\ client' = [client EXCEPT ![c].link[s] = "open"]
    /\ lost' = [lost EXCEPT ![c] = @ \cup {s}]
    /\ \E in \in Prefixes(toServer[c][s]) : toServer' = [toServer EXCEPT ![c][s] = in]
    /\ \E out \in Prefixes(toClient[c][s]) : toClient' = [toClient EXCEPT ![c][s] = out]
    /\ UNCHANGED << unsent, cluster, granted, accepted, repeats >>

\* Closing a connection cancels a write in flight, which ends in OnDisconnect.
CancelledWrite(c, s) ==
    /\ failures < MaxFailures
    /\ client[c].link[s] = "closing" /\ s \notin lost[c]
    /\ failures' = failures + 1
    /\ lost' = [lost EXCEPT ![c] = @ \cup {s}]
    /\ UNCHANGED << client, unsent, toServer, toClient, cluster, granted, accepted, repeats >>

\* A proxy crashes: its tokens and what it had received are gone; the master may
\* still have an update of it to handle.
Crash(p) ==
    /\ failures < MaxFailures
    /\ p \in alive
    /\ failures' = failures + 1
    /\ alive' = alive \ {p} /\ inService' = inService \ {p}
    /\ gone' = gone \cup {p}
    /\ updates' \in {updates, updates \ {p}}
    /\ tokens' = [tokens EXCEPT ![p] = {}]
    /\ tokenReqs' = [tokenReqs EXCEPT ![p] = << >>]
    /\ client' = [c \in Clients |-> [client[c] EXCEPT !.link[p] = IF @ = "up" THEN "open" ELSE @]]
    /\ lost' = [c \in Clients |-> IF client[c].link[p] = "up" THEN lost[c] \cup {p} ELSE lost[c]]
    /\ toServer' = [c \in Clients |-> [toServer[c] EXCEPT ![p] = << >>]]
    /\ UNCHANGED << unsent, toClient, listed, granted, accepted, repeats >>

\* The proxy is started again and registers, once the master has closed its old connection.
Restart(p) ==
    /\ p \notin alive \cup gone
    /\ alive' = alive \cup {p}
    /\ UNCHANGED << client, channels, inService, updates, gone, listed, tokenReqs, tokens, history >>

-----------------------------------------------------------------------------
ClientStep(c, s) ==
    \/ RunWaitClient(c, s) \/ OnClientDisconnect(c, s)
    \/ OnClientShutDown(c, s) \/ HandleClientMessage(c, s)

Failure ==
    \/ \E c \in Clients, s \in Servers : Break(c, s) \/ CancelledWrite(c, s)
    \/ \E p \in Proxies : Crash(p) \/ Restart(p)

Next ==
    \/ \E c \in Clients :
          \/ OnTimerSendClusterAuthMessage(c) \/ HandleClusterAuthReq(c)
          \/ \E s \in Servers : ClientStep(c, s) \/ Connect(c, s)
          \/ \E p \in Proxies : OnTimerSendClusterTokenMessage(c, p) \/ HandleClusterVerifyReq(c, p)
    \/ \E p \in Proxies :
          \/ OnClientConnectionClusterShard(p) \/ OnTimerSendClusterUpdateMessage(p)
          \/ HandleClusterUpdateReq(p) \/ OnServerLostClusterProxy(p)
          \/ HandleClusterTokenReq(p) \/ RunRemoveClusterToken(p)
    \/ Failure

Spec == Init /\ [][Next]_vars

-----------------------------------------------------------------------------
(* Properties *)

Records ==
    [proxy : Proxies \cup {0}, token : 0 .. MaxTokens, service : BOOLEAN, auth : BOOLEAN,
     timers : SUBSET Proxies, refused : BOOLEAN, link : [Servers -> LinkState]]

Requests == [from : Clients \cup {0}, token : 0 .. MaxTokens]

Replies ==
    [kind : {"registered"}] \cup [kind : {"verify"}, id : Nat]
    \cup [kind : {"auth"}, proxy : Proxies \cup {0}, token : 0 .. MaxTokens]

\* Clients, channels and lists hold what the handlers put there, within the bounds.
TypeOK ==
    /\ client \in [Clients -> Records]
    /\ {unsent, toServer} \subseteq [Clients -> [Servers -> Seq(Requests)]]
    /\ toClient \in [Clients -> [Servers -> Seq(Replies)]]
    /\ \A c \in Clients, s \in Servers : /\ Len(unsent[c][s]) + Len(toServer[c][s]) <= MaxChannel
                                        /\ Len(toClient[c][s]) <= MaxChannel
    /\ lost \in [Clients -> SUBSET Servers] /\ granted \in [Clients -> SUBSET Proxies]
    /\ alive \cup inService \cup updates \cup gone \cup listed \subseteq Proxies
    /\ tokenReqs \in [Proxies -> Seq([token : 1 .. MaxTokens, gate : Nat])]
    /\ tokens \in [Proxies -> SUBSET [token : 1 .. MaxTokens, gate : Nat]]
    /\ accepted \subseteq 1 .. MaxTokens /\ failures \in 0 .. MaxFailures
    /\ repeats \in 0 .. MaxRepeats

\* A token lets a process in once: one that a proxy has accepted is nowhere on
\* offer again, though the timer shows it every three seconds.
TokenOnce ==
    \A p \in Proxies :
        /\ \A t \in tokens[p] : t.token \notin accepted
        /\ TokensIn(tokenReqs[p]) \cap accepted = {}

\* A client out of service is on its way back, whatever is delayed, repeated or
\* lost: it waits for a connection, the acknowledgement of one is unread, or a timer
\* will send the next request.  The one thing that stops it is a StartClient that
\* was refused because its previous connection to that server was not gone yet.
KeepsJoining ==
    \A c \in Clients :
        \/ client[c].service \/ client[c].auth \/ client[c].timers # {} \/ client[c].refused
        \/ \E s \in Servers :
              \/ client[c].link[s] \in {"wait", "open"}
              \/ client[c].link[s] = "up" /\ \E i \in 1 .. Len(toClient[c][s]) :
                                               toClient[c][s][i].kind = "registered"

\* Master and proxies keep ids in 32 bits: no proxy is ever listed at a master whose
\* id does not fit, and a process whose id does not fit is never let in, not even
\* with a token that was issued to it or to another process.
OnlyNarrowIdsJoin ==
    /\ listed # {} => Master < IdWidth
    /\ \A c \in Clients : granted[c] # {} => c < IdWidth
=============================================================================
