---------------------------- MODULE PlayerLogin ----------------------------
(***************************************************************************)
(* One player logging in, playing and leaving, across the gate, login,     *)
(* world and game processes.  The gate holds the client's session and a    *)
(* role; the world remembers which game hosts the player; a game holds the *)
(* player's entity.  All four tables are keyed by the player alone, so a   *)
(* second login of the same player meets what the first one left behind.   *)
(*                                                                         *)
(* Servers talk over connections that keep their order.  A login in the    *)
(* login process, and a load in the data process, can overtake another.    *)
(* Gates and games send from the queue of a KFNetClient, which keeps what  *)
(* a break or a crash of the other end finds in it: it goes out ahead of   *)
(* the registration of the next connection.                                *)
(***************************************************************************)
EXTENDS Naturals, Sequences

CONSTANTS
    Gates, Games,
    GameFor,     \* the game the consistent hash picks among a set of games
    MaxSessions, \* bound: sessions the player opens
    MaxFaults,   \* bound: games that crash and connections of theirs to the world that break
    Late,        \* bound: games that may be started after the others
    None,
    Stranger     \* the number of a connection before its registration

Sessions == 1 .. MaxSessions
Homes  == [game : Games, session : Sessions]
Places == [gate : Gates, session : Sessions]

ASSUME LoginAssumption ==
    /\ MaxSessions \in Nat /\ MaxFaults \in Nat /\ Late \subseteq Games
    /\ None \notin Gates \cup Games \cup Homes \cup Places
    /\ Stranger \notin Games \cup {None}
    /\ \A up \in (SUBSET Games) \ {{}} : GameFor[up] \in up

VARIABLES
    \* gate
    gateOf,     \* session -> the gate it was opened at, or None
    handle,     \* session -> "none", "open" (no object id), "bound" or "closed"
    closing,    \* _close_handles
    role,       \* _kf_role_list: gate -> [game, session] or None
    \* login
    verifying,  \* sessions being verified, or verified and on their way to the world
    \* world
    ring,       \* _kf_game_conhash, the games registered at the world
    online,     \* _kf_online_list: the game of the player, Stranger or None
    \* game
    alive,
    linked,     \* games with a _world_server_id
    loading,    \* game -> sessions whose load is under way at the data process
    entity,     \* game -> [gate, session] or None; the code keeps the gate only
    \* connections
    conn,       \* games with a connection to the world
    toGame,     \* world to game
    toWorld,    \* game to world, from the send queue to the receive queue
    unsent,     \* game to world, queued without a connection
    toGate,     \* game to gate
    toHost,     \* gate to game
    \* bounds and history
    faults,
    fate,       \* session -> what came between its role and its entity
    unasked,    \* sessions whose load could not be asked for
    blind,      \* games whose entry a message of another game overwrote
    missed      \* games whose entity went without the world being told

gateVars  == << gateOf, handle, closing, role >>
worldVars == << ring, online, blind >>
gameVars  == << alive, linked, loading, unasked, entity, missed >>
wires     == << conn, toWorld, unsent >>
vars == << gateVars, verifying, worldVars, gameVars, toGame, wires, toGate, toHost,
           faults, fate >>

Init ==
    /\ gateOf = [s \in Sessions |-> None]
    /\ handle = [s \in Sessions |-> "none"]
    /\ closing = {} /\ verifying = {}
    /\ role = [G \in Gates |-> None]
    /\ ring \in {up \in SUBSET Games : Games \ up \subseteq Late} /\ online = None
    /\ alive = [g \in Games |-> g \in ring]
    /\ linked = ring /\ conn = ring
    /\ loading = [g \in Games |-> {}]
    /\ entity = [g \in Games |-> None]
    /\ toGame = [g \in Games |-> << >>]
    /\ toWorld = [g \in Games |-> << >>]
    /\ unsent = [g \in Games |-> << >>]
    /\ toGate = [g \in Games |-> [G \in Gates |-> << >>]]
    /\ toHost = [g \in Games |-> [G \in Gates |-> << >>]]
    /\ faults = 0
    /\ fate = [s \in Sessions |-> "none"]
    /\ unasked = {} /\ blind = {} /\ missed = {}

Kick     == [type |-> "kick", session |-> 0]
Token(s) == [type |-> "token", session |-> s]
Ack(s)   == [type |-> "ack", session |-> s]
Fail(s)  == [type |-> "fail", session |-> s]
Down     == [type |-> "down", session |-> 0]
Welcome  == [type |-> "welcome", session |-> 0]

-----------------------------------------------------------------------------
(* Gate.                                                                   *)

\* The first thing that parts the role of a session from its entity is its fate.
Mark(f, s, what) == IF f[s] = "none" THEN [f EXCEPT ![s] = what] ELSE f

\* The KFNetClient of the gate takes the message, whether the game runs or not.
SendToHost(g, G, m) == toHost' = [toHost EXCEPT ![g][G] = Append(@, m)]

\* HandleLoginVerifyReq: the client's handle is registered with object id 0
\* and the login process is asked.  A handle registers once.
LoginVerify(s, G) ==
    /\ handle[s] = "none"
    /\ \A t \in 1 .. s - 1 : handle[t] # "none"
    /\ handle' = [handle EXCEPT ![s] = "open"]
    /\ gateOf' = [gateOf EXCEPT ![s] = G]
    /\ verifying' = verifying \cup {s}
    /\ UNCHANGED << closing, role, worldVars, gameVars, toGame, wires, toGate, toHost,
                    faults, fate >>

\* Variant with a bug: the role stays.
OnPlayerDisconnectionKeeps(s) ==
    LET G == gateOf[s] IN
    /\ IF handle[s] = "bound" /\ role[G] # None
       THEN SendToHost(role[G].game, G, [type |-> "disconnect", session |-> s])
       ELSE UNCHANGED toHost
    /\ UNCHANGED << role, fate >>

\* OnPlayerDisconnection: the role of the handle's object id is told to its
\* game and removed, whichever session the role is for.
OnPlayerDisconnection(s) ==
    LET G == gateOf[s] IN
    IF handle[s] = "bound" /\ role[G] # None
    THEN /\ SendToHost(role[G].game, G, [type |-> "disconnect", session |-> s])
         /\ role' = [role EXCEPT ![G] = None]
         /\ fate' = IF role[G].session = s THEN fate
                    ELSE Mark(fate, role[G].session, "evicted")
    ELSE UNCHANGED << role, toHost, fate >>

\* The client goes away, or a write fails while the gate closes the session.
SessionLost(s) ==
    /\ handle[s] \in {"open", "bound"}
    /\ OnPlayerDisconnection(s)
    /\ handle' = [handle EXCEPT ![s] = "closed"]
    /\ closing' = closing \ {s}
    /\ UNCHANGED << gateOf, verifying, worldVars, gameVars, toGame, wires, toGate, faults >>

\* RunCloseHandle when the delay is over: nobody is told.
SessionShut(s) ==
    /\ s \in closing
    /\ handle' = [handle EXCEPT ![s] = "closed"]
    /\ closing' = closing \ {s}
    /\ UNCHANGED << gateOf, role, verifying, worldVars, gameVars, toGame, wires, toGate,
                    toHost, faults, fate >>

\* CloseNetHandle notes any session; only one that is still there is closed.
Close(s) == closing' = IF handle[s] = "closed" THEN closing ELSE closing \cup {s}

\* HandleLoginOutReq, from a client whose handle carries the player's id.
LoginOut(s) ==
    LET G == gateOf[s] IN
    /\ handle[s] = "bound"
    /\ role[G] # None
    /\ Close(role[G].session)
    /\ SendToHost(role[G].game, G, [type |-> "logout", session |-> s])
    /\ role' = [role EXCEPT ![G] = None]
    /\ fate' = Mark(fate, role[G].session, "logout")
    /\ UNCHANGED << gateOf, handle, verifying, worldVars, gameVars, toGame, wires, toGate,
                    faults >>

Incoming(g, G, type) == toGate[g][G] # << >> /\ Head(toGate[g][G]).type = type
Received(g, G) == toGate' = [toGate EXCEPT ![g][G] = Tail(@)]

\* HandleKickGatePlayerReq: the role goes, whichever game asked.
HandleKickGatePlayer(g, G) ==
    /\ Incoming(g, G, "kick") /\ Received(g, G)
    /\ IF role[G] = None THEN UNCHANGED << closing, role, fate >>
       ELSE /\ Close(role[G].session)
            /\ role' = [role EXCEPT ![G] = None]
            /\ fate' = IF Head(toGate[g][G]).session = role[G].session THEN fate
                       ELSE Mark(fate, role[G].session, "displaced")
    /\ UNCHANGED << gateOf, handle, verifying, worldVars, gameVars, toGame, wires, toHost,
                    faults >>

\* Variant with a bug: the role points at the gate itself.
HandleLoginGameAckSelf(g, G) ==
    LET s == Head(toGate[g][G]).session IN
    /\ Incoming(g, G, "ack") /\ Received(g, G)
    /\ handle[s] # "closed"
    /\ handle' = [handle EXCEPT ![s] = "bound"]
    /\ role' = [role EXCEPT ![G] = [game |-> G, session |-> s]]
    /\ UNCHANGED << gateOf, closing, verifying, worldVars, gameVars, toGame, wires, toHost,
                    faults, fate >>

\* HandleLoginGameAck, success: BindObjectId needs the session; the role is
\* found or created and overwritten.
HandleLoginGameAck(g, G) ==
    LET s == Head(toGate[g][G]).session IN
    /\ Incoming(g, G, "ack") /\ Received(g, G)
    /\ IF handle[s] = "closed"
       THEN /\ fate' = Mark(fate, s, "unbound")
            /\ UNCHANGED << handle, role >>
       ELSE /\ handle' = [handle EXCEPT ![s] = "bound"]
            /\ role' = [role EXCEPT ![G] = [game |-> g, session |-> s]]
            /\ fate' = IF role[G] = None THEN fate
                       ELSE Mark(fate, role[G].session, "displaced")
    /\ UNCHANGED << gateOf, closing, verifying, worldVars, gameVars, toGame, wires, toHost,
                    faults >>

\* Variant with a bug: the session is not closed.
HandleLoginGameFailIgnored(g, G) ==
    /\ Incoming(g, G, "fail") /\ Received(g, G)
    /\ UNCHANGED << gateVars, verifying, worldVars, gameVars, toGame, wires, toHost, faults,
                    fate >>

\* HandleLoginGameAck, failure: SendLoginFailedMessage.
HandleLoginGameFail(g, G) ==
    /\ Incoming(g, G, "fail") /\ Received(g, G)
    /\ Close(Head(toGate[g][G]).session)
    /\ UNCHANGED << gateOf, handle, role, verifying, worldVars, gameVars, toGame, wires,
                    toHost, faults, fate >>

-----------------------------------------------------------------------------
(* Login.                                                                  *)

\* The verification fails, or no world is connected: HandleLoginVerifyAck at the gate.
VerifyFailed(s) ==
    /\ s \in verifying
    /\ verifying' = verifying \ {s}
    /\ Close(s)
    /\ UNCHANGED << gateOf, handle, role, worldVars, gameVars, toGame, wires, toGate, toHost,
                    faults, fate >>

-----------------------------------------------------------------------------
(* World.                                                                  *)

\* KickOnline: the entry is removed once the kick could be sent, and not when
\* its game is not connected.
CanKick == online \in ring

\* The world's message reaches a game it has registered over the connection that
\* is there.
SendToGame(q, g, m) == IF g \in conn THEN [q EXCEPT ![g] = Append(@, m)] ELSE q

\* HandleLoginWorldVerifyReq: kick, then pick a game and hand it the login
\* at once; with no game the login fails.
HandleLoginWorldVerify(s) ==
    LET kicked == IF CanKick THEN SendToGame(toGame, online, Kick) ELSE toGame IN
    /\ s \in verifying
    /\ verifying' = verifying \ {s}
    /\ online' = IF CanKick THEN None ELSE online
    /\ IF ring = {}
       THEN toGame' = kicked /\ Close(s)
       ELSE /\ toGame' = SendToGame(kicked, GameFor[ring], Token(s))
            /\ UNCHANGED closing
    /\ UNCHANGED << gateOf, handle, role, ring, blind, gameVars, wires, toGate, toHost,
                    faults, fate >>

\* HandleHttpKickOnline.
HttpKick ==
    /\ CanKick
    /\ toGame' = SendToGame(toGame, online, Kick)
    /\ online' = None
    /\ UNCHANGED << gateVars, verifying, ring, blind, gameVars, wires, toGate, toHost, faults,
                    fate >>

WorldGets(g, type) == toWorld[g] # << >> /\ Head(toWorld[g]).type = type

\* HandlePlayerEnterWorldReq and HandleGameSyncOnlineReq: find or create, and
\* point the entry at the sender.
HandlePlayerEnterWorld(g) ==
    LET sender == Head(toWorld[g]).from IN
    /\ WorldGets(g, "enter")
    /\ toWorld' = [toWorld EXCEPT ![g] = Tail(@)]
    /\ online' = sender
    /\ blind' = (blind \ {sender}) \cup ((Games \ {g}) \cap {online})
    /\ UNCHANGED << gateVars, verifying, ring, gameVars, toGame, conn, unsent, toGate, toHost,
                    faults, fate >>

\* HandlePlayerLeaveWorldReq: the entry goes, whichever game it names.
HandlePlayerLeaveWorld(g) ==
    /\ WorldGets(g, "leave")
    /\ toWorld' = [toWorld EXCEPT ![g] = Tail(@)]
    /\ online' = None
    /\ blind' = blind \cup ((Games \ {g}) \cap {online})
    /\ UNCHANGED << gateVars, verifying, ring, gameVars, toGame, conn, unsent, toGate, toHost,
                    faults, fate >>

\* Of a queue, the first n messages reach the world before it has registered the sender.
Strays(q, n) == [i \in 1 .. Len(q) |-> IF i <= n THEN [q[i] EXCEPT !.from = Stranger] ELSE q[i]]

\* HandleRegisterReq, then OnServerDisCoverGame; a second registration is refused.
HandleRegister(g) ==
    LET rest == Tail(toWorld[g]) IN
    /\ WorldGets(g, "register")
    /\ IF g \in ring
       THEN toWorld' = [toWorld EXCEPT ![g] = rest] /\ UNCHANGED << ring, toGame >>
       ELSE /\ ring' = ring \cup {g}
            /\ toGame' = SendToGame(toGame, g, Welcome)
            /\ \E n \in 0 .. Len(rest) : toWorld' = [toWorld EXCEPT ![g] = Strays(rest, n)]
    /\ UNCHANGED << gateVars, verifying, online, blind, gameVars, conn, unsent, toGate, toHost,
                    faults, fate >>

\* OnServerLostGame: the game leaves the hash; its players stay in the list.
OnServerLostGame(g) ==
    /\ g \in ring \ conn
    /\ ring' = ring \ {g}
    /\ UNCHANGED << gateVars, verifying, online, blind, gameVars, toGame, wires, toGate, toHost,
                    faults, fate >>

-----------------------------------------------------------------------------
(* The connection of a game to the world.                                  *)

\* A registration taken after the break is none.
Got(q, n) == \A i \in 1 .. n : q[i].type # "register"
Ends(q) == \E i \in DOMAIN q : q[i].type = "leave"

\* The connection breaks: the world gets a part of what was sent, the game keeps
\* what it had not written; the game gets a part of what was sent to it, and sees
\* the break before a part of that.
Break(g) ==
    LET q == toWorld[g] IN
    /\ g \in conn /\ faults < MaxFaults
    /\ faults' = faults + 1
    /\ conn' = conn \ {g}
    /\ \E got \in 0 .. Len(q) : \E kept \in got .. Len(q) :
          LET lost == SubSeq(q, got + 1, kept)
              rest == SubSeq(q, kept + 1, Len(q)) IN
          /\ Got(q, got)
          /\ toWorld' = [toWorld EXCEPT ![g] = SubSeq(q, 1, got)]
          /\ unsent' = [unsent EXCEPT ![g] = rest]
          /\ missed' = IF entity[g] = None /\ Ends(lost) /\ ~Ends(rest)
                       THEN missed \cup {g} ELSE missed
    /\ \E got \in 0 .. Len(toGame[g]) : \E seen \in 0 .. got :
          toGame' = [toGame EXCEPT ![g] =
                        Append(SubSeq(@, 1, seen), Down) \o SubSeq(@, seen + 1, got)]
    /\ UNCHANGED << gateVars, verifying, worldVars, alive, linked, loading, unasked, entity,
                    toGate, toHost, fate >>

\* Five seconds later, when both ends have seen the break: what waited is written,
\* then the registration.
Connect(g) ==
    /\ alive[g] /\ g \notin conn \cup ring
    /\ \A i \in DOMAIN toGame[g] : toGame[g][i].type # "down"
    /\ conn' = conn \cup {g}
    /\ toWorld' = [toWorld EXCEPT ![g] =
          Append(@ \o Strays(unsent[g], Len(unsent[g])), [type |-> "register", from |-> Stranger])]
    /\ unsent' = [unsent EXCEPT ![g] = << >>]
    /\ UNCHANGED << gateVars, verifying, worldVars, gameVars, toGame, toGate, toHost, faults,
                    fate >>

-----------------------------------------------------------------------------
(* Game.                                                                   *)

\* SendToWorld: a game without _world_server_id drops the message.
SendToWorld(g, type, known) ==
    LET m == [type |-> type, from |-> g] IN
    /\ toWorld' = IF g \in known \cap conn THEN [toWorld EXCEPT ![g] = Append(@, m)] ELSE toWorld
    /\ unsent' = IF g \in known \ conn THEN [unsent EXCEPT ![g] = Append(@, m)] ELSE unsent

GameGets(g, type) == alive[g] /\ toGame[g] # << >> /\ Head(toGame[g]).type = type

\* OnClientLostServer, and RegisterToServerAck with OnClientConnectionWorld: the game
\* lists the players it has.
OnClientLostServer(g) ==
    /\ GameGets(g, "down")
    /\ toGame' = [toGame EXCEPT ![g] = Tail(@)]
    /\ linked' = linked \ {g}
    /\ UNCHANGED << gateVars, verifying, worldVars, alive, loading, unasked, entity, missed,
                    wires, toGate, toHost, faults, fate >>

OnClientConnectionWorld(g) ==
    /\ GameGets(g, "welcome")
    /\ toGame' = [toGame EXCEPT ![g] = Tail(@)]
    /\ linked' = linked \cup {g}
    /\ IF entity[g] = None THEN UNCHANGED << toWorld, unsent >>
       ELSE SendToWorld(g, "enter", linked')
    /\ UNCHANGED << gateVars, verifying, worldVars, alive, loading, unasked, entity, missed,
                    conn, toGate, toHost, faults, fate >>

\* Variant with a bug: the world is not told.
RemoveEntityQuietly(g) ==
    /\ entity' = [entity EXCEPT ![g] = None]
    /\ missed' = IF entity[g] = None \/ g \in linked THEN missed ELSE missed \cup {g}
    /\ UNCHANGED << toWorld, unsent >>

\* RemoveEntity: UnInitPlayer tells the world, then the entity is saved and erased.
RemoveEntity(g) ==
    /\ entity' = [entity EXCEPT ![g] = None]
    /\ IF entity[g] = None THEN UNCHANGED << toWorld, unsent, missed >>
       ELSE /\ SendToWorld(g, "leave", linked)
            /\ missed' = IF g \in linked THEN missed ELSE missed \cup {g}

\* Variant with a bug: the gate is not told.
KickPlayerQuietly(g) == RemoveEntity(g) /\ UNCHANGED toGate

\* KickPlayer: tell the gate of the entity, then remove it.
KickPlayer(g) ==
    /\ RemoveEntity(g)
    /\ toGate' = IF entity[g] = None THEN toGate
                 ELSE [toGate EXCEPT ![g][entity[g].gate] =
                           Append(@, [Kick EXCEPT !.session = entity[g].session])]

HandleKickGamePlayer(g) ==
    /\ GameGets(g, "kick")
    /\ toGame' = [toGame EXCEPT ![g] = Tail(@)]
    /\ KickPlayer(g)
    /\ UNCHANGED << gateVars, verifying, worldVars, alive, linked, loading, unasked, conn,
                    toHost, faults, fate >>

\* HandleLoginTellTokenToGameReq: kick again, then ask for the player's data; when
\* no data process can be asked that is logged, and nobody is told.
HandleLoginTellToken(g) ==
    LET s == Head(toGame[g]).session IN
    /\ GameGets(g, "token")
    /\ toGame' = [toGame EXCEPT ![g] = Tail(@)]
    /\ KickPlayer(g)
    /\ \/ loading' = [loading EXCEPT ![g] = @ \cup {s}] /\ UNCHANGED unasked
       \/ unasked' = unasked \cup {s} /\ UNCHANGED loading
    /\ UNCHANGED << gateVars, verifying, worldVars, alive, linked, conn, toHost, faults, fate >>

\* HandleLoadPlayerAck, success: CreatePlayer inserts over an entity that is
\* there, tells the world, and the gate is answered.
HandleLoadPlayerAck(g, s) ==
    /\ s \in loading[g]
    /\ loading' = [loading EXCEPT ![g] = @ \ {s}]
    /\ entity' = [entity EXCEPT ![g] = [gate |-> gateOf[s], session |-> s]]
    /\ fate' = IF entity[g] = None THEN fate ELSE Mark(fate, entity[g].session, "replaced")
    /\ SendToWorld(g, "enter", linked)
    /\ missed' = missed \ {g}
    /\ toGate' = [toGate EXCEPT ![g][gateOf[s]] = Append(@, Ack(s))]
    /\ UNCHANGED << gateVars, verifying, worldVars, alive, linked, unasked, toGame, conn,
                    toHost, faults >>

\* HandleLoadPlayerAck, failure.
HandleLoadPlayerFail(g, s) ==
    /\ s \in loading[g]
    /\ loading' = [loading EXCEPT ![g] = @ \ {s}]
    /\ toGate' = [toGate EXCEPT ![g][gateOf[s]] = Append(@, Fail(s))]
    /\ UNCHANGED << gateVars, verifying, worldVars, alive, linked, unasked, entity, missed,
                    toGame, wires, toHost, faults, fate >>

HostGets(g, G, type) == alive[g] /\ toHost[g][G] # << >> /\ Head(toHost[g][G]).type = type

\* HandlePlayerDisconnectionReq: the entity goes, whichever gate and session it is for.
HandlePlayerDisconnection(g, G) ==
    /\ HostGets(g, G, "disconnect")
    /\ toHost' = [toHost EXCEPT ![g][G] = Tail(@)]
    /\ RemoveEntity(g)
    /\ fate' = IF entity[g] = None \/ entity[g].session = Head(toHost[g][G]).session THEN fate
               ELSE Mark(fate, entity[g].session, "evicted")
    /\ UNCHANGED << gateVars, verifying, worldVars, alive, linked, loading, unasked, toGame, conn,
                    toGate, faults >>

\* S2S_LOGIN_OUT_REQ has no handler: KFPlayerModule registers HandleLoginOutReq
\* for MSG_LOGIN_OUT_REQ, which the gate keeps to itself.
DropLoginOut(g, G) ==
    /\ HostGets(g, G, "logout")
    /\ toHost' = [toHost EXCEPT ![g][G] = Tail(@)]
    /\ UNCHANGED << gateVars, verifying, worldVars, gameVars, toGame, wires, toGate, faults,
                    fate >>

\* A game process dies with its entities, its loads and what was sent to it; a part
\* of what it sent still arrives.
Crash(g) ==
    /\ alive[g] /\ faults < MaxFaults
    /\ faults' = faults + 1
    /\ alive' = [alive EXCEPT ![g] = FALSE]
    /\ conn' = conn \ {g} /\ linked' = linked \ {g}
    /\ loading' = [loading EXCEPT ![g] = {}]
    /\ entity' = [entity EXCEPT ![g] = None]
    /\ missed' = missed \cup {g}
    /\ toGame' = [toGame EXCEPT ![g] = << >>]
    /\ \E got \in 0 .. Len(toWorld[g]) :
          Got(toWorld[g], got) /\ toWorld' = [toWorld EXCEPT ![g] = SubSeq(@, 1, got)]
    /\ unsent' = [unsent EXCEPT ![g] = << >>]
    /\ fate' = IF entity[g] = None THEN fate ELSE Mark(fate, entity[g].session, "crashed")
    /\ UNCHANGED << gateVars, verifying, worldVars, unasked, toGate, toHost >>

\* What a gate had written to a game that died is lost; so is what still waits
\* when KFBus closes the KFNetClient because the master says so.
ToHostLost(g, G) ==
    /\ ~alive[g] /\ toHost[g][G] # << >>
    /\ toHost' = [toHost EXCEPT ![g][G] = Tail(@)]
    /\ UNCHANGED << gateVars, verifying, worldVars, gameVars, toGame, wires, toGate, faults,
                    fate >>

\* A game process starts; the connections of the one before it are gone, what the
\* gates had not written to it is not.
Start(g) ==
    /\ ~alive[g] /\ g \notin ring
    /\ alive' = [alive EXCEPT ![g] = TRUE]
    /\ toGate' = [toGate EXCEPT ![g] = [G \in Gates |-> << >>]]
    /\ fate' = [s \in Sessions |->
                   IF /\ fate[s] = "none"
                      /\ \E G \in Gates : \E i \in DOMAIN toGate[g][G] : toGate[g][G][i].session = s
                   THEN "crashed" ELSE fate[s]]
    /\ UNCHANGED << gateVars, verifying, worldVars, linked, loading, unasked, entity, missed,
                    toGame, wires, toHost, faults >>
-----------------------------------------------------------------------------
GateReceives(g, G) ==
    HandleKickGatePlayer(g, G) \/ HandleLoginGameAck(g, G) \/ HandleLoginGameFail(g, G)
WorldReceives(g) ==
    HandlePlayerEnterWorld(g) \/ HandlePlayerLeaveWorld(g) \/ HandleRegister(g)
GameReceives(g) ==
    \/ HandleKickGamePlayer(g) \/ HandleLoginTellToken(g)
    \/ OnClientLostServer(g) \/ OnClientConnectionWorld(g)
HostReceives(g, G) == HandlePlayerDisconnection(g, G) \/ DropLoginOut(g, G) \/ ToHostLost(g, G)
Verified(s) == VerifyFailed(s) \/ HandleLoginWorldVerify(s)
Loaded(g, s) == HandleLoadPlayerAck(g, s) \/ HandleLoadPlayerFail(g, s)

Next ==
    \/ \E s \in Sessions :
          \/ \E G \in Gates : LoginVerify(s, G)
          \/ SessionLost(s) \/ SessionShut(s) \/ LoginOut(s)
          \/ Verified(s)
          \/ \E g \in Games : Loaded(g, s)
    \/ \E g \in Games :
          \/ \E G \in Gates : GateReceives(g, G) \/ HostReceives(g, G)
          \/ WorldReceives(g) \/ GameReceives(g)
          \/ OnServerLostGame(g) \/ Break(g) \/ Connect(g)
          \/ Crash(g) \/ Start(g)
    \/ HttpKick

Spec == Init /\ [][Next]_vars

-----------------------------------------------------------------------------
Messages == [type : {"token", "ack", "fail", "disconnect", "logout"}, session : Sessions]
            \cup [type : {"kick", "down", "welcome"}, session : 0 .. MaxSessions]
Reports  == [type : {"enter", "leave", "register"}, from : Games \cup {Stranger}]

\* Types of the tables and of what is under way.
TypeOK ==
    /\ gateOf \in [Sessions -> Gates \cup {None}]
    /\ handle \in [Sessions -> {"none", "open", "bound", "closed"}]
    /\ closing \subseteq Sessions /\ verifying \subseteq Sessions
    /\ role \in [Gates -> Homes \cup {None}]
    /\ ring \subseteq Games /\ online \in Games \cup {Stranger, None}
    /\ alive \in [Games -> BOOLEAN]
    /\ linked \subseteq Games /\ conn \subseteq Games
    /\ loading \in [Games -> SUBSET Sessions]
    /\ entity \in [Games -> Places \cup {None}]
    /\ toGame \in [Games -> Seq(Messages)]
    /\ toWorld \in [Games -> Seq(Reports)] /\ unsent \in [Games -> Seq(Reports)]
    /\ toGate \in [Games -> [Gates -> Seq(Messages)]]
    /\ toHost \in [Games -> [Gates -> Seq(Messages)]]
    /\ faults \in 0 .. MaxFaults
    /\ fate \in [Sessions -> {"none", "logout", "unbound", "displaced", "replaced", "evicted",
                              "crashed"}]
    /\ unasked \subseteq Sessions /\ blind \subseteq Games /\ missed \subseteq Games

\* A role never outlives its session: the session of a role is bound to the
\* player and no delayed close is waiting for it, although a close leaves
\* without telling anyone and roles are found by player.
RoleIsBound ==
    \A G \in Gates : role[G] # None =>
        LET s == role[G].session IN
        handle[s] = "bound" /\ gateOf[s] = G /\ s \notin closing

Settled ==
    /\ verifying = {} /\ closing = {}
    /\ \A g \in Games :
          /\ loading[g] = {} /\ toGame[g] = << >> /\ toWorld[g] = << >> /\ unsent[g] = << >>
          /\ \A G \in Gates : toGate[g][G] = << >> /\ (alive[g] => toHost[g][G] = << >>)

\* At rest the gate and the game agree on a login nothing named by its fate has
\* come between: its role points at the game that has its entity, and back.
RoleIsEntity ==
    Settled => \A g \in Games, G \in Gates, s \in Sessions :
        fate[s] = "none" =>
            (role[G] = [game |-> g, session |-> s] <=> entity[g] = [gate |-> G, session |-> s])

\* At rest the world's list names the game that hosts the player, unless another
\* game's message overwrote the entry; and the game it names hosts the player,
\* unless the end of its entity was lost: told to nobody, or cut off by a break or
\* a crash.  Once every game that runs is registered, that alone leaves an entry
\* of an unknown game behind.
OnlineIsEntity ==
    Settled =>
        /\ \A g \in linked : entity[g] # None /\ g \notin blind => online = g
        /\ \A g \in Games : online = g /\ g \notin missed => entity[g] # None
        /\ online = Stranger /\ (\A g \in Games : alive[g] => g \in linked) => missed # {}

\* At rest, while no game and no connection fails, every login has been answered:
\* the session is bound to the player or closed.  The exception is the login whose
\* load could not be asked for.
AnsweredAtRest ==
    Settled /\ faults = 0 => \A s \in Sessions : handle[s] = "open" => s \in unasked

\* KFServerMessage.proto:31 says the logout request logs the player out of the
\* game: once everything is delivered the game has no entity for the session.
LogoutLeaves ==
    Settled => \A g \in Games :
        entity[g] # None => fate[entity[g].session] # "logout"
=============================================================================
