----------------------------- MODULE NetHandle -----------------------------
(***************************************************************************)
(* The accepting side of KFNetwork: KFNetServerEngine, KFNetHandle and     *)
(* KFTcpServerModule.  The libuv thread accepts connections, notices that  *)
(* they break and closes them; it tells the main thread by events.  The    *)
(* main thread keeps an accepted connection as a trustee until its peer    *)
(* registers under an app id, then lists it under that id, and tells the   *)
(* modules above which apps were discovered and which were lost.           *)
(*                                                                         *)
(* _session_id and _is_trustee of a handle are written by the main thread  *)
(* and read by the libuv thread with no lock, so registration and the two  *)
(* callbacks that post events are split at those accesses.                 *)
(***************************************************************************)
EXTENDS Naturals, Sequences, FiniteSets

CONSTANTS
    MaxConns,   \* bound: connections accepted in a behaviour
    MaxWriteErrors, \* bound: writes that fail in a behaviour
    Apps,       \* app ids
    AppOf,      \* the app at the other end of a connection
    None

\* MakeTrusteeID numbers the connections, so each is its trustee id.
Conns == 1 .. MaxConns

ASSUME HandleAssumption ==
    /\ MaxConns \in Nat /\ MaxWriteErrors \in Nat
    /\ AppOf \in [Conns -> Apps]
    /\ Conns \cap Apps = {} /\ None \notin Conns \cup Apps

VARIABLES
    \* the handle objects
    sessionId,   \* _session_id: the trustee id, then the app id
    isTrustee,   \* _is_trustee
    isShutdown,  \* _is_shutdown
    freed,       \* handles destroyed
    \* libuv thread
    sock,        \* connection -> "none", "open", "closing" or "closed"
    readErr,     \* connections whose read has failed
    writeErr,    \* connections whose write in flight has failed or was cancelled
    inbox,       \* connection -> REGISTER_TO_SERVER_REQ: "none", "queued" or "handled"
    shutSession, \* _shut_session
    posting,     \* the event the libuv thread is about to add, or None
    events,      \* _net_event_data
    \* main thread
    phase,       \* which part of RunEngine comes next
    todo,        \* trustees RunTrusteeMessage has yet to visit
    registering, \* the handle inside RegisteHandle, or None
    trustees,    \* _trustee_handles
    removeTrustees, \* _remove_trustees
    handles,     \* _kf_handles: app id -> handle or None
    closeHandles,\* _close_handles
    \* the modules above, and history
    upper,       \* apps discovered and not lost since
    lastHandle,  \* app id -> the handle it registered last
    quiet,       \* handles closed without a lost callback
    late,        \* handles registered after they were closed
    stray        \* handles whose disconnect event found no handle

objects == << sessionId, isTrustee, isShutdown, freed >>
uv      == << sock, readErr, writeErr, inbox, posting >>
tables  == << trustees, removeTrustees, handles, closeHandles >>
history == << upper, lastHandle, quiet, late, stray >>
vars == << objects, uv, shutSession, events, phase, todo, registering, tables, history >>

Init ==
    /\ sessionId = [c \in Conns |-> c]
    /\ isTrustee = [c \in Conns |-> TRUE]
    /\ isShutdown = [c \in Conns |-> FALSE]
    /\ freed = {}
    /\ sock = [c \in Conns |-> "none"]
    /\ readErr = {} /\ writeErr = {}
    /\ inbox = [c \in Conns |-> "none"]
    /\ shutSession = {} /\ posting = None /\ events = << >>
    /\ phase = "event" /\ todo = {} /\ registering = None
    /\ trustees = {} /\ removeTrustees = {}
    /\ handles = [a \in Apps |-> None] /\ closeHandles = {}
    /\ upper = {} /\ lastHandle = [a \in Apps |-> None]
    /\ quiet = {} /\ late = {} /\ stray = {}

-----------------------------------------------------------------------------
(* The libuv thread.  It runs one callback at a time: while an event is    *)
(* being posted nothing else of it runs.                                   *)

UvIdle == posting = None

Event(kind, of) == [kind |-> kind, of |-> of, trustee |-> FALSE, id |-> None]

\* OnConnectionCallBack: a new handle with a new trustee id, and a ConnectEvent.
OnConnection(c) ==
    /\ UvIdle
    /\ sock[c] = "none"
    /\ \A d \in 1 .. c - 1 : sock[d] # "none"
    /\ sock' = [sock EXCEPT ![c] = "open"]
    /\ events' = Append(events, [Event("connect", c) EXCEPT !.id = c])
    /\ UNCHANGED << objects, readErr, writeErr, inbox, posting, shutSession, phase, todo,
                    registering, tables, history >>

\* OnRecvData of the register request.
OnRecvRegister(c) ==
    /\ UvIdle
    /\ sock[c] = "open" /\ c \notin readErr
    /\ inbox[c] = "none"
    /\ inbox' = [inbox EXCEPT ![c] = "queued"]
    /\ UNCHANGED << objects, sock, readErr, writeErr, posting, shutSession, events, phase, todo,
                    registering, tables, history >>

\* OnRecvCallBack with an error: OnDisconnect reads _session_id for its event.
OnReadError(c) ==
    /\ UvIdle
    /\ sock[c] = "open" /\ c \notin readErr
    /\ readErr' = readErr \cup {c}
    /\ posting' = [Event("disconnect", c) EXCEPT !.id = sessionId[c]]
    /\ UNCHANGED << objects, sock, writeErr, inbox, shutSession, events, phase, todo,
                    registering, tables, history >>

\* OnSendCallBack with an error, or cancelled by uv_close: OnDisconnect again.
OnWriteError(c) ==
    /\ UvIdle
    /\ sock[c] \in {"open", "closing"} /\ c \notin writeErr
    /\ Cardinality(writeErr) < MaxWriteErrors
    /\ writeErr' = writeErr \cup {c}
    /\ posting' = [Event("disconnect", c) EXCEPT !.id = sessionId[c]]
    /\ UNCHANGED << objects, sock, readErr, inbox, shutSession, events, phase, todo,
                    registering, tables, history >>

\* OnAsyncShutCallBack: CloseSession of every session asked for.
OnAsyncShut ==
    /\ UvIdle
    /\ shutSession # {}
    /\ shutSession' = {}
    /\ sock' = [c \in Conns |-> IF c \in shutSession THEN "closing" ELSE sock[c]]
    /\ UNCHANGED << objects, readErr, writeErr, inbox, posting, events, phase, todo,
                    registering, tables, history >>

\* OnShutCallBack reads _is_trustee, then _session_id.
OnShut(c) ==
    /\ UvIdle
    /\ sock[c] = "closing"
    /\ sock' = [sock EXCEPT ![c] = "closed"]
    /\ posting' = [Event("shut", c) EXCEPT !.trustee = isTrustee[c]]
    /\ UNCHANGED << objects, readErr, writeErr, inbox, shutSession, events, phase, todo,
                    registering, tables, history >>

OnShutReadId ==
    /\ posting # None /\ posting.id = None
    /\ posting' = [posting EXCEPT !.id = sessionId[posting.of]]
    /\ UNCHANGED << objects, sock, readErr, writeErr, inbox, shutSession, events, phase, todo,
                    registering, tables, history >>

\* AddEvent: push the event on the queue the main thread drains.
AddEvent ==
    /\ posting # None /\ posting.id # None
    /\ events' = Append(events, posting)
    /\ posting' = None
    /\ UNCHANGED << objects, sock, readErr, writeErr, inbox, shutSession, phase, todo,
                    registering, tables, history >>

-----------------------------------------------------------------------------
(* The main thread: RunEngine, one part after the other. *)

Open(S) == {c \in S : ~ isShutdown[c]}

\* Variant with a bug: a handle may be closed twice.
CloseHandlesAgain(S) ==
    /\ isShutdown' = [c \in Conns |-> isShutdown[c] \/ c \in S]
    /\ shutSession' = shutSession \cup S

\* KFNetHandle::CloseHandle and KFNetServices::CloseSession, for a set of handles.
CloseHandles(S) ==
    /\ isShutdown' = [c \in Conns |-> isShutdown[c] \/ c \in S]
    /\ shutSession' = shutSession \cup Open(S)

\* OnServerConnected.
HandleConnect(e) ==
    /\ e.kind = "connect"
    /\ trustees' = trustees \cup {e.id}
    /\ UNCHANGED << objects, shutSession, removeTrustees, handles, closeHandles, history >>

\* Variant with a bug: the connection is closed but nobody above is told.
HandleDisconnectQuietly(e) ==
    /\ e.kind = "disconnect"
    /\ e.id \in Apps /\ handles[e.id] # None
    /\ CloseHandles({handles[e.id]})
    /\ UNCHANGED << sessionId, isTrustee, freed, tables, history >>

\* OnServerDisconnect of a registered connection: the lost functions, then close.
HandleDisconnect(e) ==
    /\ e.kind = "disconnect"
    /\ e.id \in Apps /\ handles[e.id] # None
    /\ upper' = upper \ {e.id}
    /\ CloseHandles({handles[e.id]})
    /\ UNCHANGED << sessionId, isTrustee, freed, tables, lastHandle, quiet, late, stray >>

\* Variant with a bug: the trustee is left to its timeout.
HandleTrusteeDisconnectLater(e) ==
    /\ e.kind = "disconnect"
    /\ e.id \in trustees
    /\ UNCHANGED << objects, shutSession, tables, history >>

\* OnServerDisconnect of a trustee, which may have registered since.
HandleTrusteeDisconnect(e) ==
    /\ e.kind = "disconnect"
    /\ e.id \in trustees
    /\ CloseHandles({e.id})
    /\ quiet' = quiet \cup Open({e.id})
    /\ UNCHANGED << sessionId, isTrustee, freed, tables, upper, lastHandle, late, stray >>

\* OnServerDisconnect of an id in neither table: an error is logged, no more.
HandleStrayDisconnect(e) ==
    /\ e.kind = "disconnect"
    /\ e.id \notin trustees /\ (e.id \in Apps => handles[e.id] = None)
    /\ stray' = stray \cup {e.of}
    /\ UNCHANGED << objects, shutSession, tables, upper, lastHandle, quiet, late >>

\* OnServerShutDown: take the handle out of the table it was in when it closed,
\* and destroy it.  An id that is not in that table is ignored.
HandleShut(e) ==
    /\ e.kind = "shut"
    /\ IF e.trustee
       THEN /\ trustees' = trustees \ {e.id}
            /\ freed' = freed \cup ({e.id} \cap trustees)
            /\ UNCHANGED handles
       ELSE IF e.id \in Apps
       THEN /\ freed' = freed \cup ({handles[e.id]} \ {None})
            /\ handles' = [handles EXCEPT ![e.id] = None]
            /\ UNCHANGED trustees
       ELSE UNCHANGED << trustees, freed, handles >>
    /\ UNCHANGED << sessionId, isTrustee, isShutdown, shutSession, removeTrustees, closeHandles, history >>

\* RunEvent takes events until the queue is empty.
RunEvent ==
    /\ phase = "event" /\ events # << >>
    /\ events' = Tail(events)
    /\ LET e == Head(events)
       IN \/ HandleConnect(e)
          \/ HandleDisconnect(e) \/ HandleTrusteeDisconnect(e) \/ HandleStrayDisconnect(e)
          \/ HandleShut(e)
    /\ UNCHANGED << uv, phase, todo, registering >>

\* Variant with a bug: the removed trustee is destroyed though it is listed again.
RunRemoveTrusteeHandleDestroys ==
    /\ trustees' = trustees \ removeTrustees
    /\ freed' = freed \cup (trustees \cap removeTrustees)
    /\ removeTrustees' = {}

\* RunRemoveTrusteeHandle: trustees registered in the last frame leave their table.
RunRemoveTrusteeHandle ==
    /\ trustees' = trustees \ removeTrustees
    /\ removeTrustees' = {}
    /\ UNCHANGED freed

\* RunCheckTrusteeTimeout and RunCloseHandle: any trustee may have been one for
\* thirty seconds, and any close asked for may be due.
RunClose ==
    \E expired \in SUBSET trustees', due \in SUBSET closeHandles :
        LET S == expired \cup ({handles[a] : a \in due} \ {None})
        IN /\ CloseHandles(S)
           /\ quiet' = quiet \cup Open(S)
           /\ closeHandles' = closeHandles \ due

\* The three parts of RunEngine between the events and the messages, which the
\* libuv thread cannot tell apart.
RunBetween ==
    /\ phase = "event" /\ events = << >>
    /\ phase' = "message"
    /\ RunRemoveTrusteeHandle
    /\ RunClose
    /\ todo' = trustees'
    /\ UNCHANGED << sessionId, isTrustee, uv, events, registering, handles,
                    upper, lastHandle, late, stray >>

\* KFTcpServerModule::CloseNetHandle, called by a module while it handles a message.
CloseNetHandle(a) ==
    /\ phase = "message" /\ registering = None
    /\ handles[a] # None
    /\ closeHandles' = closeHandles \cup {a}
    /\ UNCHANGED << objects, uv, shutSession, events, phase, todo, registering, trustees,
                    removeTrustees, handles, history >>

\* RunTrusteeMessage visits a trustee that has sent nothing, or whose app id is
\* taken: RegisteHandle refuses ("already exist").
VisitTrustee(c) ==
    /\ phase = "message" /\ registering = None
    /\ c \in todo
    /\ inbox[c] # "queued" \/ handles[AppOf[c]] # None
    /\ todo' = todo \ {c}
    /\ inbox' = [inbox EXCEPT ![c] = IF @ = "queued" THEN "handled" ELSE @]
    /\ UNCHANGED << objects, sock, readErr, writeErr, posting, shutSession, events, phase,
                    registering, tables, history >>

\* Variant with a bug: a second connection of an app takes the place of the first.
RegisteHandleReplaces(c) ==
    /\ phase = "message" /\ registering = None
    /\ c \in todo /\ inbox[c] = "queued"
    /\ todo' = todo \ {c}
    /\ inbox' = [inbox EXCEPT ![c] = "handled"]
    /\ removeTrustees' = removeTrustees \cup {c}
    /\ isTrustee' = [isTrustee EXCEPT ![c] = FALSE]
    /\ registering' = c
    /\ UNCHANGED << sessionId, isShutdown, freed, sock, readErr, writeErr, posting, shutSession,
                    events, phase, trustees, handles, closeHandles, history >>

\* HandleRegisterReq and RegisteHandle up to the store of _is_trustee.
RegisteHandle(c) ==
    /\ phase = "message" /\ registering = None
    /\ c \in todo /\ inbox[c] = "queued"
    /\ handles[AppOf[c]] = None
    /\ todo' = todo \ {c}
    /\ inbox' = [inbox EXCEPT ![c] = "handled"]
    /\ removeTrustees' = removeTrustees \cup {c}
    /\ isTrustee' = [isTrustee EXCEPT ![c] = FALSE]
    /\ registering' = c
    /\ UNCHANGED << sessionId, isShutdown, freed, sock, readErr, writeErr, posting, shutSession,
                    events, phase, trustees, handles, closeHandles, history >>

\* Variant with a bug: the table holds the id instead of the handle.
RegisteHandleInsertId ==
    /\ registering # None
    /\ LET a == AppOf[registering]
       IN /\ sessionId' = [sessionId EXCEPT ![registering] = a]
          /\ handles' = [handles EXCEPT ![a] = a]
          /\ upper' = upper \cup {a}
          /\ lastHandle' = [lastHandle EXCEPT ![a] = registering]
    /\ registering' = None
    /\ UNCHANGED << isTrustee, isShutdown, freed, uv, shutSession, events, phase, todo, trustees,
                    removeTrustees, closeHandles, quiet, late, stray >>

\* The rest of RegisteHandle, and the discover functions.
RegisteHandleInsert ==
    /\ registering # None
    /\ LET a == AppOf[registering]
       IN /\ sessionId' = [sessionId EXCEPT ![registering] = a]
          /\ handles' = [handles EXCEPT ![a] = registering]
          /\ upper' = upper \cup {a}
          /\ lastHandle' = [lastHandle EXCEPT ![a] = registering]
    /\ late' = IF isShutdown[registering] THEN late \cup {registering} ELSE late
    /\ registering' = None
    /\ UNCHANGED << isTrustee, isShutdown, freed, uv, shutSession, events, phase, todo, trustees,
                    removeTrustees, closeHandles, quiet, stray >>

EndFrame ==
    /\ phase = "message" /\ todo = {} /\ registering = None
    /\ phase' = "event"
    /\ UNCHANGED << objects, uv, shutSession, events, todo, registering, tables, history >>

-----------------------------------------------------------------------------
MainThread ==
    \/ RunEvent \/ RunBetween \/ RegisteHandleInsert \/ EndFrame
    \/ \E c \in Conns : VisitTrustee(c) \/ RegisteHandle(c)

\* What the libuv thread does on its own account.
UvThread == OnAsyncShut \/ OnShutReadId \/ AddEvent \/ \E c \in Conns : OnShut(c)

\* What the network and the modules above may bring about.
Environment ==
    \/ \E c \in Conns : OnConnection(c) \/ OnRecvRegister(c) \/ OnReadError(c) \/ OnWriteError(c)
    \/ \E a \in Apps : CloseNetHandle(a)

Next == MainThread \/ UvThread \/ Environment

Spec == Init /\ [][Next]_vars

\* The main loop and the libuv loop keep running; the environment owes nothing.
FairSpec == Spec /\ WF_vars(MainThread) /\ WF_vars(UvThread)

-----------------------------------------------------------------------------
(* Properties *)

Events  == [kind : {"connect", "disconnect", "shut"}, of : Conns, trustee : BOOLEAN,
            id : Conns \cup Apps]
Posting == [kind : {"disconnect", "shut"}, of : Conns, trustee : BOOLEAN,
            id : Conns \cup Apps \cup {None}]

\* Every table holds what the code stores in it; an event in the queue is
\* complete, the one being posted may still lack its id.
TypeOK ==
    /\ events \in Seq(Events) /\ posting \in Posting \cup {None}
    /\ sessionId \in [Conns -> Conns \cup Apps]
    /\ isTrustee \in [Conns -> BOOLEAN] /\ isShutdown \in [Conns -> BOOLEAN]
    /\ sock \in [Conns -> {"none", "open", "closing", "closed"}]
    /\ inbox \in [Conns -> {"none", "queued", "handled"}]
    /\ phase \in {"event", "message"}
    /\ registering \in Conns \cup {None}
    /\ freed \subseteq Conns /\ readErr \subseteq Conns /\ writeErr \subseteq Conns
    /\ shutSession \subseteq Conns /\ todo \subseteq Conns
    /\ trustees \subseteq Conns /\ removeTrustees \subseteq Conns
    /\ quiet \subseteq Conns /\ late \subseteq Conns /\ stray \subseteq Conns
    /\ handles \in [Apps -> Conns \cup {None}] /\ lastHandle \in [Apps -> Conns \cup {None}]
    /\ closeHandles \subseteq Apps /\ upper \subseteq Apps

\* Both tables hold live handles only, whenever the messages of their handles are
\* run, except for a handle that registered after it had been closed.
ValidUnlessLate ==
    /\ \A a \in Apps : handles[a] \notin freed \ late
    /\ phase = "message" => trustees \cap freed = {}

\* The same without the exception ("有效连接列表", KFNetServerEngine.h: the list of
\* valid connections).
HandlesAreValid == \A a \in Apps : handles[a] \notin freed

\* An event about a registered app is about the connection now registered under
\* that id: no event of an old connection reaches a new one of the same app.
EventHitsOwnHandle ==
    \A i \in 1 .. Len(events) :
        LET e == events[i]
        IN (e.id \in Apps /\ handles[e.id] # None) => handles[e.id] = e.of

\* A handle is closed once: a connection whose close callback has run is never
\* asked to close again (uv_close on a closed handle aborts the process).
ClosedOnce == \A c \in shutSession : sock[c] \in {"open"} /\ c \notin freed

\* The modules above believe an app is connected only while a handle is listed for
\* it, unless its last handle was closed without the lost functions being called:
\* on request, by the trustee timeout, or by a disconnect event that still
\* carried the trustee id.
UpperIsBacked ==
    \A a \in upper : handles[a] # None \/ lastHandle[a] \in quiet

\* A connection that has broken is destroyed in the end, so its app can register
\* again, unless its disconnect event found neither a trustee nor an app, or it
\* registered after it had been closed.
BrokenIsFreed ==
    \A c \in Conns : c \in readErr ~> c \in freed \cup stray \cup late
=============================================================================
