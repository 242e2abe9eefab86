-------------------------- MODULE NetHandle_proofs --------------------------
(***************************************************************************)
(* For any number of connections, apps and write errors: what the two      *)
(* threads leave each other in the tables and in the events is about the   *)
(* connection it seems to be about.                                        *)
(***************************************************************************)
EXTENDS NetHandle, SequenceTheorems, TLAPS

-----------------------------------------------------------------------------
(* The invariant. *)

Places    == 1 .. Len(events)
Posted(c) == posting # None /\ posting.of = c

\* A connection of which nothing more will be heard.
Finished(c) == /\ sock[c] = "closed" /\ ~Posted(c)
               /\ \A i \in Places : events[i].of # c

\* An id, in a handle or in an event, is the connection's own or its app's; a
\* trustee has its own.
Ids ==
    /\ \A c \in Conns : sessionId[c] \in {c, AppOf[c]} /\ (isTrustee[c] => sessionId[c] = c)
    /\ \A i \in Places : events[i].id \in {events[i].of, sessionId[events[i].of]}
    /\ posting # None => posting.id \in {None, posting.of, sessionId[posting.of]}

\* Of the events of a connection the connect event is first and the shut event last.
Order ==
    /\ \A i, j \in Places : events[i].of = events[j].of =>
          /\ events[i].kind = "shut" => j <= i
          /\ events[i].kind = "connect" => i <= j
    /\ \A i \in Places :
          /\ sock[events[i].of] # "none"
          /\ events[i].kind = "shut" => sock[events[i].of] = "closed" /\ ~Posted(events[i].of)
          /\ events[i].kind = "connect" =>
                /\ events[i].id = events[i].of /\ sessionId[events[i].of] = events[i].of
                /\ events[i].of \notin freed \cup trustees
    /\ posting # None =>
          /\ sock[posting.of] # "none"
          /\ posting.kind = "shut" => sock[posting.of] = "closed"

\* A connection that has its app's id is the one listed for the app, or finished.
Registered ==
    /\ \A a \in Apps : handles[a] # None =>
          sessionId[handles[a]] = a /\ lastHandle[a] = handles[a]
    /\ \A c \in Conns : sessionId[c] # c => handles[AppOf[c]] = c \/ Finished(c)
    /\ registering # None =>
          /\ phase = "message" /\ handles[AppOf[registering]] = None
          /\ sessionId[registering] = registering /\ ~isTrustee[registering]
          /\ registering \in trustees \cap removeTrustees

\* A trustee that is destroyed or listed under its app leaves before the messages.
Trusted ==
    /\ \A c \in trustees : sock[c] # "none"
    /\ \A c \in Conns : sessionId[c] # c => sock[c] # "none"
    /\ \A c \in trustees : c \in freed \/ sessionId[c] # c => c \in removeTrustees
    /\ phase = "message" => todo \subseteq trustees \ removeTrustees /\ trustees \cap freed = {}

\* A connection is asked to close when it is shut down, and destroyed when closed.
Closing ==
    /\ \A c \in Conns : ~isShutdown[c] =>
          sock[c] \in {"none", "open"} /\ c \notin shutSession \cup freed
    /\ \A c \in shutSession : sock[c] = "open" /\ c \notin freed
    /\ \A c \in freed : sock[c] = "closed"

\* What is destroyed as a trustee while listed under its app registered late.
Lateness ==
    /\ \A a \in Apps : handles[a] \in freed => handles[a] \in late
    /\ \A i \in Places : events[i].kind = "shut" /\ events[i].trustee =>
          sessionId[events[i].of] = events[i].of \/ events[i].of \in late
    /\ posting # None => (posting.kind = "shut" /\ posting.trustee =>
          sessionId[posting.of] = posting.of \/ posting.of \in late)

\* A handle that is shut down not quietly was lost to the modules above.
Told ==
    /\ UpperIsBacked
    /\ \A c \in Conns : isShutdown[c] /\ c \notin quiet =>
          sessionId[c] # c /\ (handles[AppOf[c]] = c => AppOf[c] \notin upper)

IInv == TypeOK /\ Ids /\ Order /\ Registered /\ Trusted /\ Closing /\ Lateness /\ Told

USE HandleAssumption

-----------------------------------------------------------------------------
(* Queues. *)

LEMMA Appended ==
    ASSUME NEW M, NEW q \in Seq(M), NEW m \in M
    PROVE  LET r == Append(q, m) IN
           /\ r \in Seq(M) /\ Len(q) \in Nat /\ Len(r) = Len(q) + 1
           /\ \A i \in 1 .. Len(q) : r[i] = q[i] /\ q[i] \in M
           /\ r[Len(q) + 1] = m
BY AppendProperties, LenProperties, ElementOfSeq

LEMMA Taken ==
    ASSUME NEW M, NEW q \in Seq(M), q # << >>
    PROVE  LET r == Tail(q) IN
           /\ r \in Seq(M) /\ Len(q) \in Nat \ {0} /\ Len(r) = Len(q) - 1
           /\ Head(q) = q[1] /\ Head(q) \in M
           /\ \A i \in 1 .. Len(r) : r[i] = q[i + 1] /\ r[i] \in M
BY HeadTailProperties, EmptySeq, LenProperties, ElementOfSeq

LEMMA InitIInv == Init => IInv
<1> SUFFICES ASSUME Init PROVE IInv
  OBVIOUS
<1>1. Len(events) = 0 /\ Places = {}
  BY DEF Init, Places
<1>2. TypeOK
  BY DEF Init, TypeOK
<1>3. Ids /\ Order
  BY <1>1 DEF Init, Ids, Order
<1>4. Registered /\ Trusted /\ Closing
  BY <1>1 DEF Init, Registered, Trusted, Closing
<1>5. Lateness /\ Told
  BY <1>1 DEF Init, Lateness, Told, UpperIsBacked
<1> QED BY <1>2, <1>3, <1>4, <1>5 DEF IInv

-----------------------------------------------------------------------------
(* The libuv thread. *)

LEMMA EventTypes ==
    ASSUME IInv PROVE \A i \in Places : events[i] \in Events
BY ElementOfSeq DEF IInv, TypeOK, Places

LEMMA ConnectionStep ==
    ASSUME IInv, NEW c \in Conns, OnConnection(c) PROVE IInv'
<1> DEFINE m == [Event("connect", c) EXCEPT !.id = c]
<1> USE DEF IInv
<1>1. /\ posting = None /\ sock[c] = "none" /\ sock' = [sock EXCEPT ![c] = "open"]
      /\ events' = Append(events, m)
      /\ UNCHANGED << sessionId, isTrustee, isShutdown, freed, readErr, writeErr, inbox,
                      posting, shutSession, phase, todo, registering, trustees,
                      removeTrustees, handles, closeHandles, upper, lastHandle,
                      quiet, late, stray >>
  BY DEF OnConnection, UvIdle, objects, tables, history
<1>2. m \in Events /\ m.of = c /\ m.kind = "connect" /\ m.id = c
  BY DEF Events, Event
<1> HIDE DEF m
<1>3. /\ events' \in Seq(Events) /\ Len(events) \in Nat /\ Len(events') = Len(events) + 1
      /\ \A i \in 1 .. Len(events) : events'[i] = events[i] /\ events[i] \in Events
      /\ events'[Len(events) + 1] = m
  BY <1>1, <1>2, Appended DEF TypeOK
<1>4. Places' = Places \cup {Len(events) + 1} /\ Len(events) + 1 \notin Places
  BY <1>3 DEF Places
<1>5. sock'[c] = "open" /\ \A d \in Conns \ {c} : sock'[d] = sock[d]
  BY <1>1 DEF TypeOK
<1>6. \A i \in Places : events'[i] = events[i] /\ events[i].of \in Conns \ {c} /\ events[i] \in Events
  BY <1>1, <1>3 DEF Order, Places, Events
<1>7. TypeOK'
  BY <1>1, <1>3 DEF TypeOK
<1>8. Ids'
  <2>1. \A i \in Places' : events'[i].id \in {events'[i].of, sessionId[events'[i].of]}
    <3> TAKE i \in Places'
    <3>1. CASE i = Len(events) + 1
      BY <1>2, <1>3, <3>1
    <3>2. CASE i \in Places
      BY <1>6, <3>2 DEF Ids
    <3> QED BY <1>4, <3>1, <3>2
  <2> QED BY <1>1, <2>1 DEF Ids
<1>9. /\ sessionId[c] = c /\ c \notin freed \cup trustees
  BY <1>1 DEF Trusted, Closing
<1>10. Order'
  <2>1. \A i, j \in Places' : events'[i].of = events'[j].of =>
          /\ events'[i].kind = "shut" => j <= i
          /\ events'[i].kind = "connect" => i <= j
    BY <1>2, <1>3, <1>4, <1>6 DEF Order
  <2>2. \A i \in Places' :
          /\ sock'[events'[i].of] # "none"
          /\ events'[i].kind = "shut" => sock'[events'[i].of] = "closed" /\ ~Posted(events'[i].of)
          /\ events'[i].kind = "connect" =>
                /\ events'[i].id = events'[i].of /\ sessionId[events'[i].of] = events'[i].of
                /\ events'[i].of \notin freed \cup trustees
    <3> TAKE i \in Places'
    <3>1. CASE i = Len(events) + 1
      BY <1>2, <1>3, <1>5, <1>9, <3>1
    <3>2. CASE i \in Places
      BY <1>5, <1>6, <3>2 DEF Order
    <3> QED BY <1>4, <3>1, <3>2
  <2> QED BY <1>1, <2>1, <2>2 DEF Order, Posted
<1>11. Registered'
  <2>1. \A d \in Conns : sessionId[d] # d => handles[AppOf[d]] = d \/ Finished(d)'
    <3> TAKE d \in Conns
    <3> HAVE sessionId[d] # d
    <3>1. d # c
      BY <1>9
    <3>2. CASE handles[AppOf[d]] = d
      BY <3>2
    <3>3. CASE Finished(d)
      <4>1. sock'[d] = "closed" /\ ~Posted(d)'
        BY <1>1, <1>5, <3>1, <3>3 DEF Finished, Posted
      <4>2. \A i \in Places' : events'[i].of # d
        BY <1>2, <1>3, <1>4, <1>6, <3>1, <3>3 DEF Finished
      <4> QED BY <4>1, <4>2 DEF Finished
    <3> QED BY <3>2, <3>3 DEF Registered
  <2> QED BY <1>1, <2>1 DEF Registered
<1>12. Trusted' /\ Closing'
  BY <1>1, <1>5, <1>9 DEF Trusted, Closing, TypeOK
<1>13. Lateness'
  BY <1>1, <1>2, <1>3, <1>4, <1>6 DEF Lateness
<1>14. Told'
  BY <1>1 DEF Told, UpperIsBacked
<1> QED BY <1>7, <1>8, <1>10, <1>11, <1>12, <1>13, <1>14

LEMMA RecvRegisterStep ==
    ASSUME IInv, NEW c \in Conns, OnRecvRegister(c) PROVE IInv'
<1> USE DEF IInv
<1>1. /\ inbox' = [inbox EXCEPT ![c] = "queued"]
      /\ UNCHANGED << sessionId, isTrustee, isShutdown, freed, sock, readErr, writeErr,
                      posting, shutSession, events, phase, todo, registering,
                      trustees, removeTrustees, handles, closeHandles, upper,
                      lastHandle, quiet, late, stray >>
  BY DEF OnRecvRegister, objects, tables, history
<1>2. TypeOK'
  BY <1>1 DEF TypeOK
<1>3. Ids' /\ Order'
  BY <1>1 DEF Ids, Order, Places, Posted
<1>4. Registered' /\ Trusted' /\ Closing'
  BY <1>1 DEF Registered, Trusted, Closing, Finished, Posted, Places
<1>5. Lateness' /\ Told'
  BY <1>1 DEF Lateness, Told, UpperIsBacked, Places
<1> QED BY <1>2, <1>3, <1>4, <1>5

\* OnDisconnect, of a connection that is open or closing.
LEMMA DisconnectStep ==
    ASSUME IInv, NEW c \in Conns, posting = None, sock[c] \in {"open", "closing"},
           posting' = [Event("disconnect", c) EXCEPT !.id = sessionId[c]],
           readErr' \subseteq Conns, writeErr' \subseteq Conns,
           UNCHANGED << sessionId, isTrustee, isShutdown, freed, sock, inbox, shutSession,
                        events, phase, todo, registering, trustees, removeTrustees,
                        handles, closeHandles, upper, lastHandle, quiet, late,
                        stray >>
    PROVE  IInv'
<1> USE DEF IInv
<1>1. posting' \in Posting /\ posting'.of = c /\ posting'.kind = "disconnect"
      /\ posting'.id = sessionId[c]
  BY DEF Posting, Event, TypeOK
<1>2. TypeOK'
  BY <1>1 DEF TypeOK
<1>3. Ids'
  BY <1>1 DEF Ids, Places
<1>4. Order'
  <2>1. \A i \in Places : events[i].of = c => events[i].kind # "shut"
    BY DEF Order
  <2>2. \A i \in Places : events[i].kind = "shut" => ~Posted(events[i].of)'
    BY <1>1, <2>1 DEF Posted
  <2> QED BY <1>1, <2>2 DEF Order, Places
<1>5. Registered'
  <2>1. \A d \in Conns : Finished(d) => Finished(d)'
    BY <1>1 DEF Finished, Posted, Places
  <2> QED BY <2>1 DEF Registered
<1>6. Trusted' /\ Closing'
  BY DEF Trusted, Closing
<1>7. Lateness'
  BY <1>1 DEF Lateness, Places
<1>8. Told'
  BY DEF Told, UpperIsBacked
<1> QED BY <1>2, <1>3, <1>4, <1>5, <1>6, <1>7, <1>8

LEMMA ReadErrorStep ==
    ASSUME IInv, NEW c \in Conns, OnReadError(c) PROVE IInv'
<1>1. /\ posting = None /\ sock[c] = "open" /\ readErr' = readErr \cup {c}
      /\ posting' = [Event("disconnect", c) EXCEPT !.id = sessionId[c]]
      /\ UNCHANGED << sessionId, isTrustee, isShutdown, freed, sock, writeErr, inbox,
                      shutSession, events, phase, todo, registering, trustees,
                      removeTrustees, handles, closeHandles, upper, lastHandle,
                      quiet, late, stray >>
  BY DEF OnReadError, UvIdle, objects, tables, history
<1>2. readErr' \subseteq Conns /\ writeErr' \subseteq Conns
  BY <1>1 DEF IInv, TypeOK
<1> QED BY <1>1, <1>2, DisconnectStep

LEMMA WriteErrorStep ==
    ASSUME IInv, NEW c \in Conns, OnWriteError(c) PROVE IInv'
<1>1. /\ posting = None /\ sock[c] \in {"open", "closing"} /\ writeErr' = writeErr \cup {c}
      /\ posting' = [Event("disconnect", c) EXCEPT !.id = sessionId[c]]
      /\ UNCHANGED << sessionId, isTrustee, isShutdown, freed, sock, readErr, inbox,
                      shutSession, events, phase, todo, registering, trustees,
                      removeTrustees, handles, closeHandles, upper, lastHandle,
                      quiet, late, stray >>
  BY DEF OnWriteError, UvIdle, objects, tables, history
<1>2. readErr' \subseteq Conns /\ writeErr' \subseteq Conns
  BY <1>1 DEF IInv, TypeOK
<1> QED BY <1>1, <1>2, DisconnectStep

LEMMA AsyncShutStep ==
    ASSUME IInv, OnAsyncShut PROVE IInv'
<1> USE DEF IInv
<1>1. /\ shutSession' = {}
      /\ sock' = [c \in Conns |-> IF c \in shutSession THEN "closing" ELSE sock[c]]
      /\ UNCHANGED << sessionId, isTrustee, isShutdown, freed, readErr, writeErr, inbox,
                      posting, events, phase, todo, registering, trustees,
                      removeTrustees, handles, closeHandles, upper, lastHandle,
                      quiet, late, stray >>
  BY DEF OnAsyncShut, objects, tables, history
<1>2. \A c \in Conns : sock'[c] = IF c \in shutSession THEN "closing" ELSE sock[c]
  BY <1>1
<1>3. \A c \in shutSession : c \in Conns /\ sock[c] = "open" /\ isShutdown[c] /\ c \notin freed
  BY DEF Closing, TypeOK
<1>4. \A c \in Conns : /\ sock[c] = "none" <=> sock'[c] = "none"
                       /\ sock[c] = "closed" <=> sock'[c] = "closed"
  BY <1>2, <1>3 DEF TypeOK
<1>5. TypeOK'
  BY <1>1 DEF TypeOK
<1>6. Ids'
  BY <1>1 DEF Ids, Places
<1>7. Order'
  <2>1. \A i \in Places : events[i].of \in Conns
    BY EventTypes DEF Events
  <2>2. posting # None => posting.of \in Conns
    BY DEF TypeOK, Posting
  <2> QED BY <1>1, <1>4, <2>1, <2>2 DEF Order, Places, Posted
<1>8. Registered'
  <2>1. \A d \in Conns : Finished(d) => Finished(d)'
    BY <1>1, <1>4 DEF Finished, Posted, Places
  <2> QED BY <1>1, <2>1 DEF Registered
<1>9. Trusted'
  BY <1>1, <1>4 DEF Trusted, TypeOK
<1>10. Closing'
  BY <1>1, <1>2, <1>3, <1>4 DEF Closing, TypeOK
<1>11. Lateness' /\ Told'
  BY <1>1 DEF Lateness, Told, UpperIsBacked, Places
<1> QED BY <1>5, <1>6, <1>7, <1>8, <1>9, <1>10, <1>11

LEMMA ShutStep ==
    ASSUME IInv, NEW c \in Conns, OnShut(c) PROVE IInv'
<1> USE DEF IInv
<1>1. /\ posting = None /\ sock[c] = "closing" /\ sock' = [sock EXCEPT ![c] = "closed"]
      /\ posting' = [Event("shut", c) EXCEPT !.trustee = isTrustee[c]]
      /\ UNCHANGED << sessionId, isTrustee, isShutdown, freed, readErr, writeErr, inbox,
                      shutSession, events, phase, todo, registering, trustees,
                      removeTrustees, handles, closeHandles, upper, lastHandle,
                      quiet, late, stray >>
  BY DEF OnShut, UvIdle, objects, tables, history
<1>2. /\ posting' \in Posting /\ posting'.of = c /\ posting'.kind = "shut" /\ posting'.id = None
      /\ posting'.trustee = isTrustee[c]
  BY <1>1 DEF Posting, Event, TypeOK
<1>3. sock'[c] = "closed" /\ \A d \in Conns \ {c} : sock'[d] = sock[d]
  BY <1>1 DEF TypeOK
<1>4. \A i \in Places : events[i].of \in Conns
  BY EventTypes DEF Events
<1>5. \A i \in Places : events[i].of = c => events[i].kind # "shut"
  BY <1>1 DEF Order
<1>6. TypeOK'
  BY <1>1, <1>2 DEF TypeOK
<1>7. Ids'
  BY <1>1, <1>2 DEF Ids, Places
<1>8. Order'
  <2>1. \A i \in Places :
           /\ sock'[events[i].of] # "none"
           /\ events[i].kind = "shut" => sock'[events[i].of] = "closed" /\ ~Posted(events[i].of)'
    <3> TAKE i \in Places
    <3>1. CASE events[i].of = c
      BY <1>3, <1>5, <3>1
    <3>2. CASE events[i].of # c
      <4>1. sock'[events[i].of] = sock[events[i].of]
        BY <1>3, <1>4, <3>2
      <4>2. ~Posted(events[i].of)'
        BY <1>1, <1>2, <3>2 DEF Posted
      <4> QED BY <4>1, <4>2 DEF Order
    <3> QED BY <3>1, <3>2
  <2> QED BY <1>1, <1>2, <1>3, <2>1 DEF Order, Places
<1>9. Registered'
  <2>1. \A d \in Conns : Finished(d) => Finished(d)'
    BY <1>1, <1>2, <1>3 DEF Finished, Posted, Places
  <2> QED BY <1>1, <2>1 DEF Registered
<1>10. Trusted'
  BY <1>1, <1>3 DEF Trusted, TypeOK
<1>11. Closing'
  BY <1>1, <1>3 DEF Closing, TypeOK
<1>12. Lateness'
  BY <1>1, <1>2 DEF Lateness, Ids, Places
<1>13. Told'
  BY <1>1 DEF Told, UpperIsBacked
<1> QED BY <1>6, <1>7, <1>8, <1>9, <1>10, <1>11, <1>12, <1>13

LEMMA ShutReadIdStep ==
    ASSUME IInv, OnShutReadId PROVE IInv'
<1> USE DEF IInv
<1>1. /\ posting # None /\ posting' = [posting EXCEPT !.id = sessionId[posting.of]]
      /\ UNCHANGED << sessionId, isTrustee, isShutdown, freed, sock, readErr, writeErr, inbox,
                      shutSession, events, phase, todo, registering, trustees,
                      removeTrustees, handles, closeHandles, upper, lastHandle,
                      quiet, late, stray >>
  BY DEF OnShutReadId, objects, tables, history
<1>2. posting \in Posting
  BY <1>1 DEF TypeOK
<1>3. /\ posting' \in Posting /\ posting'.of = posting.of /\ posting'.kind = posting.kind
      /\ posting'.trustee = posting.trustee /\ posting'.id = sessionId[posting.of]
  BY <1>1, <1>2 DEF Posting, TypeOK
<1>4. \A d : Posted(d)' => Posted(d)
  BY <1>1, <1>3 DEF Posted
<1>5. TypeOK'
  BY <1>1, <1>3 DEF TypeOK
<1>6. Ids'
  BY <1>1, <1>3 DEF Ids, Places
<1>7. Order'
  BY <1>1, <1>3, <1>4 DEF Order, Places
<1>8. Registered'
  BY <1>1, <1>4 DEF Registered, Finished, Places
<1>9. Trusted' /\ Closing'
  BY <1>1 DEF Trusted, Closing
<1>10. Lateness'
  BY <1>1, <1>3 DEF Lateness, Places
<1>11. Told'
  BY <1>1 DEF Told, UpperIsBacked
<1> QED BY <1>5, <1>6, <1>7, <1>8, <1>9, <1>10, <1>11

LEMMA AddEventStep ==
    ASSUME IInv, AddEvent PROVE IInv'
<1> USE DEF IInv
<1>1. /\ posting # None /\ posting.id # None /\ events' = Append(events, posting) /\ posting' = None
      /\ UNCHANGED << sessionId, isTrustee, isShutdown, freed, sock, readErr, writeErr, inbox,
                      shutSession, phase, todo, registering, trustees,
                      removeTrustees, handles, closeHandles, upper, lastHandle,
                      quiet, late, stray >>
  BY DEF AddEvent, objects, tables, history
<1>2. posting \in Events /\ posting.kind # "connect"
  BY <1>1 DEF TypeOK, Posting, Events
<1>3. /\ events' \in Seq(Events) /\ Len(events) \in Nat /\ Len(events') = Len(events) + 1
      /\ \A i \in 1 .. Len(events) : events'[i] = events[i] /\ events[i] \in Events
      /\ events'[Len(events) + 1] = posting
  BY <1>1, <1>2, Appended DEF TypeOK
<1>4. Places' = Places \cup {Len(events) + 1} /\ Len(events) + 1 \notin Places
  BY <1>3 DEF Places
<1>5. \A i \in Places : events'[i] = events[i] /\ i < Len(events) + 1
  BY <1>3 DEF Places
<1>6. TypeOK'
  BY <1>1, <1>3 DEF TypeOK
<1>7. Ids'
  <2>1. \A i \in Places' : events'[i].id \in {events'[i].of, sessionId[events'[i].of]}
    <3> TAKE i \in Places'
    <3>1. CASE i = Len(events) + 1
      BY <1>1, <1>3, <3>1 DEF Ids
    <3>2. CASE i \in Places
      BY <1>5, <3>2 DEF Ids
    <3> QED BY <1>4, <3>1, <3>2
  <2> QED BY <1>1, <2>1 DEF Ids
<1>8. Order'
  <2>1. \A i, j \in Places' : events'[i].of = events'[j].of =>
          /\ events'[i].kind = "shut" => j <= i
          /\ events'[i].kind = "connect" => i <= j
    <3> TAKE i, j \in Places'
    <3> HAVE events'[i].of = events'[j].of
    <3>1. CASE i = Len(events) + 1
      BY <1>2, <1>3, <1>4, <1>5, <3>1
    <3>2. CASE i \in Places /\ j = Len(events) + 1
      <4>1. events[i].of = posting.of /\ Posted(posting.of) /\ events'[i] = events[i]
        BY <1>1, <1>3, <1>5, <3>2 DEF Posted
      <4>2. events[i].kind # "shut"
        BY <3>2, <4>1 DEF Order
      <4> QED BY <1>5, <3>2, <4>1, <4>2 DEF Places
    <3>3. CASE i \in Places /\ j \in Places
      BY <1>5, <3>3 DEF Order
    <3> QED BY <1>4, <3>1, <3>2, <3>3
  <2>2. \A i \in Places' :
          /\ sock[events'[i].of] # "none"
          /\ events'[i].kind = "shut" => sock[events'[i].of] = "closed"
          /\ events'[i].kind = "connect" =>
                /\ events'[i].id = events'[i].of /\ sessionId[events'[i].of] = events'[i].of
                /\ events'[i].of \notin freed \cup trustees
    <3> TAKE i \in Places'
    <3>1. CASE i = Len(events) + 1
      BY <1>1, <1>2, <1>3, <3>1 DEF Order
    <3>2. CASE i \in Places
      BY <1>5, <3>2 DEF Order
    <3> QED BY <1>4, <3>1, <3>2
  <2> QED BY <1>1, <2>1, <2>2 DEF Order, Posted
<1>9. Registered'
  <2>1. ASSUME NEW d \in Conns, Finished(d) PROVE Finished(d)'
    <3>1. posting.of # d
      BY <1>1, <2>1 DEF Finished, Posted
    <3>2. \A i \in Places' : events'[i].of # d
      BY <1>3, <1>4, <1>5, <2>1, <3>1 DEF Finished
    <3> QED BY <1>1, <2>1, <3>2 DEF Finished, Posted
  <2> QED BY <1>1, <2>1 DEF Registered
<1>10. Trusted' /\ Closing'
  BY <1>1 DEF Trusted, Closing
<1>11. Lateness'
  <2>1. \A i \in Places' : events'[i].kind = "shut" /\ events'[i].trustee =>
          sessionId[events'[i].of] = events'[i].of \/ events'[i].of \in late
    <3> TAKE i \in Places'
    <3>1. CASE i = Len(events) + 1
      BY <1>1, <1>3, <3>1 DEF Lateness
    <3>2. CASE i \in Places
      BY <1>5, <3>2 DEF Lateness
    <3> QED BY <1>4, <3>1, <3>2
  <2> QED BY <1>1, <2>1 DEF Lateness
<1>12. Told'
  BY <1>1 DEF Told, UpperIsBacked
<1> QED BY <1>6, <1>7, <1>8, <1>9, <1>10, <1>11, <1>12

-----------------------------------------------------------------------------
(* The main thread, between two events and while it handles messages. *)

LEMMA CloseNetHandleStep ==
    ASSUME IInv, NEW a \in Apps, CloseNetHandle(a) PROVE IInv'
<1> USE DEF IInv
<1>1. /\ closeHandles' = closeHandles \cup {a}
      /\ UNCHANGED << sessionId, isTrustee, isShutdown, freed, sock, readErr, writeErr, inbox,
                      posting, shutSession, events, phase, todo, registering,
                      trustees, removeTrustees, handles, upper, lastHandle, quiet,
                      late, stray >>
  BY DEF CloseNetHandle, objects, uv, history
<1>2. TypeOK'
  BY <1>1 DEF TypeOK
<1>3. Ids' /\ Order'
  BY <1>1 DEF Ids, Order, Places, Posted
<1>4. Registered' /\ Trusted' /\ Closing'
  BY <1>1 DEF Registered, Trusted, Closing, Finished, Posted, Places
<1>5. Lateness' /\ Told'
  BY <1>1 DEF Lateness, Told, UpperIsBacked, Places
<1> QED BY <1>2, <1>3, <1>4, <1>5

LEMMA VisitTrusteeStep ==
    ASSUME IInv, NEW c \in Conns, VisitTrustee(c) PROVE IInv'
<1> USE DEF IInv
<1>1. /\ phase = "message" /\ todo' = todo \ {c}
      /\ inbox' = [inbox EXCEPT ![c] = IF @ = "queued" THEN "handled" ELSE @]
      /\ UNCHANGED << sessionId, isTrustee, isShutdown, freed, sock, readErr, writeErr,
                      posting, shutSession, events, phase, registering, trustees,
                      removeTrustees, handles, closeHandles, upper, lastHandle,
                      quiet, late, stray >>
  BY DEF VisitTrustee, objects, tables, history
<1>2. TypeOK'
  BY <1>1 DEF TypeOK
<1>3. Ids' /\ Order'
  BY <1>1 DEF Ids, Order, Places, Posted
<1>4. Registered' /\ Trusted' /\ Closing'
  BY <1>1 DEF Registered, Trusted, Closing, Finished, Posted, Places
<1>5. Lateness' /\ Told'
  BY <1>1 DEF Lateness, Told, UpperIsBacked, Places
<1> QED BY <1>2, <1>3, <1>4, <1>5

LEMMA EndFrameStep ==
    ASSUME IInv, EndFrame PROVE IInv'
<1> USE DEF IInv
<1>1. /\ registering = None /\ phase' = "event"
      /\ UNCHANGED << sessionId, isTrustee, isShutdown, freed, sock, readErr, writeErr, inbox,
                      posting, shutSession, events, todo, registering, trustees,
                      removeTrustees, handles, closeHandles, upper, lastHandle,
                      quiet, late, stray >>
  BY DEF EndFrame, objects, uv, tables, history
<1>2. TypeOK'
  BY <1>1 DEF TypeOK
<1>3. Ids' /\ Order'
  BY <1>1 DEF Ids, Order, Places, Posted
<1>4. Registered' /\ Trusted' /\ Closing'
  BY <1>1 DEF Registered, Trusted, Closing, Finished, Posted, Places
<1>5. Lateness' /\ Told'
  BY <1>1 DEF Lateness, Told, UpperIsBacked, Places
<1> QED BY <1>2, <1>3, <1>4, <1>5

LEMMA RegisteHandleStep ==
    ASSUME IInv, NEW c \in Conns, RegisteHandle(c) PROVE IInv'
<1> USE DEF IInv
<1>1. /\ phase = "message" /\ registering = None /\ c \in todo /\ handles[AppOf[c]] = None
      /\ inbox[c] = "queued"
      /\ todo' = todo \ {c} /\ inbox' = [inbox EXCEPT ![c] = "handled"]
      /\ removeTrustees' = removeTrustees \cup {c}
      /\ isTrustee' = [isTrustee EXCEPT ![c] = FALSE] /\ registering' = c
      /\ UNCHANGED << sessionId, isShutdown, freed, sock, readErr, writeErr, posting,
                      shutSession, events, phase, trustees, handles, closeHandles,
                      upper, lastHandle, quiet, late, stray >>
  BY DEF RegisteHandle, history
<1>2. TypeOK'
  BY <1>1 DEF TypeOK
<1>3. \A d \in Conns : isTrustee'[d] => isTrustee[d]
  BY <1>1 DEF TypeOK
<1>4. Ids'
  BY <1>1, <1>3 DEF Ids, Places
<1>5. Order'
  BY <1>1 DEF Order, Places, Posted
<1>6. Registered'
  <2>1. c \in trustees /\ ~isTrustee'[c]
    BY <1>1 DEF Trusted, TypeOK
  <2>2. sessionId[c] = c
    BY SMT, <1>1 DEF Trusted
  <2> QED BY <1>1, <2>1, <2>2 DEF Registered, Finished, Posted, Places
<1>7. Trusted' /\ Closing'
  BY <1>1 DEF Trusted, Closing
<1>8. Lateness' /\ Told'
  BY <1>1 DEF Lateness, Told, UpperIsBacked, Places
<1> QED BY <1>2, <1>4, <1>5, <1>6, <1>7, <1>8

LEMMA RegisteHandleInsertStep ==
    ASSUME IInv, RegisteHandleInsert PROVE IInv'
<1> DEFINE c == registering
           a == AppOf[c]
<1> USE DEF IInv
<1>1. /\ c # None /\ registering' = None
      /\ sessionId' = [sessionId EXCEPT ![c] = a] /\ handles' = [handles EXCEPT ![a] = c]
      /\ upper' = upper \cup {a} /\ lastHandle' = [lastHandle EXCEPT ![a] = c]
      /\ late' = IF isShutdown[c] THEN late \cup {c} ELSE late
      /\ UNCHANGED << isTrustee, isShutdown, freed, sock, readErr, writeErr, inbox, posting,
                      shutSession, events, phase, todo, trustees, removeTrustees,
                      closeHandles, quiet, stray >>
  BY DEF RegisteHandleInsert, uv
<1>2. c \in Conns /\ a \in Apps /\ a # c
  BY <1>1 DEF TypeOK
<1>3. /\ phase = "message" /\ handles[a] = None /\ sessionId[c] = c /\ ~isTrustee[c]
      /\ c \in trustees \cap removeTrustees /\ c \notin freed
  BY <1>1 DEF Registered, Trusted
<1> HIDE DEF c, a
<1>4. /\ sessionId'[c] = a /\ \A d \in Conns \ {c} : sessionId'[d] = sessionId[d]
      /\ handles'[a] = c /\ \A b \in Apps \ {a} : handles'[b] = handles[b]
      /\ lastHandle'[a] = c /\ \A b \in Apps \ {a} : lastHandle'[b] = lastHandle[b]
  BY <1>1, <1>2 DEF TypeOK
<1>5. a = AppOf[c]
  BY DEF a, c
<1>6. \A i \in Places : events[i] \in Events /\ events[i].of \in Conns
  BY EventTypes DEF Events
<1>7. posting # None => posting.of \in Conns
  BY DEF TypeOK, Posting
<1>8. late \subseteq late' /\ (isShutdown[c] => c \in late') /\ late' \subseteq Conns
  BY <1>1, <1>2 DEF TypeOK
<1>9. TypeOK'
  BY <1>1, <1>2, <1>8 DEF TypeOK
<1>10. Ids'
  <2>1. \A d \in Conns : sessionId'[d] \in {d, AppOf[d]} /\ (isTrustee[d] => sessionId'[d] = d)
    BY <1>3, <1>4, <1>5 DEF Ids
  <2>2. \A i \in Places : events[i].id \in {events[i].of, sessionId'[events[i].of]}
    <3> TAKE i \in Places
    <3>1. events[i].id \in {events[i].of, sessionId[events[i].of]}
      BY DEF Ids
    <3> QED BY <1>3, <1>4, <1>6, <3>1
  <2>3. posting # None => posting.id \in {None, posting.of, sessionId'[posting.of]}
    BY <1>3, <1>4, <1>7 DEF Ids
  <2> QED BY <1>1, <2>1, <2>2, <2>3 DEF Ids, Places
<1>11. Order'
  <2>1. \A i \in Places : events[i].kind = "connect" => sessionId'[events[i].of] = events[i].of
    BY <1>3, <1>4, <1>6 DEF Order
  <2> QED BY <1>1, <2>1 DEF Order, Places, Posted
<1>12. Registered'
  <2>1. \A b \in Apps : handles'[b] # None =>
           sessionId'[handles'[b]] = b /\ lastHandle'[b] = handles'[b]
    <3> TAKE b \in Apps
    <3> HAVE handles'[b] # None
    <3>1. CASE b = a
      BY <1>4, <3>1
    <3>2. CASE b # a
      <4>1. handles'[b] = handles[b] /\ lastHandle'[b] = lastHandle[b] /\ handles[b] \in Conns
        BY <1>4, <3>2 DEF TypeOK
      <4>2. sessionId[handles[b]] = b /\ lastHandle[b] = handles[b]
        BY <4>1 DEF Registered
      <4>3. handles[b] # c
        BY <1>2, <1>3, <4>2
      <4> QED BY <1>4, <4>1, <4>2, <4>3
    <3> QED BY <3>1, <3>2
  <2>2. \A d \in Conns : sessionId'[d] # d => handles'[AppOf[d]] = d \/ Finished(d)'
    <3> TAKE d \in Conns
    <3> HAVE sessionId'[d] # d
    <3>1. Finished(d) => Finished(d)'
      BY <1>1 DEF Finished, Posted, Places
    <3>2. CASE d = c
      BY <1>4, <1>5, <3>2
    <3>3. CASE d # c /\ AppOf[d] = a
      <4>1. handles[AppOf[d]] # d /\ sessionId[d] # d
        BY <1>3, <1>4, <3>3
      <4> QED BY <3>1, <4>1 DEF Registered
    <3>4. CASE d # c /\ AppOf[d] # a
      <4>1. handles'[AppOf[d]] = handles[AppOf[d]] /\ sessionId[d] # d
        BY <1>4, <3>4
      <4> QED BY <3>1, <4>1 DEF Registered
    <3> QED BY <3>2, <3>3, <3>4
  <2> QED BY <1>1, <2>1, <2>2 DEF Registered
<1>13. Trusted'
  <2>1. \A d \in Conns : sessionId'[d] # d => sock[d] # "none"
    BY <1>3, <1>4 DEF Trusted
  <2>2. \A d \in trustees : d \in freed \/ sessionId'[d] # d => d \in removeTrustees
    BY <1>3, <1>4 DEF Trusted, TypeOK
  <2> QED BY <1>1, <2>1, <2>2 DEF Trusted
<1>14. Closing'
  BY <1>1 DEF Closing
<1>15. Lateness'
  <2>1. \A b \in Apps : handles'[b] \in freed => handles'[b] \in late'
    BY <1>3, <1>4, <1>8 DEF Lateness
  <2>2. \A d \in Conns : sock[d] = "closed" /\ (sessionId[d] = d \/ d \in late) =>
           sessionId'[d] = d \/ d \in late'
    BY <1>4, <1>8 DEF Closing
  <2>3. \A i \in Places : events[i].kind = "shut" /\ events[i].trustee =>
           sessionId'[events[i].of] = events[i].of \/ events[i].of \in late'
    BY <1>6, <2>2 DEF Lateness, Order
  <2>4. posting # None => (posting.kind = "shut" /\ posting.trustee =>
           sessionId'[posting.of] = posting.of \/ posting.of \in late')
    BY <1>7, <2>2 DEF Lateness, Order
  <2> QED BY <1>1, <2>1, <2>3, <2>4 DEF Lateness, Places
<1>16. Told'
  <2>1. UpperIsBacked'
    BY <1>1, <1>2, <1>4 DEF Told, UpperIsBacked
  <2>2. \A d \in Conns : isShutdown[d] /\ d \notin quiet =>
           sessionId'[d] # d /\ (handles'[AppOf[d]] = d => AppOf[d] \notin upper')
    <3> TAKE d \in Conns
    <3> HAVE isShutdown[d] /\ d \notin quiet
    <3>1. d # c
      BY <1>3 DEF Told
    <3>2. CASE AppOf[d] = a
      BY <1>4, <3>1, <3>2 DEF Told
    <3>3. CASE AppOf[d] # a
      BY <1>1, <1>4, <3>1, <3>3 DEF Told
    <3> QED BY <3>2, <3>3
  <2> QED BY <1>1, <2>1, <2>2 DEF Told
<1> QED BY <1>9, <1>10, <1>11, <1>12, <1>13, <1>14, <1>15, <1>16

LEMMA RunBetweenStep ==
    ASSUME IInv, RunBetween PROVE IInv'
<1> USE DEF IInv
<1>1. PICK S \in SUBSET Conns, due \in SUBSET closeHandles :
        /\ S \subseteq (trustees \ removeTrustees) \cup {handles[a] : a \in due}
        /\ CloseHandles(S)
        /\ quiet' = quiet \cup Open(S) /\ closeHandles' = closeHandles \ due
  <2>1. PICK expired \in SUBSET trustees', due \in SUBSET closeHandles :
           LET S == expired \cup ({handles[a] : a \in due} \ {None})
           IN /\ CloseHandles(S)
              /\ quiet' = quiet \cup Open(S)
              /\ closeHandles' = closeHandles \ due
    BY DEF RunBetween, RunClose
  <2> DEFINE S == expired \cup ({handles[a] : a \in due} \ {None})
  <2>2. trustees' = trustees \ removeTrustees
    BY DEF RunBetween, RunRemoveTrusteeHandle
  <2>3. S \in SUBSET Conns /\ S \subseteq (trustees \ removeTrustees) \cup {handles[a] : a \in due}
    BY <2>2 DEF TypeOK
  <2> QED BY <2>1, <2>3
<1>2. /\ phase = "event" /\ events = << >> /\ phase' = "message"
      /\ trustees' = trustees \ removeTrustees /\ removeTrustees' = {} /\ todo' = trustees'
      /\ isShutdown' = [c \in Conns |-> isShutdown[c] \/ c \in S]
      /\ shutSession' = shutSession \cup Open(S)
      /\ UNCHANGED << sessionId, isTrustee, freed, sock, readErr, writeErr, inbox, posting,
                      events, registering, handles, upper, lastHandle, late, stray >>
  BY <1>1 DEF RunBetween, RunRemoveTrusteeHandle, CloseHandles, uv
<1>3. \A c \in Open(S) : c \in Conns /\ sock[c] = "open" /\ c \notin freed
  <2> TAKE c \in Open(S)
  <2>1. c \in Conns /\ ~isShutdown[c] /\ c \in S
    BY DEF Open
  <2>2. CASE c \in trustees
    BY <2>1, <2>2 DEF Trusted, Closing
  <2>3. CASE c \notin trustees
    <3>1. PICK a \in Apps : handles[a] = c
      BY <1>1, <2>1, <2>3 DEF TypeOK
    <3>2. sessionId[c] = a /\ a # c
      BY <2>1, <3>1 DEF Registered
    <3> QED BY <2>1, <3>2 DEF Trusted, Closing
  <2> QED BY <2>2, <2>3
<1>4. \A c \in Conns : isShutdown'[c] <=> isShutdown[c] \/ c \in Open(S)
  BY <1>2 DEF Open
<1>5. TypeOK'
  BY <1>1, <1>2, <1>3 DEF TypeOK
<1>6. Ids' /\ Order'
  BY <1>2 DEF Ids, Order, Places, Posted
<1>7. Registered'
  BY <1>2 DEF Registered, Finished, Posted, Places
<1>8. Trusted'
  BY <1>2 DEF Trusted
<1>9. Closing'
  BY <1>2, <1>3, <1>4 DEF Closing
<1>10. Lateness'
  BY <1>2 DEF Lateness, Places
<1>11. Told'
  <2>1. UpperIsBacked'
    BY <1>1, <1>2 DEF Told, UpperIsBacked
  <2>2. \A c \in Conns : isShutdown'[c] /\ c \notin quiet' => isShutdown[c] /\ c \notin quiet
    BY <1>1, <1>4
  <2> QED BY <1>2, <2>1, <2>2 DEF Told
<1> QED BY <1>5, <1>6, <1>7, <1>8, <1>9, <1>10, <1>11

-----------------------------------------------------------------------------
(* The main thread takes an event. *)

\* What holds of every event that is taken, whatever it does.
EventTaken ==
    /\ phase = "event" /\ events # << >> /\ events' = Tail(events)
    /\ UNCHANGED << sessionId, isTrustee, uv, phase, todo, registering, removeTrustees,
                    closeHandles, lastHandle, late >>

LEMMA TakenEvent ==
    ASSUME IInv, EventTaken
    PROVE  /\ events' \in Seq(Events) /\ events[1] = Head(events) /\ events[1] \in Events
           /\ 1 \in Places /\ events[1].of \in Conns /\ registering = None
           /\ \A i \in Places' : i + 1 \in Places /\ i + 1 > 1 /\ events'[i] = events[i + 1]
<1>1. /\ events' \in Seq(Events) /\ Len(events) \in Nat \ {0} /\ Len(events') = Len(events) - 1
      /\ events[1] = Head(events) /\ events[1] \in Events
      /\ \A i \in 1 .. Len(events') : events'[i] = events[i + 1]
  BY Taken DEF IInv, TypeOK, EventTaken
<1>2. registering = None
  BY DEF EventTaken, IInv, Registered
<1>3. \A i \in Places' : i + 1 \in Places /\ i + 1 > 1 /\ events'[i] = events[i + 1]
  BY <1>1 DEF Places
<1> QED BY <1>1, <1>2, <1>3 DEF Places, Events

LEMMA TakenKeeps ==
    ASSUME IInv, EventTaken
    PROVE  /\ Ids'
           /\ \A d \in Conns : Finished(d) => Finished(d)'
           /\ \A c \in Conns : c = events[1].of /\ events[1].kind = "shut" => Finished(c)'
<1> USE DEF IInv
<1>1. UNCHANGED << sessionId, isTrustee, sock, posting >>
  BY DEF EventTaken, uv
<1>2. \A i \in Places' : events'[i].id \in {events'[i].of, sessionId[events'[i].of]}
  BY TakenEvent DEF Ids
<1>3. Ids'
  BY <1>1, <1>2 DEF Ids
<1>4. \A d \in Conns : Finished(d) => Finished(d)'
  BY <1>1, TakenEvent DEF Finished, Posted
<1>5. ASSUME NEW c \in Conns, c = events[1].of, events[1].kind = "shut" PROVE Finished(c)'
  <2>1. sock[c] = "closed" /\ ~Posted(c)
    BY <1>5, TakenEvent DEF Order
  <2>2. \A i \in Places' : events'[i].of # c
    <3> SUFFICES ASSUME NEW i \in Places', events'[i].of = c PROVE FALSE
      OBVIOUS
    <3>1. i + 1 \in Places /\ events[1].of = events[i + 1].of /\ 1 \in Places
      BY <1>5, TakenEvent
    <3>2. i + 1 <= 1
      BY <1>5, <3>1 DEF Order
    <3> QED BY <3>2, TakenEvent DEF Places
  <2> QED BY <1>1, <2>1, <2>2 DEF Finished, Posted
<1> QED BY <1>3, <1>4, <1>5

LEMMA TakenOrder ==
    ASSUME IInv, EventTaken,
           \A i \in Places' : events'[i].kind = "connect" => events'[i].of \notin freed' \cup trustees'
    PROVE  Order'
<1> USE DEF IInv
<1>1. UNCHANGED << sessionId, sock, posting >>
  BY DEF EventTaken, uv
<1>2. \A i, j \in Places' : events'[i].of = events'[j].of =>
          /\ events'[i].kind = "shut" => j <= i
          /\ events'[i].kind = "connect" => i <= j
  <2> TAKE i, j \in Places'
  <2>1. i \in Int /\ j \in Int
    BY DEF Places
  <2>2. /\ i + 1 \in Places /\ events'[i] = events[i + 1]
        /\ j + 1 \in Places /\ events'[j] = events[j + 1]
    BY TakenEvent
  <2>3. events[i + 1].of = events[j + 1].of =>
          /\ events[i + 1].kind = "shut" => j + 1 <= i + 1
          /\ events[i + 1].kind = "connect" => i + 1 <= j + 1
    BY <2>2 DEF Order
  <2> QED BY <2>1, <2>2, <2>3
<1>3. \A i \in Places' :
          /\ sock[events'[i].of] # "none"
          /\ events'[i].kind = "shut" =>
                sock[events'[i].of] = "closed" /\ ~(posting # None /\ posting.of = events'[i].of)
          /\ events'[i].kind = "connect" =>
                events'[i].id = events'[i].of /\ sessionId[events'[i].of] = events'[i].of
  BY TakenEvent DEF Order, Posted
<1> QED BY <1>1, <1>2, <1>3 DEF Order, Posted

LEMMA TakenLateness ==
    ASSUME IInv, EventTaken, \A a \in Apps : handles'[a] \in freed' => handles'[a] \in late
    PROVE  Lateness'
<1> USE DEF IInv
<1>1. UNCHANGED << sessionId, posting, late >>
  BY DEF EventTaken, uv
<1>2. \A i \in Places' : events'[i].kind = "shut" /\ events'[i].trustee =>
          sessionId[events'[i].of] = events'[i].of \/ events'[i].of \in late
  BY TakenEvent DEF Lateness
<1> QED BY <1>1, <1>2 DEF Lateness

LEMMA ConnectEvent ==
    ASSUME IInv, EventTaken, HandleConnect(events[1]) PROVE IInv'
<1> DEFINE e == events[1]
<1> USE DEF IInv
<1>1. /\ e.kind = "connect" /\ trustees' = trustees \cup {e.id}
      /\ phase = "event" /\ events # << >> /\ events' = Tail(events)
      /\ UNCHANGED << sessionId, isTrustee, isShutdown, freed, sock, readErr, writeErr, inbox,
                      posting, shutSession, phase, todo, registering, removeTrustees,
                      handles, closeHandles, upper, lastHandle, quiet, late, stray >>
  BY DEF HandleConnect, EventTaken, objects, uv, history
<1>2. /\ 1 \in Places /\ e.of \in Conns /\ e.id = e.of /\ sessionId[e.of] = e.of
      /\ sock[e.of] # "none" /\ e.of \notin freed \cup trustees
  BY <1>1, TakenEvent DEF Order
<1>3. TypeOK'
  BY <1>1, <1>2, TakenEvent DEF TypeOK
<1>4. Order'
  <2>1. \A i \in Places' : events'[i].kind = "connect" => events'[i].of \notin freed \cup trustees'
    <3> TAKE i \in Places'
    <3> HAVE events'[i].kind = "connect"
    <3>1. i + 1 \in Places /\ i + 1 > 1 /\ events'[i] = events[i + 1]
      BY TakenEvent
    <3>2. events[i + 1].of \notin freed \cup trustees
      BY <3>1 DEF Order
    <3>3. events[i + 1].of = e.of => i + 1 <= 1
      BY <1>2, <3>1 DEF Order
    <3>4. events[i + 1].of # e.of
      BY <3>1, <3>3 DEF Places
    <3> QED BY <1>1, <1>2, <3>1, <3>2, <3>4
  <2> QED BY <1>1, <2>1, TakenOrder
<1>5. Registered'
  BY <1>1, TakenEvent, TakenKeeps DEF Registered
<1>6. Trusted' /\ Closing'
  BY <1>1, <1>2 DEF Trusted, Closing
<1>7. Lateness'
  BY <1>1, TakenLateness DEF Lateness
<1>8. Told'
  BY <1>1 DEF Told, UpperIsBacked
<1> QED BY <1>3, <1>4, <1>5, <1>6, <1>7, <1>8, TakenKeeps

LEMMA DisconnectEvent ==
    ASSUME IInv, EventTaken, HandleDisconnect(events[1]) PROVE IInv'
<1> DEFINE e == events[1]
           a == e.id
           h == handles[a]
<1> USE DEF IInv
<1>1. /\ a \in Apps /\ h # None /\ upper' = upper \ {a}
      /\ isShutdown' = [c \in Conns |-> isShutdown[c] \/ c \in {h}]
      /\ shutSession' = shutSession \cup Open({h})
      /\ phase = "event" /\ events # << >> /\ events' = Tail(events)
      /\ UNCHANGED << sessionId, isTrustee, freed, sock, readErr, writeErr, inbox, posting,
                      phase, todo, registering, trustees, removeTrustees, handles,
                      closeHandles, lastHandle, quiet, late, stray >>
  BY DEF HandleDisconnect, CloseHandles, EventTaken, tables, uv
<1>2. h \in Conns /\ sessionId[h] = a /\ a # h /\ AppOf[h] = a /\ sock[h] # "none"
  <2>1. h \in Conns /\ sessionId[h] = a
    BY <1>1 DEF TypeOK, Registered
  <2>2. a # h
    BY <1>1, <2>1
  <2>3. sessionId[h] \in {h, AppOf[h]}
    BY <2>1 DEF Ids
  <2> QED BY <2>1, <2>2, <2>3 DEF Trusted
<1> HIDE DEF h, a
<1>3. \A c \in Conns : isShutdown'[c] <=> isShutdown[c] \/ c = h
  BY <1>1
<1>4. \A c \in Open({h}) : c = h /\ ~isShutdown[h]
  BY DEF Open
<1>5. TypeOK'
  BY <1>1, <1>2, <1>4, TakenEvent DEF TypeOK
<1>6. Order'
  <2>1. \A i \in Places' : events'[i].kind = "connect" => events'[i].of \notin freed \cup trustees
    BY TakenEvent DEF Order
  <2> QED BY <1>1, <2>1, TakenOrder
<1>7. Registered'
  BY <1>1, TakenEvent, TakenKeeps DEF Registered
<1>8. Trusted'
  BY <1>1 DEF Trusted
<1>9. Closing'
  <2>1. ~isShutdown[h] => sock[h] = "open" /\ h \notin freed
    BY <1>2 DEF Closing
  <2>2. ~isShutdown'[h] = FALSE
    BY <1>2, <1>3
  <2>3. \A c \in Conns : ~isShutdown'[c] => ~isShutdown[c] /\ c # h
    BY <1>3
  <2>4. \A c \in shutSession' : c \in shutSession \/ (c = h /\ ~isShutdown[h])
    BY <1>1, <1>4
  <2> QED BY <1>1, <2>1, <2>3, <2>4 DEF Closing
<1>10. Lateness'
  BY <1>1, TakenLateness DEF Lateness
<1>11. Told'
  <2>1. UpperIsBacked'
    BY <1>1 DEF Told, UpperIsBacked
  <2>2. \A c \in Conns : isShutdown'[c] /\ c \notin quiet =>
           sessionId[c] # c /\ (handles[AppOf[c]] = c => AppOf[c] \notin upper')
    <3> TAKE c \in Conns
    <3>1. CASE c = h
      BY <1>1, <1>2, <3>1
    <3>2. CASE c # h
      BY <1>1, <1>3, <3>2 DEF Told
    <3> QED BY <3>1, <3>2
  <2> QED BY <1>1, <2>1, <2>2 DEF Told
<1> QED BY <1>5, <1>6, <1>7, <1>8, <1>9, <1>10, <1>11, TakenKeeps

LEMMA TrusteeDisconnectEvent ==
    ASSUME IInv, EventTaken, HandleTrusteeDisconnect(events[1]) PROVE IInv'
<1> DEFINE h == events[1].id
<1> USE DEF IInv
<1>1. /\ h \in trustees /\ quiet' = quiet \cup Open({h})
      /\ isShutdown' = [c \in Conns |-> isShutdown[c] \/ c \in {h}]
      /\ shutSession' = shutSession \cup Open({h})
      /\ phase = "event" /\ events # << >> /\ events' = Tail(events)
      /\ UNCHANGED << sessionId, isTrustee, freed, sock, readErr, writeErr, inbox, posting,
                      phase, todo, registering, trustees, removeTrustees, handles,
                      closeHandles, upper, lastHandle, late, stray >>
  BY DEF HandleTrusteeDisconnect, CloseHandles, EventTaken, tables, uv
<1> HIDE DEF h
<1>2. h \in Conns /\ sock[h] # "none"
  BY <1>1 DEF TypeOK, Trusted
<1>3. \A c \in Conns : isShutdown'[c] <=> isShutdown[c] \/ c = h
  BY <1>1
<1>4. /\ \A c \in Open({h}) : c = h /\ ~isShutdown[h]
      /\ ~isShutdown[h] => h \in Open({h})
  BY DEF Open
<1>5. TypeOK'
  BY <1>1, <1>2, <1>4, TakenEvent DEF TypeOK
<1>6. Order'
  <2>1. \A i \in Places' : events'[i].kind = "connect" => events'[i].of \notin freed \cup trustees
    BY TakenEvent DEF Order
  <2> QED BY <1>1, <2>1, TakenOrder
<1>7. Registered'
  BY <1>1, TakenEvent, TakenKeeps DEF Registered
<1>8. Trusted'
  BY <1>1 DEF Trusted
<1>9. Closing'
  <2>1. ~isShutdown[h] => sock[h] = "open" /\ h \notin freed
    BY <1>2 DEF Closing
  <2>2. \A c \in Conns : ~isShutdown'[c] => ~isShutdown[c] /\ c # h
    BY <1>3
  <2>3. \A c \in shutSession' : c \in shutSession \/ (c = h /\ ~isShutdown[h])
    BY <1>1, <1>4
  <2> QED BY <1>1, <2>1, <2>2, <2>3 DEF Closing
<1>10. Lateness'
  BY <1>1, TakenLateness DEF Lateness
<1>11. Told'
  <2>1. UpperIsBacked'
    BY <1>1 DEF Told, UpperIsBacked
  <2>2. \A c \in Conns : isShutdown'[c] /\ c \notin quiet' => isShutdown[c] /\ c \notin quiet
    BY <1>1, <1>3, <1>4
  <2> QED BY <1>1, <2>1, <2>2 DEF Told
<1> QED BY <1>5, <1>6, <1>7, <1>8, <1>9, <1>10, <1>11, TakenKeeps

LEMMA StrayDisconnectEvent ==
    ASSUME IInv, EventTaken, HandleStrayDisconnect(events[1]) PROVE IInv'
<1> USE DEF IInv
<1>1. /\ stray' = stray \cup {events[1].of}
      /\ phase = "event" /\ events # << >> /\ events' = Tail(events)
      /\ UNCHANGED << sessionId, isTrustee, isShutdown, freed, sock, readErr, writeErr, inbox,
                      posting, shutSession, phase, todo, registering, trustees,
                      removeTrustees, handles, closeHandles, upper, lastHandle,
                      quiet, late >>
  BY DEF HandleStrayDisconnect, EventTaken, objects, tables, uv
<1>2. TypeOK'
  BY <1>1, TakenEvent DEF TypeOK
<1>3. Order'
  <2>1. \A i \in Places' : events'[i].kind = "connect" => events'[i].of \notin freed \cup trustees
    BY TakenEvent DEF Order
  <2> QED BY <1>1, <2>1, TakenOrder
<1>4. Registered'
  BY <1>1, TakenEvent, TakenKeeps DEF Registered
<1>5. Trusted' /\ Closing'
  BY <1>1 DEF Trusted, Closing
<1>6. Lateness'
  BY <1>1, TakenLateness DEF Lateness
<1>7. Told'
  BY <1>1 DEF Told, UpperIsBacked
<1> QED BY <1>2, <1>3, <1>4, <1>5, <1>6, <1>7, TakenKeeps

\* The event of a trustee that has closed destroys it, though it may have
\* registered since.
LEMMA TrusteeShutEvent ==
    ASSUME IInv, EventTaken, HandleShut(events[1]), events[1].trustee PROVE IInv'
<1> DEFINE h == events[1].id
<1> USE DEF IInv
<1>1. /\ events[1].kind = "shut"
      /\ trustees' = trustees \ {h} /\ freed' = freed \cup ({h} \cap trustees)
      /\ phase = "event" /\ events # << >> /\ events' = Tail(events)
      /\ UNCHANGED << sessionId, isTrustee, isShutdown, sock, readErr, writeErr, inbox,
                      posting, shutSession, phase, todo, registering, removeTrustees,
                      handles, closeHandles, upper, lastHandle, quiet, late, stray >>
  BY DEF HandleShut, EventTaken, uv, history
<1>2. h \in trustees => /\ h = events[1].of /\ h \in Conns /\ sock[h] = "closed"
                        /\ sessionId[h] = h \/ h \in late
  <2> HAVE h \in trustees
  <2>1. h \in Conns /\ events[1].of \in Conns /\ 1 \in Places
    BY TakenEvent DEF TypeOK
  <2>2. h \in {events[1].of, sessionId[events[1].of]}
    BY <2>1 DEF Ids
  <2>3. sessionId[events[1].of] \in {events[1].of, AppOf[events[1].of]} /\ AppOf[events[1].of] \in Apps
    BY <2>1 DEF Ids
  <2>4. h = events[1].of
    BY <2>1, <2>2, <2>3
  <2> QED BY <1>1, <2>1, <2>4 DEF Order, Lateness
<1> HIDE DEF h
<1>3. freed \subseteq freed' /\ \A c \in freed' \ freed : c = h /\ h \in trustees
  BY <1>1
<1>4. TypeOK'
  BY <1>1, TakenEvent DEF TypeOK
<1>5. Order'
  <2>1. \A i \in Places' : events'[i].kind = "connect" => events'[i].of \notin freed' \cup trustees'
    <3> TAKE i \in Places'
    <3> HAVE events'[i].kind = "connect"
    <3>1. events'[i].of \notin freed \cup trustees
      BY TakenEvent DEF Order
    <3> QED BY <1>1, <3>1
  <2> QED BY <2>1, TakenOrder
<1>6. Registered'
  BY <1>1, TakenEvent, TakenKeeps DEF Registered
<1>7. Trusted'
  BY <1>1 DEF Trusted
<1>8. Closing'
  <2>1. h \in trustees => isShutdown[h] /\ h \notin shutSession
    BY <1>2 DEF Closing
  <2> QED BY <1>1, <1>2, <1>3, <2>1 DEF Closing
<1>9. Lateness'
  <2>1. ASSUME NEW a \in Apps, handles[a] \in freed' PROVE handles[a] \in late
    <3>1. CASE handles[a] \in freed
      BY <3>1 DEF Lateness
    <3>2. CASE handles[a] \notin freed
      <4>1. handles[a] = h /\ h \in trustees
        BY <1>3, <2>1, <3>2
      <4>2. h \in Conns /\ h # None
        BY <1>2, <4>1
      <4>3. sessionId[h] = a /\ a # h
        BY <4>1, <4>2 DEF Registered
      <4> QED BY <1>2, <4>1, <4>3
    <3> QED BY <3>1, <3>2
  <2> QED BY <1>1, <2>1, TakenLateness
<1>10. Told'
  BY <1>1 DEF Told, UpperIsBacked
<1> QED BY <1>4, <1>5, <1>6, <1>7, <1>8, <1>9, <1>10, TakenKeeps

\* The event of a listed handle that has closed is about the one that is listed.
LEMMA AppShutEvent ==
    ASSUME IInv, EventTaken, HandleShut(events[1]), ~events[1].trustee, events[1].id \in Apps
    PROVE  IInv'
<1> DEFINE a == events[1].id
           h == handles[a]
<1> USE DEF IInv
<1>1. /\ events[1].kind = "shut" /\ a \in Apps
      /\ freed' = freed \cup ({h} \ {None}) /\ handles' = [handles EXCEPT ![a] = None]
      /\ phase = "event" /\ events # << >> /\ events' = Tail(events)
      /\ UNCHANGED << sessionId, isTrustee, isShutdown, sock, readErr, writeErr, inbox,
                      posting, shutSession, phase, todo, registering, trustees,
                      removeTrustees, closeHandles, upper, lastHandle, quiet, late,
                      stray >>
  BY DEF HandleShut, EventTaken, uv, history
<1>2. /\ h = events[1].of /\ h \in Conns /\ sessionId[h] = a /\ AppOf[h] = a /\ a # h
      /\ sock[h] = "closed" /\ isShutdown[h]
  <2> DEFINE c == events[1].of
  <2>1. c \in Conns /\ 1 \in Places
    BY TakenEvent
  <2>2. a \in {c, sessionId[c]} /\ a # c
    BY <1>1, <2>1 DEF Ids
  <2>3. sessionId[c] = a /\ sessionId[c] \in {c, AppOf[c]}
    BY <2>1, <2>2 DEF Ids
  <2>4. ~Finished(c)
    BY <2>1 DEF Finished
  <2>5. handles[AppOf[c]] = c
    BY <2>1, <2>2, <2>3, <2>4 DEF Registered
  <2>6. sock[c] = "closed" /\ isShutdown[c]
    BY <1>1, <2>1 DEF Order, Closing
  <2> QED BY <2>1, <2>2, <2>3, <2>5, <2>6
<1>3. \A c \in Conns : c = h => Finished(c)'
  BY <1>1, <1>2, TakenKeeps
<1>4. lastHandle[a] = h
  BY <1>1, <1>2 DEF Registered
<1> HIDE DEF a, h
<1>5. handles'[a] = None /\ handles[a] = h /\ \A b \in Apps \ {a} : handles'[b] = handles[b]
  BY <1>1 DEF TypeOK, h
<1>6. freed' = freed \cup {h}
  BY <1>1, <1>2
<1>7. TypeOK'
  BY <1>1, <1>2, <1>6, TakenEvent DEF TypeOK
<1>8. Order'
  <2>1. \A i \in Places' : events'[i].kind = "connect" => events'[i].of \notin freed' \cup trustees
    <3> TAKE i \in Places'
    <3> HAVE events'[i].kind = "connect"
    <3>1. events'[i].of \notin freed \cup trustees /\ sessionId[events'[i].of] = events'[i].of
      BY TakenEvent DEF Order
    <3> QED BY <1>2, <1>6, <3>1
  <2> QED BY <1>1, <2>1, TakenOrder
<1>9. Registered'
  <2>1. \A b \in Apps : handles'[b] # None =>
           sessionId[handles'[b]] = b /\ lastHandle[b] = handles'[b]
    BY <1>5 DEF Registered
  <2>2. \A d \in Conns : sessionId[d] # d => handles'[AppOf[d]] = d \/ Finished(d)'
    <3> TAKE d \in Conns
    <3> HAVE sessionId[d] # d
    <3>1. CASE d = h
      BY <1>3, <3>1
    <3>2. CASE d # h
      <4>1. handles[AppOf[d]] = d => AppOf[d] # a
        BY <1>5, <3>2
      <4>2. handles[AppOf[d]] = d \/ Finished(d)'
        BY TakenKeeps DEF Registered
      <4> QED BY <1>5, <4>1, <4>2
    <3> QED BY <3>1, <3>2
  <2> QED BY <1>1, <2>1, <2>2, TakenEvent DEF Registered
<1>10. Trusted'
  BY <1>1, <1>2, <1>6 DEF Trusted
<1>11. Closing'
  BY <1>1, <1>2, <1>6 DEF Closing
<1>12. Lateness'
  <2>1. ASSUME NEW b \in Apps, handles'[b] \in freed' PROVE handles'[b] \in late
    <3>1. b # a
      BY <1>1, <1>2, <1>5, <1>6, <2>1 DEF TypeOK
    <3>2. handles'[b] = handles[b]
      BY <1>5, <3>1
    <3>3. handles[b] # h
      <4> SUFFICES ASSUME handles[b] = h PROVE FALSE
        OBVIOUS
      <4>1. handles[b] # None
        BY <1>2
      <4> QED BY <1>2, <3>1, <4>1 DEF Registered
    <3> QED BY <1>6, <2>1, <3>2, <3>3 DEF Lateness
  <2> QED BY <1>1, <2>1, TakenLateness
<1>13. Told'
  <2>1. h \in quiet \/ a \notin upper
    BY <1>2, <1>5 DEF Told
  <2>2. UpperIsBacked'
    <3> SUFFICES ASSUME NEW b \in upper PROVE handles'[b] # None \/ lastHandle[b] \in quiet
      BY <1>1 DEF UpperIsBacked
    <3>1. b \in Apps
      BY DEF TypeOK
    <3>2. CASE b = a
      BY <1>4, <2>1, <3>2
    <3>3. CASE b # a
      BY <1>5, <3>1, <3>3 DEF Told, UpperIsBacked
    <3> QED BY <3>2, <3>3
  <2>3. \A c \in Conns : handles'[AppOf[c]] = c => handles[AppOf[c]] = c
    BY <1>5
  <2> QED BY <1>1, <2>2, <2>3 DEF Told
<1> QED BY <1>7, <1>8, <1>9, <1>10, <1>11, <1>12, <1>13, TakenKeeps

\* An event that names neither a trustee nor an app destroys nothing.
LEMMA StrayShutEvent ==
    ASSUME IInv, EventTaken, HandleShut(events[1]), ~events[1].trustee, events[1].id \notin Apps
    PROVE  IInv'
<1> USE DEF IInv
<1>1. /\ phase = "event" /\ events # << >> /\ events' = Tail(events)
      /\ UNCHANGED << sessionId, isTrustee, isShutdown, freed, sock, readErr, writeErr, inbox,
                      posting, shutSession, phase, todo, registering, trustees,
                      removeTrustees, handles, closeHandles, upper, lastHandle,
                      quiet, late, stray >>
  BY DEF HandleShut, EventTaken, uv, history
<1>2. TypeOK'
  BY <1>1, TakenEvent DEF TypeOK
<1>3. Order'
  <2>1. \A i \in Places' : events'[i].kind = "connect" => events'[i].of \notin freed \cup trustees
    BY TakenEvent DEF Order
  <2> QED BY <1>1, <2>1, TakenOrder
<1>4. Registered'
  BY <1>1, TakenEvent, TakenKeeps DEF Registered
<1>5. Trusted' /\ Closing'
  BY <1>1 DEF Trusted, Closing
<1>6. Lateness'
  BY <1>1, TakenLateness DEF Lateness
<1>7. Told'
  BY <1>1 DEF Told, UpperIsBacked
<1> QED BY <1>2, <1>3, <1>4, <1>5, <1>6, <1>7, TakenKeeps

LEMMA RunEventStep ==
    ASSUME IInv, RunEvent PROVE IInv'
<1> DEFINE e == Head(events)
<1>1. events # << >> /\ e = events[1]
  BY Taken DEF RunEvent, IInv, TypeOK
<1>2. CASE HandleConnect(e)
  <2>1. EventTaken
    BY <1>2 DEF RunEvent, EventTaken, HandleConnect, objects, tables, history
  <2> QED BY <1>1, <1>2, <2>1, ConnectEvent
<1>3. CASE HandleDisconnect(e)
  <2>1. EventTaken
    BY <1>3 DEF RunEvent, EventTaken, HandleDisconnect, tables
  <2> QED BY <1>1, <1>3, <2>1, DisconnectEvent
<1>4. CASE HandleTrusteeDisconnect(e)
  <2>1. EventTaken
    BY <1>4 DEF RunEvent, EventTaken, HandleTrusteeDisconnect, tables
  <2> QED BY <1>1, <1>4, <2>1, TrusteeDisconnectEvent
<1>5. CASE HandleStrayDisconnect(e)
  <2>1. EventTaken
    BY <1>5 DEF RunEvent, EventTaken, HandleStrayDisconnect, objects, tables
  <2> QED BY <1>1, <1>5, <2>1, StrayDisconnectEvent
<1>6. CASE HandleShut(e)
  <2>1. EventTaken
    BY <1>6 DEF RunEvent, EventTaken, HandleShut, history
  <2> QED BY <1>1, <1>6, <2>1, TrusteeShutEvent, AppShutEvent, StrayShutEvent
<1> QED BY <1>2, <1>3, <1>4, <1>5, <1>6 DEF RunEvent

-----------------------------------------------------------------------------
(* The theorem. *)

LEMMA StutterStep ==
    ASSUME IInv, UNCHANGED vars PROVE IInv'
<1> USE DEF IInv
<1>1. UNCHANGED << sessionId, isTrustee, isShutdown, freed, sock, readErr, writeErr, inbox,
                   posting, shutSession, events, phase, todo, registering, trustees,
                   removeTrustees, handles, closeHandles, upper, lastHandle, quiet,
                   late, stray >>
  BY DEF vars, objects, uv, tables, history
<1>2. TypeOK'
  BY <1>1 DEF TypeOK
<1>3. Ids' /\ Order'
  BY <1>1 DEF Ids, Order, Places, Posted
<1>4. Registered' /\ Trusted' /\ Closing'
  BY <1>1 DEF Registered, Trusted, Closing, Finished, Posted, Places
<1>5. Lateness' /\ Told'
  BY <1>1 DEF Lateness, Told, UpperIsBacked, Places
<1> QED BY <1>2, <1>3, <1>4, <1>5

LEMMA NextIInv ==
    ASSUME IInv, [Next]_vars PROVE IInv'
<1>1. CASE MainThread
  BY <1>1, RunEventStep, RunBetweenStep, RegisteHandleInsertStep, EndFrameStep, VisitTrusteeStep,
     RegisteHandleStep DEF MainThread
<1>2. CASE UvThread
  BY <1>2, AsyncShutStep, ShutReadIdStep, AddEventStep, ShutStep DEF UvThread
<1>3. CASE Environment
  BY <1>3, ConnectionStep, RecvRegisterStep, ReadErrorStep, WriteErrorStep, CloseNetHandleStep
     DEF Environment
<1>4. CASE UNCHANGED vars
  BY <1>4, StutterStep
<1> QED BY <1>1, <1>2, <1>3, <1>4 DEF Next

LEMMA EventsAreOwn ==
    ASSUME IInv PROVE EventHitsOwnHandle
<1> SUFFICES ASSUME NEW i \in Places, events[i].id \in Apps, handles[events[i].id] # None
             PROVE  handles[events[i].id] = events[i].of
  BY DEF EventHitsOwnHandle, Places
<1> DEFINE c == events[i].of
           a == events[i].id
<1>1. c \in Conns
  BY EventTypes DEF Events
<1>2. a \in {c, sessionId[c]} /\ a # c /\ sessionId[c] \in {c, AppOf[c]}
  BY <1>1 DEF IInv, Ids
<1>3. ~Finished(c)
  BY DEF Finished
<1> QED BY <1>1, <1>2, <1>3 DEF IInv, Registered

\* Whatever the two threads do, and in whatever order: the tables hold what the
\* code stores in them; a handle that is listed is not destroyed unless it was
\* registered after it had been closed; an event names the connection it came
\* from; a connection is asked to close at most once; and the modules above
\* believe an app connected only while a handle backs it or was closed quietly.
THEOREM HandlesAreSafe ==
    Spec => [](TypeOK /\ ValidUnlessLate /\ EventHitsOwnHandle /\ ClosedOnce /\ UpperIsBacked)
<1>1. IInv => TypeOK /\ ValidUnlessLate /\ EventHitsOwnHandle /\ ClosedOnce /\ UpperIsBacked
  <2> SUFFICES ASSUME IInv
               PROVE  TypeOK /\ ValidUnlessLate /\ EventHitsOwnHandle /\ ClosedOnce /\ UpperIsBacked
    OBVIOUS
  <2>1. ValidUnlessLate
    BY DEF IInv, Lateness, Trusted, ValidUnlessLate
  <2>2. ClosedOnce
    BY DEF IInv, Closing, ClosedOnce
  <2> QED BY <2>1, <2>2, EventsAreOwn DEF IInv, TypeOK, Told
<1>2. IInv /\ [Next]_vars => IInv'
  BY NextIInv
<1> QED BY <1>1, <1>2, InitIInv, PTL DEF Spec

\* The tables and queues of the libuv thread and the main thread keep their types.
THEOREM HandleTypes == Spec => []TypeOK
BY HandlesAreSafe, PTL

\* A listed handle's connection is still there, unless its registration was
\* handled after the close: the two threads hand it over in no other wrong order.
THEOREM HandlesAreLive == Spec => []ValidUnlessLate
BY HandlesAreSafe, PTL

\* CloseServices, the errors of reading and of writing, and the delayed close all
\* end in uv_close, and no connection gets there twice.
THEOREM ClosesOnce == Spec => []ClosedOnce
BY HandlesAreSafe, PTL

\* The modules above believe an app is connected only while a handle is listed for
\* it, unless its last handle was closed without the lost functions being called.
THEOREM UpperSeesHandles == Spec => []UpperIsBacked
BY HandlesAreSafe, PTL
=============================================================================
