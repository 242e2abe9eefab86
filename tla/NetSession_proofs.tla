------------------------- MODULE NetSession_proofs -------------------------
(***************************************************************************)
(* For any messages, sizes of queues and batches, and losses of the        *)
(* connection: what is delivered is what was sent, in order, but for the   *)
(* cases the properties name.                                              *)
(*                                                                         *)
(* The proof looks at all frames between the two upper layers as one line, *)
(* the oldest first, each frame counted twice (its header and its body).   *)
(* Writing and reading leave the line as it is; the other actions take a   *)
(* piece out of it or put a message at its end.                            *)
(***************************************************************************)
EXTENDS NetSession, SequenceTheorems, TLAPS

-----------------------------------------------------------------------------
(* The invariant. *)

Unit     == [half : {1, 2}, of : Frame]
Received == [head : Frame, body : Frame]
Handed   == [msg : Nat, parts : Seq(Frame)]

Queues ==
    /\ nextMsg \in 1 .. Len(Children) + 1
    /\ pending \in Seq(Frame) /\ sendQueue \in Seq(Frame)
    /\ wire \in Seq(Unit) /\ recvBuff \in Seq(Unit)
    /\ recvQueue \in Seq(Received) /\ delivered \in Seq(Handed)
    /\ Len(sendQueue) <= QueueSize /\ Len(recvQueue) <= QueueSize /\ Len(recvBuff) <= 1
    /\ breaks \in 0 .. MaxBreaks

Flags ==
    /\ notify \in BOOLEAN /\ connectEvent \in BOOLEAN /\ connected \in BOOLEAN
    /\ async \in BOOLEAN /\ sending \in BOOLEAN
    /\ overflowed \in BOOLEAN /\ writeBroken \in BOOLEAN /\ senderIsClient \in BOOLEAN
    /\ writeBroken => sending

\* The main thread's view: a TRUE is seen at once.  Within the callback the flag is clear.
Views ==
    /\ sendingSeen \in BOOLEAN /\ callback \in BOOLEAN /\ hidden \in BOOLEAN
    /\ sending => sendingSeen
    /\ callback => ~ sending

\* Nothing is in flight on a lost connection.
Lost == ~ connected => wire = << >> /\ breaks > 0

Types == Queues /\ Flags /\ Views /\ Lost

\* The frames of received frames and of units, and frames taken twice, for a
\* header and a body.
Pairs(q) == [k \in 1 .. 2 * Len(q) |-> IF k % 2 = 1 THEN q[(k + 1) \div 2].head ELSE q[k \div 2].body]
Ofs(u)   == [k \in 1 .. Len(u) |-> u[k].of]
Twice(f) == [k \in 1 .. 2 * Len(f) |-> f[(k + 1) \div 2]]

Wired   == Pairs(recvQueue) \o Ofs(recvBuff \o wire)
Waiting == sendQueue \o pending
Line    == Wired \o Twice(Waiting)

\* A frame that comes after something of a message is of that message or a later
\* one, and starts a later one only.
After(m, f) ==
    m # Register /\ f.msg # Register =>
        /\ m <= f.msg
        /\ f.kind # "child" => m < f.msg

InLine(s) ==
    \A i, j \in 1 .. Len(s) : i < j => After(s[i].msg, s[j]) \/ (j = i + 1 /\ s[i] = s[j])

\* The line keeps the order of the messages, and so does what was delivered.
Ordered ==
    /\ InLine(Line)
    /\ \A i \in 1 .. Len(delivered), j \in 1 .. Len(Line) : After(delivered[i].msg, Line[j])
    /\ \A i \in 1 .. Len(Line) : Line[i].msg < nextMsg
    /\ \A i \in 1 .. Len(delivered) : delivered[i].msg < nextMsg
    /\ InOrder

\* Nothing was refused, and the accepting end receives or the connection lasted.
Sound == ~ overflowed /\ (senderIsClient \/ breaks = 0)

Paired(s) == \A i \in Nat \ {0} : 2 * i <= Len(s) => s[2 * i - 1] = s[2 * i]

\* In a line of whole frames, the head of a message whose k-th child is awaited.
Awaits(s, i, k) == 2 * i <= Len(s) /\ s[2 * i].kind = "begin" /\ k <= s[2 * i].child

\* A head is followed by its children as far as the line goes; by all of them.
Begun(s) ==
    \A i, k \in Nat \ {0} : Awaits(s, i, k) /\ 2 * (i + k) <= Len(s) =>
        s[2 * (i + k)] = Child(s[2 * i].msg, k)
Complete(s) ==
    \A i, k \in Nat \ {0} : Awaits(s, i, k) =>
        2 * (i + k) <= Len(s) /\ s[2 * (i + k)] = Child(s[2 * i].msg, k)

\* Then what was written is whole frames, and every head has its children: in the
\* whole line, or in each of its parts while the connection is lost.
Whole ==
    /\ Paired(Wired)
    /\ IF connected THEN Len(Wired) % 2 = 0 /\ Complete(Line)
       ELSE Begun(Wired) /\ Complete(Twice(Waiting))
    /\ DeliveredIsOriginal

IInv == Types /\ Ordered /\ (Sound => Whole)

-----------------------------------------------------------------------------
(* Frames. *)

\* A function on 1 .. n is a sequence.
LEMMA FunctionIsSeq ==
    ASSUME NEW S, NEW n \in Nat, NEW f \in [1 .. n -> S]
    PROVE  f \in Seq(S) /\ Len(f) = n
<1>1. f \in Seq(S)
  BY SeqDef
<1>2. DOMAIN f = 1 .. Len(f) /\ Len(f) \in Nat
  BY <1>1
<1> QED
  BY <1>1, <1>2

\* What SendNetMessage cuts a message into: a frame that starts it, then children.
LEMMA FramesFacts ==
    ASSUME NEW m \in Messages \cup {Register}
    PROVE  /\ Frames(m) \in Seq(Frame) /\ Len(Frames(m)) >= 1
           /\ \A i \in 1 .. Len(Frames(m)) : Frames(m)[i].msg = m
           /\ \A i \in 2 .. Len(Frames(m)) : Frames(m)[i] = Child(m, i - 1)
           /\ Frames(m)[1] = Single(m)
              \/ (Frames(m)[1] = Begin(m) /\ m # Register /\ Children[m] = Len(Frames(m)) - 1)
<1>1. CASE m = Register \/ Children[m] = 0
  <2>1. Frames(m) = << Single(m) >>
    BY <1>1 DEF Frames
  <2>2. Single(m) \in Frame
    <3>1. Frames(m)[1] \in {Frames(m)[i] : i \in 1 .. Len(Frames(m))}
      BY <2>1
    <3> QED
      BY <3>1, <2>1 DEF Frame
  <2> QED
    BY <2>1, <2>2 DEF Single
<1>2. CASE ~ (m = Register \/ Children[m] = 0)
  <2>1. m \in 1 .. Len(Children) /\ Children[m] \in Nat \ {0}
    BY <1>2, NetAssumption DEF Messages
  <2> DEFINE n == Children[m]
             C == [i \in 1 .. n |-> Child(m, i)]
             A == [msg : {m}, kind : {"begin", "child"}, child : Nat]
  <2>2. C \in Seq(A) /\ Len(C) = n
    <3>1. C \in [1 .. n -> A]
      BY DEF Child
    <3> HIDE DEF n, C, A
    <3>2. n \in Nat
      BY <2>1 DEF n
    <3> QED
      BY <3>1, <3>2, FunctionIsSeq
  <2>3. << Begin(m) >> \in Seq(A) /\ Len(<< Begin(m) >>) = 1 /\ << Begin(m) >>[1] = Begin(m)
    BY <2>1 DEF Begin
  <2>4. Frames(m) = << Begin(m) >> \o C
    BY <1>2 DEF Frames
  <2> HIDE DEF C
  <2>5. Frames(m) \in Seq(A) /\ Len(Frames(m)) = n + 1 /\ Frames(m)[1] = Begin(m)
    BY <2>1, <2>2, <2>3, <2>4
  <2>6. \A i \in 2 .. n + 1 : Frames(m)[i] = Child(m, i - 1)
    <3>1. \A i \in 2 .. n + 1 : Frames(m)[i] = C[i - 1]
      BY <2>1, <2>2, <2>3, <2>4
    <3>2. \A i \in 1 .. n : C[i] = Child(m, i)
      BY DEF C
    <3> HIDE DEF n
    <3>3. n \in Nat /\ \A i \in 2 .. n + 1 : i - 1 \in 1 .. n
      BY <2>1 DEF n
    <3> QED
      BY <3>1, <3>2, <3>3
  <2>7. Frames(m) \in Seq(Frame)
    <3>1. \A i \in 1 .. Len(Frames(m)) : Frames(m)[i] \in Frame
      BY DEF Frame
    <3> QED
      BY <2>5, <3>1
  <2>8. \A i \in 1 .. Len(Frames(m)) : Frames(m)[i].msg = m
    <3>1. \A i \in 1 .. Len(Frames(m)) : Frames(m)[i] \in A
      BY <2>5, ElementOfSeq
    <3> QED
      BY <3>1
  <2> QED
    BY <1>2, <2>1, <2>5, <2>6, <2>7, <2>8
<1> QED
  BY <1>1, <1>2

\* A frame is one of those.
LEMMA FrameFacts ==
    ASSUME NEW f \in Frame
    PROVE  \/ f = Single(f.msg) /\ f.msg \in Messages \cup {Register}
              /\ (f.msg = Register \/ Children[f.msg] = 0)
           \/ f = Begin(f.msg) /\ f.msg \in Messages /\ Children[f.msg] \in Nat \ {0}
           \/ f.msg \in Messages /\ \E i \in Nat \ {0} : f = Child(f.msg, i)
<1>1. PICK m \in Messages \cup {Register}, i \in Nat : i \in 1 .. Len(Frames(m)) /\ f = Frames(m)[i]
  <2>1. \A m \in Messages \cup {Register} : Len(Frames(m)) \in Nat
    BY FramesFacts
  <2> QED
    BY <2>1 DEF Frame
<1>2. CASE m = Register \/ Children[m] = 0
  <2>1. f = Single(m)
    BY <1>1, <1>2 DEF Frames
  <2>2. f.msg = m
    BY <2>1 DEF Single
  <2> QED
    BY <1>2, <2>1, <2>2
<1>3. CASE ~ (m = Register \/ Children[m] = 0)
  <2>1. m \in Messages /\ Children[m] \in Nat \ {0}
    BY <1>3, NetAssumption DEF Messages
  <2>2. Frames(m)[1] = Begin(m) \/ Frames(m)[1] = Single(m)
    BY FramesFacts
  <2>3. Frames(m)[1] # Single(m)
    <3> DEFINE C == [j \in 1 .. Children[m] |-> Child(m, j)]
               A == [msg : {m}, kind : {"begin", "child"}, child : Nat]
    <3>1. C \in [1 .. Children[m] -> A]
      BY DEF Child
    <3>2. C \in Seq(A)
      BY <2>1, <3>1, FunctionIsSeq
    <3>3. << Begin(m) >> \in Seq(A) /\ Len(<< Begin(m) >>) = 1 /\ << Begin(m) >>[1] = Begin(m)
      BY <2>1 DEF Begin
    <3> HIDE DEF C
    <3>4. (<< Begin(m) >> \o C)[1] = Begin(m)
      BY <3>2, <3>3
    <3> QED
      BY <3>4, <1>3 DEF C, Frames, Begin, Single
  <2>4. CASE i = 1
    BY <1>1, <2>1, <2>2, <2>3, <2>4 DEF Begin
  <2>5. CASE i # 1
    <3>1. i \in 2 .. Len(Frames(m))
      BY <1>1, <2>5, FramesFacts
    <3>2. f = Child(m, i - 1) /\ i - 1 \in Nat \ {0}
      BY <3>1, <1>1, FramesFacts
    <3> QED
      BY <3>2, <2>1 DEF Child
  <2> QED
    BY <2>4, <2>5
<1> QED
  BY <1>2, <1>3

\* The fields of a frame.
LEMMA FrameType ==
    ASSUME NEW f \in Frame
    PROVE  f.msg \in Nat /\ f.child \in Nat /\ f.kind \in {"single", "begin", "child"}
BY FrameFacts, NetAssumption DEF Messages, Register, Single, Begin, Child

-----------------------------------------------------------------------------
(* Types. *)

\* A piece of a sequence.
LEMMA PieceOfSeq ==
    ASSUME NEW S, NEW s \in Seq(S), NEW m \in Nat \ {0}, NEW n \in Nat, n <= Len(s), m <= n + 1
    PROVE  /\ SubSeq(s, m, n) \in Seq(S) /\ Len(SubSeq(s, m, n)) = n + 1 - m
           /\ \A i \in 1 .. n + 1 - m : SubSeq(s, m, n)[i] = s[i + m - 1]
<1>1. \A i \in m .. n : s[i] \in S
  BY ElementOfSeq
<1> QED
  BY <1>1, SubSeqProperties

\* What is written for a batch of frames.
LEMMA UnitsFacts ==
    ASSUME NEW f \in Seq(Frame)
    PROVE  /\ Units(f) \in Seq(Unit) /\ Len(Units(f)) = 2 * Len(f)
           /\ \A k \in 1 .. 2 * Len(f) : Units(f)[k].of = f[(k + 1) \div 2]
<1>1. \A k \in 1 .. 2 * Len(f) : (k + 1) \div 2 \in 1 .. Len(f)
  OBVIOUS
<1>2. \A k \in 1 .. 2 * Len(f) : f[(k + 1) \div 2] \in Frame
  BY <1>1, ElementOfSeq
<1>3. \A k \in 1 .. 2 * Len(f) : 2 - (k % 2) \in {1, 2}
  OBVIOUS
<1>4. Units(f) \in [1 .. 2 * Len(f) -> Unit]
  BY <1>2, <1>3 DEF Units, Unit
<1>5. Len(f) \in Nat
  OBVIOUS
<1>6. 2 * Len(f) \in Nat
  BY <1>5
<1>7. Units(f) \in Seq(Unit) /\ Len(Units(f)) = 2 * Len(f)
  BY <1>4, <1>6, FunctionIsSeq
<1> QED
  BY <1>7 DEF Units

\* What is cut off a run of units.
LEMMA ParsedFacts ==
    ASSUME NEW u \in Seq(Unit)
    PROVE  /\ Parsed(u) \in Seq(Received) /\ Len(Parsed(u)) = Len(u) \div 2
           /\ \A i \in 1 .. Len(u) \div 2 :
                 Parsed(u)[i].head = u[2 * i - 1].of /\ Parsed(u)[i].body = u[2 * i].of
<1>1. \A i \in 1 .. Len(u) \div 2 : 2 * i - 1 \in 1 .. Len(u) /\ 2 * i \in 1 .. Len(u)
  OBVIOUS
<1>2. \A i \in 1 .. Len(u) : u[i].of \in Frame
  <2>1. \A i \in 1 .. Len(u) : u[i] \in Unit
    BY ElementOfSeq
  <2> QED
    BY <2>1 DEF Unit
<1>3. Parsed(u) \in [1 .. Len(u) \div 2 -> Received]
  BY <1>1, <1>2 DEF Parsed, Received
<1>4. Len(u) \div 2 \in Nat
  OBVIOUS
<1>5. Parsed(u) \in Seq(Received) /\ Len(Parsed(u)) = Len(u) \div 2
  BY <1>3, <1>4, FunctionIsSeq
<1> QED
  BY <1>5 DEF Parsed

\* What TypeOK asks of the state.
LEMMA TypesGive == Types => TypeOK
<1> SUFFICES ASSUME Types PROVE TypeOK
  OBVIOUS
<1>1. \A i \in 1 .. Len(recvQueue) : recvQueue[i].head \in Frame /\ recvQueue[i].body \in Frame
  <2>1. \A i \in 1 .. Len(recvQueue) : recvQueue[i] \in Received
    BY ElementOfSeq DEF Types, Queues
  <2> QED
    BY <2>1 DEF Received
<1>2. Queues /\ Flags /\ Views
  BY DEF Types
<1>3. /\ notify \in BOOLEAN /\ connectEvent \in BOOLEAN /\ connected \in BOOLEAN
      /\ async \in BOOLEAN /\ sending \in BOOLEAN
      /\ overflowed \in BOOLEAN /\ writeBroken \in BOOLEAN
      /\ writeBroken => sending
  BY <1>2 DEF Flags
<1>4. /\ sendingSeen \in BOOLEAN /\ callback \in BOOLEAN /\ hidden \in BOOLEAN
      /\ sending => sendingSeen
  BY <1>2 DEF Views
<1> QED
  BY <1>1, <1>2, <1>3, <1>4, Zenon DEF TypeOK, Queues

\* A lost connection carries nothing: only an open one is written to.
LEMMA StepInLost == Types /\ [Next]_vars => Lost'
<1> SUFFICES ASSUME Types, [Next]_vars PROVE Lost'
  OBVIOUS
<1> USE DEF Types, Lost
<1>1. CASE StartSend
  BY <1>1 DEF StartSend, uvVars, histVars
<1>2. CASE MainThread
  BY <1>2 DEF MainThread, AddSendMessage, SendNetMessage, OnClientConnected, uvVars, recvVars, histVars
<1>3. CASE UvThread
  BY <1>3 DEF UvThread, OnAsyncSend, OnSendCallBack, OnSendOK, StartSendMessage, StoreReachesMain, uvVars, histVars
<1>4. CASE Break
  BY <1>4 DEF Break, Queues
<1>5. CASE Reconnect
  BY <1>5 DEF Reconnect
<1>6. CASE OnRecvData
  BY <1>6 DEF OnRecvData, uvVars, Queues
<1>7. CASE PopMessage
  BY <1>7 DEF PopMessage, PopSplit, PopHugeSplit, PopStrayChild, PopSingle, uvVars, histVars
<1>8. CASE UNCHANGED vars
  BY <1>8 DEF vars, uvVars, histVars
<1> QED
  BY <1>1, <1>2, <1>3, <1>4, <1>5, <1>6, <1>7, <1>8 DEF Next

\* The Booleans, and that a lost write was a write.
LEMMA StepInFlags == Types /\ [Next]_vars => Flags'
<1> SUFFICES ASSUME Types, [Next]_vars PROVE Flags'
  OBVIOUS
<1> USE DEF Types, Flags
<1>1. CASE StartSend
  BY <1>1, Zenon DEF StartSend, uvVars, histVars
<1>2. CASE MainThread
  <2>1. CASE AddSendMessage
    <3>1. notify' \in BOOLEAN
      BY <2>1 DEF AddSendMessage
    <3>2. overflowed' \in BOOLEAN
      BY <2>1 DEF AddSendMessage
    <3>3. UNCHANGED << uvVars, senderIsClient, writeBroken >>
      BY <2>1 DEF AddSendMessage
    <3> QED
      BY <3>1, <3>2, <3>3, Zenon DEF uvVars
  <2>2. CASE SendNetMessage
    <3>1. async' \in BOOLEAN
      BY <2>2 DEF SendNetMessage, IsNeedSend
    <3>2. notify' = FALSE /\ UNCHANGED << sending, connected, connectEvent, histVars >>
      BY <2>2 DEF SendNetMessage
    <3> QED
      BY <3>1, <3>2, Zenon DEF histVars
  <2>3. CASE OnClientConnected
    BY <2>3, Zenon DEF OnClientConnected, histVars
  <2> QED
    BY <1>2, <2>1, <2>2, <2>3 DEF MainThread
<1>3. CASE UvThread
  <2>1. /\ sending' \in BOOLEAN
        /\ writeBroken => sending'
    <3>1. CASE OnAsyncSend
      BY <3>1 DEF OnAsyncSend, SendQueueMessage
    <3>2. CASE OnSendOK
      BY <3>2 DEF OnSendOK
    <3>3. CASE StartSendMessage
      BY <3>3 DEF StartSendMessage, SendQueueMessage, Views
    <3>4. CASE StoreReachesMain
      BY <3>4 DEF StoreReachesMain, uvVars
    <3> QED
      BY <1>3, <3>1, <3>2, <3>3, <3>4 DEF UvThread, OnSendCallBack
  <2>2. async' \in BOOLEAN
    BY <1>3 DEF UvThread, OnAsyncSend, OnSendCallBack, OnSendOK, StartSendMessage, StoreReachesMain, uvVars
  <2>3. UNCHANGED << notify, connected, connectEvent, histVars >>
    BY <1>3 DEF UvThread, OnAsyncSend, OnSendCallBack, OnSendOK, StartSendMessage, StoreReachesMain, uvVars, mainVars
  <2> QED
    BY <2>1, <2>2, <2>3, Zenon DEF histVars
<1>4. CASE Break
  <2>1. /\ writeBroken' \in BOOLEAN
        /\ writeBroken' => sending
    BY <1>4 DEF Break
  <2>2. connected' = FALSE /\ UNCHANGED << notify, async, sending, connectEvent, overflowed, senderIsClient >>
    BY <1>4 DEF Break, mainVars
  <2> QED
    BY <2>1, <2>2, Zenon
<1>5. CASE Reconnect
  BY <1>5, Zenon DEF Reconnect
<1>6. CASE OnRecvData
  <2>1. overflowed' \in BOOLEAN
    BY <1>6 DEF OnRecvData
  <2>2. UNCHANGED << mainVars, uvVars, senderIsClient, writeBroken >>
    BY <1>6 DEF OnRecvData
  <2> QED
    BY <2>1, <2>2, Zenon DEF mainVars, uvVars
<1>7. CASE PopMessage
  <2>1. UNCHANGED << mainVars, uvVars, histVars >>
    BY <1>7 DEF PopMessage, PopSplit, PopHugeSplit, PopStrayChild, PopSingle
  <2> QED
    BY <2>1, Zenon DEF mainVars, uvVars, histVars
<1>8. CASE UNCHANGED vars
  BY <1>8, Zenon DEF vars, mainVars, uvVars, histVars
<1> QED
  BY <1>1, <1>2, <1>3, <1>4, <1>5, <1>6, <1>7, <1>8 DEF Next

\* The main thread sees a TRUE at once, and a FALSE late or early.
LEMMA StepInViews == Types /\ [Next]_vars => Views'
<1> SUFFICES ASSUME Types, [Next]_vars PROVE Views'
  OBVIOUS
<1>0. Views /\ sending \in BOOLEAN
  BY DEF Types, Flags
<1>1. ASSUME UNCHANGED << sending, viewVars >> PROVE Views'
  BY <1>0, <1>1, Zenon DEF Views, viewVars
<1>2. CASE StartSend \/ OnRecvData
  BY <1>1, <1>2 DEF StartSend, OnRecvData, uvVars
<1>3. CASE MainThread
  <2>1. CASE AddSendMessage \/ OnClientConnected
    BY <1>1, <2>1 DEF AddSendMessage, OnClientConnected, uvVars
  <2>2. CASE SendNetMessage
    <3>1. hidden' \in BOOLEAN /\ UNCHANGED << sending, sendingSeen, callback >>
      BY <2>2 DEF SendNetMessage
    <3> QED
      BY <3>1, <1>0, Zenon DEF Views
  <2> QED
    BY <1>3, <2>1, <2>2 DEF MainThread
<1>4. CASE UvThread
  <2>1. CASE OnAsyncSend
    <3>1. sending' \in BOOLEAN
      BY <1>0, <2>1 DEF OnAsyncSend, SendQueueMessage
    <3>2. sendingSeen' = sending' /\ ~ callback /\ UNCHANGED << callback, hidden >>
      BY <2>1 DEF OnAsyncSend
    <3> QED
      BY <3>1, <3>2, <1>0, Zenon DEF Views
  <2>2. CASE OnSendOK
    <3>1. sending' = FALSE /\ callback' = TRUE /\ UNCHANGED << sendingSeen, hidden >>
      BY <2>2 DEF OnSendOK
    <3> QED
      BY <3>1, <1>0, Zenon DEF Views
  <2>3. CASE StartSendMessage
    <3>1. sending' \in BOOLEAN
      BY <1>0, <2>3 DEF StartSendMessage, SendQueueMessage
    <3>2. sendingSeen' \in BOOLEAN /\ (sending' => sendingSeen')
      BY <2>3, <3>1 DEF StartSendMessage
    <3>3. callback' = FALSE /\ hidden' = hidden
      BY <2>3 DEF StartSendMessage
    <3> QED
      BY <3>2, <3>3, <1>0, Zenon DEF Views
  <2>4. CASE StoreReachesMain
    <3>1. sendingSeen' = sending /\ UNCHANGED << sending, callback, hidden >>
      BY <2>4 DEF StoreReachesMain, uvVars
    <3> QED
      BY <3>1, <1>0, Zenon DEF Views
  <2> QED
    BY <1>4, <2>1, <2>2, <2>3, <2>4 DEF UvThread, OnSendCallBack
<1>5. CASE Break
  BY <1>1, <1>5 DEF Break
<1>6. CASE Reconnect
  <2>1. CASE senderIsClient
    BY <1>1, <1>6, <2>1 DEF Reconnect
  <2>2. CASE ~ senderIsClient
    <3>1. sending' = FALSE /\ sendingSeen' = FALSE /\ hidden' = FALSE /\ callback' = callback
      BY <1>6, <2>2 DEF Reconnect
    <3> QED
      BY <3>1, <1>0, Zenon DEF Views
  <2> QED
    BY <2>1, <2>2
<1>7. CASE PopMessage
  BY <1>1, <1>7 DEF PopMessage, PopSplit, PopHugeSplit, PopStrayChild, PopSingle, uvVars
<1>8. CASE UNCHANGED vars
  BY <1>1, <1>8 DEF vars, uvVars
<1> QED
  BY <1>2, <1>3, <1>4, <1>5, <1>6, <1>7, <1>8 DEF Next

-----------------------------------------------------------------------------
(* The parts of the line. *)

\* Two sequences with the same elements.
LEMMA SameSeq ==
    ASSUME NEW S, NEW s \in Seq(S), NEW t \in Seq(S), NEW n \in Nat, Len(s) = n, Len(t) = n,
           \A k \in 1 .. n : s[k] = t[k]
    PROVE  s = t
BY SeqEqual

\* It does not matter in which order sequences are joined.
LEMMA Join ==
    ASSUME NEW S, NEW a \in Seq(S), NEW b \in Seq(S), NEW c \in Seq(S)
    PROVE  a \o (b \o c) = (a \o b) \o c
BY ConcatAssociative

\* Sequences over S joined are a sequence over S.
LEMMA Joined ==
    ASSUME NEW S, NEW a \in Seq(S), NEW b \in Seq(S)
    PROVE  a \o b \in Seq(S)
BY ConcatProperties

\* Where the elements of two sequences are once they are joined.
LEMMA ConcatFacts ==
    ASSUME NEW S, NEW s \in Seq(S), NEW t \in Seq(S)
    PROVE  /\ s \o t \in Seq(S) /\ Len(s \o t) = Len(s) + Len(t)
           /\ Len(s) \in Nat /\ Len(t) \in Nat
           /\ \A k \in 1 .. Len(s) : (s \o t)[k] = s[k]
           /\ \A k \in Len(s) + 1 .. Len(s) + Len(t) : (s \o t)[k] = t[k - Len(s)]
           /\ \A k \in 1 .. Len(t) : (s \o t)[Len(s) + k] = t[k]
BY ConcatProperties, LenProperties

\* The same for one place of the second.
LEMMA SecondPart ==
    ASSUME NEW S, NEW s \in Seq(S), NEW t \in Seq(S), NEW k \in Nat, k > Len(s), k <= Len(s) + Len(t)
    PROVE  (s \o t)[k] = t[k - Len(s)]
<1>1. k \in Len(s) + 1 .. Len(s) + Len(t)
  BY LenProperties
<1> QED
  BY <1>1, ConcatFacts

\* The same, counted from the start of the second.
LEMMA SecondPartAt ==
    ASSUME NEW S, NEW s \in Seq(S), NEW t \in Seq(S), NEW k \in 1 .. Len(t)
    PROVE  (s \o t)[Len(s) + k] = t[k]
<1>1. Len(s) + k \in Nat /\ Len(s) + k > Len(s) /\ Len(s) + k <= Len(s) + Len(t) /\ (Len(s) + k) - Len(s) = k
  BY LenProperties
<1>2. (s \o t)[Len(s) + k] = t[(Len(s) + k) - Len(s)]
  BY <1>1, SecondPart
<1> QED
  BY <1>1, <1>2

\* The same with the lengths named.
LEMMA ConcatOfLen ==
    ASSUME NEW S, NEW s \in Seq(S), NEW t \in Seq(S), NEW n \in Nat, NEW m \in Nat, Len(s) = n, Len(t) = m
    PROVE  /\ s \o t \in Seq(S) /\ Len(s \o t) = n + m
           /\ \A k \in 1 .. n : (s \o t)[k] = s[k]
           /\ \A k \in 1 .. m : (s \o t)[n + k] = t[k]
<1>1. s \o t \in Seq(S) /\ Len(s \o t) = n + m
  BY ConcatFacts
<1>2. \A k \in 1 .. n : (s \o t)[k] = s[k]
  BY ConcatFacts
<1>3. ASSUME NEW k \in 1 .. m PROVE (s \o t)[n + k] = t[k]
  <2>1. k \in 1 .. Len(t)
    OBVIOUS
  <2>2. (s \o t)[Len(s) + k] = t[k]
    BY <2>1, SecondPartAt
  <2> QED
    BY <2>2
<1> QED
  BY <1>1, <1>2, <1>3

\* The same for two sequences of even length.
LEMMA ConcatOfTwice ==
    ASSUME NEW S, NEW s \in Seq(S), NEW t \in Seq(S), NEW n \in Nat, NEW m \in Nat,
           Len(s) = 2 * n, Len(t) = 2 * m
    PROVE  /\ s \o t \in Seq(S) /\ Len(s \o t) = 2 * n + 2 * m
           /\ \A k \in 1 .. 2 * n : (s \o t)[k] = s[k]
           /\ \A k \in 1 .. 2 * m : (s \o t)[2 * n + k] = t[k]
<1> DEFINE a == 2 * n
           b == 2 * m
<1>1. a \in Nat /\ b \in Nat /\ Len(s) = a /\ Len(t) = b
  OBVIOUS
<1> HIDE DEF a, b
<1>2. s \o t \in Seq(S) /\ Len(s \o t) = a + b
  BY <1>1, ConcatOfLen
<1>3. \A k \in 1 .. a : (s \o t)[k] = s[k]
  BY <1>1, ConcatOfLen
<1>4. ASSUME NEW k \in 1 .. b PROVE (s \o t)[a + k] = t[k]
  <2>1. k \in 1 .. Len(t)
    BY <1>1
  <2>2. (s \o t)[Len(s) + k] = t[k]
    BY <2>1, SecondPartAt
  <2> QED
    BY <1>1, <2>2
<1> QED
  BY <1>2, <1>3, <1>4 DEF a, b

\* Doubling is done by every half.
LEMMA Doubling ==
    ASSUME NEW n \in Nat, NEW k \in 1 .. 2 * n
    PROVE  \E i \in 1 .. n : \/ k = 2 * i - 1 /\ k % 2 = 1 /\ (k + 1) \div 2 = i
                             \/ k = 2 * i /\ k % 2 = 0 /\ k \div 2 = i /\ (k + 1) \div 2 = i
<1> DEFINE i == (k + 1) \div 2
<1>1. i \in 1 .. n
  OBVIOUS
<1>2. \/ k = 2 * i - 1 /\ k % 2 = 1
      \/ k = 2 * i /\ k % 2 = 0 /\ k \div 2 = i
  OBVIOUS
<1> QED
  BY <1>1, <1>2

\* The two places of the i-th of n things.
LEMMA Evens ==
    ASSUME NEW n \in Nat, NEW i \in 1 .. n
    PROVE  /\ 2 * i - 1 \in 1 .. 2 * n /\ 2 * i \in 1 .. 2 * n
           /\ (2 * i - 1) % 2 = 1 /\ (2 * i) % 2 = 0 /\ (2 * i) \div 2 = i
           /\ (2 * i - 1 + 1) \div 2 = i /\ (2 * i + 1) \div 2 = i
OBVIOUS

\* A frame taken twice is at both its places.
LEMMA TwiceFacts ==
    ASSUME NEW f \in Seq(Frame)
    PROVE  /\ Twice(f) \in Seq(Frame) /\ Len(Twice(f)) = 2 * Len(f) /\ Len(f) \in Nat
           /\ \A i \in 1 .. Len(f) : Twice(f)[2 * i - 1] = f[i] /\ Twice(f)[2 * i] = f[i]
<1> DEFINE n == Len(f)
<1>1. n \in Nat /\ 2 * n \in Nat
  BY LenProperties
<1>2. \A k \in 1 .. 2 * n : f[(k + 1) \div 2] \in Frame
  BY <1>1, Doubling, ElementOfSeq
<1>3. Twice(f) \in [1 .. 2 * n -> Frame]
  BY <1>2 DEF Twice
<1>4. \A k \in 1 .. 2 * n : Twice(f)[k] = f[(k + 1) \div 2]
  BY DEF Twice
<1> HIDE DEF n
<1>5. Twice(f) \in Seq(Frame) /\ Len(Twice(f)) = 2 * n
  BY <1>1, <1>3, FunctionIsSeq
<1>6. \A i \in 1 .. n : Twice(f)[2 * i - 1] = f[i] /\ Twice(f)[2 * i] = f[i]
  BY <1>1, <1>4, Evens
<1> QED
  BY <1>1, <1>5, <1>6 DEF n

\* A received frame's header and body are at its two places.
LEMMA PairsFacts ==
    ASSUME NEW q \in Seq(Received)
    PROVE  /\ Pairs(q) \in Seq(Frame) /\ Len(Pairs(q)) = 2 * Len(q) /\ Len(q) \in Nat
           /\ \A i \in 1 .. Len(q) : Pairs(q)[2 * i - 1] = q[i].head /\ Pairs(q)[2 * i] = q[i].body
<1> DEFINE n == Len(q)
<1>1. n \in Nat /\ 2 * n \in Nat
  BY LenProperties
<1>2. \A i \in 1 .. n : q[i].head \in Frame /\ q[i].body \in Frame
  <2>1. \A i \in 1 .. n : q[i] \in Received
    BY ElementOfSeq
  <2> QED
    BY <2>1 DEF Received
<1>3. \A k \in 1 .. 2 * n : Pairs(q)[k] = IF k % 2 = 1 THEN q[(k + 1) \div 2].head ELSE q[k \div 2].body
  BY DEF Pairs
<1>4. DOMAIN Pairs(q) = 1 .. 2 * n /\ Pairs(q) = [k \in 1 .. 2 * n |-> Pairs(q)[k]]
  BY DEF Pairs
<1> HIDE DEF n
<1>5. \A i \in 1 .. n : Pairs(q)[2 * i - 1] = q[i].head /\ Pairs(q)[2 * i] = q[i].body
  BY <1>1, <1>3, Evens
<1>6. \A k \in 1 .. 2 * n : Pairs(q)[k] \in Frame
  BY <1>1, <1>2, <1>5, Doubling
<1>7. Pairs(q) \in [1 .. 2 * n -> Frame]
  BY <1>4, <1>6
<1>8. Pairs(q) \in Seq(Frame) /\ Len(Pairs(q)) = 2 * n
  BY <1>1, <1>7, FunctionIsSeq
<1> QED
  BY <1>1, <1>5, <1>8 DEF n

\* A unit is of the frame at its place.
LEMMA OfsFacts ==
    ASSUME NEW u \in Seq(Unit)
    PROVE  /\ Ofs(u) \in Seq(Frame) /\ Len(Ofs(u)) = Len(u) /\ Len(u) \in Nat
           /\ \A i \in 1 .. Len(u) : Ofs(u)[i] = u[i].of
<1>1. \A i \in 1 .. Len(u) : u[i].of \in Frame
  <2>1. \A i \in 1 .. Len(u) : u[i] \in Unit
    BY ElementOfSeq
  <2> QED
    BY <2>1 DEF Unit
<1>2. Ofs(u) \in [1 .. Len(u) -> Frame]
  BY <1>1 DEF Ofs
<1>3. Len(u) \in Nat
  BY LenProperties
<1>4. Ofs(u) \in Seq(Frame) /\ Len(Ofs(u)) = Len(u)
  BY <1>2, <1>3, FunctionIsSeq
<1> QED
  BY <1>3, <1>4 DEF Ofs

\* Doubled lengths add up.
LEMMA TwiceConcat ==
    ASSUME NEW f \in Seq(Frame), NEW g \in Seq(Frame)
    PROVE  Twice(f \o g) = Twice(f) \o Twice(g)
<1> DEFINE n == Len(f)
           m == Len(g)
<1>1. f \o g \in Seq(Frame) /\ Len(f \o g) = n + m /\ n \in Nat /\ m \in Nat
  BY ConcatFacts
<1>2. /\ Twice(f) \in Seq(Frame) /\ Len(Twice(f)) = 2 * n
      /\ \A i \in 1 .. n : Twice(f)[2 * i - 1] = f[i] /\ Twice(f)[2 * i] = f[i]
  BY TwiceFacts
<1>3. /\ Twice(g) \in Seq(Frame) /\ Len(Twice(g)) = 2 * m
      /\ \A i \in 1 .. m : Twice(g)[2 * i - 1] = g[i] /\ Twice(g)[2 * i] = g[i]
  BY TwiceFacts
<1>4. /\ Twice(f \o g) \in Seq(Frame) /\ Len(Twice(f \o g)) = 2 * (n + m)
      /\ \A i \in 1 .. n + m : Twice(f \o g)[2 * i - 1] = (f \o g)[i] /\ Twice(f \o g)[2 * i] = (f \o g)[i]
  BY <1>1, TwiceFacts
<1>5. /\ Twice(f) \o Twice(g) \in Seq(Frame) /\ Len(Twice(f) \o Twice(g)) = 2 * n + 2 * m
      /\ \A k \in 1 .. 2 * n : (Twice(f) \o Twice(g))[k] = Twice(f)[k]
      /\ \A k \in 1 .. 2 * m : (Twice(f) \o Twice(g))[2 * n + k] = Twice(g)[k]
  <2> DEFINE s == Twice(f)
             t == Twice(g)
  <2>1. s \in Seq(Frame) /\ t \in Seq(Frame) /\ Len(s) = 2 * n /\ Len(t) = 2 * m /\ n \in Nat /\ m \in Nat
    BY <1>1, <1>2, <1>3
  <2> HIDE DEF n, m, s, t
  <2>2. s \o t \in Seq(Frame) /\ Len(s \o t) = 2 * n + 2 * m
    <3>1. s \o t \in Seq(Frame) /\ Len(s \o t) = Len(s) + Len(t)
      BY <2>1, ConcatFacts
    <3> QED
      BY <3>1, <2>1
  <2>3. \A k \in 1 .. 2 * n : (s \o t)[k] = s[k]
    BY <2>1, ConcatOfTwice
  <2>4. ASSUME NEW k \in 1 .. 2 * m PROVE (s \o t)[2 * n + k] = t[k]
    <3>1. k \in 1 .. Len(t)
      BY <2>1
    <3>2. (s \o t)[Len(s) + k] = t[k]
      BY <2>1, <3>1, SecondPartAt
    <3> QED
      BY <2>1, <3>2
  <2> QED
    BY <2>2, <2>3, <2>4 DEF s, t
<1>6. /\ \A i \in 1 .. n : (f \o g)[i] = f[i]
      /\ \A i \in 1 .. m : (f \o g)[n + i] = g[i]
  BY ConcatFacts
<1> HIDE DEF n, m
<1>7. ASSUME NEW k \in 1 .. 2 * (n + m) PROVE Twice(f \o g)[k] = (Twice(f) \o Twice(g))[k]
  <2>1. PICK i \in 1 .. n + m : k = 2 * i - 1 \/ k = 2 * i
    <3> DEFINE l == n + m
    <3>1. l \in Nat /\ k \in 1 .. 2 * l
      BY <1>1
    <3> HIDE DEF l
    <3>2. \E i \in 1 .. l : k = 2 * i - 1 \/ k = 2 * i
      BY <3>1, Doubling
    <3> QED
      BY <3>2 DEF l
  <2>2. Twice(f \o g)[k] = (f \o g)[i]
    BY <2>1, <1>4
  <2>3. CASE i <= n
    <3>1. i \in 1 .. n /\ k \in 1 .. 2 * n
      BY <2>1, <2>3, <1>1
    <3> QED
      BY <3>1, <2>1, <2>2, <1>2, <1>5, <1>6
  <2>4. CASE i > n
    <3> DEFINE j == i - n
               l == k - 2 * n
    <3>1. j \in 1 .. m /\ l \in 1 .. 2 * m /\ i = n + j /\ k = 2 * n + l /\ (l = 2 * j - 1 \/ l = 2 * j)
      BY <2>1, <2>4, <1>1
    <3> HIDE DEF j, l
    <3>2. (f \o g)[i] = g[j]
      BY <3>1, <1>6
    <3>3. (Twice(f) \o Twice(g))[k] = Twice(g)[l]
      BY <3>1, <1>5
    <3>4. Twice(g)[l] = g[j]
      BY <3>1, <1>3
    <3> QED
      BY <2>2, <3>2, <3>3, <3>4
  <2>5. i <= n \/ i > n
    BY <1>1
  <2> QED
    BY <2>3, <2>4, <2>5
<1>8. 2 * (n + m) \in Nat /\ 2 * n + 2 * m = 2 * (n + m)
  BY <1>1
<1> QED
  BY <1>4, <1>5, <1>7, <1>8, SameSeq

\* The same of received frames.
LEMMA PairsConcat ==
    ASSUME NEW f \in Seq(Received), NEW g \in Seq(Received)
    PROVE  Pairs(f \o g) = Pairs(f) \o Pairs(g)
<1> DEFINE n == Len(f)
           m == Len(g)
<1>1. f \o g \in Seq(Received) /\ Len(f \o g) = n + m /\ n \in Nat /\ m \in Nat
  BY ConcatFacts
<1>2. /\ Pairs(f) \in Seq(Frame) /\ Len(Pairs(f)) = 2 * n
      /\ \A i \in 1 .. n : Pairs(f)[2 * i - 1] = f[i].head /\ Pairs(f)[2 * i] = f[i].body
  BY PairsFacts
<1>3. /\ Pairs(g) \in Seq(Frame) /\ Len(Pairs(g)) = 2 * m
      /\ \A i \in 1 .. m : Pairs(g)[2 * i - 1] = g[i].head /\ Pairs(g)[2 * i] = g[i].body
  BY PairsFacts
<1>4. /\ Pairs(f \o g) \in Seq(Frame) /\ Len(Pairs(f \o g)) = 2 * (n + m)
      /\ \A i \in 1 .. n + m : /\ Pairs(f \o g)[2 * i - 1] = (f \o g)[i].head
                               /\ Pairs(f \o g)[2 * i] = (f \o g)[i].body
  BY <1>1, PairsFacts
<1>5. /\ Pairs(f) \o Pairs(g) \in Seq(Frame) /\ Len(Pairs(f) \o Pairs(g)) = 2 * n + 2 * m
      /\ \A k \in 1 .. 2 * n : (Pairs(f) \o Pairs(g))[k] = Pairs(f)[k]
      /\ \A k \in 1 .. 2 * m : (Pairs(f) \o Pairs(g))[2 * n + k] = Pairs(g)[k]
  <2> DEFINE s == Pairs(f)
             t == Pairs(g)
  <2>1. s \in Seq(Frame) /\ t \in Seq(Frame) /\ Len(s) = 2 * n /\ Len(t) = 2 * m /\ n \in Nat /\ m \in Nat
    BY <1>1, <1>2, <1>3
  <2> HIDE DEF n, m, s, t
  <2>2. s \o t \in Seq(Frame) /\ Len(s \o t) = 2 * n + 2 * m
    <3>1. s \o t \in Seq(Frame) /\ Len(s \o t) = Len(s) + Len(t)
      BY <2>1, ConcatFacts
    <3> QED
      BY <3>1, <2>1
  <2>3. \A k \in 1 .. 2 * n : (s \o t)[k] = s[k]
    BY <2>1, ConcatOfTwice
  <2>4. ASSUME NEW k \in 1 .. 2 * m PROVE (s \o t)[2 * n + k] = t[k]
    <3>1. k \in 1 .. Len(t)
      BY <2>1
    <3>2. (s \o t)[Len(s) + k] = t[k]
      BY <2>1, <3>1, SecondPartAt
    <3> QED
      BY <2>1, <3>2
  <2> QED
    BY <2>2, <2>3, <2>4 DEF s, t
<1>6. /\ \A i \in 1 .. n : (f \o g)[i] = f[i]
      /\ \A i \in 1 .. m : (f \o g)[n + i] = g[i]
  BY ConcatFacts
<1> HIDE DEF n, m
<1>7. ASSUME NEW k \in 1 .. 2 * (n + m) PROVE Pairs(f \o g)[k] = (Pairs(f) \o Pairs(g))[k]
  <2>1. PICK i \in 1 .. n + m : k = 2 * i - 1 \/ k = 2 * i
    <3> DEFINE l == n + m
    <3>1. l \in Nat /\ k \in 1 .. 2 * l
      BY <1>1
    <3> HIDE DEF l
    <3>2. \E i \in 1 .. l : k = 2 * i - 1 \/ k = 2 * i
      BY <3>1, Doubling
    <3> QED
      BY <3>2 DEF l
  <2>3. CASE i <= n
    <3>1. i \in 1 .. n /\ k \in 1 .. 2 * n
      BY <2>1, <2>3, <1>1
    <3>2. (f \o g)[i] = f[i]
      BY <3>1, <1>6
    <3>3. (Pairs(f) \o Pairs(g))[k] = Pairs(f)[k]
      BY <3>1, <1>5
    <3> QED
      BY <3>1, <3>2, <3>3, <2>1, <1>2, <1>4
  <2>4. CASE i > n
    <3> DEFINE j == i - n
               l == k - 2 * n
    <3>1. j \in 1 .. m /\ l \in 1 .. 2 * m /\ i = n + j /\ k = 2 * n + l
      BY <2>1, <2>4, <1>1
    <3>2. (k = 2 * i - 1 /\ l = 2 * j - 1) \/ (k = 2 * i /\ l = 2 * j)
      BY <2>1, <2>4, <1>1
    <3> HIDE DEF j, l
    <3>3. (f \o g)[i] = g[j]
      BY <3>1, <1>6
    <3>4. (Pairs(f) \o Pairs(g))[k] = Pairs(g)[l]
      BY <3>1, <1>5
    <3> QED
      BY <3>1, <3>2, <3>3, <3>4, <1>3, <1>4
  <2>5. i <= n \/ i > n
    BY <1>1
  <2> QED
    BY <2>3, <2>4, <2>5
<1>8. 2 * (n + m) \in Nat /\ 2 * n + 2 * m = 2 * (n + m)
  BY <1>1
<1> QED
  BY <1>4, <1>5, <1>7, <1>8, SameSeq

\* The same of units.
LEMMA OfsConcat ==
    ASSUME NEW f \in Seq(Unit), NEW g \in Seq(Unit)
    PROVE  Ofs(f \o g) = Ofs(f) \o Ofs(g)
<1>1. /\ f \o g \in Seq(Unit) /\ Len(f \o g) = Len(f) + Len(g) /\ Len(f) \in Nat /\ Len(g) \in Nat
      /\ \A k \in 1 .. Len(f) : (f \o g)[k] = f[k]
      /\ \A k \in 1 .. Len(g) : (f \o g)[Len(f) + k] = g[k]
  BY ConcatFacts
<1>2. Ofs(f) \in Seq(Frame) /\ Ofs(g) \in Seq(Frame) /\ Len(Ofs(f)) = Len(f) /\ Len(Ofs(g)) = Len(g)
  BY OfsFacts
<1>3. /\ Ofs(f \o g) \in Seq(Frame) /\ Len(Ofs(f \o g)) = Len(f) + Len(g)
      /\ \A k \in 1 .. Len(f) + Len(g) : Ofs(f \o g)[k] = (f \o g)[k].of
  BY <1>1, OfsFacts
<1>4. /\ Ofs(f) \o Ofs(g) \in Seq(Frame) /\ Len(Ofs(f) \o Ofs(g)) = Len(f) + Len(g)
      /\ \A k \in 1 .. Len(f) : (Ofs(f) \o Ofs(g))[k] = Ofs(f)[k]
      /\ \A k \in 1 .. Len(g) : (Ofs(f) \o Ofs(g))[Len(f) + k] = Ofs(g)[k]
  BY <1>1, <1>2, ConcatOfLen
<1>5. ASSUME NEW k \in 1 .. Len(f) + Len(g) PROVE Ofs(f \o g)[k] = (Ofs(f) \o Ofs(g))[k]
  <2>1. CASE k <= Len(f)
    <3>1. k \in 1 .. Len(f)
      BY <2>1, <1>1
    <3>2. Ofs(f)[k] = f[k].of
      BY <3>1, OfsFacts
    <3>3. Ofs(f \o g)[k] = (f \o g)[k].of /\ (f \o g)[k] = f[k] /\ (Ofs(f) \o Ofs(g))[k] = Ofs(f)[k]
      BY <3>1, <1>1, <1>3, <1>4
    <3> QED
      BY <3>2, <3>3
  <2>2. CASE k > Len(f)
    <3> DEFINE l == k - Len(f)
    <3>1. l \in 1 .. Len(g) /\ k = Len(f) + l /\ k \in 1 .. Len(f) + Len(g)
      BY <2>2, <1>1
    <3> HIDE DEF l
    <3>2. Ofs(g)[l] = g[l].of /\ (f \o g)[k] = g[l]
      BY <3>1, <1>1, OfsFacts
    <3> QED
      BY <3>1, <3>2, <1>3, <1>4
  <2>3. k <= Len(f) \/ k > Len(f)
    BY <1>1
  <2> QED
    BY <2>1, <2>2, <2>3
<1>6. Len(f) + Len(g) \in Nat
  BY <1>1
<1> QED
  BY <1>3, <1>4, <1>5, <1>6, SameSeq

-----------------------------------------------------------------------------
(* Taking a piece out of a line. *)

\* Where the elements of A and B are when X between them is gone.
LEMMA CutPlaces ==
    ASSUME NEW A \in Seq(Frame), NEW X \in Seq(Frame), NEW B \in Seq(Frame)
    PROVE  /\ A \o B \in Seq(Frame) /\ Len(A \o B) = Len(A) + Len(B)
           /\ Len((A \o X) \o B) = Len(A) + Len(X) + Len(B)
           /\ Len(A) \in Nat /\ Len(X) \in Nat /\ Len(B) \in Nat
           /\ \A k \in 1 .. Len(A) + Len(B) :
                 (A \o B)[k] = IF k <= Len(A) THEN ((A \o X) \o B)[k] ELSE ((A \o X) \o B)[k + Len(X)]
<1>1. Len(A) \in Nat /\ Len(X) \in Nat /\ Len(B) \in Nat
  BY LenProperties
<1>2. A \o B \in Seq(Frame) /\ Len(A \o B) = Len(A) + Len(B)
  BY ConcatFacts
<1>3. A \o X \in Seq(Frame) /\ Len(A \o X) = Len(A) + Len(X)
  BY ConcatFacts
<1>4. (A \o X) \o B \in Seq(Frame) /\ Len((A \o X) \o B) = Len(A) + Len(X) + Len(B)
  BY <1>3, ConcatFacts
<1>5. ASSUME NEW k \in 1 .. Len(A) + Len(B)
      PROVE  (A \o B)[k] = IF k <= Len(A) THEN ((A \o X) \o B)[k] ELSE ((A \o X) \o B)[k + Len(X)]
  <2>1. CASE k <= Len(A)
    <3>1. k \in 1 .. Len(A) /\ k \in 1 .. Len(A \o X)
      BY <2>1, <1>1, <1>3
    <3>2. (A \o B)[k] = A[k]
      BY <3>1, ConcatFacts
    <3>3. (A \o X)[k] = A[k]
      BY <3>1, ConcatFacts
    <3>4. ((A \o X) \o B)[k] = (A \o X)[k]
      BY <3>1, <1>3, ConcatFacts
    <3> QED
      BY <2>1, <3>2, <3>3, <3>4
  <2>2. CASE k > Len(A)
    <3> DEFINE l == k - Len(A)
    <3>1. l \in 1 .. Len(B) /\ k = Len(A) + l /\ k + Len(X) = Len(A \o X) + l
      BY <2>2, <1>1, <1>3
    <3> HIDE DEF l
    <3>2. (A \o B)[Len(A) + l] = B[l]
      BY <3>1, SecondPartAt
    <3>3. ((A \o X) \o B)[Len(A \o X) + l] = B[l]
      BY <3>1, <1>3, SecondPartAt
    <3>4. ~ (k <= Len(A))
      BY <2>2, <1>1
    <3> QED
      BY <3>1, <3>2, <3>3, <3>4
  <2>3. k <= Len(A) \/ k > Len(A)
    BY <1>1
  <2> QED
    BY <2>1, <2>2, <2>3
<1> QED
  BY <1>1, <1>2, <1>4, <1>5

\* A line from which X is gone is in line.
LEMMA InLineCut ==
    ASSUME NEW A \in Seq(Frame), NEW X \in Seq(Frame), NEW B \in Seq(Frame), InLine((A \o X) \o B)
    PROVE  InLine(A \o B)
<1> DEFINE n == Len(A) + Len(B)
           L == (A \o X) \o B
           M == A \o B
           x == Len(X)
           a == Len(A)
           Old(k) == IF k <= a THEN k ELSE k + x
<1>1. /\ Len(M) = n /\ Len(L) = n + x /\ x \in Nat /\ n \in Nat /\ a \in Nat
  BY CutPlaces
<1>2. \A k \in 1 .. n : M[k] = IF k <= a THEN L[k] ELSE L[k + x]
  BY CutPlaces
<1>3. \A i, j \in 1 .. n + x : i < j => After(L[i].msg, L[j]) \/ (j = i + 1 /\ L[i] = L[j])
  BY <1>1 DEF InLine
<1> HIDE DEF n, L, M, x, a
<1>4. ASSUME NEW i \in 1 .. n, NEW j \in 1 .. n, i < j
      PROVE  After(M[i].msg, M[j]) \/ (j = i + 1 /\ M[i] = M[j])
  <2>1. /\ Old(i) \in 1 .. n + x /\ Old(j) \in 1 .. n + x /\ Old(i) < Old(j)
        /\ Old(j) = Old(i) + 1 => j = i + 1
    BY <1>1, <1>4
  <2>2. M[i] = L[Old(i)] /\ M[j] = L[Old(j)]
    BY <1>2
  <2> HIDE DEF Old
  <2> QED
    BY <2>1, <2>2, <1>3
<1>5. InLine(M)
  BY <1>1, <1>4 DEF InLine
<1> QED
  BY <1>5 DEF M

\* The frames left were there before.
LEMMA CutFrames ==
    ASSUME NEW A \in Seq(Frame), NEW X \in Seq(Frame), NEW B \in Seq(Frame), NEW k \in 1 .. Len(A \o B)
    PROVE  \E i \in 1 .. Len((A \o X) \o B) : (A \o B)[k] = ((A \o X) \o B)[i]
<1> DEFINE n == Len(A) + Len(B)
           L == (A \o X) \o B
           M == A \o B
           x == Len(X)
           a == Len(A)
           Old == IF k <= a THEN k ELSE k + x
<1>1. /\ Len(M) = n /\ Len(L) = n + x /\ x \in Nat /\ n \in Nat /\ a \in Nat
  BY CutPlaces
<1>2. \A i \in 1 .. n : M[i] = IF i <= a THEN L[i] ELSE L[i + x]
  BY CutPlaces
<1>3. k \in 1 .. n
  BY <1>1
<1> HIDE DEF n, L, M, x, a
<1>4. Old \in 1 .. n + x /\ M[k] = L[Old]
  BY <1>1, <1>2, <1>3
<1> HIDE DEF Old
<1>5. \E i \in 1 .. Len(L) : M[k] = L[i]
  BY <1>1, <1>4
<1> QED
  BY <1>5 DEF L, M

\* The order stays when the line loses a piece X.
LEMMA OrderedCut ==
    ASSUME Ordered, NEW A \in Seq(Frame), NEW X \in Seq(Frame), NEW B \in Seq(Frame),
           Line = (A \o X) \o B, Line' = A \o B, delivered' = delivered, nextMsg' = nextMsg
    PROVE  Ordered'
<1>1. InLine(Line')
  BY InLineCut DEF Ordered
<1>2. \A k \in 1 .. Len(Line') : \E i \in 1 .. Len(Line) : Line'[k] = Line[i]
  BY CutFrames
<1>3. \A i \in 1 .. Len(delivered), j \in 1 .. Len(Line') : After(delivered[i].msg, Line'[j])
  BY <1>2 DEF Ordered
<1>4. \A i \in 1 .. Len(Line') : Line'[i].msg < nextMsg
  BY <1>2 DEF Ordered
<1>5. (InLine(Line))'
  BY <1>1 DEF InLine
<1> QED
  BY <1>3, <1>4, <1>5 DEF Ordered, InOrder, After

\* A piece taken off the front.
LEMMA CutFront ==
    ASSUME NEW X \in Seq(Frame), NEW B \in Seq(Frame)
    PROVE  /\ << >> \in Seq(Frame) /\ X \o B = (<< >> \o X) \o B /\ B = << >> \o B
BY ConcatEmptySeq, EmptySeq

\* The upper layer is handed the frames at the front of the line, X, as a message of
\* which one of them is; nothing of it is left, and what it had is older.
LEMMA OrderedDeliver ==
    ASSUME Types, Ordered, NEW X \in Seq(Frame), NEW B \in Seq(Frame), Line = X \o B, Line' = B,
           NEW d \in Handed, delivered' = Append(delivered, d), nextMsg' = nextMsg,
           NEW p \in 1 .. Len(X), d.msg = Line[p].msg,
           \A j \in Len(X) + 1 .. Len(Line) : After(d.msg, Line[j]),
           \A i \in 1 .. Len(delivered) :
               delivered[i].msg # Register /\ d.msg # Register => delivered[i].msg < d.msg
    PROVE  Ordered'
<1> DEFINE D == delivered
           E == delivered'
           n == Len(D)
           x == Len(X)
<1>1. /\ D \in Seq(Handed) /\ E \in Seq(Handed) /\ n \in Nat /\ Len(E) = n + 1
      /\ \A i \in 1 .. n : E[i] = D[i]
      /\ E[n + 1] = d
  BY AppendProperties, LenProperties DEF Types, Queues
<1>2. Line = (<< >> \o X) \o B /\ Line' = << >> \o B /\ << >> \in Seq(Frame)
  BY CutFront
<1>3. InLine(Line')
  <2>1. InLine((<< >> \o X) \o B)
    BY <1>2 DEF Ordered
  <2>2. InLine(<< >> \o B)
    BY <1>2, <2>1, InLineCut
  <2> QED
    BY <1>2, <2>2
<1>4. /\ Len(Line) = x + Len(B) /\ x \in Nat /\ Len(B) \in Nat /\ Len(Line') = Len(B)
      /\ \A k \in 1 .. Len(B) : Line[x + k] = Line'[k]
  <2>1. Len(Line) = x + Len(B) /\ x \in Nat /\ Len(B) \in Nat
    BY ConcatFacts, LenProperties
  <2>2. \A k \in 1 .. Len(B) : (X \o B)[Len(X) + k] = B[k]
    BY SecondPartAt
  <2> QED
    BY <2>1, <2>2
<1> HIDE DEF D, E, n, x
<1>5. ASSUME NEW i \in 1 .. n + 1, NEW j \in 1 .. Len(Line') PROVE After(E[i].msg, Line'[j])
  <2>1. Line'[j] = Line[x + j] /\ x + j \in 1 .. Len(Line) /\ x + j \in x + 1 .. Len(Line)
    BY <1>4
  <2>2. CASE i = n + 1
    <3>1. After(d.msg, Line[x + j])
      BY <2>1 DEF x
    <3> QED
      BY <2>1, <2>2, <3>1, <1>1
  <2>3. CASE i \in 1 .. n
    <3>1. After(D[i].msg, Line[x + j])
      BY <2>1, <2>3 DEF Ordered, D, n
    <3> QED
      BY <2>1, <2>3, <3>1, <1>1
  <2> QED
    BY <2>2, <2>3, <1>1
<1>6. \A i \in 1 .. Len(Line') : Line'[i].msg < nextMsg
  BY <1>4 DEF Ordered
<1>7. d.msg < nextMsg
  <2>1. p \in 1 .. Len(Line)
    BY <1>4 DEF x
  <2> QED
    BY <2>1 DEF Ordered
<1>8. \A i \in 1 .. n + 1 : E[i].msg < nextMsg
  <2>1. \A i \in 1 .. n : D[i].msg < nextMsg
    BY DEF Ordered, D, n
  <2> TAKE i \in 1 .. n + 1
  <2>2. CASE i \in 1 .. n
    BY <2>1, <2>2, <1>1
  <2>3. CASE i = n + 1
    BY <2>3, <1>1, <1>7
  <2> QED
    BY <2>2, <2>3, <1>1
<1>9. \A i, j \in 1 .. n + 1 : i < j /\ E[i].msg # Register /\ E[j].msg # Register => E[i].msg < E[j].msg
  <2>1. \A i, j \in 1 .. n : i < j /\ D[i].msg # Register /\ D[j].msg # Register => D[i].msg < D[j].msg
    BY DEF Ordered, InOrder, D, n
  <2>2. \A i \in 1 .. n : D[i].msg # Register /\ d.msg # Register => D[i].msg < d.msg
    BY DEF D, n
  <2> SUFFICES ASSUME NEW i \in 1 .. n + 1, NEW j \in 1 .. n + 1, i < j,
                      E[i].msg # Register, E[j].msg # Register
               PROVE  E[i].msg < E[j].msg
    OBVIOUS
  <2>3. i \in 1 .. n /\ E[i] = D[i]
    <3>1. n \in Nat
      BY <1>1
    <3>2. i \in 1 .. n
      BY <3>1
    <3>3. \A k \in 1 .. n : E[k] = D[k]
      BY <1>1
    <3> QED
      BY <3>2, <3>3
  <2>4. CASE j \in 1 .. n
    BY <2>1, <2>3, <2>4, <1>1
  <2>5. CASE j = n + 1
    BY <2>2, <2>3, <2>5, <1>1
  <2> QED
    BY <2>4, <2>5, <1>1
<1>10. Len(delivered') = n + 1 /\ E = delivered'
  BY <1>1 DEF E
<1>11. (InLine(Line))' /\ InOrder'
  BY <1>3, <1>9, <1>10 DEF InLine, InOrder
<1>12. /\ \A i \in 1 .. Len(delivered'), j \in 1 .. Len(Line') : After(delivered'[i].msg, Line'[j])
       /\ \A i \in 1 .. Len(delivered') : delivered'[i].msg < nextMsg
  BY <1>5, <1>8, <1>10
<1> QED
  BY <1>6, <1>11, <1>12 DEF Ordered, After

\* What SendNetMessage puts at the end of the line.
LEMMA TwiceFrames ==
    ASSUME NEW m \in Messages \cup {Register}
    PROVE  /\ Twice(Frames(m)) \in Seq(Frame)
           /\ \A k \in 1 .. Len(Twice(Frames(m))) : Twice(Frames(m))[k].msg = m
           /\ \A k \in 3 .. Len(Twice(Frames(m))) : Twice(Frames(m))[k].kind = "child"
           /\ Twice(Frames(m))[1] = Twice(Frames(m))[2]
<1> DEFINE F == Frames(m)
           T == Twice(F)
           n == Len(F)
<1>1. /\ F \in Seq(Frame) /\ n >= 1
      /\ \A i \in 1 .. n : F[i].msg = m
      /\ \A i \in 2 .. n : F[i].kind = "child"
  <2>1. /\ F \in Seq(Frame) /\ n >= 1
        /\ \A i \in 1 .. n : F[i].msg = m
    BY FramesFacts
  <2>2. \A i \in 2 .. n : F[i] = Child(m, i - 1)
    BY FramesFacts
  <2>3. ASSUME NEW i \in 2 .. n PROVE F[i].kind = "child"
    <3>1. F[i] = Child(m, i - 1)
      BY <2>2
    <3> HIDE DEF F
    <3> QED
      BY <3>1 DEF Child
  <2> QED
    BY <2>1, <2>3
<1>2. /\ T \in Seq(Frame) /\ Len(T) = 2 * n /\ n \in Nat
      /\ \A i \in 1 .. n : T[2 * i - 1] = F[i] /\ T[2 * i] = F[i]
  BY <1>1, TwiceFacts
<1> HIDE DEF F, T, n
<1>3. ASSUME NEW k \in 1 .. 2 * n PROVE \E i \in 1 .. n : T[k] = F[i] /\ (k >= 3 => i >= 2)
  <2>1. PICK i \in 1 .. n : k = 2 * i - 1 \/ k = 2 * i
    BY <1>2, Doubling
  <2>2. T[k] = F[i]
    BY <2>1, <1>2
  <2>3. k >= 3 => i >= 2
    BY <2>1, <1>2
  <2> QED
    BY <2>2, <2>3
<1>4. \A k \in 1 .. Len(T) : T[k].msg = m
  <2> SUFFICES ASSUME NEW k \in 1 .. Len(T) PROVE T[k].msg = m
    OBVIOUS
  <2>1. k \in 1 .. 2 * n
    BY <1>2
  <2>2. PICK i \in 1 .. n : T[k] = F[i]
    BY <2>1, <1>3
  <2>3. F[i].msg = m
    BY <1>1
  <2> QED
    BY <2>2, <2>3
<1>5. \A k \in 3 .. Len(T) : T[k].kind = "child"
  <2> SUFFICES ASSUME NEW k \in 3 .. Len(T) PROVE T[k].kind = "child"
    OBVIOUS
  <2>1. k \in 1 .. 2 * n /\ k >= 3
    BY <1>2
  <2>2. PICK i \in 1 .. n : T[k] = F[i] /\ i >= 2
    BY <2>1, <1>3
  <2>3. i \in 2 .. n
    BY <2>2, <1>2
  <2> QED
    BY <2>2, <2>3, <1>1
<1>6. T[1] = T[2]
  <2>1. 1 \in 1 .. n /\ 2 * 1 - 1 = 1 /\ 2 * 1 = 2
    BY <1>1, <1>2
  <2> QED
    BY <2>1, <1>2
<1> QED
  BY <1>2, <1>4, <1>5, <1>6 DEF T, F

\* The order stays when the frames of the next message, or a register request, come last.
LEMMA OrderedAppend ==
    ASSUME Types, Ordered, NEW m \in Messages \cup {Register}, Line \in Seq(Frame),
           Line' = Line \o Twice(Frames(m)), delivered' = delivered,
           \/ m = Register /\ nextMsg' = nextMsg
           \/ m = nextMsg /\ nextMsg' = nextMsg + 1
    PROVE  Ordered'
<1> DEFINE T == Twice(Frames(m))
           n == Len(Line)
           L == Line
           M == Line'
<1>1. /\ T \in Seq(Frame)
      /\ \A k \in 1 .. Len(T) : T[k].msg = m
      /\ \A k \in 3 .. Len(T) : T[k].kind = "child"
      /\ T[1] = T[2]
  BY TwiceFrames
<1>2. /\ n \in Nat /\ Len(T) \in Nat /\ M \in Seq(Frame) /\ Len(M) = n + Len(T)
      /\ \A k \in 1 .. n : M[k] = L[k]
  BY <1>1, ConcatFacts, LenProperties
<1>3. \A k \in 1 .. Len(T) : M[n + k] = T[k]
  BY <1>1, SecondPartAt
<1>4. \A k \in 1 .. n : L[k].msg \in Nat /\ L[k].msg < nextMsg
  <2>1. \A k \in 1 .. n : L[k] \in Frame
    BY ElementOfSeq
  <2> QED
    BY <2>1, FrameType DEF Ordered
<1>5. m \in Nat /\ nextMsg \in Nat /\ Register < nextMsg
  BY NetAssumption DEF Types, Queues, Messages, Register
<1>6. InLine(L)
  BY DEF Ordered
<1> HIDE DEF T, n, L, M
<1>7. ASSUME NEW k \in 1 .. Len(M) PROVE k \in 1 .. n \/ \E l \in 1 .. Len(T) : k = n + l
  <2>1. CASE k > n
    <3>1. k - n \in 1 .. Len(T) /\ k = n + (k - n)
      BY <2>1, <1>2
    <3> QED
      BY <3>1
  <2> QED
    BY <2>1, <1>2
<1>8. \A k \in 1 .. Len(T) : M[n + k].msg = m
  BY <1>1, <1>3
<1>9. ASSUME NEW i \in 1 .. Len(M), NEW j \in 1 .. Len(M), i < j
      PROVE  After(M[i].msg, M[j]) \/ (j = i + 1 /\ M[i] = M[j])
  <2>1. CASE i \in 1 .. n /\ j \in 1 .. n
    BY <2>1, <1>2, <1>6, <1>9 DEF InLine, n, L
  <2>2. CASE i \in 1 .. n /\ \E l \in 1 .. Len(T) : j = n + l
    <3>1. M[i].msg \in Nat /\ M[i].msg < nextMsg /\ M[j].msg = m
      BY <2>2, <1>2, <1>4, <1>8
    <3> QED
      BY <3>1, <1>5 DEF After
  <2>3. CASE (\E l \in 1 .. Len(T) : i = n + l) /\ (\E l \in 1 .. Len(T) : j = n + l)
    <3>1. PICK k \in 1 .. Len(T) : i = n + k
      BY <2>3
    <3>2. PICK l \in 1 .. Len(T) : j = n + l
      BY <2>3
    <3>3. M[i].msg = m /\ M[j].msg = m /\ M[i] = T[k] /\ M[j] = T[l]
      BY <3>1, <3>2, <1>3, <1>8
    <3>4. k < l
      BY <3>1, <3>2, <1>2, <1>9
    <3>5. CASE l = 2
      BY <3>1, <3>2, <3>3, <3>4, <3>5, <1>1, <1>2
    <3>6. CASE l >= 3
      <4>1. M[j].kind = "child"
        BY <3>3, <3>6, <1>1, <1>2
      <4> QED
        BY <4>1, <3>3, <1>5 DEF After
    <3> QED
      BY <3>4, <3>5, <3>6, <1>2
  <2>4. j \in 1 .. n => i \in 1 .. n
    BY <1>2, <1>9
  <2> QED
    BY <2>1, <2>2, <2>3, <2>4, <1>7
<1>10. ASSUME NEW k \in 1 .. Len(M) PROVE M[k].msg < nextMsg'
  <2>1. CASE k \in 1 .. n
    BY <2>1, <1>2, <1>4, <1>5
  <2>2. CASE \E l \in 1 .. Len(T) : k = n + l
    BY <2>2, <1>5, <1>8, <1>2
  <2> QED
    BY <2>1, <2>2, <1>7
<1>11. \A i \in 1 .. Len(delivered) : delivered[i].msg \in Nat /\ delivered[i].msg < nextMsg
  <2>1. \A i \in 1 .. Len(delivered) : delivered[i] \in Handed
    BY ElementOfSeq DEF Types, Queues
  <2> QED
    BY <2>1 DEF Ordered, Handed
<1>12. ASSUME NEW i \in 1 .. Len(delivered), NEW j \in 1 .. Len(M) PROVE After(delivered[i].msg, M[j])
  <2>1. CASE j \in 1 .. n
    BY <2>1, <1>2 DEF Ordered, n, L
  <2>2. CASE \E l \in 1 .. Len(T) : j = n + l
    <3>1. M[j].msg = m
      BY <2>2, <1>8
    <3> QED
      BY <3>1, <1>5, <1>11 DEF After
  <2> QED
    BY <2>1, <2>2, <1>7
<1>13. M = Line' /\ (InLine(Line))'
  BY <1>9 DEF InLine, M
<1>14. InOrder'
  BY DEF Ordered, InOrder
<1>15. \A i \in 1 .. Len(delivered) : delivered[i].msg < nextMsg'
  BY <1>5, <1>11
<1> QED
  BY <1>10, <1>12, <1>13, <1>14, <1>15 DEF Ordered, After

-----------------------------------------------------------------------------
(* Heads and their children. *)

\* Of a line from which whole frames are taken off the front.
LEMMA EvenFront ==
    ASSUME NEW X \in Seq(Frame), NEW B \in Seq(Frame), NEW x \in Nat, Len(X) = 2 * x
    PROVE  /\ Paired(X \o B) => Paired(B)
           /\ Begun(X \o B) => Begun(B)
           /\ Complete(X \o B) => Complete(B)
<1> DEFINE L == X \o B
           b == Len(B)
<1>1. b \in Nat /\ Len(L) = 2 * x + b
  BY ConcatFacts, LenProperties
<1>2. ASSUME NEW k \in 1 .. b PROVE L[2 * x + k] = B[k]
  BY SecondPartAt
<1> HIDE DEF L, b
<1>3. ASSUME NEW i \in Nat \ {0}, 2 * i <= b
      PROVE  /\ x + i \in Nat \ {0} /\ 2 * (x + i) <= Len(L)
             /\ L[2 * (x + i)] = B[2 * i] /\ L[2 * (x + i) - 1] = B[2 * i - 1]
  <2>1. 2 * i \in 1 .. b /\ 2 * i - 1 \in 1 .. b
    BY <1>1, <1>3
  <2>2. /\ 2 * (x + i) = 2 * x + 2 * i /\ 2 * (x + i) - 1 = 2 * x + (2 * i - 1)
        /\ x + i \in Nat \ {0} /\ 2 * (x + i) <= Len(L)
    BY <1>1, <1>3
  <2>3. L[2 * x + 2 * i] = B[2 * i] /\ L[2 * x + (2 * i - 1)] = B[2 * i - 1]
    BY <2>1, <1>2
  <2> QED
    BY <2>2, <2>3
<1>4. Paired(L) => Paired(B)
  <2> SUFFICES ASSUME Paired(L), NEW i \in Nat \ {0}, 2 * i <= b PROVE B[2 * i - 1] = B[2 * i]
    BY DEF Paired, b
  <2>1. L[2 * (x + i) - 1] = L[2 * (x + i)]
    BY <1>3 DEF Paired
  <2> QED
    BY <2>1, <1>3
<1>5. ASSUME NEW i \in Nat \ {0}, NEW k \in Nat \ {0}, Awaits(B, i, k)
      PROVE  /\ x + i \in Nat \ {0} /\ Awaits(L, x + i, k)
             /\ 2 * (i + k) <= b <=> 2 * ((x + i) + k) <= Len(L)
             /\ L[2 * (x + i)] = B[2 * i]
             /\ 2 * (i + k) <= b => L[2 * ((x + i) + k)] = B[2 * (i + k)]
  <2>1. 2 * i <= b /\ B[2 * i].kind = "begin" /\ k <= B[2 * i].child
    BY <1>5 DEF Awaits, b
  <2>2. /\ x + i \in Nat \ {0} /\ 2 * (x + i) <= Len(L) /\ L[2 * (x + i)] = B[2 * i]
    BY <2>1, <1>3
  <2>3. 2 * (i + k) <= b <=> 2 * ((x + i) + k) <= Len(L)
    BY <1>1
  <2>4. CASE 2 * (i + k) <= b
    <3> DEFINE j == i + k
    <3>1. j \in Nat \ {0} /\ (x + i) + k = x + j
      OBVIOUS
    <3> HIDE DEF j
    <3>2. L[2 * (x + j)] = B[2 * j]
      BY <2>4, <3>1, <1>3 DEF j
    <3> QED
      BY <2>1, <2>2, <2>3, <3>1, <3>2 DEF Awaits, j
  <2> QED
    BY <2>1, <2>2, <2>3, <2>4 DEF Awaits
<1>6. Begun(L) => Begun(B)
  <2> SUFFICES ASSUME Begun(L), NEW i \in Nat \ {0}, NEW k \in Nat \ {0}, Awaits(B, i, k), 2 * (i + k) <= b
               PROVE  B[2 * (i + k)] = Child(B[2 * i].msg, k)
    BY DEF Begun, b
  <2>1. x + i \in Nat \ {0} /\ Awaits(L, x + i, k) /\ 2 * ((x + i) + k) <= Len(L)
    BY <1>5
  <2>2. L[2 * ((x + i) + k)] = Child(L[2 * (x + i)].msg, k)
    BY <2>1 DEF Begun
  <2> QED
    BY <2>2, <1>5
<1>7. Complete(L) => Complete(B)
  <2> SUFFICES ASSUME Complete(L), NEW i \in Nat \ {0}, NEW k \in Nat \ {0}, Awaits(B, i, k)
               PROVE  2 * (i + k) <= b /\ B[2 * (i + k)] = Child(B[2 * i].msg, k)
    BY DEF Complete, b
  <2>1. x + i \in Nat \ {0} /\ Awaits(L, x + i, k)
    BY <1>5
  <2>2. 2 * ((x + i) + k) <= Len(L) /\ L[2 * ((x + i) + k)] = Child(L[2 * (x + i)].msg, k)
    BY <2>1 DEF Complete
  <2> QED
    BY <2>2, <1>5
<1> QED
  BY <1>4, <1>6, <1>7 DEF L

\* Of a line that loses its end.
LEMMA Prefix ==
    ASSUME NEW A \in Seq(Frame), NEW B \in Seq(Frame)
    PROVE  /\ Paired(A \o B) => Paired(A)
           /\ Complete(A \o B) => Begun(A)
<1> DEFINE L == A \o B
           a == Len(A)
<1>1. a \in Nat /\ Len(L) \in Nat /\ a <= Len(L) /\ \A k \in 1 .. a : L[k] = A[k]
  BY ConcatFacts, LenProperties
<1> HIDE DEF L, a
<1>2. ASSUME NEW i \in Nat \ {0}, 2 * i <= a
      PROVE  2 * i <= Len(L) /\ L[2 * i] = A[2 * i] /\ L[2 * i - 1] = A[2 * i - 1]
  <2>1. 2 * i \in 1 .. a /\ 2 * i - 1 \in 1 .. a /\ 2 * i <= Len(L)
    BY <1>1, <1>2
  <2> QED
    BY <2>1, <1>1
<1>3. Paired(L) => Paired(A)
  <2> SUFFICES ASSUME Paired(L), NEW i \in Nat \ {0}, 2 * i <= a PROVE A[2 * i - 1] = A[2 * i]
    BY DEF Paired, a
  <2> QED
    BY <1>2 DEF Paired
<1>4. Complete(L) => Begun(A)
  <2> SUFFICES ASSUME Complete(L), NEW i \in Nat \ {0}, NEW k \in Nat \ {0}, Awaits(A, i, k), 2 * (i + k) <= a
               PROVE  A[2 * (i + k)] = Child(A[2 * i].msg, k)
    BY DEF Begun, a
  <2>1. i + k \in Nat \ {0} /\ 2 * i <= a /\ Awaits(L, i, k)
    BY <1>1, <1>2 DEF Awaits
  <2>2. L[2 * (i + k)] = Child(L[2 * i].msg, k)
    BY <2>1 DEF Complete
  <2> DEFINE j == i + k
  <2>3. L[2 * j] = A[2 * j]
    <3> HIDE DEF j
    <3> QED
      BY <2>1, <1>2 DEF j
  <2> QED
    BY <2>1, <2>2, <2>3, <1>2
<1> QED
  BY <1>3, <1>4 DEF L

\* Of two lines of whole frames one behind the other.
LEMMA CompleteConcat ==
    ASSUME NEW X \in Seq(Frame), NEW B \in Seq(Frame), NEW x \in Nat, Len(X) = 2 * x,
           Complete(X), Complete(B)
    PROVE  Complete(X \o B)
<1> DEFINE L == X \o B
           b == Len(B)
<1>1. b \in Nat /\ Len(L) = 2 * x + b
  BY ConcatFacts, LenProperties
<1>2. ASSUME NEW i \in Nat \ {0}, 2 * i <= b PROVE L[2 * (x + i)] = B[2 * i]
  <2>1. 2 * i \in 1 .. b
    BY <1>1, <1>2
  <2>2. L[2 * x + 2 * i] = B[2 * i]
    BY <2>1, SecondPartAt
  <2>3. 2 * x + 2 * i = 2 * (x + i)
    OBVIOUS
  <2> QED
    BY <2>2, <2>3
<1>3. ASSUME NEW i \in Nat \ {0}, i <= x PROVE L[2 * i] = X[2 * i]
  <2>1. 2 * i \in 1 .. Len(X)
    BY <1>3
  <2> QED
    BY <2>1, ConcatFacts
<1> HIDE DEF L, b
<1>4. SUFFICES ASSUME NEW i \in Nat \ {0}, NEW k \in Nat \ {0}, Awaits(L, i, k)
               PROVE  2 * (i + k) <= Len(L) /\ L[2 * (i + k)] = Child(L[2 * i].msg, k)
  BY DEF Complete, L
<1>5. 2 * i <= Len(L) /\ L[2 * i].kind = "begin" /\ k <= L[2 * i].child
  BY <1>4 DEF Awaits
<1>6. CASE i <= x
  <2>1. L[2 * i] = X[2 * i] /\ Awaits(X, i, k)
    BY <1>3, <1>5, <1>6 DEF Awaits
  <2>2. 2 * (i + k) <= Len(X) /\ X[2 * (i + k)] = Child(X[2 * i].msg, k)
    BY <2>1 DEF Complete
  <2> DEFINE j == i + k
  <2>3. j \in Nat \ {0} /\ j <= x
    BY <2>2
  <2>4. L[2 * j] = X[2 * j]
    <3> HIDE DEF j
    <3> QED
      BY <2>3, <1>3
  <2> QED
    BY <2>1, <2>2, <2>4, <1>1
<1>7. CASE i > x
  <2> DEFINE l == i - x
             j == l + k
  <2>1. l \in Nat \ {0} /\ j \in Nat \ {0} /\ i = x + l /\ i + k = x + j /\ 2 * l <= b
    BY <1>1, <1>5, <1>7
  <2>2. L[2 * i] = B[2 * l]
    <3> HIDE DEF l, j
    <3> QED
      BY <2>1, <1>2
  <2>3. Awaits(B, l, k)
    BY <2>1, <2>2, <1>5 DEF Awaits, b
  <2>4. 2 * (l + k) <= b /\ B[2 * (l + k)] = Child(B[2 * l].msg, k)
    BY <2>1, <2>3 DEF Complete, b
  <2>5. 2 * j <= b /\ B[2 * j] = Child(B[2 * l].msg, k)
    BY <2>4
  <2> HIDE DEF l, j
  <2>6. L[2 * (x + j)] = B[2 * j] /\ 2 * (x + j) <= Len(L)
    BY <2>1, <2>5, <1>1, <1>2
  <2> QED
    BY <2>1, <2>2, <2>5, <2>6
<1> QED
  BY <1>6, <1>7

\* A message that is queued brings all the children its head announces.
LEMMA CompleteFrames ==
    ASSUME NEW m \in Messages \cup {Register}
    PROVE  Complete(Twice(Frames(m)))
<1> DEFINE F == Frames(m)
           T == Twice(F)
           n == Len(F)
<1>1. /\ F \in Seq(Frame) /\ n >= 1
      /\ \A i \in 1 .. n : F[i].msg = m
  BY FramesFacts
<1>2. \A i \in 2 .. n : F[i] = Child(m, i - 1)
  BY FramesFacts
<1>3. F[1] = Single(m) \/ (F[1] = Begin(m) /\ Children[m] = n - 1)
  BY FramesFacts
<1>4. /\ T \in Seq(Frame) /\ Len(T) = 2 * n /\ n \in Nat
      /\ \A i \in 1 .. n : T[2 * i] = F[i]
  BY <1>1, TwiceFacts
<1> HIDE DEF F, T, n
<1>5. SUFFICES ASSUME NEW i \in Nat \ {0}, NEW k \in Nat \ {0}, Awaits(T, i, k)
               PROVE  2 * (i + k) <= Len(T) /\ T[2 * (i + k)] = Child(T[2 * i].msg, k)
  BY DEF Complete, T, F
<1>6. i \in 1 .. n /\ T[2 * i] = F[i] /\ F[i].kind = "begin" /\ k <= F[i].child
  BY <1>4, <1>5 DEF Awaits
<1>7. i = 1
  <2> SUFFICES ASSUME i \in 2 .. n PROVE FALSE
    BY <1>4, <1>6
  <2>1. F[i] = Child(m, i - 1)
    BY <1>2
  <2>2. F[i].kind = "child"
    BY <2>1 DEF Child
  <2> QED
    BY <2>2, <1>6
<1>8. k <= n - 1
  BY <1>3, <1>6, <1>7 DEF Single, Begin
<1>9. k + 1 \in 2 .. n /\ k + 1 \in 1 .. n /\ (k + 1) - 1 = k /\ i + k = k + 1
  BY <1>4, <1>7, <1>8
<1>10. F[k + 1] = Child(m, (k + 1) - 1)
  BY <1>2, <1>9
<1>11. T[2 * (k + 1)] = F[k + 1] /\ 2 * (k + 1) <= Len(T)
  BY <1>4, <1>9
<1> QED
  BY <1>1, <1>6, <1>9, <1>10, <1>11

\* Frames written behind whole frames are whole.
LEMMA PairedTwice ==
    ASSUME NEW X \in Seq(Frame), NEW f \in Seq(Frame), NEW x \in Nat, Len(X) = 2 * x, Paired(X)
    PROVE  Paired(X \o Twice(f))
<1> DEFINE L == X \o Twice(f)
           T == Twice(f)
           n == Len(f)
<1>1. /\ T \in Seq(Frame) /\ Len(T) = 2 * n /\ n \in Nat
      /\ \A i \in 1 .. n : T[2 * i - 1] = f[i] /\ T[2 * i] = f[i]
  BY TwiceFacts
<1>2. Len(L) = 2 * x + 2 * n
  BY <1>1, ConcatFacts
<1>3. ASSUME NEW k \in 1 .. 2 * n PROVE L[2 * x + k] = T[k]
  BY <1>1, SecondPartAt
<1>4. ASSUME NEW k \in 1 .. 2 * x PROVE L[k] = X[k]
  BY <1>1, ConcatFacts
<1> HIDE DEF L, T, n
<1>5. SUFFICES ASSUME NEW i \in Nat \ {0}, 2 * i <= 2 * x + 2 * n PROVE L[2 * i - 1] = L[2 * i]
  BY <1>2 DEF Paired, L, T
<1>6. CASE i <= x
  <2>1. 2 * i \in 1 .. 2 * x /\ 2 * i - 1 \in 1 .. 2 * x
    BY <1>6
  <2>2. X[2 * i - 1] = X[2 * i]
    BY <2>1 DEF Paired
  <2> QED
    BY <2>1, <2>2, <1>4
<1>7. CASE i > x
  <2> DEFINE j == i - x
  <2>1. /\ j \in 1 .. n /\ 2 * j \in 1 .. 2 * n /\ 2 * j - 1 \in 1 .. 2 * n
        /\ 2 * i = 2 * x + 2 * j /\ 2 * i - 1 = 2 * x + (2 * j - 1)
    BY <1>1, <1>5, <1>7
  <2> HIDE DEF j
  <2>2. L[2 * x + 2 * j] = T[2 * j] /\ L[2 * x + (2 * j - 1)] = T[2 * j - 1]
    BY <2>1, <1>3
  <2> QED
    BY <2>1, <2>2, <1>1
<1> QED
  BY <1>6, <1>7

-----------------------------------------------------------------------------
(* The line after each operation. *)

\* The parts of the line.
LEMMA LineFacts ==
    ASSUME Queues
    PROVE  /\ Pairs(recvQueue) \in Seq(Frame) /\ Len(Pairs(recvQueue)) = 2 * Len(recvQueue)
           /\ Ofs(recvBuff) \in Seq(Frame) /\ Ofs(wire) \in Seq(Frame)
           /\ Wired \in Seq(Frame) /\ Wired = (Pairs(recvQueue) \o Ofs(recvBuff)) \o Ofs(wire)
           /\ Waiting \in Seq(Frame) /\ Twice(Waiting) \in Seq(Frame) /\ Line \in Seq(Frame)
           /\ Len(Line) = Len(Wired) + 2 * Len(Waiting) /\ Len(Waiting) \in Nat /\ Len(Wired) \in Nat
<1>1. Pairs(recvQueue) \in Seq(Frame) /\ Len(Pairs(recvQueue)) = 2 * Len(recvQueue)
  BY PairsFacts DEF Queues
<1>2. Ofs(recvBuff) \in Seq(Frame) /\ Ofs(wire) \in Seq(Frame)
  BY OfsFacts DEF Queues
<1>3. Ofs(recvBuff \o wire) = Ofs(recvBuff) \o Ofs(wire)
  BY OfsConcat DEF Queues
<1>4. Wired = (Pairs(recvQueue) \o Ofs(recvBuff)) \o Ofs(wire)
  BY <1>1, <1>2, <1>3, ConcatAssociative, SMTT(30) DEF Wired
<1>5. Wired \in Seq(Frame)
  BY <1>1, <1>2, <1>4, ConcatFacts
<1>6. Waiting \in Seq(Frame)
  BY ConcatFacts DEF Queues, Waiting
<1>7. Twice(Waiting) \in Seq(Frame) /\ Len(Twice(Waiting)) = 2 * Len(Waiting) /\ Len(Waiting) \in Nat
  BY <1>6, TwiceFacts
<1>8. Line \in Seq(Frame) /\ Len(Line) = Len(Wired) + 2 * Len(Waiting) /\ Len(Wired) \in Nat
  BY <1>5, <1>7, ConcatFacts DEF Line
<1> QED
  BY <1>1, <1>2, <1>4, <1>5, <1>6, <1>7, <1>8

\* An operation that leaves the line as it is.
LEMMA OrderedSame ==
    ASSUME Ordered, Line' = Line, delivered' = delivered, nextMsg' = nextMsg
    PROVE  Ordered'
BY DEF Ordered, InLine, InOrder, After

\* The same for the heads and their children.
LEMMA WholeSame ==
    ASSUME Whole, Line' = Line, Wired' = Wired, Waiting' = Waiting,
           delivered' = delivered, connected' = connected
    PROVE  Whole'
<1>1. DeliveredIsOriginal'
  BY DEF Whole, DeliveredIsOriginal, Payload
<1>2. (Paired(Wired))' /\ (Begun(Wired))' = Begun(Wired)
  BY DEF Whole, Paired, Begun, Awaits
<1>3. (Complete(Line))' = Complete(Line) /\ (Complete(Twice(Waiting)))' = Complete(Twice(Waiting))
  BY DEF Complete, Awaits, Twice
<1> QED
  BY <1>1, <1>2, <1>3 DEF Whole

\* SendNetMessage cuts message m into frames, or the register request.
LEMMA QueueMessageStep ==
    ASSUME Types, Ordered, NEW m \in Messages \cup {Register},
           pending = << >>, pending' = Frames(m),
           \/ m = Register /\ nextMsg' = nextMsg
           \/ m = nextMsg /\ nextMsg' = nextMsg + 1,
           UNCHANGED << sendQueue, connected, wire, recvVars, senderIsClient, breaks, overflowed >>
    PROVE  Queues' /\ Ordered' /\ (Whole => Whole')
<1> DEFINE F == Frames(m)
<1>0. UNCHANGED << recvQueue, recvBuff, delivered >>
  BY DEF recvVars
<1>1. Queues'
  <2>1. F \in Seq(Frame)
    BY FramesFacts
  <2>2. nextMsg' \in 1 .. Len(Children) + 1
    BY NetAssumption DEF Types, Queues, Messages, Register
  <2> QED
    BY <2>1, <2>2, <1>0 DEF Types, Queues
<1>2. Waiting = sendQueue /\ Waiting' = sendQueue \o F /\ sendQueue \in Seq(Frame) /\ F \in Seq(Frame)
  BY FramesFacts, ConcatEmptySeq DEF Waiting, Types, Queues
<1>3. /\ Wired \in Seq(Frame) /\ Twice(Waiting) \in Seq(Frame) /\ Line \in Seq(Frame)
      /\ Len(Line) = Len(Wired) + 2 * Len(Waiting) /\ Len(Waiting) \in Nat /\ Len(Wired) \in Nat
  BY LineFacts DEF Types
<1>4. /\ Twice(F) \in Seq(Frame) /\ Complete(Twice(F))
  BY TwiceFrames, CompleteFrames
<1>5. Twice(Waiting') = Twice(Waiting) \o Twice(F)
  BY <1>2, TwiceConcat
<1>6. Wired' = Wired
  BY <1>0 DEF Wired, Pairs, Ofs
<1>7. Line' = Line \o Twice(F)
  <2>1. Line' = Wired' \o Twice(Waiting')
    BY DEF Line, Twice
  <2> QED
    BY <2>1, <1>3, <1>4, <1>5, <1>6, ConcatAssociative, SMTT(30) DEF Line
<1>8. Ordered'
  BY <1>0, <1>3, <1>7, OrderedAppend
<1>9. ASSUME Whole PROVE Whole'
  <2>1. Paired(Wired') /\ DeliveredIsOriginal'
    BY <1>0, <1>6, <1>9 DEF Whole, DeliveredIsOriginal, Payload
  <2>2. CASE connected
    <3>1. Len(Wired') % 2 = 0
      BY <2>2, <1>6, <1>9 DEF Whole
    <3>2. Complete(Line) /\ Len(Wired) % 2 = 0
      BY <2>2, <1>9 DEF Whole
    <3>3. \E x \in Nat : Len(Line) = 2 * x
      <4>1. Len(Line) = 2 * (Len(Wired) \div 2 + Len(Waiting)) /\ Len(Wired) \div 2 + Len(Waiting) \in Nat
        BY <3>2, <1>3
      <4> QED
        BY <4>1
    <3>4. Complete(Line')
      BY <3>2, <3>3, <1>3, <1>4, <1>7, CompleteConcat
    <3> QED
      BY <2>1, <2>2, <3>1, <3>4 DEF Whole, Paired, Complete, Awaits
  <2>3. CASE ~ connected
    <3>1. Begun(Wired')
      BY <2>3, <1>6, <1>9 DEF Whole
    <3>2. Complete(Twice(Waiting)) /\ Len(Twice(Waiting)) = 2 * Len(Waiting)
      BY <2>3, <1>2, <1>9, TwiceFacts DEF Whole
    <3>3. Complete(Twice(Waiting'))
      BY <3>2, <1>3, <1>4, <1>5, CompleteConcat
    <3> QED
      BY <2>1, <2>3, <3>1, <3>3 DEF Whole, Paired, Begun, Complete, Awaits, Twice
  <2> QED
    BY <2>2, <2>3
<1> QED
  BY <1>1, <1>8, <1>9

\* AddSendMessage: the frame moves on, or is dropped from the middle of the line.
LEMMA AddSendMessageStep ==
    ASSUME Types, Ordered, AddSendMessage
    PROVE  Queues' /\ Ordered' /\ (~ overflowed' => UNCHANGED << Line, Wired, Waiting >>)
<1> DEFINE h == Head(pending)
           t == Tail(pending)
<1>0. /\ pending # << >> /\ pending \in Seq(Frame) /\ sendQueue \in Seq(Frame)
      /\ UNCHANGED << recvQueue, recvBuff, delivered, wire, nextMsg, breaks >>
  BY DEF AddSendMessage, recvVars, Types, Queues
<1>1. h \in Frame /\ t \in Seq(Frame) /\ pending' = t
  BY <1>0, HeadTailProperties DEF AddSendMessage
<1>2. << h >> \in Seq(Frame) /\ pending = << h >> \o t
  <2>1. << h >> \in Seq(Frame)
    BY <1>1
  <2>2. pending = << h >> \o t
    BY <1>0, <1>1
  <2> QED
    BY <2>1, <2>2
<1>3. Wired' = Wired
  BY <1>0 DEF Wired, Pairs, Ofs
<1>4. Waiting = (sendQueue \o << h >>) \o t
  BY <1>0, <1>1, <1>2, ConcatAssociative DEF Waiting
<1> HIDE DEF h, t
<1>5. CASE Len(sendQueue) < QueueSize
  <2>1. sendQueue' = Append(sendQueue, h)
    BY <1>5 DEF AddSendMessage, h
  <2>2. sendQueue' = sendQueue \o << h >>
    BY <2>1, <1>0, <1>1, AppendIsConcat
  <2>3. sendQueue' \in Seq(Frame) /\ Len(sendQueue') <= QueueSize
    BY <2>1, <1>0, <1>1, <1>5, AppendProperties, LenProperties, NetAssumption
  <2>4. Queues'
    BY <2>3, <1>0, <1>1 DEF Queues, Types
  <2>5. Waiting' = Waiting
    BY <2>2, <1>1, <1>4 DEF Waiting
  <2>6. Line' = Line
    BY <2>5, <1>3 DEF Line, Twice
  <2> QED
    BY <2>4, <2>5, <2>6, <1>0, <1>3, OrderedSame
<1>6. CASE ~ (Len(sendQueue) < QueueSize)
  <2>1. overflowed' = TRUE /\ sendQueue' = sendQueue
    BY <1>6 DEF AddSendMessage
  <2>2. Queues'
    BY <2>1, <1>0, <1>1 DEF Queues, Types
  <2>3. Waiting' = sendQueue \o t
    BY <2>1, <1>1 DEF Waiting
  <2> DEFINE W == Wired
             A == Twice(sendQueue)
             X == Twice(<< h >>)
             B == Twice(t)
  <2>4. W \in Seq(Frame) /\ A \in Seq(Frame) /\ X \in Seq(Frame) /\ B \in Seq(Frame)
    BY <1>0, <1>1, <1>2, LineFacts, TwiceFacts DEF Types
  <2>5. Twice(Waiting) = (A \o X) \o B
    <3>1. sendQueue \o << h >> \in Seq(Frame) /\ Twice(sendQueue \o << h >>) = A \o X
      BY <1>0, <1>2, TwiceConcat, ConcatFacts
    <3> QED
      BY <3>1, <1>1, <1>4, TwiceConcat
  <2>6. Twice(Waiting') = A \o B
    BY <2>3, <1>0, <1>1, TwiceConcat
  <2>7. Line = W \o ((A \o X) \o B) /\ Line' = W \o (A \o B)
    BY <2>5, <2>6, <1>3 DEF Line, Twice
  <2> HIDE DEF W, A, X, B
  <2>8. W \o A \in Seq(Frame) /\ A \o X \in Seq(Frame)
    BY <2>4, ConcatFacts
  <2>9. Line' = (W \o A) \o B
    BY <2>4, <2>7, ConcatAssociative, SMTT(30)
  <2>10. Line = ((W \o A) \o X) \o B
    <3>1. W \o ((A \o X) \o B) = (W \o (A \o X)) \o B
      <4>1. W \in Seq(Frame) /\ A \o X \in Seq(Frame) /\ B \in Seq(Frame)
        BY <2>4, <2>8
      <4> QED
        BY <4>1, Join, SMTT(30)
    <3>2. W \o (A \o X) = (W \o A) \o X
      <4>1. W \in Seq(Frame) /\ A \in Seq(Frame) /\ X \in Seq(Frame)
        BY <2>4
      <4> QED
        BY <4>1, Join, SMTT(30)
    <3> QED
      BY <3>1, <3>2, <2>7
  <2>11. Ordered'
    BY <2>4, <2>8, <2>9, <2>10, <1>0, OrderedCut
  <2> QED
    BY <2>1, <2>2, <2>11
<1> QED
  BY <1>5, <1>6

\* The units of frames are the frames, twice.
LEMMA OfsUnits ==
    ASSUME NEW f \in Seq(Frame)
    PROVE  Units(f) \in Seq(Unit) /\ Ofs(Units(f)) = Twice(f)
<1>1. /\ Units(f) \in Seq(Unit) /\ Len(Units(f)) = 2 * Len(f)
      /\ \A k \in 1 .. 2 * Len(f) : Units(f)[k].of = f[(k + 1) \div 2]
  BY UnitsFacts
<1> QED
  BY <1>1 DEF Ofs, Twice

\* Of nothing comes nothing.
LEMMA Nothing == Pairs(<< >>) = << >> /\ Ofs(<< >>) = << >> /\ Twice(<< >>) = << >>
<1> DEFINE r == << >>
<1>1. r \in Seq(Received) /\ r \in Seq(Unit) /\ r \in Seq(Frame) /\ Len(r) = 0
  BY EmptySeq
<1> HIDE DEF r
<1>2. /\ Pairs(r) \in Seq(Frame) /\ Len(Pairs(r)) = 0
      /\ Ofs(r) \in Seq(Frame) /\ Len(Ofs(r)) = 0
      /\ Twice(r) \in Seq(Frame) /\ Len(Twice(r)) = 0
  <2>1. Pairs(r) \in Seq(Frame) /\ Len(Pairs(r)) = 2 * Len(r)
    BY <1>1, PairsFacts
  <2>2. Ofs(r) \in Seq(Frame) /\ Len(Ofs(r)) = Len(r)
    BY <1>1, OfsFacts
  <2>3. Twice(r) \in Seq(Frame) /\ Len(Twice(r)) = 2 * Len(r)
    BY <1>1, TwiceFacts
  <2> QED
    BY <2>1, <2>2, <2>3, <1>1
<1>3. Pairs(r) = << >> /\ Ofs(r) = << >> /\ Twice(r) = << >>
  BY <1>2, EmptySeq
<1> QED
  BY <1>3 DEF r

\* A sequence is its beginning and the rest.
LEMMA Split ==
    ASSUME NEW S, NEW s \in Seq(S), NEW n \in Nat, n <= Len(s)
    PROVE  /\ SubSeq(s, 1, n) \in Seq(S) /\ Len(SubSeq(s, 1, n)) = n
           /\ SubSeq(s, n + 1, Len(s)) \in Seq(S) /\ Len(SubSeq(s, n + 1, Len(s))) = Len(s) - n
           /\ s = SubSeq(s, 1, n) \o SubSeq(s, n + 1, Len(s))
<1> DEFINE a == SubSeq(s, 1, n)
           b == SubSeq(s, n + 1, Len(s))
           l == Len(s)
<1>0. l \in Nat
  BY LenProperties
<1>1. a \in Seq(S) /\ Len(a) = n /\ \A i \in 1 .. n : a[i] = s[i]
  BY PieceOfSeq
<1>2. b \in Seq(S) /\ Len(b) = l - n /\ \A i \in 1 .. l - n : b[i] = s[i + n]
  BY <1>0, PieceOfSeq
<1> HIDE DEF a, b, l
<1>3. a \o b \in Seq(S) /\ Len(a \o b) = l /\ n <= l
  <2>1. a \o b \in Seq(S) /\ Len(a \o b) = Len(a) + Len(b)
    BY <1>1, <1>2, ConcatFacts
  <2>2. n <= l
    BY DEF l
  <2> QED
    BY <2>1, <2>2, <1>0, <1>1, <1>2
<1>4. ASSUME NEW k \in 1 .. l PROVE (a \o b)[k] = s[k]
  <2>1. CASE k <= n
    <3>1. k \in 1 .. Len(a)
      BY <2>1, <1>0, <1>1
    <3>2. (a \o b)[k] = a[k]
      <4>1. a \in Seq(S) /\ b \in Seq(S)
        BY <1>1, <1>2
      <4> QED
        BY <4>1, <3>1, ConcatFacts
    <3> QED
      BY <3>1, <3>2, <1>1
  <2>2. CASE k > n
    <3> DEFINE j == k - n
    <3>1. j \in 1 .. Len(b) /\ k = Len(a) + j /\ k = j + n
      BY <2>2, <1>0, <1>1, <1>2
    <3> HIDE DEF j
    <3>2. (a \o b)[Len(a) + j] = b[j]
      <4>1. a \in Seq(S) /\ b \in Seq(S) /\ j \in 1 .. Len(b)
        BY <3>1, <1>1, <1>2
      <4> QED
        BY <4>1, SecondPartAt
    <3>3. b[j] = s[j + n]
      BY <3>1, <1>2
    <3> QED
      BY <3>1, <3>2, <3>3
  <2>3. k <= n \/ k > n
    BY <1>0
  <2> QED
    BY <2>1, <2>2, <2>3
<1>5. s = a \o b
  <2> DEFINE c == a \o b
  <2>1. c \in Seq(S) /\ Len(c) = l /\ \A k \in 1 .. l : s[k] = c[k]
    BY <1>3, <1>4
  <2>2. Len(s) = l
    BY DEF l
  <2> HIDE DEF c
  <2>3. s = c
    BY <2>1, <2>2, <1>0, SameSeq
  <2> QED
    BY <2>3 DEF c
<1> QED
  BY <1>1, <1>2, <1>5 DEF a, b, l

\* A batch is written: the line is as it was.
LEMMA WriteStep ==
    ASSUME Types, Ordered, NEW n \in Nat, n <= Len(sendQueue),
           sendQueue' = SubSeq(sendQueue, n + 1, Len(sendQueue)),
           wire' = wire \o Units(SubSeq(sendQueue, 1, n)),
           UNCHANGED << nextMsg, pending, connected, recvVars, breaks >>
    PROVE  Queues' /\ Ordered' /\ (connected /\ Whole => Whole')
<1> DEFINE s == SubSeq(sendQueue, 1, n)
           t == SubSeq(sendQueue, n + 1, Len(sendQueue))
<1>0. /\ UNCHANGED << recvQueue, recvBuff, delivered >>
      /\ sendQueue \in Seq(Frame) /\ pending \in Seq(Frame) /\ wire \in Seq(Unit) /\ recvBuff \in Seq(Unit)
      /\ recvQueue \in Seq(Received)
  BY DEF recvVars, Types, Queues
<1>1. s \in Seq(Frame) /\ t \in Seq(Frame) /\ sendQueue = s \o t /\ Len(s) = n /\ Len(t) = Len(sendQueue) - n
  <2>1. sendQueue \in Seq(Frame) /\ n \in Nat /\ n <= Len(sendQueue)
    BY <1>0
  <2>2. s \in Seq(Frame) /\ Len(s) = n
    BY <2>1, Split
  <2>3. t \in Seq(Frame) /\ Len(t) = Len(sendQueue) - n
    BY <2>1, Split
  <2>4. sendQueue = s \o t
    BY <2>1, Split
  <2> QED
    BY <2>2, <2>3, <2>4
<1>2. Units(s) \in Seq(Unit) /\ Ofs(Units(s)) = Twice(s) /\ Twice(s) \in Seq(Frame)
  BY <1>1, OfsUnits, TwiceFacts
<1> HIDE DEF s, t
<1>3. sendQueue' = t /\ wire' = wire \o Units(s)
  BY DEF s, t
<1>4. Queues'
  <2>1. wire' \in Seq(Unit)
    BY <1>0, <1>2, <1>3, ConcatFacts
  <2>2. Len(sendQueue') <= QueueSize
    BY <1>0, <1>1, <1>3, LenProperties, NetAssumption DEF Types, Queues
  <2> QED
    BY <2>1, <2>2, <1>0, <1>1, <1>3 DEF Types, Queues
<1>5. Wired' = Wired \o Twice(s)
  <2> DEFINE P == Pairs(recvQueue)
             U == recvBuff \o wire
  <2>1. P \in Seq(Frame) /\ U \in Seq(Unit) /\ Ofs(U) \in Seq(Frame)
    BY <1>0, PairsFacts, OfsFacts, ConcatFacts
  <2> DEFINE V == Units(s)
  <2>2. recvBuff \o wire' = U \o V
    <3>1. V \in Seq(Unit) /\ wire' = wire \o V
      BY <1>2, <1>3
    <3> HIDE DEF V
    <3>2. recvBuff \o (wire \o V) = (recvBuff \o wire) \o V
      <4>1. recvBuff \in Seq(Unit) /\ wire \in Seq(Unit) /\ V \in Seq(Unit)
        BY <3>1, <1>0
      <4> QED
        BY <4>1, Join, SMTT(30)
    <3> QED
      BY <3>1, <3>2
  <2>3. Ofs(recvBuff \o wire') = Ofs(U) \o Twice(s)
    BY <2>1, <2>2, <1>2, OfsConcat
  <2>4. Wired' = P \o Ofs(recvBuff \o wire')
    BY <1>0 DEF Wired, Pairs, Ofs
  <2>5. Wired = P \o Ofs(U)
    BY DEF Wired
  <2> DEFINE O == Ofs(U)
             T == Twice(s)
  <2>6. O \in Seq(Frame) /\ T \in Seq(Frame) /\ Wired' = P \o (O \o T) /\ Wired = P \o O
    BY <2>1, <2>3, <2>4, <2>5, <1>2
  <2> HIDE DEF P, U, O, T
  <2>7. P \o (O \o T) = (P \o O) \o T
    <3>1. P \in Seq(Frame) /\ O \in Seq(Frame) /\ T \in Seq(Frame)
      BY <2>1, <2>6
    <3> QED
      BY <3>1, Join, SMTT(30)
  <2>8. Wired' = Wired \o T
    BY <2>6, <2>7
  <2> QED
    BY <2>8 DEF T
<1>6. Waiting' \in Seq(Frame) /\ Waiting = s \o Waiting'
  <2> DEFINE w == t \o pending
  <2>1. Waiting' = w
    BY <1>3 DEF Waiting
  <2>2. w \in Seq(Frame)
    BY <1>0, <1>1, ConcatFacts
  <2>3. Waiting = (s \o t) \o pending
    BY <1>1 DEF Waiting
  <2>4. (s \o t) \o pending = s \o w
    <3>1. s \in Seq(Frame) /\ t \in Seq(Frame) /\ pending \in Seq(Frame)
      BY <1>0, <1>1
    <3> QED
      BY <3>1, Join, SMTT(30)
  <2> QED
    BY <2>1, <2>2, <2>3, <2>4
<1>7. Line' = Line
  <2>1. Wired \in Seq(Frame) /\ Twice(Waiting') \in Seq(Frame)
    BY <1>6, LineFacts, TwiceFacts DEF Types
  <2>2. Twice(Waiting) = Twice(s) \o Twice(Waiting')
    BY <1>1, <1>6, TwiceConcat
  <2>3. Line' = (Wired \o Twice(s)) \o Twice(Waiting')
    BY <1>5 DEF Line, Twice
  <2>4. Line = Wired \o Twice(Waiting)
    BY DEF Line
  <2> DEFINE W == Wired
             T == Twice(s)
             Z == Twice(Waiting')
  <2>5. /\ W \in Seq(Frame) /\ T \in Seq(Frame) /\ Z \in Seq(Frame)
        /\ Line' = (W \o T) \o Z /\ Line = W \o (T \o Z)
    BY <2>1, <2>2, <2>3, <2>4, <1>2
  <2> HIDE DEF W, T, Z
  <2> QED
    BY <2>5, Join, SMTT(30)
<1>8. Ordered'
  BY <1>0, <1>7, OrderedSame
<1>9. ASSUME connected, Whole PROVE Whole'
  <2>1. Paired(Wired) /\ Len(Wired) % 2 = 0 /\ Complete(Line) /\ Wired \in Seq(Frame) /\ Len(Wired) \in Nat
    BY <1>9, LineFacts DEF Whole, Types
  <2>2. Len(Wired) = 2 * (Len(Wired) \div 2) /\ Len(Wired) \div 2 \in Nat
    BY <2>1
  <2>3. Paired(Wired')
    BY <2>1, <2>2, <1>1, <1>5, PairedTwice
  <2>4. Len(Wired') % 2 = 0
    <3>1. Len(Twice(s)) = 2 * n
      BY <1>1, TwiceFacts
    <3>2. Len(Wired \o Twice(s)) = Len(Wired) + Len(Twice(s))
      BY <2>1, <1>2, ConcatFacts
    <3>3. Len(Wired') = Len(Wired) + 2 * n
      BY <3>1, <3>2, <1>5
    <3> QED
      BY <3>3, <2>1
  <2>5. (Paired(Wired))' /\ (Complete(Line))' /\ DeliveredIsOriginal'
    BY <2>1, <2>3, <1>0, <1>7, <1>9 DEF Whole, Paired, Complete, Awaits, DeliveredIsOriginal, Payload
  <2> QED
    BY <2>4, <2>5, <1>9 DEF Whole
<1> QED
  BY <1>4, <1>8, <1>9

\* The connection breaks: what is on the wire is lost.
LEMMA BreakStep ==
    ASSUME Types, Ordered, Break
    PROVE  Queues' /\ Ordered' /\ (Whole => Whole')
<1>0. /\ UNCHANGED << recvQueue, recvBuff, delivered, sendQueue, pending, nextMsg >>
      /\ wire' = << >> /\ connected /\ ~ connected'
  BY DEF Break, recvVars, mainVars
<1>1. Queues'
  <2>1. breaks' \in 0 .. MaxBreaks
    BY NetAssumption DEF Break, Types, Queues
  <2>2. wire' \in Seq(Unit)
    BY <1>0, EmptySeq
  <2> QED
    BY <2>1, <2>2, <1>0 DEF Types, Queues
<1> DEFINE R == Pairs(recvQueue) \o Ofs(recvBuff)
           X == Ofs(wire)
           B == Twice(Waiting)
<1>2. /\ R \in Seq(Frame) /\ X \in Seq(Frame) /\ B \in Seq(Frame)
      /\ Wired = R \o X /\ Wired \in Seq(Frame) /\ Len(Wired) \in Nat
  BY LineFacts, ConcatFacts DEF Types
<1>3. Wired' = R
  <2>1. recvBuff \in Seq(Unit) /\ recvBuff \o << >> = recvBuff
    BY ConcatEmptySeq DEF Types, Queues
  <2>2. (recvBuff \o wire)' = recvBuff
    BY <2>1, <1>0
  <2> QED
    BY <2>2, <1>0 DEF Wired, Pairs, Ofs
<1>4. Waiting' = Waiting
  BY <1>0 DEF Waiting
<1>5. Line' = R \o B /\ Line = (R \o X) \o B
  BY <1>2, <1>3, <1>4 DEF Line, Twice
<1>6. Ordered'
  <2> HIDE DEF R, X, B
  <2> QED
    BY <1>0, <1>2, <1>5, OrderedCut
<1>7. ASSUME Whole PROVE Whole'
  <2>1. Paired(Wired) /\ Len(Wired) % 2 = 0 /\ Complete(Line)
    BY <1>0, <1>7 DEF Whole
  <2>2. Paired(R)
    <3> HIDE DEF R, X
    <3> QED
      BY <2>1, <1>2, Prefix
  <2>3. Begun(R)
    <3>1. X \o B \in Seq(Frame) /\ Line = R \o (X \o B)
      <4>1. R \in Seq(Frame) /\ X \in Seq(Frame) /\ B \in Seq(Frame) /\ Line = (R \o X) \o B
        BY <1>2, <1>5
      <4> HIDE DEF R, X, B
      <4>2. X \o B \in Seq(Frame)
        BY <4>1, Joined
      <4>3. R \o (X \o B) = (R \o X) \o B
        BY <4>1, Join, SMTT(30)
      <4> QED
        BY <4>1, <4>2, <4>3
    <3> DEFINE Z == X \o B
    <3>2. Z \in Seq(Frame) /\ Line = R \o Z
      BY <3>1
    <3> HIDE DEF R, X, B, Z
    <3> QED
      BY <3>2, <2>1, <1>2, Prefix
  <2>4. Complete(B)
    <3> DEFINE W == Wired
               x == Len(W) \div 2
    <3>1. W \in Seq(Frame) /\ Line = W \o B /\ Complete(W \o B)
      BY <2>1, <1>2 DEF Line
    <3>2. Len(W) = 2 * x /\ x \in Nat
      <4> DEFINE l == Len(W)
      <4>1. l \in Nat /\ l % 2 = 0
        BY <2>1, <1>2
      <4> HIDE DEF l
      <4>2. l = 2 * (l \div 2) /\ l \div 2 \in Nat
        BY <4>1
      <4> QED
        BY <4>2 DEF l
    <3> HIDE DEF W, x, B
    <3> QED
      BY <3>1, <3>2, <1>2, EvenFront
  <2>5. DeliveredIsOriginal'
    BY <1>0, <1>7 DEF Whole, DeliveredIsOriginal, Payload
  <2>6. (Paired(Wired))' /\ (Begun(Wired))'
    BY <2>2, <2>3, <1>3 DEF Paired, Begun, Awaits
  <2>7. (Complete(Twice(Waiting)))'
    BY <2>4, <1>4 DEF Complete, Awaits, Twice
  <2> QED
    BY <2>5, <2>6, <2>7, <1>0 DEF Whole
<1> QED
  BY <1>1, <1>6, <1>7

\* The client connects again.  As the receiving end it has a new peer, which has
\* nothing to send yet; otherwise the peer is new and has received nothing.
LEMMA ReconnectStep ==
    ASSUME Types, Ordered, Reconnect
    PROVE  Queues' /\ Ordered' /\ (Sound' /\ Whole => Whole')
<1>0. /\ UNCHANGED << delivered, nextMsg, wire, breaks, senderIsClient, overflowed >>
      /\ wire = << >> /\ breaks > 0 /\ connected' /\ ~ connected
  BY DEF Reconnect, Types, Lost
<1>1. << >> \in Seq(Frame) /\ << >> \in Seq(Unit) /\ << >> \in Seq(Received)
  BY EmptySeq
<1>2. Queues'
  <2>1. /\ recvBuff' \in Seq(Unit) /\ Len(recvBuff') <= 1
        /\ recvQueue' \in Seq(Received) /\ Len(recvQueue') <= QueueSize
        /\ sendQueue' \in Seq(Frame) /\ Len(sendQueue') <= QueueSize /\ pending' \in Seq(Frame)
    <3>1. Len(<< >>) = 0 /\ 0 <= QueueSize
      BY NetAssumption
    <3>2. CASE senderIsClient
      <4>1. recvBuff' = << >> /\ recvQueue' = << >> /\ UNCHANGED << sendQueue, pending >>
        BY <3>2 DEF Reconnect
      <4> QED
        BY <4>1, <3>1, <1>1 DEF Types, Queues
    <3>3. CASE ~ senderIsClient
      <4>1. sendQueue' = << >> /\ pending' = << >> /\ UNCHANGED << recvBuff, recvQueue >>
        BY <3>3 DEF Reconnect
      <4> QED
        BY <4>1, <3>1, <1>1 DEF Types, Queues
    <3> QED
      BY <3>2, <3>3
  <2> QED
    BY <2>1, <1>0 DEF Types, Queues
<1>3. Wired \in Seq(Frame) /\ Twice(Waiting) \in Seq(Frame)
  BY LineFacts DEF Types
<1>4. CASE senderIsClient
  <2>1. /\ recvBuff' = << >> /\ recvQueue' = << >> /\ wire' = << >>
        /\ UNCHANGED << sendQueue, pending >>
    BY <1>0, <1>4 DEF Reconnect
  <2>2. Wired' = << >>
    <3>1. (recvBuff \o wire)' = << >>
      BY <2>1
    <3>2. Pairs(<< >>) = << >> /\ Ofs(<< >>) = << >>
      BY Nothing
    <3>3. Wired' = Pairs(<< >>) \o Ofs(<< >>)
      BY <2>1, <3>1 DEF Wired, Pairs, Ofs
    <3> QED
      BY <3>2, <3>3
  <2>3. Waiting' = Waiting
    BY <2>1 DEF Waiting
  <2>4. Line' = Twice(Waiting)
    BY <2>2, <2>3, <1>3, ConcatEmptySeq DEF Line, Twice
  <2> DEFINE X == Wired
             B == Twice(Waiting)
  <2>5. X \in Seq(Frame) /\ B \in Seq(Frame) /\ Line = X \o B /\ Line' = B
    BY <2>4, <1>3 DEF Line
  <2>6. Ordered'
    <3> HIDE DEF X, B
    <3>1. << >> \in Seq(Frame) /\ Line = (<< >> \o X) \o B /\ Line' = << >> \o B
      BY <2>5, CutFront
    <3> QED
      BY <3>1, <2>5, <1>0, OrderedCut
  <2>7. ASSUME Whole PROVE Whole'
    <3>1. Complete(Twice(Waiting)) /\ DeliveredIsOriginal
      BY <1>0, <2>7 DEF Whole
    <3>2. (Complete(Line))'
      BY <3>1, <2>4 DEF Complete, Awaits
    <3>3. DeliveredIsOriginal'
      BY <3>1, <1>0 DEF DeliveredIsOriginal, Payload
    <3>4. Len(Wired') = 0
      BY <2>2
    <3>5. (Paired(Wired))' /\ Len(Wired') % 2 = 0
      BY <3>4 DEF Paired
    <3> QED
      BY <3>2, <3>3, <3>5, <1>0 DEF Whole
  <2> QED
    BY <1>2, <2>6, <2>7
<1>5. CASE ~ senderIsClient
  <2>1. /\ sendQueue' = << >> /\ pending' = << >>
        /\ UNCHANGED << recvBuff, recvQueue >>
    BY <1>5 DEF Reconnect
  <2>2. Wired' = Wired
    BY <2>1, <1>0 DEF Wired, Pairs, Ofs
  <2>3. Twice(Waiting') = << >>
    <3>1. Waiting' = << >>
      BY <2>1 DEF Waiting
    <3> QED
      BY <3>1, Nothing DEF Twice
  <2>4. Line' = Wired
    BY <2>2, <2>3, <1>3, ConcatEmptySeq DEF Line, Twice
  <2> DEFINE A == Wired
             X == Twice(Waiting)
  <2>5. A \in Seq(Frame) /\ X \in Seq(Frame) /\ Line = A \o X /\ Line' = A
    BY <2>4, <1>3 DEF Line
  <2>6. Ordered'
    <3> HIDE DEF X, A
    <3>1. A \o X \in Seq(Frame)
      BY <2>5, ConcatFacts
    <3>2. Line = (A \o X) \o << >> /\ Line' = A \o << >>
      BY <2>5, <3>1, ConcatEmptySeq
    <3> QED
      BY <3>2, <2>5, <1>0, <1>1, OrderedCut
  <2>7. ~ Sound'
    BY <1>0, <1>5 DEF Sound, Types, Queues
  <2> QED
    BY <1>2, <2>6, <2>7
<1> QED
  BY <1>4, <1>5

\* The frames cut off a run of units, and the unit left over, are that run.
LEMMA ParsedLine ==
    ASSUME NEW u \in Seq(Unit), NEW b, b = IF Len(u) % 2 = 0 THEN << >> ELSE << u[Len(u)] >>
    PROVE  /\ b \in Seq(Unit) /\ Len(b) <= 1
           /\ Ofs(u) = Pairs(Parsed(u)) \o Ofs(b)
<1> DEFINE l == Len(u)
           f == l \div 2
           P == Pairs(Parsed(u))
           O == Ofs(u)
<1>1. l \in Nat /\ f \in Nat /\ 2 * f <= l /\ \A k \in 1 .. l : u[k] \in Unit
  <2>1. l \in Nat
    BY LenProperties
  <2>2. f \in Nat /\ 2 * f <= l
    <3> HIDE DEF l
    <3> QED
      BY <2>1
  <2> QED
    BY <2>1, <2>2, ElementOfSeq
<1>2. /\ Parsed(u) \in Seq(Received) /\ Len(Parsed(u)) = f
      /\ \A i \in 1 .. f : Parsed(u)[i].head = u[2 * i - 1].of /\ Parsed(u)[i].body = u[2 * i].of
  BY ParsedFacts
<1>3. /\ P \in Seq(Frame) /\ Len(P) = 2 * f
      /\ \A i \in 1 .. f : P[2 * i - 1] = Parsed(u)[i].head /\ P[2 * i] = Parsed(u)[i].body
  BY <1>2, PairsFacts
<1>4. O \in Seq(Frame) /\ Len(O) = l /\ \A k \in 1 .. l : O[k] = u[k].of
  BY OfsFacts
<1>5. ASSUME NEW k \in 1 .. 2 * f PROVE P[k] = O[k]
  <2>1. PICK i \in 1 .. f : k = 2 * i - 1 \/ k = 2 * i
    BY <1>1, Doubling
  <2>2. k \in 1 .. l
    BY <1>1
  <2>3. O[k] = u[k].of
    BY <2>2, <1>4
  <2> HIDE DEF P, O, f
  <2>4. CASE k = 2 * i - 1
    BY <2>3, <2>4, <1>2, <1>3
  <2>5. CASE k = 2 * i
    BY <2>3, <2>5, <1>2, <1>3
  <2> QED
    BY <2>1, <2>4, <2>5
<1>6. CASE l % 2 = 0
  <2>1. b = << >> /\ b \in Seq(Unit) /\ Len(b) = 0
    BY <1>6, EmptySeq
  <2>2. l = 2 * f
    <3> HIDE DEF l
    <3> QED
      BY <1>1, <1>6
  <2>3. O = P
    <3> HIDE DEF O, P, f, l
    <3>1. \A k \in 1 .. l : O[k] = P[k]
      BY <1>5, <2>2
    <3> QED
      BY <1>1, <1>3, <1>4, <2>2, <3>1, SameSeq
  <2>4. P \o Ofs(b) = P
    <3>1. Ofs(b) = << >>
      BY <2>1, Nothing
    <3>2. P \in Seq(Frame)
      BY <1>3
    <3> HIDE DEF P
    <3>3. P \o << >> = P
      BY <3>2, ConcatEmptySeq
    <3> QED
      BY <3>1, <3>3
  <2> QED
    BY <2>1, <2>3, <2>4
<1>7. CASE l % 2 # 0
  <2>1. b = << u[l] >>
    BY <1>7
  <2>2. l = 2 * f + 1
    <3> HIDE DEF l
    <3> QED
      BY <1>1, <1>7
  <2>3. u[l] \in Unit
    <3> HIDE DEF l, f
    <3> QED
      BY <1>1, <2>2
  <2>4. b \in Seq(Unit) /\ Len(b) = 1 /\ b[1] = u[l]
    <3> DEFINE e == u[l]
    <3>1. b = << e >> /\ e \in Unit
      BY <2>1, <2>3
    <3> HIDE DEF e
    <3>2. b \in Seq(Unit) /\ Len(b) = 1 /\ b[1] = e
      BY <3>1
    <3> QED
      BY <3>2 DEF e
  <2> DEFINE C == Ofs(b)
  <2>5. C \in Seq(Frame) /\ Len(C) = 1 /\ C[1] = u[l].of
    <3> HIDE DEF l
    <3>1. Ofs(b) \in Seq(Frame) /\ Len(Ofs(b)) = 1 /\ \A i \in 1 .. 1 : Ofs(b)[i] = b[i].of
      BY <2>4, OfsFacts
    <3>2. Ofs(b)[1] = b[1].of
      BY <3>1
    <3> QED
      BY <3>1, <3>2, <2>4
  <2> HIDE DEF C
  <2> DEFINE Z == P \o C
             g == 2 * f
  <2>6. g \in Nat /\ Len(P) = g /\ l = g + 1
    BY <1>1, <1>3, <2>2
  <2> HIDE DEF O, P, f, l, g
  <2>7. /\ Z \in Seq(Frame) /\ Len(Z) = g + 1
        /\ \A k \in 1 .. g : Z[k] = P[k]
    <3>1. P \in Seq(Frame) /\ C \in Seq(Frame)
      BY <2>5, <1>3
    <3>2. /\ P \o C \in Seq(Frame) /\ Len(P \o C) = Len(P) + Len(C)
          /\ \A k \in 1 .. Len(P) : (P \o C)[k] = P[k]
      BY <3>1, ConcatFacts
    <3> QED
      BY <3>2, <2>5, <2>6
  <2>8. Z[g + 1] = C[1]
    <3>1. 1 \in 1 .. Len(C)
      BY <2>5
    <3>2. (P \o C)[Len(P) + 1] = C[1]
      BY <3>1, <2>5, <1>3, SecondPartAt
    <3> QED
      BY <3>2, <2>6
  <2> HIDE DEF Z
  <2>9. ASSUME NEW k \in 1 .. l PROVE O[k] = Z[k]
    <3>1. CASE k \in 1 .. g
      BY <3>1, <1>5, <2>7 DEF g
    <3>2. CASE k = g + 1
      <4>1. O[k] = u[l].of
        BY <3>2, <2>6, <1>4
      <4> QED
        BY <4>1, <3>2, <2>5, <2>8
    <3>3. k \in 1 .. g \/ k = g + 1
      BY <2>6
    <3> QED
      BY <3>1, <3>2, <3>3
  <2>10. O = Z
    BY <2>6, <2>7, <2>9, <1>1, <1>4, SameSeq
  <2> QED
    BY <2>4, <2>10 DEF O, Z, P, C
<1> QED
  BY <1>6, <1>7

\* Bytes arrive: the line is as it was, but for the frames the full queue refuses.
LEMMA OnRecvDataStep ==
    ASSUME Types, Ordered, OnRecvData
    PROVE  Queues' /\ Ordered' /\ (~ overflowed' => UNCHANGED << Line, Wired, Waiting >>)
<1>0. /\ wire \in Seq(Unit) /\ recvBuff \in Seq(Unit) /\ recvQueue \in Seq(Received)
      /\ Len(recvQueue) <= QueueSize /\ Len(recvQueue) \in Nat /\ Len(wire) \in Nat
  BY LenProperties DEF Types, Queues
<1> DEFINE U(n) == recvBuff \o SubSeq(wire, 1, n)
           k(n) == IF Len(Parsed(U(n))) < QueueSize - Len(recvQueue)
                   THEN Len(Parsed(U(n))) ELSE QueueSize - Len(recvQueue)
<1>1. PICK n \in 1 .. Len(wire) :
         /\ wire' = SubSeq(wire, n + 1, Len(wire))
         /\ recvBuff' = IF Len(U(n)) % 2 = 0 THEN << >> ELSE << U(n)[Len(U(n))] >>
         /\ recvQueue' = recvQueue \o SubSeq(Parsed(U(n)), 1, k(n))
         /\ overflowed' = (overflowed \/ Len(Parsed(U(n))) > QueueSize - Len(recvQueue))
         /\ UNCHANGED << mainVars, sendQueue, uvVars, delivered, senderIsClient, breaks, writeBroken >>
  BY DEF OnRecvData
<1> DEFINE v == SubSeq(wire, 1, n)
           w == SubSeq(wire, n + 1, Len(wire))
           u == recvBuff \o v
           F == Parsed(u)
           j == k(n)
           T == SubSeq(F, 1, j)
           D == SubSeq(F, j + 1, Len(F))
<1>2. UNCHANGED << nextMsg, pending, sendQueue, connected, delivered, breaks >>
  BY <1>1 DEF mainVars, uvVars
<1>3. v \in Seq(Unit) /\ w \in Seq(Unit) /\ wire = v \o w /\ wire' = w
  <2>1. n \in Nat /\ n <= Len(wire)
    BY <1>0
  <2> QED
    BY <2>1, <1>0, <1>1, Split
<1>4. u \in Seq(Unit)
  BY <1>0, <1>3, ConcatFacts
<1>5. F \in Seq(Received) /\ Len(F) \in Nat
  BY <1>4, ParsedFacts, LenProperties
<1>6. /\ j \in Nat /\ j <= Len(F) /\ Len(recvQueue) + j <= QueueSize
      /\ ~ overflowed' => j = Len(F)
      /\ recvQueue' = recvQueue \o T
  <2>1. /\ j = IF Len(F) < QueueSize - Len(recvQueue) THEN Len(F) ELSE QueueSize - Len(recvQueue)
        /\ ~ overflowed' => ~ (Len(F) > QueueSize - Len(recvQueue))
        /\ recvQueue' = recvQueue \o T
    BY <1>1
  <2> HIDE DEF F, j, T
  <2> QED
    BY <2>1, <1>0, <1>5, NetAssumption
<1>7. recvBuff' \in Seq(Unit) /\ Len(recvBuff') <= 1 /\ Ofs(u) = Pairs(F) \o Ofs(recvBuff')
  <2>1. recvBuff' = IF Len(u) % 2 = 0 THEN << >> ELSE << u[Len(u)] >>
    BY <1>1
  <2> HIDE DEF u
  <2> QED
    BY <2>1, <1>4, ParsedLine
<1> HIDE DEF v, w, u, F, j
<1>8. /\ T \in Seq(Received) /\ D \in Seq(Received) /\ F = T \o D
      /\ Len(T) = j /\ Len(D) = Len(F) - j
  BY <1>5, <1>6, Split
<1> HIDE DEF T, D
<1>9. Queues'
  <2>1. recvQueue' \in Seq(Received) /\ Len(recvQueue') <= QueueSize
    <3>1. recvQueue \o T \in Seq(Received) /\ Len(recvQueue \o T) = Len(recvQueue) + j
      BY <1>0, <1>8, ConcatFacts
    <3> QED
      BY <3>1, <1>6
  <2> QED
    BY <2>1, <1>2, <1>3, <1>7 DEF Types, Queues
<1> DEFINE Q  == Pairs(recvQueue)
           PT == Pairs(T)
           X  == Pairs(D)
           O  == Ofs((recvBuff \o wire)')
           W  == Twice(Waiting)
<1>10. /\ Q \in Seq(Frame) /\ PT \in Seq(Frame) /\ X \in Seq(Frame) /\ W \in Seq(Frame)
       /\ Pairs(F) = PT \o X
  <2>1. Q \in Seq(Frame) /\ W \in Seq(Frame)
    BY LineFacts DEF Types
  <2>2. PT \in Seq(Frame) /\ X \in Seq(Frame)
    BY <1>8, PairsFacts
  <2>3. Pairs(F) = PT \o X
    BY <1>8, PairsConcat
  <2> QED
    BY <2>1, <2>2, <2>3
<1>11. O \in Seq(Frame) /\ O = Ofs(recvBuff') \o Ofs(w) /\ Ofs(recvBuff') \in Seq(Frame) /\ Ofs(w) \in Seq(Frame)
  <2>1. (recvBuff \o wire)' = recvBuff' \o w
    BY <1>3
  <2>2. recvBuff' \o w \in Seq(Unit)
    BY <1>3, <1>7, ConcatFacts
  <2>3. Ofs(recvBuff' \o w) \in Seq(Frame)
    BY <2>2, OfsFacts
  <2>4. Ofs(recvBuff' \o w) = Ofs(recvBuff') \o Ofs(w)
    BY <1>3, <1>7, OfsConcat
  <2>5. Ofs(recvBuff') \in Seq(Frame) /\ Ofs(w) \in Seq(Frame)
    BY <1>3, <1>7, OfsFacts
  <2> QED
    BY <2>1, <2>3, <2>4, <2>5
<1>12. Ofs(recvBuff \o wire) = (PT \o X) \o O
  <2>1. recvBuff \o wire = u \o w
    <3>1. recvBuff \o (v \o w) = (recvBuff \o v) \o w
      <4>1. recvBuff \in Seq(Unit) /\ v \in Seq(Unit) /\ w \in Seq(Unit)
        BY <1>0, <1>3
      <4> QED
        BY <4>1, Join, SMTT(30)
    <3> QED
      BY <3>1, <1>3 DEF u
  <2>2. Ofs(u \o w) = Ofs(u) \o Ofs(w)
    BY <1>3, <1>4, OfsConcat
  <2> DEFINE G == Pairs(F)
             b == Ofs(recvBuff')
             y == Ofs(w)
  <2>3. G \in Seq(Frame)
    BY <1>5, PairsFacts
  <2>4. Ofs(recvBuff \o wire) = (G \o b) \o y
    BY <2>1, <2>2, <1>7
  <2>5. b \in Seq(Frame) /\ y \in Seq(Frame) /\ O = b \o y
    BY <1>11
  <2>6. Ofs(recvBuff \o wire) = G \o O
    <3> HIDE DEF G, b, y, O
    <3>1. G \o (b \o y) = (G \o b) \o y
      <4>1. G \in Seq(Frame) /\ b \in Seq(Frame) /\ y \in Seq(Frame)
        BY <2>3, <2>5
      <4> QED
        BY <4>1, Join, SMTT(30)
    <3> QED
      BY <3>1, <2>4, <2>5
  <2> QED
    BY <2>6, <1>10
<1>13. Wired = Q \o ((PT \o X) \o O)
  BY <1>12 DEF Wired
<1>14. Wired' = (Q \o PT) \o O
  <2>1. Pairs(recvQueue \o T) = Q \o PT
    BY <1>0, <1>8, PairsConcat
  <2>2. Wired' = Pairs(recvQueue') \o O
    BY DEF Wired, Pairs, Ofs
  <2> QED
    BY <2>1, <2>2, <1>6
<1>15. Waiting' = Waiting
  BY <1>2 DEF Waiting
<1>16. Line = Wired \o W /\ Line' = Wired' \o W
  BY <1>15 DEF Line, Twice
<1>17. ASSUME ~ overflowed' PROVE X = << >>
  <2>1. Len(D) = 0
    BY <1>17, <1>5, <1>6, <1>8
  <2>2. D = << >>
    BY <2>1, <1>8, EmptySeq
  <2> QED
    BY <2>2, Nothing
<1>18. Q \in Seq(Frame) /\ PT \in Seq(Frame) /\ X \in Seq(Frame) /\ O \in Seq(Frame) /\ W \in Seq(Frame)
  BY <1>10, <1>11
<1>19. Line = (Q \o ((PT \o X) \o O)) \o W /\ Line' = ((Q \o PT) \o O) \o W
  BY <1>13, <1>14, <1>16
<1> HIDE DEF Q, PT, X, O, W
<1>20. Ordered'
  <2> DEFINE A == Q \o PT
             B == O \o W
  <2>1. /\ (Q \o ((PT \o X) \o O)) \o W = (A \o X) \o B
        /\ ((Q \o PT) \o O) \o W = A \o B
        /\ A \in Seq(Frame) /\ B \in Seq(Frame)
    <3>1. A \in Seq(Frame) /\ B \in Seq(Frame) /\ PT \o X \in Seq(Frame)
      BY <1>18, Joined
    <3>2. Q \o ((PT \o X) \o O) = (Q \o (PT \o X)) \o O
      <4>1. Q \in Seq(Frame) /\ PT \o X \in Seq(Frame) /\ O \in Seq(Frame)
        BY <1>18, <3>1
      <4> QED
        BY <4>1, Join, SMTT(30)
    <3>3. Q \o (PT \o X) = A \o X
      <4>1. Q \in Seq(Frame) /\ PT \in Seq(Frame) /\ X \in Seq(Frame)
        BY <1>18
      <4> QED
        BY <4>1, Join, SMTT(30)
    <3> HIDE DEF A
    <3>4. A \o X \in Seq(Frame)
      BY <1>18, <3>1, Joined
    <3>5. ((A \o X) \o O) \o W = (A \o X) \o B
      <4> DEFINE Y == A \o X
      <4>1. Y \in Seq(Frame)
        BY <3>4
      <4> HIDE DEF Y
      <4>2. (Y \o O) \o W = Y \o (O \o W)
        <5>1. Y \in Seq(Frame) /\ O \in Seq(Frame) /\ W \in Seq(Frame)
          BY <4>1, <1>18
        <5> QED
          BY <5>1, Join, SMTT(30)
      <4> QED
        BY <4>2 DEF Y
    <3>6. (A \o O) \o W = A \o (O \o W)
      <4>1. A \in Seq(Frame) /\ O \in Seq(Frame) /\ W \in Seq(Frame)
        BY <3>1, <1>18
      <4> QED
        BY <4>1, Join, SMTT(30)
    <3> QED
      BY <3>1, <3>2, <3>3, <3>5, <3>6 DEF A
  <2> HIDE DEF A, B
  <2>2. Line = (A \o X) \o B /\ Line' = A \o B
    BY <2>1, <1>19
  <2> QED
    BY <2>1, <2>2, <1>2, <1>18, OrderedCut
<1>21. ASSUME ~ overflowed' PROVE Wired' = Wired /\ Line' = Line
  <2>1. PT \o X = PT
    BY <1>17, <1>18, <1>21, ConcatEmptySeq
  <2>2. Wired = Q \o (PT \o O)
    BY <2>1, <1>13
  <2>3. Q \o (PT \o O) = (Q \o PT) \o O
    <3>1. Q \in Seq(Frame) /\ PT \in Seq(Frame) /\ O \in Seq(Frame)
      BY <1>18
    <3> QED
      BY <3>1, Join, SMTT(30)
  <2> QED
    BY <2>2, <2>3, <1>14, <1>16
<1> QED
  BY <1>9, <1>15, <1>20, <1>21

\* The upper layer takes the first n frames.
LEMMA PopLine ==
    ASSUME Types, NEW n \in 1 .. Len(recvQueue), NEW P, P = Pairs(SubSeq(recvQueue, 1, n)),
           recvQueue' = SubSeq(recvQueue, n + 1, Len(recvQueue)),
           UNCHANGED << nextMsg, pending, sendQueue, wire, recvBuff, breaks >>,
           delivered' \in Seq(Handed)
    PROVE  /\ Queues'
           /\ P \in Seq(Frame) /\ Len(P) = 2 * n /\ n \in Nat
           /\ Wired' \in Seq(Frame) /\ Line' \in Seq(Frame)
           /\ Wired = P \o Wired' /\ Line = P \o Line' /\ Waiting' = Waiting
           /\ \A i \in 1 .. n : P[2 * i - 1] = recvQueue[i].head /\ P[2 * i] = recvQueue[i].body
<1> DEFINE h == SubSeq(recvQueue, 1, n)
           r == SubSeq(recvQueue, n + 1, Len(recvQueue))
<1>0. /\ recvQueue \in Seq(Received) /\ recvBuff \in Seq(Unit) /\ wire \in Seq(Unit)
      /\ Len(recvQueue) \in Nat /\ n \in Nat /\ n <= Len(recvQueue)
  BY LenProperties DEF Types, Queues
<1>1. /\ h \in Seq(Received) /\ Len(h) = n /\ r \in Seq(Received) /\ Len(r) = Len(recvQueue) - n
      /\ recvQueue = h \o r
  BY <1>0, Split
<1>2. \A i \in 1 .. n : h[i] = recvQueue[i]
  <2>1. \A i \in 1 .. n + 1 - 1 : h[i] = recvQueue[i + 1 - 1]
    BY <1>0, PieceOfSeq
  <2> HIDE DEF h
  <2> QED
    BY <2>1, <1>0
<1> HIDE DEF h, r
<1>3. P = Pairs(h) /\ recvQueue' = r
  BY DEF h, r
<1>4. Queues'
  <2>1. Len(recvQueue) <= QueueSize /\ QueueSize \in Nat
    BY NetAssumption DEF Types, Queues
  <2>2. Len(r) <= QueueSize
    BY <1>0, <1>1, <2>1
  <2> QED
    BY <2>2, <1>1, <1>3 DEF Types, Queues
<1>5. /\ P \in Seq(Frame) /\ Len(P) = 2 * n
      /\ \A i \in 1 .. n : P[2 * i - 1] = h[i].head /\ P[2 * i] = h[i].body
  BY <1>1, <1>3, PairsFacts
<1>6. Waiting' = Waiting /\ (recvBuff \o wire)' = recvBuff \o wire
  BY DEF Waiting
<1> DEFINE Q == Pairs(r)
           O == Ofs(recvBuff \o wire)
           W == Twice(Waiting)
<1>7. Q \in Seq(Frame) /\ O \in Seq(Frame) /\ W \in Seq(Frame)
  <2>1. Q \in Seq(Frame)
    BY <1>1, PairsFacts
  <2>2. recvBuff \o wire \in Seq(Unit)
    BY <1>0, ConcatFacts
  <2>3. O \in Seq(Frame)
    BY <2>2, OfsFacts
  <2>4. W \in Seq(Frame)
    BY LineFacts DEF Types
  <2> QED
    BY <2>1, <2>3, <2>4
<1>8. Pairs(recvQueue) = P \o Q
  BY <1>1, <1>3, PairsConcat
<1>9. Wired' = Q \o O
  BY <1>3, <1>6 DEF Wired, Pairs, Ofs
<1>10. Wired = (P \o Q) \o O
  BY <1>8 DEF Wired
<1>11. Line = Wired \o W /\ Line' = Wired' \o W
  BY <1>6 DEF Line, Twice
<1> HIDE DEF Q, O, W
<1>12. Wired' \in Seq(Frame) /\ Wired = P \o Wired'
  <2>1. P \in Seq(Frame) /\ Q \in Seq(Frame) /\ O \in Seq(Frame)
    BY <1>5, <1>7
  <2>2. P \o (Q \o O) = (P \o Q) \o O
    BY <2>1, Join, SMTT(30)
  <2>3. Q \o O \in Seq(Frame)
    BY <2>1, Joined
  <2> QED
    BY <2>2, <2>3, <1>9, <1>10
<1>13. Line' \in Seq(Frame) /\ Line = P \o Line'
  <2> DEFINE V == Wired'
  <2>1. V \in Seq(Frame) /\ P \in Seq(Frame) /\ W \in Seq(Frame)
    BY <1>5, <1>7, <1>12
  <2> HIDE DEF V
  <2>2. P \o (V \o W) = (P \o V) \o W
    BY <2>1, Join, SMTT(30)
  <2>3. V \o W \in Seq(Frame)
    BY <2>1, Joined
  <2> QED
    BY <2>2, <2>3, <1>11, <1>12 DEF V
<1> QED
  BY <1>0, <1>2, <1>4, <1>5, <1>6, <1>12, <1>13

\* The order stays when the line loses its front.
LEMMA OrderedFront ==
    ASSUME Ordered, NEW X \in Seq(Frame), NEW B \in Seq(Frame), Line = X \o B, Line' = B,
           delivered' = delivered, nextMsg' = nextMsg
    PROVE  Ordered'
<1>1. << >> \in Seq(Frame) /\ X \o B = (<< >> \o X) \o B /\ B = << >> \o B
  BY CutFront
<1>2. Line = (<< >> \o X) \o B /\ Line' = << >> \o B
  BY <1>1
<1> QED
  BY <1>1, <1>2, OrderedCut

\* Whole frames taken off the front leave whole frames, heads and children.
LEMMA WholeFront ==
    ASSUME Whole, NEW X \in Seq(Frame), NEW x \in Nat, Len(X) = 2 * x,
           Wired' \in Seq(Frame), Line' \in Seq(Frame), Wired = X \o Wired', Line = X \o Line',
           Waiting' = Waiting, connected' = connected, DeliveredIsOriginal'
    PROVE  Whole'
<1> DEFINE V == Wired'
           L == Line'
<1>1. V \in Seq(Frame) /\ L \in Seq(Frame) /\ Wired = X \o V /\ Line = X \o L
  OBVIOUS
<1> HIDE DEF V, L
<1>2. Paired(V)
  BY <1>1, EvenFront DEF Whole
<1>3. connected => Len(V) % 2 = 0
  <2>1. Len(Wired) = 2 * x + Len(V) /\ Len(V) \in Nat
    BY <1>1, ConcatFacts, LenProperties
  <2> QED
    BY <2>1 DEF Whole
<1>4. connected => Complete(L)
  BY <1>1, EvenFront DEF Whole
<1>5. ~ connected => Begun(V)
  BY <1>1, EvenFront DEF Whole
<1>6. /\ (Paired(Wired))' /\ (~ connected => (Begun(Wired))')
      /\ (connected => (Complete(Line))')
  BY <1>2, <1>4, <1>5 DEF Paired, Begun, Complete, Awaits, V, L
<1>7. ~ connected => (Complete(Twice(Waiting)))'
  BY DEF Whole, Complete, Awaits, Twice
<1> QED
  BY <1>3, <1>6, <1>7 DEF Whole, V

\* The first n frames are dropped.
LEMMA DropFront ==
    ASSUME Types, Ordered, NEW n \in 1 .. Len(recvQueue),
           recvQueue' = SubSeq(recvQueue, n + 1, Len(recvQueue)), delivered' = delivered,
           UNCHANGED << mainVars, sendQueue, uvVars, wire, recvBuff, histVars >>
    PROVE  Queues' /\ Ordered' /\ (Whole => Whole')
<1>0. UNCHANGED << nextMsg, pending, sendQueue, connected, wire, recvBuff, delivered, breaks >>
  BY DEF mainVars, uvVars, histVars
<1>1. delivered' \in Seq(Handed)
  BY <1>0 DEF Types, Queues
<1> DEFINE P == Pairs(SubSeq(recvQueue, 1, n))
<1>2. /\ Queues'
      /\ P \in Seq(Frame) /\ Len(P) = 2 * n /\ n \in Nat
      /\ Wired' \in Seq(Frame) /\ Line' \in Seq(Frame)
      /\ Wired = P \o Wired' /\ Line = P \o Line' /\ Waiting' = Waiting
  BY <1>0, <1>1, PopLine
<1> HIDE DEF P
<1>3. Ordered'
  <2> DEFINE B == Line'
  <2>1. B \in Seq(Frame) /\ Line = P \o B /\ Line' = B
    BY <1>2
  <2> HIDE DEF B
  <2> QED
    BY <2>1, <1>0, <1>2, OrderedFront
<1>4. ASSUME Whole PROVE Whole'
  <2>1. DeliveredIsOriginal'
    BY <1>0, <1>4 DEF Whole, DeliveredIsOriginal, Payload
  <2> QED
    BY <2>1, <1>0, <1>2, <1>4, WholeFront
<1> QED
  BY <1>2, <1>3, <1>4

\* PopHugeSplit and PopStrayChild.
LEMMA DropHead ==
    ASSUME Types, Ordered, recvQueue # << >>, recvQueue' = Tail(recvQueue), delivered' = delivered,
           UNCHANGED << mainVars, sendQueue, uvVars, wire, recvBuff, histVars >>
    PROVE  Queues' /\ Ordered' /\ (Whole => Whole')
<1>1. 1 \in 1 .. Len(recvQueue) /\ recvQueue' = SubSeq(recvQueue, 1 + 1, Len(recvQueue))
  BY EmptySeq, TailIsSubSeq DEF Types, Queues
<1> QED
  BY <1>1, DropFront

\* Of what was written, each frame received is whole, and children follow their head.
LEMMA WholeHeads ==
    ASSUME Types, Whole, NEW i \in 1 .. Len(recvQueue)
    PROVE  /\ recvQueue[i].head = recvQueue[i].body
           /\ 2 * i <= Len(Wired) /\ Wired[2 * i] = recvQueue[i].body
<1> DEFINE P == Pairs(recvQueue)
           O == Ofs(recvBuff \o wire)
           l == Len(recvQueue)
<1>1. /\ P \in Seq(Frame) /\ Len(P) = 2 * l /\ l \in Nat
      /\ \A k \in 1 .. l : P[2 * k - 1] = recvQueue[k].head /\ P[2 * k] = recvQueue[k].body
  BY PairsFacts DEF Types, Queues
<1>2. O \in Seq(Frame)
  <2>1. recvBuff \o wire \in Seq(Unit)
    BY ConcatFacts DEF Types, Queues
  <2> QED
    BY <2>1, OfsFacts
<1>3. i \in 1 .. l /\ Wired = P \o O
  BY DEF Wired
<1> HIDE DEF P, O, l
<1>4. 2 * i \in 1 .. Len(P) /\ 2 * i - 1 \in 1 .. Len(P) /\ i \in Nat \ {0}
  BY <1>1, <1>3
<1>5. (P \o O)[2 * i] = P[2 * i] /\ (P \o O)[2 * i - 1] = P[2 * i - 1] /\ 2 * i <= Len(P \o O)
  <2>1. Len(P \o O) = Len(P) + Len(O) /\ Len(O) \in Nat /\ Len(P) \in Nat
    BY <1>1, <1>2, ConcatFacts
  <2>2. \A k \in 1 .. Len(P) : (P \o O)[k] = P[k]
    BY <1>1, <1>2, ConcatFacts
  <2> QED
    BY <2>1, <2>2, <1>4
<1>6. Wired[2 * i - 1] = Wired[2 * i]
  BY <1>3, <1>4, <1>5 DEF Whole, Paired
<1> QED
  BY <1>1, <1>3, <1>5, <1>6

\* Behind a head in front of the queue are its children.
LEMMA WholeChildren ==
    ASSUME Types, Whole, 1 \in 1 .. Len(recvQueue), recvQueue[1].body.kind = "begin",
           NEW k \in Nat \ {0}, k <= recvQueue[1].body.child, k + 1 <= Len(recvQueue)
    PROVE  recvQueue[k + 1].body = Child(recvQueue[1].body.msg, k)
<1>1. Wired \in Seq(Frame) /\ Twice(Waiting) \in Seq(Frame)
  BY LineFacts DEF Types
<1>2. Begun(Wired)
  <2>1. CASE connected
    <3> DEFINE W == Wired
               T == Twice(Waiting)
    <3>1. W \in Seq(Frame) /\ T \in Seq(Frame) /\ Complete(W \o T)
      BY <2>1, <1>1 DEF Whole, Line
    <3> HIDE DEF W, T
    <3>2. Begun(W)
      BY <3>1, Prefix
    <3> QED
      BY <3>2 DEF W
  <2>2. CASE ~ connected
    BY <2>2 DEF Whole
  <2> QED
    BY <2>1, <2>2
<1>3. 2 * 1 <= Len(Wired) /\ Wired[2 * 1] = recvQueue[1].body
  BY WholeHeads
<1>4. 2 * (1 + k) <= Len(Wired) /\ Wired[2 * (1 + k)] = recvQueue[k + 1].body
  <2> DEFINE j == k + 1
  <2>1. j \in 1 .. Len(recvQueue)
    BY LenProperties DEF Types, Queues
  <2>2. 2 * j <= Len(Wired) /\ Wired[2 * j] = recvQueue[j].body
    <3> HIDE DEF j
    <3> QED
      BY <2>1, WholeHeads
  <2>3. 1 + k = j
    OBVIOUS
  <2> QED
    BY <2>2, <2>3
<1>5. Awaits(Wired, 1, k)
  BY <1>3 DEF Awaits
<1>6. Wired[2 * (1 + k)] = Child(Wired[2 * 1].msg, k)
  BY <1>2, <1>4, <1>5 DEF Begun
<1> QED
  BY <1>3, <1>4, <1>6

\* The first n frames are handed to the upper layer as the message d, which is named
\* by a head or by the first frame's body.
LEMMA PopDeliver ==
    ASSUME Types, Ordered, NEW n \in 1 .. Len(recvQueue),
           recvQueue' = SubSeq(recvQueue, n + 1, Len(recvQueue)),
           UNCHANGED << mainVars, sendQueue, uvVars, wire, recvBuff, histVars >>,
           NEW d \in Handed, delivered' = Append(delivered, d),
           recvQueue[1].head.kind # "child",
           \/ d.msg = recvQueue[1].head.msg
           \/ d.msg = recvQueue[1].body.msg /\ n > 1 /\ recvQueue[1].head.msg # Register
    PROVE  /\ Queues' /\ Ordered'
           /\ Whole /\ d.parts = Payload(d.msg) => Whole'
<1>0. UNCHANGED << nextMsg, pending, sendQueue, connected, wire, recvBuff, breaks >>
  BY DEF mainVars, uvVars, histVars
<1>1. /\ delivered \in Seq(Handed) /\ delivered' \in Seq(Handed)
      /\ Len(delivered') = Len(delivered) + 1 /\ Len(delivered) \in Nat
      /\ \A i \in 1 .. Len(delivered) : delivered'[i] = delivered[i]
      /\ delivered'[Len(delivered) + 1] = d
  BY AppendProperties, LenProperties DEF Types, Queues
<1> DEFINE P == Pairs(SubSeq(recvQueue, 1, n))
<1>2. /\ Queues'
      /\ P \in Seq(Frame) /\ Len(P) = 2 * n /\ n \in Nat
      /\ Wired' \in Seq(Frame) /\ Line' \in Seq(Frame)
      /\ Wired = P \o Wired' /\ Line = P \o Line' /\ Waiting' = Waiting
  BY <1>0, <1>1, PopLine
<1>3. \A i \in 1 .. n : P[2 * i - 1] = recvQueue[i].head /\ P[2 * i] = recvQueue[i].body
  BY <1>0, <1>1, PopLine
<1>4. P[1] = recvQueue[1].head /\ P[2] = recvQueue[1].body
  <2>1. 1 \in 1 .. n
    BY <1>2
  <2>2. P[2 * 1 - 1] = recvQueue[1].head /\ P[2 * 1] = recvQueue[1].body
    BY <2>1, <1>3
  <2> QED
    BY <2>2
<1> HIDE DEF P
<1> DEFINE B == Line'
           x == 2 * n
           l == Len(Line)
<1>5. /\ B \in Seq(Frame) /\ Line = P \o B /\ Line' = B
      /\ l \in Nat /\ x <= l /\ x >= 2 /\ (n > 1 => x >= 4) /\ x \in Nat /\ Len(P) = x
  <2>1. B \in Seq(Frame) /\ Line = P \o B /\ Line' = B
    BY <1>2
  <2> HIDE DEF B
  <2>2. Len(P \o B) = Len(P) + Len(B) /\ Len(B) \in Nat
    BY <2>1, <1>2, ConcatFacts, LenProperties
  <2> QED
    BY <2>1, <2>2, <1>2
<1>6. Line[1] = recvQueue[1].head /\ Line[2] = recvQueue[1].body
  <2>1. 1 \in 1 .. Len(P) /\ 2 \in 1 .. Len(P)
    BY <1>5
  <2> HIDE DEF B
  <2>2. (P \o B)[1] = P[1] /\ (P \o B)[2] = P[2]
    BY <2>1, <1>2, <1>5, ConcatFacts
  <2> QED
    BY <2>2, <1>4, <1>5
<1> HIDE DEF B, x, l
<1>7. \A i, j \in 1 .. l : i < j => After(Line[i].msg, Line[j]) \/ (j = i + 1 /\ Line[i] = Line[j])
  BY DEF Ordered, InLine, l
<1>8. ASSUME NEW i \in 1 .. Len(delivered)
      PROVE  delivered[i].msg # Register /\ Line[1].msg # Register => delivered[i].msg < Line[1].msg
  <2>1. 1 \in 1 .. Len(Line)
    BY <1>5 DEF l
  <2>2. After(delivered[i].msg, Line[1])
    BY <2>1 DEF Ordered
  <2> QED
    BY <2>2, <1>6 DEF After
<1>9. \E p \in 1 .. x :
         /\ d.msg = Line[p].msg
         /\ \A j \in x + 1 .. l : After(d.msg, Line[j])
         /\ \A i \in 1 .. Len(delivered) :
               delivered[i].msg # Register /\ d.msg # Register => delivered[i].msg < d.msg
  <2>1. CASE d.msg = recvQueue[1].head.msg
    <3>1. ASSUME NEW j \in x + 1 .. l PROVE After(d.msg, Line[j])
      <4>1. j \in 1 .. l /\ 1 \in 1 .. l /\ 1 < j /\ j # 1 + 1
        BY <1>5
      <4>2. After(Line[1].msg, Line[j])
        BY <4>1, <1>7
      <4> QED
        BY <4>2, <2>1, <1>6
    <3>2. 1 \in 1 .. x
      BY <1>5
    <3> QED
      BY <3>1, <3>2, <2>1, <1>6, <1>8
  <2>2. CASE d.msg = recvQueue[1].body.msg /\ n > 1 /\ recvQueue[1].head.msg # Register
    <3>1. ASSUME NEW j \in x + 1 .. l PROVE After(d.msg, Line[j])
      <4>1. j \in 1 .. l /\ 2 \in 1 .. l /\ 2 < j /\ j # 2 + 1
        BY <1>5, <2>2
      <4>2. After(Line[2].msg, Line[j])
        BY <4>1, <1>7
      <4> QED
        BY <4>2, <2>2, <1>6
    <3>2. 2 \in 1 .. x
      BY <1>5
    <3>3. Line[1].msg \in Nat /\ Line[2].msg \in Nat
      <4>1. recvQueue[1] \in Received
        BY ElementOfSeq, <1>2, SMTT(30) DEF Types, Queues
      <4>2. recvQueue[1].head \in Frame /\ recvQueue[1].body \in Frame
        BY <4>1 DEF Received
      <4> QED
        BY <4>2, <1>6, FrameType
    <3>4. Line[2].msg # Register => Line[1].msg <= Line[2].msg
      <4>1. 1 \in 1 .. l /\ 2 \in 1 .. l
        BY <1>5
      <4>2. After(Line[1].msg, Line[2]) \/ Line[1] = Line[2]
        BY <4>1, <1>7
      <4> QED
        BY <4>2, <3>3, <2>2, <1>6 DEF After
    <3>5. ASSUME NEW i \in 1 .. Len(delivered), delivered[i].msg # Register, d.msg # Register
          PROVE  delivered[i].msg < d.msg
      <4>1. delivered[i] \in Handed
        BY <1>1, ElementOfSeq
      <4>2. delivered[i].msg \in Nat
        BY <4>1 DEF Handed
      <4>3. delivered[i].msg < Line[1].msg
        BY <3>5, <1>8, <2>2, <1>6
      <4> QED
        BY <4>2, <4>3, <3>3, <3>4, <3>5, <2>2, <1>6
    <3> QED
      BY <3>1, <3>2, <3>5, <2>2, <1>6
  <2> QED
    BY <2>1, <2>2
<1>10. Ordered'
  <2>1. PICK p \in 1 .. Len(P) :
           /\ d.msg = Line[p].msg
           /\ \A j \in Len(P) + 1 .. Len(Line) : After(d.msg, Line[j])
           /\ \A i \in 1 .. Len(delivered) :
                 delivered[i].msg # Register /\ d.msg # Register => delivered[i].msg < d.msg
    BY <1>5, <1>9 DEF l
  <2> QED
    BY <2>1, <1>0, <1>2, <1>5, OrderedDeliver
<1>11. ASSUME Whole, d.parts = Payload(d.msg) PROVE Whole'
  <2>1. \A i \in 1 .. Len(delivered) : delivered[i].parts = Payload(delivered[i].msg)
    BY <1>11 DEF Whole, DeliveredIsOriginal
  <2>2. ASSUME NEW i \in 1 .. Len(delivered) + 1 PROVE delivered'[i].parts = Payload(delivered'[i].msg)
    <3>1. CASE i \in 1 .. Len(delivered)
      BY <3>1, <2>1, <1>1
    <3>2. CASE i = Len(delivered) + 1
      BY <3>2, <1>1, <1>11
    <3>3. i \in 1 .. Len(delivered) \/ i = Len(delivered) + 1
      BY <1>1
    <3> QED
      BY <3>1, <3>2, <3>3
  <2>3. DeliveredIsOriginal'
    BY <2>2, <1>1 DEF DeliveredIsOriginal, Payload
  <2> QED
    BY <2>3, <1>0, <1>2, <1>11, WholeFront
<1> QED
  BY <1>2, <1>10, <1>11

\* A frame that is a message by itself.
LEMMA PopSingleStep ==
    ASSUME Types, Ordered, PopSingle
    PROVE  Queues' /\ Ordered' /\ (Whole => Whole')
<1> DEFINE f == Head(recvQueue)
           d == [msg |-> f.head.msg, parts |-> << f.body >>]
<1>1. /\ UNCHANGED << mainVars, sendQueue, uvVars, wire, recvBuff, histVars >>
      /\ delivered' = Append(delivered, d) /\ f.head.kind = "single"
      /\ recvQueue # << >> /\ recvQueue' = Tail(recvQueue)
  BY DEF PopSingle
<1>2. 1 \in 1 .. Len(recvQueue) /\ recvQueue' = SubSeq(recvQueue, 1 + 1, Len(recvQueue)) /\ f = recvQueue[1]
  BY <1>1, EmptySeq, TailIsSubSeq DEF Types, Queues
<1>3. f \in Received
  BY <1>2, ElementOfSeq DEF Types, Queues
<1>4. f.head \in Frame /\ f.body \in Frame /\ f.head.msg \in Nat
  BY <1>3, FrameType DEF Received
<1>5. d \in Handed
  <2>1. << f.body >> \in Seq(Frame)
    BY <1>4
  <2> QED
    BY <2>1, <1>4 DEF Handed
<1>6. /\ Queues' /\ Ordered'
      /\ Whole /\ d.parts = Payload(d.msg) => Whole'
  <2>1. d.msg = recvQueue[1].head.msg /\ recvQueue[1].head.kind # "child"
    BY <1>1, <1>2
  <2> HIDE DEF d
  <2> QED
    BY <2>1, <1>1, <1>2, <1>5, PopDeliver
<1>7. ASSUME Whole PROVE d.parts = Payload(d.msg)
  <2>1. f.head = f.body
    BY <1>2, <1>7, WholeHeads
  <2>2. f.head = Single(f.head.msg) /\ (f.head.msg = Register \/ Children[f.head.msg] = 0)
    BY <1>1, <1>4, FrameFacts DEF Begin, Child
  <2> QED
    BY <2>1, <2>2 DEF Payload
<1> QED
  BY <1>6, <1>7

\* A head and the children behind it: they become a message if they are all there.
LEMMA PopSplitStep ==
    ASSUME Types, Ordered, PopSplit
    PROVE  Queues' /\ Ordered' /\ (Whole => Whole')
<1> DEFINE f == Head(recvQueue)
           c == f.head.child
<1>1. /\ UNCHANGED << mainVars, sendQueue, uvVars, wire, recvBuff, histVars >>
      /\ f.head.kind = "begin" /\ recvQueue # << >> /\ RecvSize >= c + 1
  BY DEF PopSplit, Announced
<1>2. 1 \in 1 .. Len(recvQueue) /\ f = recvQueue[1] /\ recvQueue \in Seq(Received) /\ Len(recvQueue) \in Nat
  BY <1>1, EmptySeq, LenProperties DEF Types, Queues
<1>3. f.head \in Frame /\ f.body \in Frame /\ c \in Nat /\ f.body.msg \in Nat
  <2>1. f \in Received
    BY <1>2, ElementOfSeq
  <2> QED
    BY <2>1, FrameType DEF Received
<1>4. f.head = Begin(f.head.msg) /\ f.head.msg \in Messages /\ Children[f.head.msg] \in Nat \ {0}
  BY <1>1, <1>3, FrameFacts DEF Single, Child
<1>5. c = Children[f.head.msg] /\ f.head.msg # Register /\ c >= 1
  BY <1>4 DEF Begin, Messages, Register
<1>6. c + 1 <= Len(recvQueue)
  BY <1>1, <1>2, <1>3 DEF RecvSize, Types, Queues
<1>7. PICK m \in 0 .. c :
         /\ recvQueue' = SubSeq(recvQueue, m + 2, Len(recvQueue))
         /\ delivered' = IF m = c THEN Append(delivered, Assembled(m)) ELSE delivered
  BY DEF PopSplit, Announced
<1>8. m + 1 \in 1 .. Len(recvQueue) /\ m + 2 = (m + 1) + 1 /\ m \in Nat
  BY <1>2, <1>3, <1>6
<1>9. CASE m # c
  BY <1>1, <1>7, <1>8, <1>9, DropFront
<1>10. CASE m = c
  <2> DEFINE s == SubSeq(recvQueue, 2, m + 1)
             d == Assembled(m)
  <2>1. d = [msg |-> f.body.msg, parts |-> Bodies(s)]
    BY DEF Assembled
  <2>2. s \in Seq(Received) /\ Len(s) = m /\ \A i \in 1 .. m : s[i] = recvQueue[i + 1]
    <3>1. m + 1 \in Nat /\ m + 1 <= Len(recvQueue) /\ 2 <= (m + 1) + 1
      BY <1>2, <1>8
    <3>2. /\ s \in Seq(Received) /\ Len(s) = (m + 1) + 1 - 2
          /\ \A i \in 1 .. (m + 1) + 1 - 2 : s[i] = recvQueue[i + 2 - 1]
      BY <3>1, <1>2, PieceOfSeq
    <3> HIDE DEF s
    <3> QED
      BY <3>2, <1>8
  <2> HIDE DEF s
  <2>3. \A i \in 1 .. m : s[i].body \in Frame
    <3>1. \A i \in 1 .. m : s[i] \in Received
      BY <2>2, ElementOfSeq
    <3> QED
      BY <3>1 DEF Received
  <2>4. Bodies(s) = [i \in 1 .. m |-> recvQueue[i + 1].body]
    BY <2>2 DEF Bodies
  <2>5. Bodies(s) \in Seq(Frame)
    <3>1. Bodies(s) \in [1 .. m -> Frame]
      BY <2>2, <2>3 DEF Bodies
    <3> QED
      BY <3>1, <1>8, FunctionIsSeq
  <2>6. d \in Handed
    BY <2>1, <2>5, <1>3 DEF Handed
  <2>7. d.msg = f.body.msg /\ d.parts = Bodies(s)
    BY <2>1
  <2> HIDE DEF d
  <2>8. /\ Queues' /\ Ordered'
        /\ Whole /\ d.parts = Payload(d.msg) => Whole'
    <3> DEFINE n == m + 1
    <3>1. /\ n \in 1 .. Len(recvQueue) /\ recvQueue' = SubSeq(recvQueue, n + 1, Len(recvQueue)) /\ n > 1
      <4>1. n \in 1 .. Len(recvQueue) /\ n + 1 = m + 2 /\ n > 1
        BY <1>5, <1>8, <1>10
      <4> HIDE DEF n
      <4> QED
        BY <4>1, <1>7
    <3>2. delivered' = Append(delivered, d)
      BY <1>7, <1>10 DEF d
    <3>3. recvQueue[1].head.kind # "child" /\ d.msg = recvQueue[1].body.msg /\ recvQueue[1].head.msg # Register
      BY <2>7, <1>1, <1>2, <1>5
    <3> HIDE DEF n
    <3> QED
      BY <3>1, <3>2, <3>3, <2>6, <1>1, PopDeliver
  <2>9. ASSUME Whole PROVE d.parts = Payload(d.msg)
    <3>1. f.head = f.body
      BY <1>2, <2>9, WholeHeads
    <3>2. Payload(d.msg) = [i \in 1 .. m |-> Child(d.msg, i)]
      BY <3>1, <2>7, <1>5, <1>10 DEF Payload
    <3>3. ASSUME NEW i \in 1 .. m PROVE recvQueue[i + 1].body = Child(d.msg, i)
      <4>1. i \in Nat \ {0} /\ i + 1 <= Len(recvQueue) /\ i <= f.head.child
        BY <1>2, <1>3, <1>6, <1>10
      <4> QED
        BY <4>1, <3>1, <2>7, <2>9, <1>1, <1>2, WholeChildren
    <3> QED
      BY <3>2, <3>3, <2>4, <2>7
  <2> QED
    BY <2>8, <2>9
<1> QED
  BY <1>9, <1>10

-----------------------------------------------------------------------------
(* The invariant holds. *)

\* Nothing is on its way.
LEMMA Initial == Init => IInv
<1> SUFFICES ASSUME Init PROVE IInv
  OBVIOUS
<1>1. << >> \in Seq(Frame) /\ << >> \in Seq(Unit) /\ << >> \in Seq(Received) /\ << >> \in Seq(Handed)
  BY EmptySeq
<1>2. Queues
  BY <1>1, NetAssumption DEF Init, Queues
<1>3. Flags /\ Views /\ Lost
  BY DEF Init, Flags, Views, Lost
<1>4. Wired = << >> /\ Waiting = << >> /\ Line = << >>
  <2>1. Wired = << >>
    BY Nothing DEF Init, Wired
  <2>2. Waiting = << >>
    BY DEF Init, Waiting
  <2> QED
    BY <2>1, <2>2, Nothing DEF Line
<1>5. Ordered
  BY <1>4 DEF Init, Ordered, InLine, InOrder
<1>6. Whole
  BY <1>4 DEF Init, Whole, Paired, Complete, Awaits, DeliveredIsOriginal
<1> QED
  BY <1>2, <1>3, <1>5, <1>6 DEF IInv, Types

\* What an operation on the queues keeps.
LEMMA StepInLine ==
    ASSUME IInv, [Next]_vars
    PROVE  Queues' /\ Ordered' /\ (Sound' => Whole')
<1> USE DEF IInv
<1>0. Types /\ Ordered /\ (Sound => Whole)
  OBVIOUS
<1>1. CASE StartSend
  <2> DEFINE m == nextMsg
  <2>1. /\ m \in Messages \cup {Register} /\ pending = << >> /\ pending' = Frames(m)
        /\ m = nextMsg /\ nextMsg' = nextMsg + 1
        /\ UNCHANGED << sendQueue, connected, wire, recvVars, senderIsClient, breaks, overflowed >>
    BY <1>1 DEF StartSend, MainIdle, uvVars, histVars
  <2>2. Sound' = Sound
    BY <2>1 DEF Sound
  <2> HIDE DEF m
  <2> QED
    BY <2>1, <2>2, <1>0, QueueMessageStep
<1>2. CASE OnClientConnected
  <2>1. /\ Register \in Messages \cup {Register} /\ pending = << >> /\ pending' = Frames(Register)
        /\ nextMsg' = nextMsg
        /\ UNCHANGED << sendQueue, connected, wire, recvVars, senderIsClient, breaks, overflowed >>
    BY <1>2 DEF OnClientConnected, MainIdle, histVars
  <2>2. Sound' = Sound
    BY <2>1 DEF Sound
  <2> QED
    BY <2>1, <2>2, <1>0, QueueMessageStep
<1>3. CASE AddSendMessage
  <2>1. Queues' /\ Ordered' /\ (~ overflowed' => UNCHANGED << Line, Wired, Waiting >>)
    BY <1>0, <1>3, AddSendMessageStep
  <2>2. /\ delivered' = delivered /\ connected' = connected
        /\ breaks' = breaks /\ senderIsClient' = senderIsClient
        /\ overflowed => overflowed'
    BY <1>3 DEF AddSendMessage, recvVars, uvVars
  <2>3. Sound' => Whole'
    <3> SUFFICES ASSUME Sound' PROVE Whole'
      OBVIOUS
    <3>1. Sound /\ ~ overflowed'
      BY <2>2 DEF Sound
    <3>2. Line' = Line /\ Wired' = Wired /\ Waiting' = Waiting
      BY <3>1, <2>1
    <3>3. Whole
      BY <3>1, <1>0
    <3> QED
      BY <3>2, <3>3, <2>2, WholeSame
  <2> QED
    BY <2>1, <2>3
<1>4. CASE OnRecvData
  <2>1. Queues' /\ Ordered' /\ (~ overflowed' => UNCHANGED << Line, Wired, Waiting >>)
    BY <1>0, <1>4, OnRecvDataStep
  <2>2. /\ delivered' = delivered /\ connected' = connected
        /\ breaks' = breaks /\ senderIsClient' = senderIsClient
        /\ overflowed => overflowed'
    BY <1>4 DEF OnRecvData, uvVars
  <2>3. Sound' => Whole'
    <3> SUFFICES ASSUME Sound' PROVE Whole'
      OBVIOUS
    <3>1. Sound /\ ~ overflowed'
      BY <2>2 DEF Sound
    <3>2. Line' = Line /\ Wired' = Wired /\ Waiting' = Waiting
      BY <3>1, <2>1
    <3>3. Whole
      BY <3>1, <1>0
    <3> QED
      BY <3>2, <3>3, <2>2, WholeSame
  <2> QED
    BY <2>1, <2>3
<1>5. ASSUME UNCHANGED << nextMsg, pending, sendQueue, connected, wire, recvVars, histVars >>
      PROVE  Queues' /\ Ordered' /\ (Sound' => Whole')
  <2>1. UNCHANGED << recvBuff, recvQueue, delivered, breaks, overflowed, senderIsClient >>
    BY <1>5 DEF recvVars, histVars
  <2>2. Queues'
    BY <1>5, <2>1 DEF Types, Queues
  <2>3. Wired' = Wired /\ Waiting' = Waiting
    BY <1>5, <2>1 DEF Wired, Pairs, Ofs, Waiting
  <2>4. Line' = Line
    BY <2>3 DEF Line, Twice
  <2>5. Ordered'
    BY <1>0, <1>5, <2>1, <2>4, OrderedSame
  <2>6. ASSUME Sound' PROVE Whole'
    <3>1. Sound
      BY <2>1, <2>6 DEF Sound
    <3> QED
      BY <3>1, <2>1, <2>3, <2>4, <1>0, <1>5, WholeSame
  <2> QED
    BY <2>2, <2>5, <2>6
<1>6. CASE SendNetMessage
  BY <1>6, <1>5 DEF SendNetMessage
<1>7. ASSUME SendQueueMessage, connected, UNCHANGED << mainVars, connected, recvVars, histVars >>
      PROVE  Queues' /\ Ordered' /\ (Sound' => Whole')
  <2>1. UNCHANGED << nextMsg, pending, breaks, overflowed, senderIsClient >>
    BY <1>7 DEF mainVars, histVars
  <2>2. CASE sendQueue = << >>
    <3>1. UNCHANGED << sendQueue, wire >>
      BY <1>7, <2>2 DEF SendQueueMessage
    <3> QED
      BY <3>1, <2>1, <1>5, <1>7
  <2>3. CASE sendQueue # << >>
    <3>1. PICK n \in 1 .. BatchSize :
             /\ n <= Len(sendQueue)
             /\ sendQueue' = SubSeq(sendQueue, n + 1, Len(sendQueue))
             /\ wire' = wire \o Units(SubSeq(sendQueue, 1, n))
      BY <1>7, <2>3 DEF SendQueueMessage
    <3>2. n \in Nat
      BY NetAssumption
    <3>3. Queues' /\ Ordered' /\ (connected /\ Whole => Whole')
      BY <3>1, <3>2, <2>1, <1>0, <1>7, WriteStep
    <3>4. Sound' = Sound
      BY <2>1 DEF Sound
    <3> QED
      BY <3>3, <3>4, <1>0, <1>7
  <2> QED
    BY <2>2, <2>3
<1>8. CASE OnAsyncSend
  <2>1. CASE connected /\ ~ sending
    BY <1>7, <1>8, <2>1 DEF OnAsyncSend
  <2>2. CASE ~ (connected /\ ~ sending)
    BY <1>5, <1>8, <2>2 DEF OnAsyncSend, mainVars
  <2> QED
    BY <2>1, <2>2
<1>9. CASE OnSendCallBack
  <2>1. CASE OnSendOK
    BY <1>5, <2>1 DEF OnSendOK, mainVars
  <2>2. CASE StartSendMessage /\ connected
    BY <1>7, <2>2 DEF StartSendMessage
  <2>3. CASE StartSendMessage /\ ~ connected
    BY <1>5, <2>3 DEF StartSendMessage, mainVars
  <2> QED
    BY <1>9, <2>1, <2>2, <2>3 DEF OnSendCallBack
<1>14. CASE StoreReachesMain
  BY <1>5, <1>14 DEF StoreReachesMain, mainVars, uvVars
<1>10. CASE Break
  <2>1. Queues' /\ Ordered' /\ (Whole => Whole')
    BY <1>0, <1>10, BreakStep
  <2>2. Sound' => Sound
    BY <1>10 DEF Break, Sound, Types, Queues
  <2> QED
    BY <2>1, <2>2, <1>0
<1>11. CASE Reconnect
  <2>1. Queues' /\ Ordered' /\ (Sound' /\ Whole => Whole')
    BY <1>0, <1>11, ReconnectStep
  <2>2. Sound' => Sound
    BY <1>11 DEF Reconnect, Sound
  <2> QED
    BY <2>1, <2>2, <1>0
<1>12. CASE PopMessage
  <2>1. CASE PopSplit
    <3>1. Sound' = Sound
      BY <2>1 DEF PopSplit, histVars, Sound
    <3> QED
      BY <3>1, <2>1, <1>0, PopSplitStep
  <2>2. CASE PopSingle
    <3>1. Sound' = Sound
      BY <2>2 DEF PopSingle, histVars, Sound
    <3> QED
      BY <3>1, <2>2, <1>0, PopSingleStep
  <2>3. CASE PopHugeSplit \/ PopStrayChild
    <3>1. /\ recvQueue # << >> /\ recvQueue' = Tail(recvQueue) /\ delivered' = delivered
          /\ UNCHANGED << mainVars, sendQueue, uvVars, wire, recvBuff, histVars >>
      BY <2>3 DEF PopHugeSplit, PopStrayChild
    <3>2. Sound' = Sound
      BY <3>1 DEF histVars, Sound
    <3> QED
      BY <3>1, <3>2, <1>0, DropHead
  <2> QED
    BY <2>1, <2>2, <2>3, <1>12 DEF PopMessage
<1>13. CASE UNCHANGED vars
  BY <1>5, <1>13 DEF vars, mainVars, uvVars
<1> QED
  BY <1>1, <1>2, <1>3, <1>4, <1>6, <1>8, <1>9, <1>10, <1>11, <1>12, <1>13, <1>14
  DEF Next, MainThread, UvThread

\* Every step keeps the invariant.
LEMMA InvariantHolds == Spec => []IInv
<1>1. IInv /\ [Next]_vars => IInv'
  <2> SUFFICES ASSUME IInv, [Next]_vars PROVE IInv'
    OBVIOUS
  <2>1. Queues' /\ Ordered' /\ (Sound' => Whole')
    BY StepInLine
  <2>2. Flags' /\ Views' /\ Lost'
    BY StepInFlags, StepInViews, StepInLost DEF IInv
  <2> QED
    BY <2>1, <2>2 DEF IInv, Types
<1> QED
  BY <1>1, Initial, PTL DEF Spec

\* For any messages and sizes: what a split message is assembled from is what was
\* sent, and the messages come in the order they were sent, each at most once, for
\* all cuts of the stream, losses of the connection and refusals of full queues
\* (but for the cases OriginalUnlessOverflow names).
THEOREM SessionIsInOrder == Spec => [](TypeOK /\ OriginalUnlessOverflow /\ InOrder)
<1>1. IInv => TypeOK /\ OriginalUnlessOverflow /\ InOrder
  <2> SUFFICES ASSUME IInv PROVE TypeOK /\ OriginalUnlessOverflow /\ InOrder
    OBVIOUS
  <2>1. TypeOK
    BY TypesGive DEF IInv
  <2>2. InOrder
    BY DEF IInv, Ordered
  <2>3. OriginalUnlessOverflow
    <3>1. breaks \in Nat /\ overflowed \in BOOLEAN /\ senderIsClient \in BOOLEAN
      BY DEF IInv, Types, Queues, Flags
    <3>2. Sound => DeliveredIsOriginal
      BY DEF IInv, Whole
    <3> QED
      BY <3>1, <3>2 DEF OriginalUnlessOverflow, Sound
  <2> QED
    BY <2>1, <2>2, <2>3
<1> QED
  BY <1>1, InvariantHolds, PTL

\* The queues, buffers and flags of a session keep their types through any losses.
THEOREM SessionTypes == Spec => []TypeOK
BY SessionIsInOrder, PTL

\* A message that was split is put together of its own children, in order, as long
\* as no queue refused a frame.
THEOREM PartsAreOriginal == Spec => []OriginalUnlessOverflow
BY SessionIsInOrder, PTL
=============================================================================
