----------------------------- MODULE NetSession -----------------------------
(***************************************************************************)
(* One direction of a KFNetwork connection: the sender's main thread       *)
(* queues frames (KFNetConnector::SendNetMessage), its libuv thread writes *)
(* them in batches, the receiver's libuv thread cuts the byte stream back  *)
(* into frames, and its main thread assembles frames into messages         *)
(* (KFNetConnector::PopMessage).                                           *)
(*                                                                         *)
(* The connection may break and be re-established.  A KFNetClient object   *)
(* outlives its connections; a KFNetHandle (the accepting side) is created *)
(* for each.  senderIsClient says which end is which.                      *)
(*                                                                         *)
(* Queues are bounded FIFOs, which KFQueue_proofs shows the rings to be.   *)
(* A frame on the wire is two units, its header and its body, so that a    *)
(* read may end inside a frame.  Payloads are abstracted to the frame they *)
(* belong to.                                                              *)
(***************************************************************************)
EXTENDS Naturals, Sequences

CONSTANTS
    Children,        \* Children[m]: child frames of the m-th message, 0 if it fits one frame
    QueueSize,       \* capacity of the send and receive queues
    BatchSize,       \* most frames one write carries
    MaxBreaks        \* bound: connection losses in a behaviour

ASSUME NetAssumption ==
    /\ Children \in Seq(Nat)
    /\ QueueSize \in Nat \ {0} /\ BatchSize \in Nat \ {0}
    /\ MaxBreaks \in Nat

Messages == 1 .. Len(Children)
Register == 0    \* the register request a client sends on every new connection

Single(m) == [kind |-> "single", msg |-> m, child |-> 0]
Begin(m)  == [kind |-> "begin",  msg |-> m, child |-> Children[m]]
Child(m, i) == [kind |-> "child", msg |-> m, child |-> i]

\* What SendNetMessage queues for a message: one frame, or a head and its children.
Frames(m) ==
    IF m = Register \/ Children[m] = 0 THEN << Single(m) >>
    ELSE << Begin(m) >> \o [i \in 1 .. Children[m] |-> Child(m, i)]

\* The bodies the upper layer should see for a message.
Payload(m) == IF m = Register \/ Children[m] = 0 THEN << Single(m) >>
              ELSE [i \in 1 .. Children[m] |-> Child(m, i)]

VARIABLES
    senderIsClient, \* fixed at the start: client to server, or server to client
    nextMsg,     \* the next message the upper layer will send
    pending,     \* main thread: frames of the current message not yet queued
    notify,      \* main thread: frames queued, KFNetServices::SendNetMessage to call
    sendQueue,   \* _send_queue
    async,       \* the session is in _send_session, the async callback is due
    sending,     \* _is_sending, as the libuv thread last wrote it
    sendingSeen, \* _is_sending, as the main thread reads it: a FALSE may reach it late
    callback,    \* libuv thread: OnSendCallBack is between OnSendOK and StartSendMessage
    connected,   \* _is_connected (of both ends)
    connectEvent,\* a ConnectEvent the client's main thread has not handled
    wire,        \* units in flight
    recvBuff,    \* _receive_buff: units of a frame that is not complete
    recvQueue,   \* _recv_queue: parsed frames
    delivered,   \* messages handed to the upper layer, oldest first
    breaks,      \* connection losses so far
    overflowed,  \* some frame met a full queue
    hidden,      \* the last frames queued met a FALSE that had not reached the main thread
    writeBroken  \* the write in flight was lost with its connection: no callback will clear sending

mainVars == << nextMsg, pending, notify >>
uvVars   == << async, sending, connected, connectEvent >>
recvVars == << recvBuff, recvQueue, delivered >>
viewVars == << sendingSeen, callback, hidden >>
histVars == << senderIsClient, breaks, overflowed, writeBroken >>
vars == << mainVars, sendQueue, uvVars, viewVars, wire, recvVars, histVars >>

Init ==
    /\ senderIsClient \in BOOLEAN
    /\ nextMsg = 1 /\ pending = << >> /\ notify = FALSE
    /\ sendQueue = << >>
    /\ async = FALSE /\ sending = FALSE /\ connected = TRUE /\ connectEvent = FALSE
    /\ sendingSeen = FALSE /\ callback = FALSE /\ hidden = FALSE
    /\ wire = << >> /\ recvBuff = << >> /\ recvQueue = << >> /\ delivered = << >>
    /\ breaks = 0 /\ overflowed = FALSE /\ writeBroken = FALSE

-----------------------------------------------------------------------------
(* Sender, main thread *)

MainIdle == pending = << >> /\ ~ notify

\* The upper layer calls SendNetMessage; a server has nobody to send to while down.
StartSend ==
    /\ MainIdle
    /\ nextMsg \in Messages
    /\ senderIsClient \/ connected
    /\ pending' = Frames(nextMsg)
    /\ nextMsg' = nextMsg + 1
    /\ UNCHANGED << notify, sendQueue, uvVars, viewVars, wire, recvVars, histVars >>

\* KFTcpClientModule::OnClientConnected: the client registers itself.
OnClientConnected ==
    /\ MainIdle
    /\ connectEvent
    /\ connectEvent' = FALSE
    /\ pending' = Frames(Register)
    /\ UNCHANGED << nextMsg, notify, sendQueue, async, sending, connected, viewVars, wire, recvVars, histVars >>

\* AddSendMessage: a full queue refuses the frame, and the rest of the message
\* is queued all the same.
AddSendMessage ==
    /\ pending # << >>
    /\ pending' = Tail(pending)
    /\ notify' = (Len(pending) = 1)
    /\ IF Len(sendQueue) < QueueSize
       THEN sendQueue' = Append(sendQueue, Head(pending)) /\ UNCHANGED overflowed
       ELSE overflowed' = TRUE /\ UNCHANGED sendQueue
    /\ UNCHANGED << nextMsg, uvVars, viewVars, wire, recvVars, senderIsClient, breaks, writeBroken >>

\* The main thread takes no lock before it looks.
IsNeedSend == connected /\ ~ sendingSeen

\* KFNetServices::SendNetMessage: wake the libuv thread unless it is busy writing.
SendNetMessage ==
    /\ notify
    /\ notify' = FALSE
    /\ async' = (async \/ IsNeedSend)
    /\ hidden' = (connected /\ sendingSeen /\ ~ sending /\ ~ callback)
    /\ UNCHANGED << nextMsg, pending, sendQueue, sending, connected, connectEvent,
                    sendingSeen, callback, wire, recvVars, histVars >>

-----------------------------------------------------------------------------
(* Sender, libuv thread *)

Units(frames) == [k \in 1 .. 2 * Len(frames) |->
                     [half |-> 2 - (k % 2), of |-> frames[(k + 1) \div 2]]]

\* Variant with a bug: a batch that is written but not taken off the queue.
SendQueueMessageKeeps ==
    IF sendQueue = << >> THEN sending' = FALSE /\ UNCHANGED << sendQueue, wire >>
    ELSE \E n \in 1 .. BatchSize :
           /\ n <= Len(sendQueue)
           /\ sendQueue' = SubSeq(sendQueue, n, Len(sendQueue))
           /\ wire' = wire \o Units(SubSeq(sendQueue, 1, n))
           /\ sending' = TRUE

\* StartSendMessage and SendQueueMessage: write a batch, if there is anything to write.
SendQueueMessage ==
    IF sendQueue = << >> THEN sending' = FALSE /\ UNCHANGED << sendQueue, wire >>
    ELSE \E n \in 1 .. BatchSize :
           /\ n <= Len(sendQueue)
           /\ sendQueue' = SubSeq(sendQueue, n + 1, Len(sendQueue))
           /\ wire' = wire \o Units(SubSeq(sendQueue, 1, n))
           /\ sending' = TRUE

\* OnAsyncSendCallBack, which takes a lock first: what the thread stored before
\* has reached the main thread.  SendBuffer's TRUE counts as seen at once: the
\* main thread seeing it late wakes this thread once more.
OnAsyncSend ==
    /\ async /\ ~ callback
    /\ async' = FALSE
    /\ IF connected /\ ~ sending THEN SendQueueMessage
       ELSE UNCHANGED << sendQueue, wire, sending >>
    /\ sendingSeen' = sending'
    /\ UNCHANGED << mainVars, connected, connectEvent, callback, hidden, recvVars, histVars >>

\* OnSendCallBack with status 0 runs OnSendOK: this thread's store, which stays in
\* its store buffer for a while.  With an error status the callback leaves
\* _is_sending set; see Break.
OnSendOK ==
    /\ sending /\ ~ writeBroken
    /\ sending' = FALSE /\ callback' = TRUE
    /\ UNCHANGED << mainVars, sendQueue, async, connected, connectEvent, sendingSeen, hidden,
                    wire, recvVars, histVars >>

\* And then StartSendMessage, which looks at the queue with no fence in between.
StartSendMessage ==
    /\ callback
    /\ callback' = FALSE
    /\ IF connected THEN SendQueueMessage ELSE UNCHANGED << sendQueue, wire, sending >>
    /\ sendingSeen' = (sendingSeen \/ sending')
    /\ UNCHANGED << mainVars, async, connected, connectEvent, hidden, recvVars, histVars >>

\* Variant with a bug: the queue is looked at before the flag is cleared.
OnSendCallBackLooksFirst ==
    /\ sending /\ ~ writeBroken
    /\ IF callback THEN callback' = FALSE /\ sending' = FALSE /\ UNCHANGED << sendQueue, wire >>
       ELSE IF connected /\ sendQueue # << >> THEN SendQueueMessage /\ UNCHANGED callback
       ELSE callback' = TRUE /\ UNCHANGED << sending, sendQueue, wire >>
    /\ UNCHANGED << mainVars, async, connected, connectEvent, sendingSeen, hidden, recvVars, histVars >>

OnSendCallBack == OnSendOK \/ StartSendMessage

\* The store of OnSendOK leaves the store buffer.
StoreReachesMain ==
    /\ sendingSeen # sending
    /\ sendingSeen' = sending
    /\ UNCHANGED << mainVars, sendQueue, uvVars, callback, hidden, wire, recvVars, histVars >>

-----------------------------------------------------------------------------
(* The connection *)

\* OnDisconnect: only _is_connected is reset.  What is in flight is lost.  A write
\* the kernel has taken still completes; any other ends in OnDisconnect too.
Break ==
    /\ connected /\ ~ callback
    /\ breaks < MaxBreaks
    /\ breaks' = breaks + 1
    /\ connected' = FALSE
    /\ wire' = << >>
    /\ writeBroken' \in {writeBroken, writeBroken \/ sending}
    /\ UNCHANGED << mainVars, sendQueue, async, sending, connectEvent, viewVars, recvVars,
                    senderIsClient, overflowed >>

\* Variant with a bug: the accepting end keeps its parse buffer too.
ReconnectKeepsBuffer ==
    /\ ~ connected /\ ~ callback
    /\ connected' = TRUE
    /\ connectEvent' = senderIsClient
    /\ writeBroken' = sending
    /\ recvQueue' = << >>
    /\ UNCHANGED << mainVars, sendQueue, async, sending, viewVars, wire, recvBuff, delivered,
                    senderIsClient, breaks, overflowed >>

\* OnConnect on a KFNetClient object that has been connected before.  The
\* server end is a new KFNetHandle with empty queues and buffers; the client
\* end keeps its queues, its receive buffer and its _is_sending, and TryConnect
\* initialises the handle again, which forgets a write still in flight.
Reconnect ==
    /\ ~ connected /\ ~ callback
    /\ connected' = TRUE
    /\ IF senderIsClient
       THEN /\ connectEvent' = TRUE
            /\ recvBuff' = << >> /\ recvQueue' = << >>
            /\ writeBroken' = sending
            /\ UNCHANGED << pending, notify, sendQueue, async, sending, viewVars >>
       ELSE /\ pending' = << >> /\ notify' = FALSE
            /\ sendQueue' = << >> /\ async' = FALSE /\ sending' = FALSE /\ writeBroken' = FALSE
            /\ sendingSeen' = FALSE /\ hidden' = FALSE /\ UNCHANGED callback
            /\ UNCHANGED << connectEvent, recvBuff, recvQueue >>
    /\ UNCHANGED << nextMsg, wire, delivered, senderIsClient, breaks, overflowed >>

-----------------------------------------------------------------------------
(* Receiver, libuv thread *)

\* ParseBuffToMessage: cut complete frames off the front of the buffer.  A
\* frame is a header and the unit that follows it, whatever that unit is.
Parsed(units) == [i \in 1 .. Len(units) \div 2 |->
                    [head |-> units[2 * i - 1].of, body |-> units[2 * i].of]]

\* Variant with a bug: AddRecvMessage never refuses.
OnRecvDataUnbounded ==
    \E n \in 1 .. Len(wire) :
        LET units  == recvBuff \o SubSeq(wire, 1, n)
        IN /\ wire' = SubSeq(wire, n + 1, Len(wire))
           /\ recvBuff' = IF Len(units) % 2 = 0 THEN << >> ELSE << units[Len(units)] >>
           /\ recvQueue' = recvQueue \o Parsed(units)
           /\ UNCHANGED << mainVars, sendQueue, uvVars, viewVars, delivered, histVars >>

\* OnRecvData, with one AddRecvMessage for each frame cut off.  Frames that do
\* not fit the receive queue are dropped.
OnRecvData ==
    \E n \in 1 .. Len(wire) :
        LET units  == recvBuff \o SubSeq(wire, 1, n)
            frames == Parsed(units)
            room   == QueueSize - Len(recvQueue)
        IN /\ n <= 2 * BatchSize
           /\ wire' = SubSeq(wire, n + 1, Len(wire))
           /\ recvBuff' = IF Len(units) % 2 = 0 THEN << >> ELSE << units[Len(units)] >>
           /\ recvQueue' = recvQueue \o SubSeq(frames, 1, IF Len(frames) < room THEN Len(frames) ELSE room)
           /\ overflowed' = (overflowed \/ Len(frames) > room)
           /\ UNCHANGED << mainVars, sendQueue, uvVars, viewVars, delivered, senderIsClient, breaks, writeBroken >>

-----------------------------------------------------------------------------
(* Receiver, main thread *)

\* KFQueue::Size of the receive queue: a full ring reads as empty.
RecvSize == IF Len(recvQueue) = QueueSize THEN 0 ELSE Len(recvQueue)

\* The children that the head in front of the queue announces.
Announced == Head(recvQueue).head.child

\* PopMessage merges m frames under that head: it stops at the first frame that
\* is no child.
Merges(m) ==
    /\ \A i \in 1 .. m : recvQueue[i + 1].head.kind = "child"
    /\ m < Announced => recvQueue[m + 2].head.kind # "child"

Bodies(frames) == [i \in 1 .. Len(frames) |-> frames[i].body]

\* What the upper layer gets when all m children were there.
Assembled(m) == [msg |-> Head(recvQueue).body.msg, parts |-> Bodies(SubSeq(recvQueue, 2, m + 1))]

\* Variant with a bug: the head is counted twice.
PopSplitOffByOne ==
    /\ recvQueue # << >> /\ Head(recvQueue).head.kind = "begin"
    /\ RecvSize > Announced + 1
    /\ \E m \in 0 .. Announced :
          /\ Merges(m)
          /\ recvQueue' = SubSeq(recvQueue, m + 2, Len(recvQueue))
          /\ delivered' = IF m = Announced THEN Append(delivered, Assembled(m)) ELSE delivered
    /\ UNCHANGED << mainVars, sendQueue, uvVars, viewVars, wire, recvBuff, histVars >>

\* A head of a split message whose children have all arrived, as Size() tells it.
PopSplit ==
    /\ recvQueue # << >> /\ Head(recvQueue).head.kind = "begin"
    /\ RecvSize >= Announced + 1
    /\ \E m \in 0 .. Announced :
          /\ Merges(m)
          /\ recvQueue' = SubSeq(recvQueue, m + 2, Len(recvQueue))
          /\ delivered' = IF m = Announced THEN Append(delivered, Assembled(m)) ELSE delivered
    /\ UNCHANGED << mainVars, sendQueue, uvVars, viewVars, wire, recvBuff, histVars >>

\* A head announcing more children than the queue can ever hold is discarded.
PopHugeSplit ==
    /\ recvQueue # << >> /\ Head(recvQueue).head.kind = "begin"
    /\ RecvSize < Announced + 1 /\ Announced >= QueueSize
    /\ recvQueue' = Tail(recvQueue)
    /\ UNCHANGED << mainVars, sendQueue, uvVars, viewVars, wire, recvBuff, delivered, histVars >>

\* A child with no head in front of it is discarded.
PopStrayChild ==
    /\ recvQueue # << >> /\ Head(recvQueue).head.kind = "child"
    /\ recvQueue' = Tail(recvQueue)
    /\ UNCHANGED << mainVars, sendQueue, uvVars, viewVars, wire, recvBuff, delivered, histVars >>

PopSingle ==
    /\ recvQueue # << >> /\ Head(recvQueue).head.kind = "single"
    /\ delivered' = Append(delivered, [msg |-> Head(recvQueue).head.msg,
                                       parts |-> << Head(recvQueue).body >>])
    /\ recvQueue' = Tail(recvQueue)
    /\ UNCHANGED << mainVars, sendQueue, uvVars, viewVars, wire, recvBuff, histVars >>

PopMessage == PopSplit \/ PopHugeSplit \/ PopStrayChild \/ PopSingle

-----------------------------------------------------------------------------
MainThread == AddSendMessage \/ SendNetMessage \/ OnClientConnected
UvThread == OnAsyncSend \/ OnSendCallBack \/ StoreReachesMain

Next ==
    \/ StartSend \/ MainThread
    \/ UvThread
    \/ Break \/ Reconnect
    \/ OnRecvData \/ PopMessage

Spec == Init /\ [][Next]_vars

\* Both threads of both processes keep running their loops, and a written byte
\* arrives.  A lost connection is retried every five seconds and the peer
\* accepts it.  The upper layer need not send, and nothing forces a break.
FairSpec ==
    /\ Spec
    /\ WF_vars(MainThread) /\ WF_vars(OnAsyncSend) /\ WF_vars(OnSendCallBack)
    /\ WF_vars(StoreReachesMain)
    /\ WF_vars(Reconnect) /\ WF_vars(OnRecvData) /\ WF_vars(PopMessage)

-----------------------------------------------------------------------------
(* Properties *)

Frame == UNION {{Frames(m)[i] : i \in 1 .. Len(Frames(m))} : m \in Messages \cup {Register}}

\* The flags are Booleans, the queues keep to their capacity and hold only frames
\* of some message, and the receive buffer never holds a complete frame.
TypeOK ==
    /\ nextMsg \in 1 .. Len(Children) + 1
    /\ pending \in Seq(Frame) /\ sendQueue \in Seq(Frame)
    /\ Len(sendQueue) <= QueueSize /\ Len(recvQueue) <= QueueSize /\ Len(recvBuff) <= 1
    /\ notify \in BOOLEAN /\ connectEvent \in BOOLEAN /\ connected \in BOOLEAN
    /\ async \in BOOLEAN /\ sending \in BOOLEAN
    /\ sendingSeen \in BOOLEAN /\ callback \in BOOLEAN /\ hidden \in BOOLEAN
    /\ sending => sendingSeen
    /\ overflowed \in BOOLEAN /\ writeBroken \in BOOLEAN
    /\ breaks \in 0 .. MaxBreaks
    /\ writeBroken => sending
    /\ \A i \in 1 .. Len(recvQueue) : recvQueue[i].head \in Frame /\ recvQueue[i].body \in Frame

\* Every message handed to the upper layer is the message that was sent: a
\* split message carries all its own children in order and nobody else's
\* (Tcp消息结构说明.md: "将消息组合成原始消息给上层逻辑使用").
DeliveredIsOriginal ==
    \A i \in 1 .. Len(delivered) : delivered[i].parts = Payload(delivered[i].msg)

\* The same as long as no queue has refused a frame, also across losses of the
\* connection where the accepting end receives, for that end starts each
\* connection afresh.  (A client that receives keeps the beginning of a frame in
\* its buffer and takes it for the beginning of the next connection's first.)
OriginalUnlessOverflow ==
    overflowed \/ (~ senderIsClient /\ breaks > 0) \/ DeliveredIsOriginal

\* Messages are delivered in the order they were sent, each at most once,
\* across batches, partial reads, drops and reconnections.
InOrder ==
    \A i, j \in 1 .. Len(delivered) :
        i < j /\ delivered[i].msg # Register /\ delivered[j].msg # Register =>
            delivered[i].msg < delivered[j].msg

\* No wake-up is lost by the order of the two threads' steps: frames do not stay
\* queued on an open connection because the main thread, queueing them after the
\* writer last looked, saw a write in flight.  Two exceptions.  The processor may
\* hold back the FALSE of OnSendOK until after the writer's look: the frames then
\* wait for the next message or the ping of RunSendPing, twenty seconds later
\* (left out here: it would end any lost wake-up).  A write in flight when the
\* connection broke: OnDisconnect leaves _is_sending set and the client sends
\* nothing on the next connection.
QueueDrains == []<>(sendQueue = << >> \/ ~ connected \/ writeBroken \/ hidden)

HeadComplete ==
    /\ recvQueue # << >> /\ Head(recvQueue).head.kind = "begin"
    /\ Len(recvQueue) > Head(recvQueue).head.child

\* A split message that is complete in the receive queue is taken out of it,
\* unless the queue is full: a full ring has size zero (KFQueue::Size), so
\* PopMessage waits for children it already has.
CompleteIsTaken == []<>(~ HeadComplete \/ Len(recvQueue) = QueueSize)
=============================================================================
