---------------------------- MODULE TxPathProofs ----------------------------
(***************************************************************************)
(* Proofs about TxPath, for any flows, queues, sizes, quota and limits.    *)
(*                                                                         *)
(* TxTypeOK is inductive by itself. That a device with one queue never     *)
(* makes the queue disc requeue needs SingleInv: between DequeuePacket,    *)
(* which looks at the queue, and Transmit, which looks again, nothing stops*)
(* it. That a device queue never discards needs that it is stopped exactly *)
(* while it is full. That no packet waits for nothing needs that packets   *)
(* wait only behind a queue that is full, or was until a packet left it    *)
(* (WaitInv); over several queues, that the quota covers the places left   *)
(* (QuotaInv). That the packets of a flow stay in order and that none      *)
(* vanishes is one induction (WayInv): it needs where packets can be, and  *)
(* that a requeued packet is never beside another on its way out.          *)
(***************************************************************************)
EXTENDS TxPathProperties, ListProofs, FiniteSetTheorems, SequenceTheorems, TLAPS

\* NoPacket is told apart from every packet.
LEMMA NoPacketIsNone == NoPacket \notin Packets
  BY TxConstantsAssumption

\* A packet has a flow, a transmission queue and a number within the bound.
LEMMA PacketParts ==
  ASSUME NEW p \in Packets
  PROVE  p.flow \in Flows /\ Txq(p) \in TxQueues /\ p.id \in 1 .. MaxPackets
  BY TxConstantsAssumption DEF Packets, Txq

LEMMA PacketSize ==
  /\ \A p \in Packets : p.size \in Nat /\ p.size \in Sizes
  /\ Header \in Nat
  <1>1. Sizes \subseteq Nat /\ Header \in Nat
    BY TxConstantsAssumption
  <1>2. \A p \in Packets : p.size \in Sizes
    BY DEF Packets
  <1>. QED
    BY <1>1, <1>2

\* The ranges of the quota and of the history variables contain 0.
LEMMA Zero == 0 \in 0 .. Quota /\ 0 \in 0 .. MaxPackets
  BY TxConstantsAssumption
-----------------------------------------------------------------------------
\* Initially the type invariant holds.
LEMMA TxInitType == Init => TxTypeOK
  <1> SUFFICES ASSUME Init PROVE TxTypeOK
    OBVIOUS
  <1>1. /\ fifo \in [Flows -> Seq(Packets)]
        /\ devQueue \in [TxQueues -> Seq(Packets)]
        /\ sent \in Seq(Packets)
    BY DEF Init, Qdisc!Init
  <1>2. stopped \in [TxQueues -> BOOLEAN] /\ wakeEvents \in Nat
    BY DEF Init
  <1>3. dequeuing \in BOOLEAN /\ (dequeuing <=> pc = "dequeue")
    <2>1. dequeuing = FALSE /\ pc = "idle"
      BY DEF Init, Qdisc!Init
    <2>2. pc # "dequeue"
      BY <2>1
    <2>. QED
      BY <2>1, <2>2, Zenon
  <1>4. /\ pc \in {"idle", "enqueue"} <=> quota = 0
        /\ item # NoPacket <=> pc = "transmit"
    BY DEF Init
  <1>. QED
    BY <1>1, <1>2, <1>3, <1>4, Zero DEF Init, TxTypeOK

\* An arrival preserves the types.
LEMMA SendType ==
  ASSUME TxTypeOK, NEW f \in Flows, NEW s \in Sizes, Send(f, s)
  PROVE  TxTypeOK'
  <1> DEFINE p == [id |-> arrived + 1, flow |-> f, size |-> s]
  <1>1. arrived + 1 \in 1 .. MaxPackets
    BY TxConstantsAssumption DEF TxTypeOK, Send
  <1>2. p \in Packets
    BY <1>1 DEF Packets
  <1>3. pc = "idle" /\ pc' = "enqueue" /\ quota' = quota
    BY DEF Send
  <1>4. fifo' \in [Flows -> Seq(Packets)] /\ dequeuing' = dequeuing
    <2>1. CASE Qdisc!Accept(f, p)
      <3>1. fifo' = [fifo EXCEPT ![f] = Append(@, p)] /\ dequeuing' = dequeuing
        BY <2>1 DEF Qdisc!Accept
      <3>. QED
        BY <3>1, <1>2 DEF TxTypeOK
    <2>2. CASE UNCHANGED qdiscVars
      BY <2>2 DEF qdiscVars, TxTypeOK
    <2>. QED
      BY <2>1, <2>2 DEF Send
  <1>5. dropped' \subseteq 1 .. MaxPackets
    BY <1>1 DEF Send, TxTypeOK
  <1>6. arrived' \in 0 .. MaxPackets
    BY <1>1, TxConstantsAssumption DEF Send, TxTypeOK
  <1>. QED
    BY <1>3, <1>4, <1>5, <1>6 DEF Send, TxTypeOK, devVars

\* A wake-up, or the end of Enqueue, preserves the types.
LEMMA RunBeginType == ASSUME TxTypeOK, WakeUp \/ Enqueued PROVE TxTypeOK'
  <1>1. CASE WakeUp
    BY <1>1, TxConstantsAssumption DEF TxTypeOK, WakeUp, RunBegin, qdiscVars
  <1>2. CASE Enqueued
    BY <1>2, TxConstantsAssumption DEF TxTypeOK, Enqueued, RunBegin, qdiscVars, devVars
  <1>. QED
    BY <1>1, <1>2

\* The head of a flow is a packet, and what is left is a sequence of packets.
LEMMA FifoHead ==
  ASSUME TxTypeOK, NEW f \in Flows, fifo[f] # <<>>
  PROVE  /\ Head(fifo[f]) \in Packets
         /\ [fifo EXCEPT ![f] = Tail(@)] \in [Flows -> Seq(Packets)]
  BY DEF TxTypeOK

\* The steps of Run that do not reach the device preserve the types.
LEMMA QdiscStepType ==
  ASSUME TxTypeOK,
         \/ TakeRequeued \/ CallDequeue \/ RunBlocked \/ NothingDequeued \/ Requeue
         \/ \E f \in Flows : QdiscDrop(f) \/ Dequeued(f)
  PROVE  TxTypeOK'
  <1>1. CASE TakeRequeued
    BY <1>1, NoPacketIsNone DEF TakeRequeued, TxTypeOK, qdiscVars, devVars
  <1>2. CASE CallDequeue
    BY <1>2 DEF CallDequeue, Qdisc!Call, TxTypeOK, devVars
  <1>3. CASE RunBlocked
    BY <1>3, TxConstantsAssumption DEF RunBlocked, RunEnd, TxTypeOK, qdiscVars, devVars
  <1>4. CASE NothingDequeued
    <2>1. /\ fifo' = fifo /\ dequeuing' = FALSE
          /\ pc' = "idle" /\ quota' = 0
          /\ item' = item /\ pc = "dequeue"
      BY <1>4 DEF NothingDequeued, RunEnd, Qdisc!ReturnNothing
    <2>2. dequeuing' \in BOOLEAN /\ (dequeuing' <=> pc' = "dequeue")
      <3>1. pc' # "dequeue"
        BY <2>1
      <3>. QED
        BY <2>1, <3>1, Zenon
    <2>3. /\ pc' \in {"idle", "enqueue"} <=> quota' = 0
          /\ item' # NoPacket <=> pc' = "transmit"
      BY <2>1 DEF TxTypeOK
    <2>. QED
      BY <2>1, <2>2, <2>3, <1>4, Zero DEF NothingDequeued, TxTypeOK, devVars
  <1>5. CASE Requeue
    BY <1>5, TxConstantsAssumption DEF Requeue, RunEnd, TxTypeOK, qdiscVars, devVars
  <1>6. ASSUME NEW f \in Flows, QdiscDrop(f) PROVE TxTypeOK'
    <2>1. /\ fifo[f] # <<>>
          /\ fifo' = [fifo EXCEPT ![f] = Tail(@)]
          /\ dequeuing' = dequeuing
          /\ dropped' = dropped \union {Head(fifo[f]).id}
      BY <1>6 DEF QdiscDrop, Qdisc!DropHead
    <2>2. fifo' \in [Flows -> Seq(Packets)] /\ dropped' \subseteq 1 .. MaxPackets
      BY <2>1, FifoHead, PacketParts DEF TxTypeOK
    <2>. QED
      BY <2>1, <2>2, <1>6 DEF QdiscDrop, TxTypeOK, runVars, devVars
  <1>7. ASSUME NEW f \in Flows, Dequeued(f) PROVE TxTypeOK'
    <2>1. /\ fifo[f] # <<>>
          /\ fifo' = [fifo EXCEPT ![f] = Tail(@)]
          /\ dequeuing' = FALSE
      BY <1>7 DEF Dequeued, Qdisc!Deliver
    <2>2. fifo' \in [Flows -> Seq(Packets)] /\ item' \in Packets
      BY <2>1, <1>7, FifoHead DEF Dequeued
    <2>. QED
      BY <2>1, <2>2, <1>7, NoPacketIsNone DEF Dequeued, TxTypeOK, devVars
  <1>. QED
    BY <1>1, <1>2, <1>3, <1>4, <1>5, <1>6, <1>7

\* What the device does to its variables.
DevTypeOK == /\ stopped \in [TxQueues -> BOOLEAN]
             /\ wakeEvents \in Nat
             /\ devQueue \in [TxQueues -> Seq(Packets)]
             /\ current \in Packets \union {NoPacket}
             /\ dropped \subseteq 1 .. MaxPackets

\* A packet leaves a device queue: the types are preserved.
LEMMA PacketDequeuedType ==
  ASSUME DevTypeOK, NEW q \in TxQueues, NEW s \in Seq(Packets), NEW b,
         PacketDequeued(q, s, b)
  PROVE  /\ stopped' \in [TxQueues -> BOOLEAN]
         /\ wakeEvents' \in Nat
         /\ devQueue' \in [TxQueues -> Seq(Packets)]
  BY DEF DevTypeOK, PacketDequeued

\* A packet is given to the device: the types are preserved.
LEMMA DevSendType ==
  ASSUME DevTypeOK, NEW p \in Packets, DevSend(p)
  PROVE  DevTypeOK'
  <1> DEFINE q == Txq(p)
             s == Append(devQueue[q], p)
  <1>1. q \in TxQueues /\ p.id \in 1 .. MaxPackets
    BY PacketParts
  <1>2. s \in Seq(Packets) /\ Head(s) \in Packets /\ Tail(s) \in Seq(Packets)
    BY <1>1 DEF DevTypeOK
  <1>3. CASE ~Fits(s)
    BY <1>1, <1>3 DEF DevSend, DevTypeOK
  <1>4. CASE Fits(s) /\ current = NoPacket
    <2>1. /\ dropped' = dropped
          /\ current' = Head(s)
          /\ PacketDequeued(q, Tail(s), stopped[q] \/ ~Room(s))
      BY <1>4 DEF DevSend
    <2>. HIDE DEF q, s
    <2>. QED
      BY <2>1, <1>1, <1>2, PacketDequeuedType DEF DevTypeOK
  <1>5. CASE Fits(s) /\ current # NoPacket
    <2>1. /\ dropped' = dropped /\ current' = current /\ wakeEvents' = wakeEvents
          /\ devQueue' = [devQueue EXCEPT ![q] = s]
          /\ stopped' = [stopped EXCEPT ![q] = @ \/ ~Room(s)]
      BY <1>5 DEF DevSend
    <2>. HIDE DEF q, s
    <2>. QED
      BY <2>1, <1>1, <1>2 DEF DevTypeOK
  <1>. QED
    BY <1>3, <1>4, <1>5

\* Transmit preserves the types.
LEMMA TransmitType == ASSUME TxTypeOK, Transmit PROVE TxTypeOK'
  <1>1. item \in Packets /\ DevSend(item) /\ DevTypeOK
    BY DEF Transmit, TxTypeOK, DevTypeOK
  <1>2. DevTypeOK'
    BY <1>1, DevSendType
  <1>3. /\ quota' \in 0 .. Quota
        /\ pc' \in {"idle", "restart"}
        /\ pc' \in {"idle", "enqueue"} <=> quota' = 0
    <2>1. quota \in 1 .. Quota /\ Quota \in Nat
      BY TxConstantsAssumption DEF Transmit, TxTypeOK
    <2>2. \/ pc' = "idle" /\ quota' = 0
          \/ quota # 1 /\ pc' = "restart" /\ quota' = quota - 1
      BY DEF Transmit, RunEnd
    <2>. QED
      BY <2>1, <2>2
  <1>. QED
    BY <1>2, <1>3 DEF Transmit, TxTypeOK, DevTypeOK, qdiscVars

\* The end of a transmission preserves the types.
LEMMA TransmitCompleteType == ASSUME TxTypeOK, TransmitComplete PROVE TxTypeOK'
  <1>1. sent' \in Seq(Packets)
    BY DEF TransmitComplete, TxTypeOK
  <1>2. /\ stopped' \in [TxQueues -> BOOLEAN]
        /\ wakeEvents' \in Nat
        /\ devQueue' \in [TxQueues -> Seq(Packets)]
        /\ current' \in Packets \union {NoPacket}
    <2>1. CASE current' = NoPacket /\ UNCHANGED <<stopped, wakeEvents, devQueue>>
      BY <2>1 DEF TxTypeOK
    <2>2. ASSUME NEW q \in TxQueues,
                 devQueue[q] # <<>>,
                 current' = Head(devQueue[q]),
                 PacketDequeued(q, Tail(devQueue[q]), stopped[q])
          PROVE  /\ stopped' \in [TxQueues -> BOOLEAN]
                 /\ wakeEvents' \in Nat
                 /\ devQueue' \in [TxQueues -> Seq(Packets)]
                 /\ current' \in Packets \union {NoPacket}
      <3>1. Head(devQueue[q]) \in Packets /\ Tail(devQueue[q]) \in Seq(Packets)
        BY <2>2 DEF TxTypeOK
      <3>2. DevTypeOK
        BY DEF TxTypeOK, DevTypeOK
      <3>. QED
        BY <3>1, <3>2, <2>2, PacketDequeuedType
    <2>. QED
      BY <2>1, <2>2 DEF TransmitComplete
  <1>. QED
    BY <1>1, <1>2 DEF TransmitComplete, TxTypeOK, qdiscVars, runVars

\* Every step preserves the types.
LEMMA TxNextType == TxTypeOK /\ [Next]_vars => TxTypeOK'
  <1> SUFFICES ASSUME TxTypeOK, [Next]_vars PROVE TxTypeOK'
    OBVIOUS
  <1>1. ASSUME NEW f \in Flows, NEW s \in Sizes, Send(f, s) PROVE TxTypeOK'
    BY <1>1, SendType
  <1>2. CASE WakeUp
    BY <1>2, RunBeginType
  <1>3. CASE RunStep
    BY <1>3, RunBeginType, QdiscStepType, TransmitType DEF RunStep
  <1>4. CASE TransmitComplete
    BY <1>4, TransmitCompleteType
  <1>5. CASE UNCHANGED vars
    BY <1>5 DEF TxTypeOK, vars, qdiscVars, runVars, devVars
  <1>. QED
    BY <1>1, <1>2, <1>3, <1>4, <1>5 DEF Next

\* Every variable keeps its type; Restart holds a packet exactly while it is
\* about to transmit one, and Run has quota left exactly while it runs.
THEOREM TxTypeCorrect == Spec => []TxTypeOK
  <1>. QED
    BY TxInitType, TxNextType, PTL DEF Spec
-----------------------------------------------------------------------------
\* Between DequeuePacket and Transmit the only queue of the device stays as
\* DequeuePacket found it: not stopped.
SingleInv == Cardinality(TxQueues) = 1 =>
               /\ requeued = NoPacket
               /\ pc \in {"dequeue", "transmit"} => \A q \in TxQueues : ~stopped[q]

\* If there is one queue and some queue is not stopped, no queue is.
LEMMA OnlyQueue ==
  ASSUME Cardinality(TxQueues) = 1, \E q \in TxQueues : ~stopped[q]
  PROVE  \A q \in TxQueues : ~stopped[q]
  <1>1. PICK q : TxQueues = {q}
    BY TxConstantsAssumption, FS_Singleton
  <1>. QED
    BY <1>1

\* Every step preserves SingleInv.
LEMMA NextSingleInv == TxTypeOK /\ SingleInv /\ [Next]_vars => SingleInv'
  <1> SUFFICES ASSUME TxTypeOK, SingleInv, [Next]_vars, Cardinality(TxQueues) = 1
               PROVE  /\ requeued' = NoPacket
                      /\ pc' \in {"dequeue", "transmit"} =>
                           \A q \in TxQueues : ~stopped'[q]
    BY DEF SingleInv
  <1>0. /\ requeued = NoPacket
        /\ pc \in {"dequeue", "transmit"} => \A q \in TxQueues : ~stopped[q]
    BY DEF SingleInv
  <1>1. ASSUME NEW f \in Flows, NEW s \in Sizes, Send(f, s)
        PROVE  requeued' = requeued /\ pc' = "enqueue"
    BY <1>1 DEF Send
  <1>2. CASE WakeUp \/ Enqueued
    BY <1>0, <1>2 DEF WakeUp, Enqueued, RunBegin
  <1>3. CASE TakeRequeued
    BY <1>0, <1>3 DEF TakeRequeued
  <1>4. CASE CallDequeue
    <2>1. \A q \in TxQueues : ~stopped[q]
      BY <1>4, OnlyQueue DEF CallDequeue, MayDequeue
    <2>. QED
      BY <2>1, <1>0, <1>4 DEF CallDequeue, devVars
  <1>5. CASE RunBlocked \/ NothingDequeued
    BY <1>0, <1>5 DEF RunBlocked, NothingDequeued, RunEnd
  <1>6. ASSUME NEW f \in Flows, QdiscDrop(f) \/ Dequeued(f)
        PROVE  /\ requeued' = requeued /\ stopped' = stopped
               /\ pc = "dequeue" \/ pc' = pc
    BY <1>6 DEF QdiscDrop, Dequeued, runVars, devVars
  <1>7. ~Requeue
    <2>1. SUFFICES ASSUME pc = "transmit" PROVE ~stopped[Txq(item)]
      BY DEF Requeue
    <2>2. Txq(item) \in TxQueues
      BY <2>1, PacketParts DEF TxTypeOK
    <2>. QED
      BY <2>1, <2>2, <1>0
  <1>8. CASE Transmit
    BY <1>0, <1>8 DEF Transmit, RunEnd
  <1>9. CASE TransmitComplete
    BY <1>0, <1>9 DEF TransmitComplete, runVars
  <1>10. CASE UNCHANGED vars
    BY <1>0, <1>10 DEF vars, runVars, devVars
  <1>. QED
    BY <1>0, <1>1, <1>2, <1>3, <1>4, <1>5, <1>6, <1>7, <1>8, <1>9, <1>10
    DEF Next, RunStep

\* Over a device with a single queue no packet is ever requeued, as the
\* documentation of the queue discs says.
THEOREM NeverRequeuesOverOneQueue == Spec => []SingleQueueNeverRequeues
  <1>1. Init => SingleInv
    BY DEF Init, SingleInv
  <1>2. SingleInv => SingleQueueNeverRequeues
    BY DEF SingleInv, SingleQueueNeverRequeues
  <1>. QED
    BY <1>1, <1>2, NextSingleInv, TxTypeCorrect, PTL DEF Spec
-----------------------------------------------------------------------------
\* If the device queues are limited in bytes, the MTU, by which they measure the
\* room for another packet, must count the header they count with each packet,
\* and an empty queue must have room. A limit in packets needs no such care.
MtuCountsHeader == DevMode = "bytes" => /\ \A s \in Sizes : s + Header <= Mtu
                                        /\ Mtu <= DevMaxSize

\* What the packets of a queue take on the wire.
Wired(s) == [i \in DOMAIN s |-> s[i].size + Header]

\* A packet that joins a queue, or leaves it, changes the bytes by its own.
LEMMA BytesAppend ==
  ASSUME NEW s \in Seq(Packets), NEW p \in Packets
  PROVE  /\ Bytes(s) \in Int
         /\ Bytes(Append(s, p)) = Bytes(s) + (p.size + Header)
  <1>1. \A r \in Packets : r.size + Header \in Int
    BY PacketSize
  <1>2. Wired(s) \in Seq(Int)
    BY <1>1 DEF Wired
  <1>3. Wired(Append(s, p)) = Append(Wired(s), p.size + Header)
    BY <1>1 DEF Wired
  <1>. QED
    BY <1>1, <1>2, <1>3, SumInt, SumAppend DEF Bytes, Wired

LEMMA BytesTail ==
  ASSUME NEW s \in Seq(Packets), s # <<>>
  PROVE  Bytes(Tail(s)) \in Int /\ Bytes(Tail(s)) <= Bytes(s)
  <1>1. \A r \in Packets : r.size + Header \in Int /\ r.size + Header >= 0
    BY PacketSize
  <1>2. Wired(s) \in Seq(Int) /\ Wired(s) # <<>>
    BY <1>1 DEF Wired
  <1>3. Wired(Tail(s)) = Tail(Wired(s)) /\ Head(Wired(s)) >= 0
    BY <1>1 DEF Wired
  <1>4. Tail(Wired(s)) \in Seq(Int) /\ Head(Wired(s)) \in Int
    BY <1>2
  <1>5. Sum(Wired(s)) = Head(Wired(s)) + Sum(Tail(Wired(s)))
    BY <1>2, SumTail
  <1>6. Sum(Tail(Wired(s))) \in Int
    BY <1>4, SumInt
  <1>7. Sum(Tail(Wired(s))) <= Sum(Wired(s))
    BY <1>3, <1>4, <1>5, <1>6
  <1>. QED
    BY <1>3, <1>6, <1>7 DEF Bytes, Wired

\* An empty queue has room; a queue that has room has it still when a packet has
\* left, and takes any packet.
LEMMA RoomFacts ==
  ASSUME MtuCountsHeader, NEW s \in Seq(Packets)
  PROVE  /\ Room(<<>>)
         /\ s # <<>> /\ Room(s) => Room(Tail(s))
         /\ \A p \in Packets : Room(s) => Fits(Append(s, p))
  <1>1. CASE DevMode = "packets"
    BY <1>1, TxConstantsAssumption DEF Room, Fits
  <1>2. CASE DevMode # "packets"
    <2>1. DevMode = "bytes" /\ {Mtu, DevMaxSize, Header} \subseteq Nat
      BY <1>2, TxConstantsAssumption
    <2>2. Mtu <= DevMaxSize /\ \A p \in Packets : /\ p.size \in Nat
                                                  /\ p.size + Header <= Mtu
      BY <2>1, TxConstantsAssumption DEF MtuCountsHeader, Packets
    <2>3. Bytes(<<>>) = 0
      <3>1. Wired(<<>>) = <<>>
        BY DEF Wired
      <3>. QED
        BY <3>1, SumEmpty DEF Bytes, Wired
    <2>4. Room(<<>>)
      BY <1>2, <2>1, <2>2, <2>3 DEF Room
    <2>5. ASSUME s # <<>>, Room(s) PROVE Room(Tail(s))
      <3>1. Bytes(s) + Mtu <= DevMaxSize
        BY <1>2, <2>5 DEF Room
      <3>2. /\ Bytes(s) \in Int /\ Bytes(Tail(s)) \in Int
            /\ Bytes(Tail(s)) <= Bytes(s)
        BY <2>5, BytesTail, SumInt, BytesAppend, HeadTailProperties
      <3>3. Bytes(Tail(s)) + Mtu <= DevMaxSize
        BY <2>1, <3>1, <3>2
      <3>. QED
        BY <1>2, <3>3 DEF Room
    <2>6. ASSUME NEW p \in Packets, Room(s) PROVE Fits(Append(s, p))
      <3>1. Bytes(s) + Mtu <= DevMaxSize
        BY <1>2, <2>6 DEF Room
      <3>2. Bytes(s) \in Int /\ Bytes(Append(s, p)) = Bytes(s) + (p.size + Header)
        BY BytesAppend
      <3>3. Bytes(Append(s, p)) <= DevMaxSize
        BY <2>1, <2>2, <3>1, <3>2
      <3>. QED
        BY <1>2, <3>3 DEF Fits
    <2>. QED
      BY <2>4, <2>5, <2>6
  <1>. QED
    BY <1>1, <1>2

\* With a limit in packets there is room unless the queue is full.
LEMMA PacketRoom ==
  ASSUME DevMode = "packets", NEW s \in Seq(Packets)
  PROVE  /\ Room(s) <=> Len(s) < DevMaxSize
         /\ Fits(s) <=> Len(s) <= DevMaxSize
  BY DEF Room, Fits

LEMMA PacketsNeedNoMtu == DevMode = "packets" => MtuCountsHeader
  BY DEF MtuCountsHeader

\* StoppedIffFull, of the queues as they are after a step.
LEMMA NextStoppedIffFull ==
  StoppedIffFull' <=> \A r \in TxQueues : stopped'[r] <=> ~Room(devQueue'[r])
  BY DEF StoppedIffFull, Room, Bytes, Sum

\* A packet that leaves a queue leaves the flag as the room says, if the flag
\* was set for lack of room.
LEMMA PacketDequeuedStopped ==
  ASSUME MtuCountsHeader, DevTypeOK, NEW q \in TxQueues,
         NEW s \in Seq(Packets), s # <<>>,
         \A r \in TxQueues \ {q} : stopped[r] <=> ~Room(devQueue[r]),
         PacketDequeued(q, Tail(s), ~Room(s))
  PROVE  StoppedIffFull'
  <1>1. /\ devQueue' = [devQueue EXCEPT ![q] = Tail(s)]
        /\ stopped' = [stopped EXCEPT ![q] = ~Room(s) /\ ~Room(Tail(s))]
    BY DEF PacketDequeued
  <1>2. Room(s) => Room(Tail(s))
    BY RoomFacts
  <1>3. stopped'[q] <=> ~Room(devQueue'[q])
    BY <1>1, <1>2 DEF DevTypeOK
  <1>4. \A r \in TxQueues \ {q} :
          stopped'[r] = stopped[r] /\ devQueue'[r] = devQueue[r]
    BY <1>1 DEF DevTypeOK
  <1>5. \A r \in TxQueues : stopped'[r] <=> ~Room(devQueue'[r])
    BY <1>3, <1>4
  <1>. QED
    BY <1>5, NextStoppedIffFull

\* A packet is handed to the device only if its queue has room, and so fits.
LEMMA TransmitFits ==
  ASSUME MtuCountsHeader, TxTypeOK, StoppedIffFull, Transmit
  PROVE  /\ item \in Packets /\ Txq(item) \in TxQueues
         /\ Fits(Append(devQueue[Txq(item)], item))
  <1>1. item \in Packets /\ Txq(item) \in TxQueues
    BY PacketParts DEF Transmit, TxTypeOK
  <1>2. devQueue[Txq(item)] \in Seq(Packets)
    BY <1>1 DEF TxTypeOK
  <1>3. Room(devQueue[Txq(item)])
    BY <1>1 DEF Transmit, StoppedIffFull
  <1>. QED
    BY <1>1, <1>2, <1>3, RoomFacts

\* Every step keeps the flags of the device queues in line with their room.
LEMMA NextStopped ==
  ASSUME MtuCountsHeader
  PROVE  TxTypeOK /\ StoppedIffFull /\ [Next]_vars => StoppedIffFull'
  <1> SUFFICES ASSUME TxTypeOK, StoppedIffFull, [Next]_vars PROVE StoppedIffFull'
    OBVIOUS
  <1>0. DevTypeOK
    BY DEF TxTypeOK, DevTypeOK
  <1>1. CASE stopped' = stopped /\ devQueue' = devQueue
    BY <1>1, NextStoppedIffFull DEF StoppedIffFull
  <1>2. CASE Transmit
    <2> DEFINE q == Txq(item)
               s == Append(devQueue[q], item)
    <2>1. item \in Packets /\ q \in TxQueues /\ Fits(s) /\ ~stopped[q]
      BY <1>2, TransmitFits DEF Transmit
    <2>2. s \in Seq(Packets) /\ s # <<>>
      <3>. HIDE DEF q
      <3>1. devQueue[q] \in Seq(Packets)
        BY <2>1 DEF TxTypeOK
      <3>. QED
        BY <3>1, <2>1
    <2>3. DevSend(item)
      BY <1>2 DEF Transmit
    <2>4. CASE current = NoPacket
      <3>1. PacketDequeued(q, Tail(s), stopped[q] \/ ~Room(s))
        BY <2>1, <2>3, <2>4 DEF DevSend
      <3>2. (stopped[q] \/ ~Room(s)) = ~Room(s)
        BY <2>1
      <3>3. PacketDequeued(q, Tail(s), ~Room(s))
        BY <3>1, <3>2
      <3>. HIDE DEF q, s
      <3>. QED
        BY <3>3, <2>1, <2>2, <1>0, PacketDequeuedStopped DEF StoppedIffFull
    <2>5. CASE current # NoPacket
      <3>1. /\ devQueue' = [devQueue EXCEPT ![q] = s]
            /\ stopped' = [stopped EXCEPT ![q] = @ \/ ~Room(s)]
        BY <2>1, <2>3, <2>5 DEF DevSend
      <3>. HIDE DEF q, s
      <3>2. stopped'[q] <=> ~Room(devQueue'[q])
        BY <3>1, <2>1 DEF TxTypeOK
      <3>3. \A r \in TxQueues \ {q} :
              stopped'[r] = stopped[r] /\ devQueue'[r] = devQueue[r]
        BY <3>1 DEF TxTypeOK
      <3>4. \A r \in TxQueues : stopped'[r] <=> ~Room(devQueue'[r])
        BY <3>2, <3>3 DEF StoppedIffFull
      <3>. QED
        BY <3>4, NextStoppedIffFull
    <2>. QED
      BY <2>4, <2>5
  <1>3. CASE TransmitComplete
    <2>1. ASSUME NEW q \in TxQueues, devQueue[q] # <<>>,
                 PacketDequeued(q, Tail(devQueue[q]), stopped[q])
          PROVE  StoppedIffFull'
      <3>1. stopped[q] = ~Room(devQueue[q])
        <4>1. stopped[q] \in BOOLEAN /\ (stopped[q] <=> ~Room(devQueue[q]))
          BY DEF StoppedIffFull, TxTypeOK
        <4>. QED
          BY <4>1, Zenon
      <3>2. PacketDequeued(q, Tail(devQueue[q]), ~Room(devQueue[q]))
        BY <2>1, <3>1
      <3>3. devQueue[q] \in Seq(Packets)
        BY DEF TxTypeOK
      <3>. QED
        BY <3>2, <3>3, <2>1, <1>0, PacketDequeuedStopped DEF StoppedIffFull
    <2>. QED
      BY <1>1, <1>3, <2>1 DEF TransmitComplete
  <1>4. \/ Transmit \/ TransmitComplete
        \/ stopped' = stopped /\ devQueue' = devQueue
    BY DEF Next, RunStep, Send, Enqueued, WakeUp, TakeRequeued, CallDequeue, RunBlocked,
           QdiscDrop, Dequeued, NothingDequeued, Requeue, vars, devVars
  <1>. QED
    BY <1>1, <1>2, <1>3, <1>4

\* At the beginning all queues are empty, and have room.
LEMMA InitStopped == ASSUME MtuCountsHeader PROVE Init => StoppedIffFull
  <1>1. Room(<<>>)
    <2>1. <<>> \in Seq(Packets)
      OBVIOUS
    <2>. QED
      BY <2>1, RoomFacts
  <1>. QED
    BY <1>1 DEF Init, StoppedIffFull

\* A device queue is stopped exactly while it has no room for another packet, if
\* it measures in packets, or in bytes with an MTU that counts the header: no
\* wake-up comes too early, and none is forgotten.
THEOREM StopsExactlyWhenFull ==
  ASSUME MtuCountsHeader
  PROVE  Spec => []StoppedIffFull
  <1>1. Init => StoppedIffFull
    BY InitStopped
  <1>. QED
    BY <1>1, NextStopped, TxTypeCorrect, PTL DEF Spec

\* Such a device takes every packet that the queue disc hands to it.
THEOREM DeviceTakesEveryPacket ==
  ASSUME MtuCountsHeader
  PROVE  Spec => DeviceNeverDiscards
  <1>1. TxTypeOK /\ StoppedIffFull /\ [Next]_vars =>
          [pc = "transmit" => dropped' = dropped]_vars
    <2> SUFFICES ASSUME TxTypeOK, StoppedIffFull, [Next]_vars, pc = "transmit"
                 PROVE  dropped' = dropped
      OBVIOUS
    <2>1. CASE Transmit
      BY <2>1, TransmitFits DEF Transmit, DevSend
    <2>2. CASE Requeue \/ UNCHANGED vars
      BY <2>2 DEF Requeue, vars
    <2>. QED
      BY <2>1, <2>2 DEF Next, RunStep, Send, Enqueued, WakeUp, TakeRequeued,
                        CallDequeue, RunBlocked, QdiscDrop, Dequeued, NothingDequeued,
                        TransmitComplete
  <1>. QED
    BY <1>1, StopsExactlyWhenFull, TxTypeCorrect, PTL DEF Spec, DeviceNeverDiscards
-----------------------------------------------------------------------------
\* Over a device with one queue, limited in packets, no packet is left waiting,
\* whatever the quota. Packets wait only behind a queue that was full, and a
\* full queue that loses a packet has room for one: the Run that follows fills
\* it again with the first packet it is given. A Run that begins while nothing
\* waits has one packet to transmit.
DevInv == /\ \A q \in TxQueues : Len(devQueue[q]) <= DevMaxSize
          /\ current = NoPacket => \A q \in TxQueues : devQueue[q] = <<>>

AlmostFull == \A q \in TxQueues : Len(devQueue[q]) >= DevMaxSize - 1
OneLeft    == \A f, g \in Flows : fifo[f] # <<>> /\ fifo[g] # <<>> =>
                                    f = g /\ Tail(fifo[f]) = <<>>
WaitInv ==
  /\ pc = "idle" /\ Waiting => /\ AlmostFull
                               /\ wakeEvents > 0 \/ \E q \in TxQueues : stopped[q]
  /\ pc \in {"enqueue", "restart", "dequeue"} => OneLeft \/ AlmostFull
  /\ pc = "transmit" => QdiscEmpty \/ AlmostFull

ReasonInv == TxTypeOK /\ StoppedIffFull /\ SingleInv /\ DevInv /\ WaitInv

\* What Transmit does to the device: the packet goes into the queue or, if the
\* transmitter is free, through the queue to the wire.
LEMMA TransmitEffect ==
  ASSUME DevMode = "packets", TxTypeOK, StoppedIffFull, DevInv, Transmit
  PROVE  LET q == Txq(item)
             s == Append(devQueue[q], item)
         IN  /\ q \in TxQueues /\ item \in Packets /\ s \in Seq(Packets)
             /\ Len(s) = Len(devQueue[q]) + 1 /\ Len(s) <= DevMaxSize
             /\ \/ /\ current # NoPacket /\ current' = current
                   /\ devQueue' = [devQueue EXCEPT ![q] = s]
                \/ /\ current = NoPacket /\ current' = Head(s)
                   /\ PacketDequeued(q, Tail(s), ~Room(s))
  <1> DEFINE q == Txq(item)
             s == Append(devQueue[q], item)
  <1>1. item \in Packets /\ q \in TxQueues /\ Fits(s) /\ ~stopped[q] /\ DevSend(item)
    BY PacketsNeedNoMtu, TransmitFits DEF Transmit
  <1>2. devQueue[q] \in Seq(Packets)
    BY <1>1 DEF TxTypeOK
  <1>3. s \in Seq(Packets) /\ Len(s) = Len(devQueue[q]) + 1
    BY <1>1, <1>2
  <1>4. Len(s) <= DevMaxSize
    BY <1>1, <1>3, PacketRoom
  <1>5. CASE current = NoPacket
    <2>1. current' = Head(s) /\ PacketDequeued(q, Tail(s), stopped[q] \/ ~Room(s))
      BY <1>1, <1>5 DEF DevSend
    <2>2. (stopped[q] \/ ~Room(s)) = ~Room(s)
      BY <1>1
    <2>. QED
      BY <1>1, <1>3, <1>4, <1>5, <2>1, <2>2
  <1>6. CASE current # NoPacket
    <2>1. devQueue' = [devQueue EXCEPT ![q] = s] /\ current' = current
      BY <1>1, <1>6 DEF DevSend
    <2>. QED
      BY <1>1, <1>3, <1>4, <1>6, <2>1
  <1>. QED
    BY <1>5, <1>6

\* A step that leaves the device queues and the transmitter alone.
LEMMA SameDev ==
  ASSUME DevInv, UNCHANGED <<devQueue, current>>
  PROVE  DevInv' /\ (AlmostFull' <=> AlmostFull)
  BY DEF DevInv, AlmostFull

\* A packet goes through a queue to the wire: the queue is as long as before.
LEMMA HeadOfAppend ==
  ASSUME NEW s \in Seq(Packets), NEW p \in Packets
  PROVE  /\ Head(Append(s, p)) \in Packets
         /\ Tail(Append(s, p)) \in Seq(Packets)
         /\ Len(Tail(Append(s, p))) = Len(s)
  <1> DEFINE a == Append(s, p)
  <1>1. a \in Seq(Packets) /\ Len(a) = Len(s) + 1 /\ Len(s) \in Nat
    OBVIOUS
  <1> HIDE DEF a
  <1>2. a # <<>>
    BY <1>1
  <1>. QED
    BY <1>1, <1>2 DEF a

\* No step puts more packets in a device queue than its limit, and packets are in
\* one only while the transmitter is busy.
LEMMA NextDevInv ==
  ASSUME DevMode = "packets", TxTypeOK, StoppedIffFull, DevInv, [Next]_vars
  PROVE  DevInv'
  <1>1. CASE Transmit
    <2> DEFINE q == Txq(item)
               s == Append(devQueue[q], item)
    <2>1. /\ q \in TxQueues /\ item \in Packets /\ s \in Seq(Packets)
          /\ Len(s) = Len(devQueue[q]) + 1 /\ Len(s) <= DevMaxSize
          /\ \/ /\ current # NoPacket /\ current' = current
                /\ devQueue' = [devQueue EXCEPT ![q] = s]
             \/ /\ current = NoPacket /\ current' = Head(s)
                /\ PacketDequeued(q, Tail(s), ~Room(s))
      BY <1>1, TransmitEffect
    <2>2. devQueue[q] \in Seq(Packets)
      BY <2>1 DEF TxTypeOK
    <2> HIDE DEF q
    <2>3. CASE current # NoPacket /\ current' = current
               /\ devQueue' = [devQueue EXCEPT ![q] = s]
      <3>1. Len(devQueue'[q]) <= DevMaxSize /\ \A r \in TxQueues \ {q} :
                                                  devQueue'[r] = devQueue[r]
        BY <2>1, <2>3 DEF TxTypeOK
      <3>. QED
        BY <2>3, <3>1 DEF DevInv
    <2>4. CASE current' = Head(s) /\ PacketDequeued(q, Tail(s), ~Room(s))
      <3>1. /\ Head(s) \in Packets /\ Tail(s) \in Seq(Packets)
            /\ Len(Tail(s)) = Len(devQueue[q])
        BY <2>1, <2>2, HeadOfAppend
      <3>2. devQueue' = [devQueue EXCEPT ![q] = Tail(s)]
        BY <2>4 DEF PacketDequeued
      <3> HIDE DEF s
      <3>3. \A r \in TxQueues : Len(devQueue'[r]) <= DevMaxSize
        BY <2>1, <3>1, <3>2 DEF DevInv, TxTypeOK
      <3>4. current' # NoPacket
        BY <2>4, <3>1, NoPacketIsNone
      <3>. QED
        BY <3>3, <3>4 DEF DevInv
    <2>. QED
      BY <2>1, <2>3, <2>4
  <1>2. CASE TransmitComplete
    <2>1. CASE /\ \A q \in TxQueues : devQueue[q] = <<>>
               /\ UNCHANGED devQueue
      BY <2>1 DEF DevInv
    <2>2. ASSUME NEW q \in TxQueues, devQueue[q] # <<>>,
                 current' = Head(devQueue[q]),
                 PacketDequeued(q, Tail(devQueue[q]), stopped[q])
          PROVE  DevInv'
      <3>1. devQueue[q] \in Seq(Packets)
        BY DEF TxTypeOK
      <3>2. /\ Head(devQueue[q]) \in Packets
            /\ Len(Tail(devQueue[q])) = Len(devQueue[q]) - 1
            /\ Len(devQueue[q]) \in Nat
        BY <2>2, <3>1
      <3>3. devQueue' = [devQueue EXCEPT ![q] = Tail(devQueue[q])]
        BY <2>2 DEF PacketDequeued
      <3>4. Len(Tail(devQueue[q])) <= DevMaxSize
        BY <3>2, TxConstantsAssumption DEF DevInv
      <3>5. \A r \in TxQueues : Len(devQueue'[r]) <= DevMaxSize
        BY <3>3, <3>4 DEF DevInv, TxTypeOK
      <3>6. current' # NoPacket
        BY <2>2, <3>2, NoPacketIsNone
      <3>. QED
        BY <3>5, <3>6 DEF DevInv
    <2>. QED
      BY <1>2, <2>1, <2>2 DEF TransmitComplete
  <1>3. \/ Transmit \/ TransmitComplete \/ UNCHANGED <<devQueue, current>>
    BY DEF Next, RunStep, Send, Enqueued, WakeUp, TakeRequeued, CallDequeue, RunBlocked,
           QdiscDrop, Dequeued, NothingDequeued, Requeue, vars, devVars
  <1>. QED
    BY <1>1, <1>2, <1>3, SameDev

\* What is in the device queue, in terms of the flag and of the limit.
LEMMA QueueLengths ==
  ASSUME DevMode = "packets", TxTypeOK, StoppedIffFull, NEW q \in TxQueues
  PROVE  /\ Len(devQueue[q]) \in Nat
         /\ stopped[q] <=> Len(devQueue[q]) >= DevMaxSize
  <1>1. devQueue[q] \in Seq(Packets)
    BY DEF TxTypeOK
  <1>. QED
    BY <1>1, PacketRoom, TxConstantsAssumption DEF StoppedIffFull

\* The last packet leaves a queue disc that holds no other.
LEMMA LastLeaves ==
  ASSUME TxTypeOK, OneLeft, NEW f \in Flows, fifo[f] # <<>>,
         fifo' = [fifo EXCEPT ![f] = Tail(@)]
  PROVE  QdiscEmpty'
  <1>1. Tail(fifo[f]) = <<>> /\ \A g \in Flows \ {f} : fifo[g] = <<>>
    BY DEF OneLeft
  <1>2. \A g \in Flows : fifo'[g] = <<>>
    BY <1>1 DEF TxTypeOK
  <1>. QED
    BY <1>2 DEF QdiscEmpty

\* One packet arrives at an empty queue disc.
LEMMA FirstArrives ==
  ASSUME TxTypeOK, QdiscEmpty, NEW f \in Flows, NEW s \in Sizes, Send(f, s)
  PROVE  OneLeft'
  <1> DEFINE p == [id |-> arrived + 1, flow |-> f, size |-> s]
  <1>1. arrived + 1 \in 1 .. MaxPackets
    BY TxConstantsAssumption DEF TxTypeOK, Send
  <1>2. p \in Packets
    BY <1>1 DEF Packets
  <1>3. CASE Qdisc!Accept(f, p)
    <2>1. fifo' = [fifo EXCEPT ![f] = Append(@, p)]
      BY <1>3 DEF Qdisc!Accept
    <2> HIDE DEF p
    <2>2. fifo[f] = <<>> /\ <<>> \in Seq(Packets)
      BY DEF QdiscEmpty
    <2>3. /\ Tail(Append(<<>>, p)) \in Seq(Packets)
          /\ Len(Tail(Append(<<>>, p))) = 0
      BY <1>2, <2>2, HeadOfAppend
    <2>4. Tail(Append(<<>>, p)) = <<>>
      BY <2>3
    <2>5. Tail(fifo'[f]) = <<>> /\ \A g \in Flows \ {f} : fifo'[g] = <<>>
      BY <2>1, <2>2, <2>4 DEF TxTypeOK, QdiscEmpty
    <2>. QED
      BY <2>5 DEF OneLeft
  <1>4. CASE UNCHANGED qdiscVars
    BY <1>4 DEF qdiscVars, QdiscEmpty, OneLeft
  <1>. QED
    BY <1>3, <1>4 DEF Send

\* Every step leaves packets waiting only for a reason.
LEMMA NextWaitInv ==
  ASSUME DevMode = "packets", Cardinality(TxQueues) = 1, ReasonInv, [Next]_vars
  PROVE  WaitInv'
  <1>0. TxTypeOK /\ StoppedIffFull /\ SingleInv /\ DevInv /\ WaitInv
    BY DEF ReasonInv
  <1>1. requeued = NoPacket /\ requeued' = NoPacket
    BY <1>0, NextSingleInv DEF SingleInv
  <1>2. TxTypeOK' /\ StoppedIffFull' /\ DevInv'
    BY <1>0, TxNextType, PacketsNeedNoMtu, NextStopped, NextDevInv
  <1>3. PICK only : TxQueues = {only}
    BY TxConstantsAssumption, FS_Singleton
  <1>4. /\ DevMaxSize \in Nat \ {0}
        /\ Len(devQueue[only]) \in Nat
        /\ stopped[only] <=> Len(devQueue[only]) >= DevMaxSize
    BY <1>0, <1>3, QueueLengths, TxConstantsAssumption
  <1>5. ASSUME NEW f \in Flows, NEW s \in Sizes, Send(f, s) PROVE WaitInv'
    <2>1. pc = "idle" /\ pc' = "enqueue" /\ UNCHANGED <<devQueue, current>>
      BY <1>5 DEF Send, devVars
    <2>2. OneLeft' \/ AlmostFull'
      BY <1>0, <1>1, <1>5, <2>1, SameDev, FirstArrives DEF WaitInv, Waiting
    <2>. QED
      BY <2>1, <2>2 DEF WaitInv
  <1>6. CASE WakeUp
    <2>1. pc = "idle" /\ pc' = "restart" /\ UNCHANGED <<devQueue, current, fifo>>
      BY <1>6 DEF WakeUp, RunBegin, qdiscVars
    <2>2. AlmostFull' \/ QdiscEmpty
      BY <1>0, <1>1, <2>1, SameDev DEF WaitInv, Waiting
    <2>3. AlmostFull' \/ OneLeft'
      BY <2>1, <2>2 DEF QdiscEmpty, OneLeft
    <2>. QED
      BY <2>1, <2>3 DEF WaitInv
  <1>7. CASE Enqueued \/ CallDequeue
    <2>1. /\ pc \in {"enqueue", "restart"} /\ pc' \in {"restart", "dequeue"}
          /\ UNCHANGED <<devQueue, current, fifo>>
      BY <1>7 DEF Enqueued, RunBegin, CallDequeue, Qdisc!Call, qdiscVars, devVars
    <2>2. AlmostFull' \/ OneLeft'
      BY <1>0, <2>1, SameDev DEF WaitInv, OneLeft
    <2>. QED
      BY <2>1, <2>2 DEF WaitInv
  <1>8. CASE RunBlocked
    <2>1. pc' = "idle" /\ UNCHANGED <<devQueue, current, stopped>> /\ ~MayDequeue
      BY <1>1, <1>8 DEF RunBlocked, RunEnd, devVars
    <2>2. stopped[only]
      BY <1>1, <1>3, <2>1 DEF MayDequeue
    <2>3. AlmostFull
      BY <1>3, <1>4, <2>2 DEF AlmostFull
    <2>4. AlmostFull' /\ stopped'[only]
      BY <1>0, <2>1, <2>2, <2>3, SameDev
    <2>. QED
      BY <1>3, <2>1, <2>4 DEF WaitInv
  <1>9. ASSUME NEW f \in Flows, QdiscDrop(f) \/ Dequeued(f) PROVE WaitInv'
    <2>1. /\ fifo[f] # <<>> /\ fifo' = [fifo EXCEPT ![f] = Tail(@)]
          /\ pc \in {"enqueue", "dequeue"} /\ pc' \in {pc, "transmit"}
          /\ UNCHANGED <<devQueue, current>>
      BY <1>9 DEF QdiscDrop, Dequeued, Qdisc!DropHead, Qdisc!Deliver, runVars, devVars
    <2>2. QdiscEmpty' \/ AlmostFull'
      BY <1>0, <2>1, LastLeaves, SameDev DEF WaitInv
    <2>3. QdiscEmpty' => OneLeft'
      BY DEF QdiscEmpty, OneLeft
    <2>. QED
      BY <2>1, <2>2, <2>3 DEF WaitInv
  <1>10. CASE NothingDequeued
    <2>1. pc' = "idle" /\ QdiscEmpty'
      BY <1>10 DEF NothingDequeued, RunEnd, Qdisc!ReturnNothing, QdiscEmpty
    <2>2. ~Waiting'
      BY <1>1, <2>1 DEF Waiting
    <2>. QED
      BY <2>1, <2>2 DEF WaitInv
  <1>11. ~TakeRequeued /\ ~Requeue
    BY <1>0, <1>1 DEF TakeRequeued, Requeue, TxTypeOK
  <1>12. CASE Transmit
    <2> DEFINE s == Append(devQueue[only], item)
    <2>1. /\ item \in Packets /\ s \in Seq(Packets)
          /\ Len(s) = Len(devQueue[only]) + 1 /\ Len(s) <= DevMaxSize
          /\ \/ /\ current # NoPacket /\ current' = current
                /\ devQueue' = [devQueue EXCEPT ![only] = s]
             \/ /\ current = NoPacket /\ current' = Head(s)
                /\ PacketDequeued(only, Tail(s), ~Room(s))
          /\ Txq(item) = only
      BY <1>0, <1>3, <1>12, TransmitEffect
    <2>2. /\ fifo' = fifo
          /\ \/ pc' = "idle"
             \/ pc' = "restart" /\ ~QdiscEmpty /\ ~stopped'[only]
      BY <1>12, <2>1 DEF Transmit, RunEnd, qdiscVars
    <2>3. CASE QdiscEmpty
      <3>1. ~Waiting' /\ pc' = "idle"
        BY <1>1, <2>2, <2>3 DEF Waiting, QdiscEmpty
      <3>. QED
        BY <3>1 DEF WaitInv
    <2>4. CASE AlmostFull /\ current # NoPacket
      <3>1. devQueue' = [devQueue EXCEPT ![only] = s]
        BY <2>1, <2>4
      <3>2. Len(s) >= DevMaxSize
        BY <1>3, <1>4, <2>1, <2>4 DEF AlmostFull
      <3> HIDE DEF s
      <3>3. Len(devQueue'[only]) >= DevMaxSize
        BY <1>0, <1>3, <3>1, <3>2 DEF TxTypeOK
      <3>4. stopped'[only]
        <4>1. devQueue'[only] \in Seq(Packets) /\ ~(Len(devQueue'[only]) < DevMaxSize)
          BY <1>2, <1>3, <1>4, <3>3 DEF TxTypeOK
        <4>2. ~Room(devQueue'[only])
          BY <4>1, PacketRoom
        <4>. QED
          BY <1>2, <1>3, <4>2, NextStoppedIffFull
      <3>5. AlmostFull'
        BY <1>2, <1>3, <1>4, <3>3 DEF AlmostFull, TxTypeOK
      <3>. QED
        BY <1>3, <2>2, <3>4, <3>5 DEF WaitInv
    <2>5. CASE AlmostFull /\ current = NoPacket
      <3>1. devQueue[only] = <<>> /\ DevMaxSize = 1
        BY <1>0, <1>3, <1>4, <2>5 DEF DevInv, AlmostFull
      <3> DEFINE t == Tail(s)
      <3>2. PacketDequeued(only, t, ~Room(s))
        BY <2>1, <2>5
      <3>3. /\ s \in Seq(Packets) /\ Len(s) = 1
            /\ t \in Seq(Packets) /\ Len(t) = 0
        BY <1>3, <1>4, <2>1, <3>1, HeadOfAppend
      <3> HIDE DEF s, t
      <3>4. ~Room(s) /\ Room(t)
        BY <3>1, <3>3 DEF Room
      <3>5. wakeEvents' = wakeEvents + 1
        BY <3>2, <3>4 DEF PacketDequeued
      <3>6. wakeEvents' > 0
        BY <1>0, <3>5 DEF TxTypeOK
      <3>7. AlmostFull'
        BY <1>2, <1>3, <3>1 DEF AlmostFull, TxTypeOK
      <3>. QED
        BY <2>2, <3>6, <3>7 DEF WaitInv
    <2>. QED
      BY <1>0, <1>12, <2>3, <2>4, <2>5 DEF WaitInv, Transmit
  <1>13. CASE TransmitComplete
    <2>1. pc = "idle" /\ pc' = "idle" /\ wakeEvents = 0 /\ (Waiting' <=> Waiting)
      BY <1>13 DEF TransmitComplete, qdiscVars, runVars, Waiting, QdiscEmpty
    <2>2. CASE ~Waiting
      BY <2>1, <2>2 DEF WaitInv
    <2>3. CASE Waiting
      <3>1. stopped[only]
        BY <1>0, <1>3, <2>1, <2>3 DEF WaitInv
      <3>2. /\ Len(devQueue[only]) = DevMaxSize
            /\ devQueue[only] \in Seq(Packets) /\ devQueue[only] # <<>>
        BY <1>0, <1>3, <1>4, <3>1 DEF DevInv, TxTypeOK
      <3>3. PacketDequeued(only, Tail(devQueue[only]), stopped[only])
        BY <1>3, <1>13, <3>2 DEF TransmitComplete
      <3>4. /\ Tail(devQueue[only]) \in Seq(Packets)
            /\ Len(Tail(devQueue[only])) = DevMaxSize - 1
        BY <3>2
      <3>5. Room(Tail(devQueue[only]))
        BY <1>4, <3>4 DEF Room
      <3>6. wakeEvents' = wakeEvents + 1
            /\ devQueue' = [devQueue EXCEPT ![only] = Tail(devQueue[only])]
        BY <3>1, <3>3, <3>5 DEF PacketDequeued
      <3>7. AlmostFull'
        BY <1>0, <1>3, <1>4, <3>4, <3>6 DEF AlmostFull, TxTypeOK
      <3>. QED
        BY <2>1, <3>6, <3>7 DEF WaitInv
    <2>. QED
      BY <2>2, <2>3
  <1>14. CASE UNCHANGED vars
    <2>1. UNCHANGED <<pc, devQueue, current, fifo, requeued, wakeEvents, stopped>>
      BY <1>14 DEF vars, qdiscVars, runVars, devVars
    <2>. QED
      BY <1>0, <2>1 DEF WaitInv, Waiting, AlmostFull, OneLeft, QdiscEmpty
  <1>. QED
    BY <1>5, <1>6, <1>7, <1>8, <1>9, <1>10, <1>11, <1>12, <1>13, <1>14
       DEF Next, RunStep

\* Over a device with one queue, limited in packets, no packet waits between
\* events without a wake-up that is scheduled or a queue that is stopped and will
\* lose a packet: no wake-up is lost and no quota, however small, strands one.
THEOREM NothingWaitsForNothing ==
  ASSUME DevMode = "packets", Cardinality(TxQueues) = 1
  PROVE  Spec => []WaitingHasReason
  <1>1. Init => ReasonInv
    <2> SUFFICES ASSUME Init PROVE ReasonInv
      OBVIOUS
    <2>1. TxTypeOK
      BY TxInitType
    <2>2. StoppedIffFull
      BY PacketsNeedNoMtu, InitStopped
    <2>3. SingleInv /\ DevInv
      BY TxConstantsAssumption DEF Init, SingleInv, DevInv
    <2>4. WaitInv
      <3>1. fifo = [f \in Flows |-> <<>>]
        BY DEF Init, Qdisc!Init
      <3>2. QdiscEmpty
        BY <3>1 DEF QdiscEmpty
      <3>. QED
        BY <3>2 DEF Init, WaitInv, Waiting
    <2>. QED
      BY <2>1, <2>2, <2>3, <2>4 DEF ReasonInv
  <1>2. ReasonInv /\ [Next]_vars => ReasonInv'
    BY PacketsNeedNoMtu, TxNextType, NextStopped, NextSingleInv, NextDevInv, NextWaitInv DEF ReasonInv
  <1>3. ReasonInv => WaitingHasReason
    <2> SUFFICES ASSUME ReasonInv, pc = "idle", Waiting, wakeEvents = 0
                 PROVE  \E q \in TxQueues : stopped[q] /\ devQueue[q] # <<>>
      BY DEF WaitingHasReason, ReasonInv, TxTypeOK
    <2>1. PICK q \in TxQueues : stopped[q]
      BY DEF ReasonInv, WaitInv
    <2>2. Len(devQueue[q]) >= DevMaxSize
      BY <2>1, QueueLengths DEF ReasonInv
    <2>3. devQueue[q] # <<>>
      <3>1. DevMaxSize > 0 /\ DevMaxSize \in Nat
        BY TxConstantsAssumption
      <3>. QED
        BY <2>2, <3>1
    <2>. QED
      BY <2>1, <2>3
  <1>. QED
    BY <1>1, <1>2, <1>3, PTL DEF Spec
-----------------------------------------------------------------------------
(***************************************************************************)
(* The order of the packets, and that none vanishes. Both speak of the     *)
(* sequence Way(f); a step moves a packet within it, takes one out of it or*)
(* puts one at its end. What that does to the packets of a flow is stated  *)
(* once, for any sequences, and each step is brought into that form.       *)
(***************************************************************************)

\* The packets are where the steps look for them: a queue holds no packet of
\* another, a transmitter that is idle leaves nothing behind it, and nothing is
\* taken from the queue disc while a requeued packet waits.
FlowPackets(f) == {p \in Packets : p.flow = f}
TxqPackets(q)  == {p \in Packets : Txq(p) = q}
PlacesInv ==
  /\ \A f \in Flows : fifo[f] \in Seq(FlowPackets(f))
  /\ \A q \in TxQueues : devQueue[q] \in Seq(TxqPackets(q))
  /\ current = NoPacket => \A q \in TxQueues : devQueue[q] = <<>>
  /\ pc \in {"dequeue", "transmit"} => requeued = NoPacket

\* No packet is taken for one of two flows.
FlowsApart == \A f, g \in Flows :
                f # g => Ids(Way(f), f) \intersect Ids(Way(g), g) = {}

WayInv == PlacesInv /\ InOrder /\ NothingVanishes /\ FlowsApart
-----------------------------------------------------------------------------
\* The packets of two sequences, one after the other.
LEMMA IdsOfConcat ==
  ASSUME NEW s \in Seq(Packets), NEW t \in Seq(Packets), NEW f
  PROVE  Ids(s \o t, f) = Ids(s, f) \union Ids(t, f)
  <1>1. /\ DOMAIN (s \o t) = 1 .. Len(s) + Len(t)
        /\ DOMAIN s = 1 .. Len(s) /\ DOMAIN t = 1 .. Len(t)
        /\ Len(s) \in Nat /\ Len(t) \in Nat
        /\ \A i \in 1 .. Len(s) : (s \o t)[i] = s[i]
        /\ \A i \in 1 .. Len(t) : (s \o t)[Len(s) + i] = t[i]
    OBVIOUS
  <1>2. ASSUME NEW x \in Ids(s \o t, f) PROVE x \in Ids(s, f) \union Ids(t, f)
    <2>1. PICK i \in 1 .. Len(s) + Len(t) :
             (s \o t)[i].flow = f /\ x = (s \o t)[i].id
      BY <1>1, <1>2 DEF Ids, OfFlow
    <2>2. CASE i <= Len(s)
      BY <1>1, <2>1, <2>2 DEF Ids, OfFlow
    <2>3. CASE i > Len(s)
      <3>1. i - Len(s) \in 1 .. Len(t) /\ i = Len(s) + (i - Len(s))
        BY <1>1, <2>1, <2>3
      <3>2. (s \o t)[i] = t[i - Len(s)]
        BY <1>1, <3>1
      <3>. QED
        BY <1>1, <2>1, <3>1, <3>2 DEF Ids, OfFlow
    <2>. QED
      BY <1>1, <2>2, <2>3
  <1>3. ASSUME NEW x \in Ids(s, f) PROVE x \in Ids(s \o t, f)
    <2>1. PICK i \in 1 .. Len(s) : s[i].flow = f /\ x = s[i].id
      BY <1>1, <1>3 DEF Ids, OfFlow
    <2>2. i \in 1 .. Len(s) + Len(t)
      BY <1>1
    <2>. QED
      BY <1>1, <2>1, <2>2 DEF Ids, OfFlow
  <1>4. ASSUME NEW x \in Ids(t, f) PROVE x \in Ids(s \o t, f)
    <2>1. PICK i \in 1 .. Len(t) : t[i].flow = f /\ x = t[i].id
      BY <1>1, <1>4 DEF Ids, OfFlow
    <2>2. Len(s) + i \in 1 .. Len(s) + Len(t)
      BY <1>1
    <2>. QED
      BY <1>1, <2>1, <2>2 DEF Ids, OfFlow
  <1>. QED
    BY <1>2, <1>3, <1>4

\* Every number of the one set is below every number of the other.
Below(A, B) == \A a \in A : \A b \in B : a < b

\* Two ordered sequences, one after the other, are ordered if the packets of the
\* first came before those of the second; and only then.
LEMMA OrderOfConcat ==
  ASSUME NEW s \in Seq(Packets), NEW t \in Seq(Packets), NEW f
  PROVE  Ordered(s \o t, f) <=> /\ Ordered(s, f)
                                /\ Ordered(t, f)
                                /\ Below(Ids(s, f), Ids(t, f))
  <1>1. /\ DOMAIN (s \o t) = 1 .. Len(s) + Len(t)
        /\ DOMAIN s = 1 .. Len(s) /\ DOMAIN t = 1 .. Len(t)
        /\ Len(s) \in Nat /\ Len(t) \in Nat
        /\ \A i \in 1 .. Len(s) : (s \o t)[i] = s[i]
        /\ \A i \in 1 .. Len(t) : (s \o t)[Len(s) + i] = t[i]
    OBVIOUS
  <1>2. /\ \A i \in OfFlow(s, f) : i \in OfFlow(s \o t, f) /\ (s \o t)[i] = s[i]
        /\ \A i \in OfFlow(t, f) : /\ Len(s) + i \in OfFlow(s \o t, f)
                                   /\ (s \o t)[Len(s) + i] = t[i]
    <2>1. \A i \in 1 .. Len(s) : i \in 1 .. Len(s) + Len(t)
      BY <1>1
    <2>2. \A i \in 1 .. Len(t) : Len(s) + i \in 1 .. Len(s) + Len(t)
      BY <1>1
    <2>. QED
      BY <1>1, <2>1, <2>2 DEF OfFlow
  <1>3. \A i \in OfFlow(s \o t, f) :
          \/ i \in OfFlow(s, f)
          \/ i - Len(s) \in OfFlow(t, f) /\ i = Len(s) + (i - Len(s))
    <2>1. \A i \in 1 .. Len(s) + Len(t) :
            \/ i \in 1 .. Len(s)
            \/ i - Len(s) \in 1 .. Len(t) /\ i = Len(s) + (i - Len(s))
      BY <1>1
    <2>. QED
      BY <1>1, <2>1 DEF OfFlow
  <1>4. /\ \A i \in OfFlow(s, f) : i \in 1 .. Len(s)
        /\ \A i \in OfFlow(t, f) : i \in 1 .. Len(t)
    BY <1>1 DEF OfFlow
  <1>5. ASSUME Ordered(s \o t, f)
        PROVE  Ordered(s, f) /\ Ordered(t, f) /\ Below(Ids(s, f), Ids(t, f))
    <2>1. Ordered(s, f)
      BY <1>2, <1>5 DEF Ordered
    <2>2. Ordered(t, f)
      <3>1. \A i, j \in OfFlow(t, f) : i < j => Len(s) + i < Len(s) + j
        BY <1>1, <1>4
      <3>. QED
        BY <1>2, <1>5, <3>1 DEF Ordered
    <2>3. Below(Ids(s, f), Ids(t, f))
      <3>1. \A i \in OfFlow(s, f), j \in OfFlow(t, f) : i < Len(s) + j
        BY <1>1, <1>4
      <3>. QED
        BY <1>2, <1>5, <3>1 DEF Ordered, Below, Ids
    <2>. QED
      BY <2>1, <2>2, <2>3
  <1>6. ASSUME Ordered(s, f), Ordered(t, f), Below(Ids(s, f), Ids(t, f)),
               NEW i \in OfFlow(s \o t, f), NEW j \in OfFlow(s \o t, f), i < j
        PROVE  (s \o t)[i].id < (s \o t)[j].id
    <2>1. CASE i \in OfFlow(s, f) /\ j \in OfFlow(s, f)
      BY <1>2, <1>6, <2>1 DEF Ordered
    <2>2. CASE i \in OfFlow(s, f) /\ j - Len(s) \in OfFlow(t, f)
      <3>1. j = Len(s) + (j - Len(s))
        BY <1>1 DEF OfFlow
      <3>2. (s \o t)[i] = s[i] /\ (s \o t)[j] = t[j - Len(s)]
        BY <1>2, <2>2, <3>1
      <3>3. s[i].id \in Ids(s, f) /\ t[j - Len(s)].id \in Ids(t, f)
        BY <2>2 DEF Ids
      <3>. QED
        BY <1>6, <3>2, <3>3 DEF Below
    <2>3. CASE i - Len(s) \in OfFlow(t, f) /\ j - Len(s) \in OfFlow(t, f)
      <3>1. /\ i - Len(s) < j - Len(s)
            /\ i = Len(s) + (i - Len(s)) /\ j = Len(s) + (j - Len(s))
        BY <1>1, <1>6 DEF OfFlow
      <3>2. t[i - Len(s)].id < t[j - Len(s)].id
        BY <1>6, <2>3, <3>1 DEF Ordered
      <3>3. (s \o t)[i] = t[i - Len(s)] /\ (s \o t)[j] = t[j - Len(s)]
        BY <1>2, <2>3, <3>1
      <3>. QED
        BY <3>2, <3>3
    <2>4. ~(i - Len(s) \in OfFlow(t, f) /\ j \in OfFlow(s, f))
      BY <1>1, <1>4, <1>6 DEF OfFlow
    <2>. QED
      BY <1>3, <2>1, <2>2, <2>3, <2>4
  <1>. QED
    BY <1>5, <1>6 DEF Ordered

\* A single packet is in order, and is a packet of its flow only.
LEMMA OfSingle ==
  ASSUME NEW p \in Packets, NEW f
  PROVE  /\ Ordered(<<p>>, f)
         /\ p.flow = f => Ids(<<p>>, f) = {p.id}
         /\ p.flow # f => Ids(<<p>>, f) = {}
  BY DEF Ordered, Ids, OfFlow

\* No packet, no order.
LEMMA OfNone == ASSUME NEW f PROVE Ordered(<<>>, f) /\ Ids(<<>>, f) = {}
  BY DEF Ordered, Ids, OfFlow

\* The packets have numbers.
LEMMA IdsAreNumbers ==
  ASSUME NEW s \in Seq(Packets), NEW f
  PROVE  Ids(s, f) \subseteq 1 .. MaxPackets
  BY PacketParts DEF Ids, OfFlow

\* What two sequences have in common for one flow.
Alike(s, t, f) == /\ Ids(s, f) = Ids(t, f)
                  /\ Ordered(s, f) <=> Ordered(t, f)

\* What is put before or behind sequences that are alike leaves them alike.
LEMMA AlikeConcat ==
  ASSUME NEW s \in Seq(Packets), NEW t \in Seq(Packets),
         NEW u \in Seq(Packets), NEW v \in Seq(Packets), NEW f,
         Alike(s, t, f), Alike(u, v, f)
  PROVE  Alike(s \o u, t \o v, f)
  <1>1. /\ Ids(s \o u, f) = Ids(s, f) \union Ids(u, f)
        /\ Ids(t \o v, f) = Ids(t, f) \union Ids(v, f)
    BY IdsOfConcat
  <1>2. /\ Ordered(s \o u, f) <=> /\ Ordered(s, f) /\ Ordered(u, f)
                                  /\ Below(Ids(s, f), Ids(u, f))
        /\ Ordered(t \o v, f) <=> /\ Ordered(t, f) /\ Ordered(v, f)
                                  /\ Below(Ids(t, f), Ids(v, f))
    BY OrderOfConcat
  <1>. QED
    BY <1>1, <1>2 DEF Alike

\* A packet of another flow makes no difference.
LEMMA AlikeStranger ==
  ASSUME NEW p \in Packets, NEW f, p.flow # f
  PROVE  Alike(<<p>>, <<>>, f) /\ Alike(<<>>, <<p>>, f)
  BY OfSingle, OfNone DEF Alike

\* A packet taken out of an ordered sequence leaves it ordered, and its number
\* was there once.
TakenOut(s, p, t, f) == /\ Ordered(s \o t, f)
                        /\ p.id \in Ids((s \o <<p>>) \o t, f)
                        /\ Ids(s \o t, f) = Ids((s \o <<p>>) \o t, f) \ {p.id}

LEMMA TakeOut ==
  ASSUME NEW s \in Seq(Packets), NEW t \in Seq(Packets), NEW p \in Packets,
         NEW f, p.flow = f, Ordered((s \o <<p>>) \o t, f)
  PROVE  TakenOut(s, p, t, f)
  <1> DEFINE one == <<p>>
  <1>0. p.id \in Nat
    BY PacketParts
  <1>1. one \in Seq(Packets) /\ s \o one \in Seq(Packets)
    OBVIOUS
  <1>2. Ids(one, f) = {p.id}
    BY OfSingle
  <1> HIDE DEF one
  <1>3. /\ Ids(s \o one, f) = Ids(s, f) \union {p.id}
        /\ Ids((s \o one) \o t, f) = Ids(s \o one, f) \union Ids(t, f)
        /\ Ids(s \o t, f) = Ids(s, f) \union Ids(t, f)
    <2>1. Ids(s \o one, f) = Ids(s, f) \union Ids(one, f)
      BY <1>1, IdsOfConcat
    <2>2. ASSUME NEW r \in Seq(Packets)
          PROVE  Ids(r \o t, f) = Ids(r, f) \union Ids(t, f)
      BY IdsOfConcat
    <2>3. Ids(s \o t, f) = Ids(s, f) \union Ids(t, f)
      BY IdsOfConcat
    <2>. QED
      BY <1>1, <1>2, <2>1, <2>2, <2>3
  <1>4. /\ Ordered(s \o one, f) /\ Ordered(t, f)
        /\ Below(Ids(s \o one, f), Ids(t, f))
    BY <1>1, OrderOfConcat DEF one
  <1>5. Ordered(s, f) /\ Below(Ids(s, f), {p.id})
    BY <1>1, <1>2, <1>4, OrderOfConcat
  <1>6. Below(Ids(s, f), Ids(t, f)) /\ Below({p.id}, Ids(t, f))
    BY <1>3, <1>4 DEF Below
  <1>7. p.id \notin Ids(s, f) /\ p.id \notin Ids(t, f)
    BY <1>0, <1>5, <1>6 DEF Below
  <1>8. Ordered(s \o t, f)
    BY <1>4, <1>5, <1>6, OrderOfConcat
  <1>9. /\ p.id \in Ids((s \o one) \o t, f)
        /\ Ids(s \o t, f) = Ids((s \o one) \o t, f) \ {p.id}
    BY <1>3, <1>7
  <1>. QED
    BY <1>8, <1>9 DEF one, TakenOut

\* A packet that is newer than all of its flow is put at the end.
LEMMA PutLast ==
  ASSUME NEW s \in Seq(Packets), NEW p \in Packets, NEW f, p.flow = f,
         Ordered(s, f), \A n \in Ids(s, f) : n < p.id
  PROVE  Ordered(s \o <<p>>, f) /\ Ids(s \o <<p>>, f) = Ids(s, f) \union {p.id}
  <1> DEFINE one == <<p>>
  <1>1. one \in Seq(Packets)
    OBVIOUS
  <1>2. Ids(one, f) = {p.id} /\ Ordered(one, f)
    BY OfSingle
  <1>3. Below(Ids(s, f), {p.id})
    BY DEF Below
  <1> HIDE DEF one
  <1>4. Ids(s \o one, f) = Ids(s, f) \union Ids(one, f)
    BY <1>1, IdsOfConcat
  <1>5. Ordered(s \o one, f)
    <2>1. Below(Ids(s, f), Ids(one, f))
      BY <1>2, <1>3
    <2>. QED
      BY ONLY <1>1, <1>2, <2>1, s \in Seq(Packets), Ordered(s, f), OrderOfConcat
  <1>. QED
    BY <1>2, <1>4, <1>5 DEF one

\* A sequence is alike to itself, and stays alike to another when both are
\* followed by the same.
LEMMA AlikeFollowed ==
  ASSUME NEW x \in Seq(Packets), NEW y \in Seq(Packets), NEW u \in Seq(Packets),
         NEW f, Alike(x, y, f)
  PROVE  Alike(x \o u, y \o u, f)
  <1>1. Alike(u, u, f)
    BY DEF Alike
  <1>. QED
    BY <1>1, AlikeConcat

\* A packet of another flow that is put at the end, or taken from there, makes
\* no difference, whatever follows.
LEMMA StrangerBetween ==
  ASSUME NEW x \in Seq(Packets), NEW u \in Seq(Packets), NEW v \in Seq(Packets),
         NEW p \in Packets, NEW f, p.flow # f
  PROVE  /\ Alike(((x \o <<p>>) \o u) \o v, ((x \o <<>>) \o u) \o v, f)
         /\ Alike(((x \o <<>>) \o u) \o v, ((x \o <<p>>) \o u) \o v, f)
  <1> DEFINE one  == <<p>>
             none == <<>>
  <1>1. one \in Seq(Packets) /\ none \in Seq(Packets)
    OBVIOUS
  <1>2. Alike(one, none, f)
    BY AlikeStranger
  <1> HIDE DEF one, none
  <1>3. Alike(x, x, f)
    BY DEF Alike
  <1>4. x \o one \in Seq(Packets) /\ x \o none \in Seq(Packets)
    BY <1>1
  <1>5. Alike(x \o one, x \o none, f)
    BY <1>1, <1>2, <1>3, AlikeConcat
  <1>6. (x \o one) \o u \in Seq(Packets) /\ (x \o none) \o u \in Seq(Packets)
    BY <1>4
  <1>7. Alike((x \o one) \o u, (x \o none) \o u, f)
    BY <1>4, <1>5, AlikeFollowed
  <1>8. Alike(((x \o one) \o u) \o v, ((x \o none) \o u) \o v, f)
    BY <1>6, <1>7, AlikeFollowed
  <1>. QED
    BY <1>8 DEF Alike, one, none

\* How a packet is moved from the end of a sequence to the beginning of the next,
\* and the other way round.
LEMMA AppendBehind ==
  ASSUME NEW x \in Seq(Packets), NEW y \in Seq(Packets), NEW p \in Packets
  PROVE  x \o Append(y, p) = (x \o y) \o <<p>>
  <1>1. <<p>> \in Seq(Packets)
    OBVIOUS
  <1>2. Append(y, p) = y \o <<p>>
    BY AppendIsConcat
  <1>3. x \o (y \o <<p>>) = (x \o y) \o <<p>>
    BY <1>1, ConcatAssociative
  <1>. QED
    BY <1>2, <1>3

LEMMA HeadBefore ==
  ASSUME NEW x \in Seq(Packets), NEW y \in Seq(Packets), y # <<>>
  PROVE  /\ Head(y) \in Packets /\ Tail(y) \in Seq(Packets)
         /\ x \o y = (x \o <<Head(y)>>) \o Tail(y)
  <1>1. Head(y) \in Packets /\ Tail(y) \in Seq(Packets)
    OBVIOUS
  <1>2. y = <<Head(y)>> \o Tail(y)
    OBVIOUS
  <1>3. <<Head(y)>> \in Seq(Packets)
    BY <1>1
  <1>4. (x \o <<Head(y)>>) \o Tail(y) = x \o (<<Head(y)>> \o Tail(y))
    BY <1>1, <1>3, ConcatAssociative
  <1>. QED
    BY <1>1, <1>2, <1>4

\* What has left the queue disc, as far as flow f meets it.
Wire(f) == (sent \o Single(current)) \o devQueue[TxqOf[f]]

Gone(f) == (Wire(f) \o Single(item)) \o Single(requeued)

\* The places are sequences of packets.
LEMMA WayParts ==
  ASSUME TxTypeOK, NEW f \in Flows
  PROVE  /\ TxqOf[f] \in TxQueues
         /\ sent \in Seq(Packets) /\ Single(current) \in Seq(Packets)
         /\ devQueue[TxqOf[f]] \in Seq(Packets) /\ Wire(f) \in Seq(Packets)
         /\ Single(item) \in Seq(Packets) /\ Single(requeued) \in Seq(Packets)
         /\ Gone(f) \in Seq(Packets) /\ fifo[f] \in Seq(Packets)
         /\ Way(f) = Gone(f) \o fifo[f] /\ Way(f) \in Seq(Packets)
  <1>1. TxqOf[f] \in TxQueues
    BY TxConstantsAssumption
  <1>2. /\ devQueue[TxqOf[f]] \in Seq(Packets) /\ fifo[f] \in Seq(Packets)
        /\ sent \in Seq(Packets)
    BY <1>1 DEF TxTypeOK
  <1>3. /\ Single(current) \in Seq(Packets) /\ Single(item) \in Seq(Packets)
        /\ Single(requeued) \in Seq(Packets)
    BY DEF TxTypeOK, Single
  <1>4. Wire(f) \in Seq(Packets)
    BY <1>2, <1>3 DEF Wire
  <1>5. Gone(f) \in Seq(Packets)
    BY <1>3, <1>4 DEF Gone
  <1>6. Way(f) = Gone(f) \o fifo[f]
    BY DEF Way, Gone, Wire
  <1>. QED
    BY <1>1, <1>2, <1>3, <1>4, <1>5, <1>6

\* The same after a step.
LEMMA NextWay ==
  ASSUME NEW f \in Flows
  PROVE  /\ Way(f)' = Gone(f)' \o fifo'[f]
         /\ Gone(f)' = (Wire(f)' \o Single(item')) \o Single(requeued')
         /\ Wire(f)' = (sent' \o Single(current')) \o devQueue'[TxqOf[f]]
  BY DEF Way, Gone, Wire, Single

\* No packet is one that is there no more.
LEMMA SingleIs ==
  /\ Single(NoPacket) = <<>>
  /\ \A p \in Packets : Single(p) = <<p>>
  BY NoPacketIsNone DEF Single

\* A packet at the head of a flow, of a queue, or in hand, is of that flow, or
\* uses that queue, or is a packet.
LEMMA HeadInPlace ==
  ASSUME TxTypeOK, PlacesInv
  PROVE  /\ \A f \in Flows : fifo[f] # <<>> => /\ Head(fifo[f]) \in Packets
                                               /\ Head(fifo[f]).flow = f
         /\ \A q \in TxQueues : devQueue[q] # <<>> =>
              Head(devQueue[q]) \in Packets /\ Txq(Head(devQueue[q])) = q
  <1>1. \A f \in Flows : fifo[f] # <<>> => Head(fifo[f]) \in FlowPackets(f)
    BY DEF PlacesInv
  <1>2. \A q \in TxQueues : devQueue[q] # <<>> => Head(devQueue[q]) \in TxqPackets(q)
    BY DEF PlacesInv
  <1>. QED
    BY <1>1, <1>2 DEF FlowPackets, TxqPackets

\* A packet that arrives is put at the end of its flow.
LEMMA SendPlaces ==
  ASSUME TxTypeOK, PlacesInv, NEW f \in Flows, NEW s \in Sizes, Send(f, s)
  PROVE  PlacesInv'
  <1> DEFINE p == [id |-> arrived + 1, flow |-> f, size |-> s]
  <1>1. p \in FlowPackets(f)
    BY TxConstantsAssumption DEF TxTypeOK, Send, Packets, FlowPackets
  <1>2. fifo' = fifo \/ fifo' = [fifo EXCEPT ![f] = Append(@, p)]
    BY DEF Send, Qdisc!Accept, qdiscVars
  <1> HIDE DEF p
  <1>3. \A g \in Flows : fifo'[g] \in Seq(FlowPackets(g))
    <2>1. \A g \in Flows : fifo[g] \in Seq(FlowPackets(g))
      BY DEF PlacesInv
    <2>2. Append(fifo[f], p) \in Seq(FlowPackets(f))
      BY <1>1, <2>1, AppendProperties
    <2>3. \A g \in Flows : \/ fifo'[g] = fifo[g]
                           \/ g = f /\ fifo'[g] = Append(fifo[f], p)
      BY <1>2 DEF TxTypeOK
    <2>. QED
      BY <2>1, <2>2, <2>3
  <1>4. UNCHANGED <<devQueue, current, requeued>> /\ pc' = "enqueue"
    BY DEF Send, devVars
  <1>. QED
    BY <1>3, <1>4 DEF PlacesInv, TxqPackets, FlowPackets, Txq

\* The steps of Run that do not reach the device leave its packets in place.
LEMMA QdiscStepPlaces ==
  ASSUME TxTypeOK, PlacesInv,
         \/ Enqueued \/ WakeUp \/ TakeRequeued \/ CallDequeue \/ RunBlocked
         \/ NothingDequeued \/ Requeue
         \/ \E f \in Flows : QdiscDrop(f) \/ Dequeued(f)
  PROVE  PlacesInv'
  <1>1. UNCHANGED <<devQueue, current>>
    BY DEF Enqueued, WakeUp, TakeRequeued, CallDequeue, RunBlocked, NothingDequeued,
           Requeue, QdiscDrop, Dequeued, devVars
  <1>2. \A g \in Flows : fifo'[g] \in Seq(FlowPackets(g))
    <2>1. fifo' = fifo \/ \E f \in Flows : /\ fifo[f] # <<>>
                                           /\ fifo' = [fifo EXCEPT ![f] = Tail(@)]
      BY DEF Enqueued, WakeUp, TakeRequeued, CallDequeue, RunBlocked, NothingDequeued,
             Requeue, QdiscDrop, Dequeued, Qdisc!DropHead, Qdisc!Deliver, Qdisc!Call,
             Qdisc!ReturnNothing, qdiscVars
    <2>2. \A g \in Flows : fifo[g] \in Seq(FlowPackets(g))
      BY DEF PlacesInv
    <2>3. \A g \in Flows : \/ fifo'[g] = fifo[g]
                           \/ fifo[g] # <<>> /\ fifo'[g] = Tail(fifo[g])
      BY <2>1 DEF TxTypeOK
    <2>. QED
      BY <2>2, <2>3, HeadTailProperties
  <1>3. pc' \in {"dequeue", "transmit"} => requeued' = NoPacket
    BY DEF Enqueued, WakeUp, TakeRequeued, CallDequeue, RunBlocked, NothingDequeued,
           Requeue, QdiscDrop, Dequeued, RunBegin, RunEnd, MayDequeue, PlacesInv, runVars
  <1>. QED
    BY <1>1, <1>2, <1>3 DEF PlacesInv, TxqPackets, FlowPackets, Txq

\* A packet of a queue is put at its end, and its head may go out: what is left
\* are packets of that queue.
LEMMA ThroughQueue ==
  ASSUME NEW q \in TxQueues, NEW s \in Seq(TxqPackets(q)), NEW p \in TxqPackets(q)
  PROVE  /\ Append(s, p) \in Seq(TxqPackets(q))
         /\ Tail(Append(s, p)) \in Seq(TxqPackets(q))
         /\ Head(Append(s, p)) \in TxqPackets(q)
         /\ s = <<>> => Head(Append(s, p)) = p /\ Tail(Append(s, p)) = <<>>
  <1>1. Append(s, p) \in Seq(TxqPackets(q)) /\ Append(s, p) # <<>>
    BY AppendProperties
  <1>2. /\ Head(Append(s, p)) \in TxqPackets(q)
        /\ Tail(Append(s, p)) \in Seq(TxqPackets(q))
    BY <1>1, HeadTailProperties
  <1>3. s = <<>> => Head(Append(s, p)) = p /\ Tail(Append(s, p)) = <<>>
    BY HeadTailAppend
  <1>. QED
    BY <1>1, <1>2, <1>3

\* What Transmit does to the device: the packet in hand is dropped, or put in its
\* queue behind another that is being sent, or is sent at once.
LEMMA TransmitOutcomes ==
  ASSUME TxTypeOK, PlacesInv, Transmit
  PROVE  /\ item \in Packets /\ item \in TxqPackets(Txq(item)) /\ Txq(item) \in TxQueues
         /\ item' = NoPacket /\ pc = "transmit"
         /\ requeued = NoPacket /\ requeued' = NoPacket
         /\ UNCHANGED <<fifo, arrived, sent>>
         /\ \/ /\ dropped' = dropped \union {item.id}
               /\ UNCHANGED <<devQueue, current>>
            \/ /\ UNCHANGED <<dropped, current>> /\ current # NoPacket
               /\ devQueue' = [devQueue EXCEPT ![Txq(item)] = Append(@, item)]
            \/ /\ UNCHANGED <<dropped, devQueue>> /\ current = NoPacket
               /\ current' = item /\ devQueue[Txq(item)] = <<>>
  <1>1. /\ item \in Packets /\ item' = NoPacket /\ pc = "transmit"
        /\ requeued = NoPacket /\ requeued' = NoPacket
        /\ UNCHANGED <<fifo, arrived, sent>> /\ DevSend(item)
    BY DEF Transmit, TxTypeOK, PlacesInv, qdiscVars
  <1> DEFINE q == Txq(item)
             s == Append(devQueue[q], item)
  <1>2. q \in TxQueues /\ item \in TxqPackets(q)
    BY <1>1, PacketParts DEF TxqPackets
  <1>3. CASE ~Fits(s)
    BY <1>1, <1>2, <1>3 DEF DevSend
  <1>4. CASE Fits(s) /\ current # NoPacket
    <2>1. /\ dropped' = dropped /\ current' = current
          /\ devQueue' = [devQueue EXCEPT ![q] = s]
      BY <1>1, <1>4 DEF DevSend
    <2>. QED
      BY <1>1, <1>2, <1>4, <2>1
  <1>5. CASE Fits(s) /\ current = NoPacket
    <2>1. /\ dropped' = dropped /\ current' = Head(s)
          /\ devQueue' = [devQueue EXCEPT ![q] = Tail(s)]
      BY <1>1, <1>5 DEF DevSend, PacketDequeued
    <2>2. devQueue[q] = <<>>
      BY <1>2, <1>5 DEF PlacesInv
    <2>3. devQueue[q] \in Seq(TxqPackets(q))
      BY <1>2 DEF PlacesInv
    <2>4. Head(s) = item /\ Tail(s) = <<>>
      BY <1>2, <2>2, <2>3, ThroughQueue
    <2> HIDE DEF q, s
    <2>5. devQueue' = devQueue
      BY <1>2, <2>1, <2>2, <2>4 DEF TxTypeOK
    <2>. QED
      BY <1>1, <1>2, <1>5, <2>1, <2>2, <2>4, <2>5 DEF q
  <1>. QED
    BY <1>3, <1>4, <1>5

\* Transmit leaves the packets in place.
LEMMA TransmitPlaces == ASSUME TxTypeOK, PlacesInv, Transmit PROVE PlacesInv'
  <1>1. /\ item \in Packets /\ item \in TxqPackets(Txq(item)) /\ Txq(item) \in TxQueues
        /\ requeued' = NoPacket /\ UNCHANGED fifo
        /\ \/ UNCHANGED <<devQueue, current>>
           \/ /\ UNCHANGED current /\ current # NoPacket
              /\ devQueue' = [devQueue EXCEPT ![Txq(item)] = Append(@, item)]
           \/ UNCHANGED devQueue /\ current' = item
    BY TransmitOutcomes
  <1> DEFINE q == Txq(item)
  <1>2. \A r \in TxQueues : devQueue[r] \in Seq(TxqPackets(r))
    BY DEF PlacesInv
  <1>3. Append(devQueue[q], item) \in Seq(TxqPackets(q))
    BY <1>1, <1>2, ThroughQueue
  <1> HIDE DEF q
  <1>4. \A r \in TxQueues : devQueue'[r] \in Seq(TxqPackets(r))
    BY <1>1, <1>2, <1>3 DEF TxTypeOK, q
  <1>5. current' = NoPacket => \A r \in TxQueues : devQueue'[r] = <<>>
    BY <1>1, NoPacketIsNone DEF PlacesInv
  <1>. QED
    BY <1>1, <1>4, <1>5 DEF PlacesInv, TxqPackets, FlowPackets, Txq

\* What the end of a transmission does: the transmitter becomes idle if all
\* queues are empty, or takes the first packet of one.
LEMMA CompleteOutcomes ==
  ASSUME TxTypeOK, PlacesInv, TransmitComplete
  PROVE  /\ pc = "idle" /\ pc' = "idle" /\ current \in Packets
         /\ sent' = Append(sent, current)
         /\ UNCHANGED <<fifo, requeued, item, arrived, dropped>> /\ item = NoPacket
         /\ \/ /\ \A q \in TxQueues : devQueue[q] = <<>>
               /\ current' = NoPacket /\ UNCHANGED devQueue
            \/ \E q \in TxQueues :
                 /\ devQueue[q] # <<>> /\ current' = Head(devQueue[q])
                 /\ devQueue' = [devQueue EXCEPT ![q] = Tail(@)]
  <1>1. pc = "idle" => item = NoPacket
    BY DEF TxTypeOK
  <1>2. pc = "idle" /\ UNCHANGED <<pc, fifo, requeued, item, arrived, dropped>>
    BY DEF TransmitComplete, qdiscVars, runVars
  <1>3. current \in Packets /\ sent' = Append(sent, current)
    BY DEF TransmitComplete, TxTypeOK
  <1>4. \/ /\ \A q \in TxQueues : devQueue[q] = <<>>
           /\ current' = NoPacket /\ UNCHANGED devQueue
        \/ \E q \in TxQueues :
             /\ devQueue[q] # <<>> /\ current' = Head(devQueue[q])
             /\ devQueue' = [devQueue EXCEPT ![q] = Tail(@)]
    BY DEF TransmitComplete, PacketDequeued
  <1>. QED
    BY <1>1, <1>2, <1>3, <1>4

\* The end of a transmission leaves the packets in place.
LEMMA CompletePlaces == ASSUME TxTypeOK, PlacesInv, TransmitComplete PROVE PlacesInv'
  <1>1. UNCHANGED fifo /\ pc' = "idle"
    BY CompleteOutcomes
  <1>2. CASE (\A q \in TxQueues : devQueue[q] = <<>>) /\ UNCHANGED devQueue
    BY <1>1, <1>2 DEF PlacesInv, TxqPackets, FlowPackets, Txq
  <1>3. ASSUME NEW q \in TxQueues, devQueue[q] # <<>>,
               current' = Head(devQueue[q]),
               devQueue' = [devQueue EXCEPT ![q] = Tail(@)]
        PROVE  PlacesInv'
    <2>1. /\ Head(devQueue[q]) \in TxqPackets(q)
          /\ Tail(devQueue[q]) \in Seq(TxqPackets(q))
      BY <1>3 DEF PlacesInv
    <2>2. \A r \in TxQueues : devQueue'[r] \in Seq(TxqPackets(r))
      BY <1>3, <2>1 DEF PlacesInv, TxTypeOK
    <2>3. current' # NoPacket
      BY <1>3, <2>1, NoPacketIsNone DEF TxqPackets
    <2>. QED
      BY <1>1, <2>2, <2>3 DEF PlacesInv, TxqPackets, FlowPackets, Txq
  <1>. QED
    BY <1>2, <1>3, CompleteOutcomes

\* Every step leaves the packets in place.
LEMMA NextPlaces == TxTypeOK /\ PlacesInv /\ [Next]_vars => PlacesInv'
  <1> SUFFICES ASSUME TxTypeOK, PlacesInv, [Next]_vars PROVE PlacesInv'
    OBVIOUS
  <1>1. CASE UNCHANGED vars
    BY <1>1 DEF PlacesInv, TxqPackets, FlowPackets, Txq, vars, qdiscVars, runVars,
                devVars
  <1>2. CASE Next
    BY <1>2, SendPlaces, QdiscStepPlaces, TransmitPlaces, CompletePlaces
    DEF Next, RunStep
  <1>. QED
    BY <1>1, <1>2
-----------------------------------------------------------------------------
\* What a step does to the way of the packets of flow f: nothing, as far as they
\* are concerned; the loss of the one with number n; or a new one behind all.
Stays(f)   == Alike(Way(f)', Way(f), f)
Loses(f, n) == /\ Ordered(Way(f)', f)
               /\ n \in Ids(Way(f), f)
               /\ Ids(Way(f)', f) = Ids(Way(f), f) \ {n}
Gains(f, n) == /\ Ordered(Way(f)', f)
               /\ Ids(Way(f)', f) = Ids(Way(f), f) \union {n}

\* What a step does to all of them, and how the counters follow.
Moves == /\ \A f \in Flows : Stays(f)
         /\ UNCHANGED <<arrived, dropped>>
Drops(f, n) == /\ \A g \in Flows \ {f} : Stays(g)
               /\ Loses(f, n)
               /\ arrived' = arrived /\ dropped' = dropped \union {n}
Accepts(f) == /\ \A g \in Flows \ {f} : Stays(g)
              /\ Gains(f, arrived + 1)
              /\ arrived' = arrived + 1 /\ dropped' = dropped
Refuses == /\ \A f \in Flows : Stays(f)
           /\ arrived' = arrived + 1 /\ dropped' = dropped \union {arrived + 1}

\* A way that is the same sequence as before.
LEMMA SameWay == ASSUME NEW f \in Flows, Way(f)' = Way(f) PROVE Stays(f)
  BY DEF Stays, Alike

\* No number is above those that were given.
LEMMA IdsHaveArrived ==
  ASSUME NothingVanishes, NEW f \in Flows
  PROVE  \A n \in Ids(Way(f), f) : n \in 1 .. arrived
  BY DEF NothingVanishes, Seen

\* An arrival: the packet is put behind those of its flow, or dropped.
LEMMA SendWays ==
  ASSUME TxTypeOK, InOrder, NothingVanishes,
         NEW f \in Flows, NEW s \in Sizes, Send(f, s)
  PROVE  Accepts(f) \/ Refuses
  <1> DEFINE p == [id |-> arrived + 1, flow |-> f, size |-> s]
  <1>1. p \in Packets /\ p.flow = f /\ p.id = arrived + 1 /\ arrived \in Nat
    BY TxConstantsAssumption DEF TxTypeOK, Send, Packets
  <1>2. UNCHANGED <<sent, current, devQueue, item, requeued>> /\ arrived' = arrived + 1
    BY DEF Send, devVars
  <1>3. \A g \in Flows : fifo'[g] = fifo[g] => Stays(g)
    BY <1>2, SameWay, NextWay DEF Way, Single
  <1>4. CASE Qdisc!Accept(f, p) /\ dropped' = dropped
    <2>1. dropped' = dropped /\ fifo' = [fifo EXCEPT ![f] = Append(@, p)]
      BY <1>4 DEF Qdisc!Accept
    <2> HIDE DEF p
    <2>2. /\ \A g \in Flows \ {f} : fifo'[g] = fifo[g]
          /\ fifo'[f] = Append(fifo[f], p)
      BY <2>1 DEF TxTypeOK
    <2>3. /\ Gone(f) \in Seq(Packets) /\ fifo[f] \in Seq(Packets)
          /\ Way(f) = Gone(f) \o fifo[f] /\ Way(f) \in Seq(Packets)
      BY WayParts
    <2>4. Way(f)' = Gone(f) \o Append(fifo[f], p)
      BY <1>2, <2>2, NextWay DEF Gone, Wire
    <2>5. Way(f)' = Way(f) \o <<p>>
      BY <1>1, <2>3, <2>4, AppendBehind
    <2>6. Ordered(Way(f), f) /\ \A n \in Ids(Way(f), f) : n < p.id
      BY <1>1, IdsHaveArrived DEF InOrder
    <2>7. /\ Ordered(Way(f) \o <<p>>, f)
          /\ Ids(Way(f) \o <<p>>, f) = Ids(Way(f), f) \union {p.id}
      BY <1>1, <2>3, <2>6, PutLast
    <2>8. Gains(f, arrived + 1)
      BY <1>1, <2>5, <2>7 DEF Gains
    <2>. QED
      BY <1>2, <1>3, <2>1, <2>2, <2>8 DEF Accepts
  <1>5. CASE dropped' = dropped \union {arrived + 1} /\ UNCHANGED qdiscVars
    BY <1>2, <1>3, <1>5 DEF Refuses, qdiscVars
  <1>. QED
    BY <1>4, <1>5 DEF Send

\* A packet is dropped from the head of its flow.
LEMMA QdiscDropWays ==
  ASSUME TxTypeOK, PlacesInv, InOrder, NEW f \in Flows, QdiscDrop(f)
  PROVE  Drops(f, Head(fifo[f]).id)
  <1> DEFINE h == Head(fifo[f])
             t == Tail(fifo[f])
             x == Gone(f)
  <1>1. /\ UNCHANGED <<sent, current, devQueue, item, requeued, arrived>>
        /\ dropped' = dropped \union {h.id} /\ fifo[f] # <<>>
        /\ fifo' = [fifo EXCEPT ![f] = t]
    BY DEF QdiscDrop, Qdisc!DropHead, runVars, devVars
  <1>2. h \in Packets /\ h.flow = f
    BY <1>1, HeadInPlace
  <1>3. x \in Seq(Packets) /\ fifo[f] \in Seq(Packets) /\ Way(f) = x \o fifo[f]
    BY WayParts
  <1>4. t \in Seq(Packets) /\ Way(f) = (x \o <<h>>) \o t
    BY <1>1, <1>3, HeadBefore
  <1>5. \A g \in Flows \ {f} : Stays(g)
    <2>1. \A g \in Flows \ {f} : fifo'[g] = fifo[g]
      BY <1>1 DEF TxTypeOK
    <2>. QED
      BY <1>1, <2>1, SameWay, NextWay DEF Way, Single
  <1>6. Way(f)' = x \o t
    <2>1. fifo'[f] = t
      BY <1>1 DEF TxTypeOK
    <2>. QED
      BY <1>1, <2>1, NextWay DEF Gone, Wire
  <1> HIDE DEF h, t, x
  <1>8. Ordered((x \o <<h>>) \o t, f)
    BY <1>4 DEF InOrder
  <1>9. TakenOut(x, h, t, f)
    BY <1>2, <1>3, <1>4, <1>8, TakeOut
  <1>10. Loses(f, h.id)
    BY <1>4, <1>6, <1>9 DEF Loses, TakenOut
  <1>. QED
    BY <1>1, <1>5, <1>10 DEF Drops, h

\* A packet comes out of the queue disc: Transmit will find it in hand. It is the
\* first of its flow that is still in the queue disc.
LEMMA DequeuedWays ==
  ASSUME TxTypeOK, PlacesInv, NEW f \in Flows, Dequeued(f)
  PROVE  Moves
  <1> DEFINE h == Head(fifo[f])
             t == Tail(fifo[f])
  <1>1. /\ UNCHANGED <<sent, current, devQueue, requeued, arrived, dropped>>
        /\ pc = "dequeue" /\ item' = h /\ fifo[f] # <<>>
        /\ fifo' = [fifo EXCEPT ![f] = t]
    BY DEF Dequeued, Qdisc!Deliver, devVars
  <1>2. item = NoPacket /\ requeued = NoPacket
    BY <1>1 DEF PlacesInv, TxTypeOK
  <1>3. h \in Packets /\ h.flow = f
    BY <1>1, HeadInPlace
  <1>4. /\ Single(item) = <<>> /\ Single(requeued) = <<>>
        /\ Single(item') = <<h>> /\ Single(requeued') = <<>>
    BY <1>1, <1>2, <1>3, SingleIs
  <1>5. fifo'[f] = t /\ \A g \in Flows \ {f} : fifo'[g] = fifo[g]
    BY <1>1 DEF TxTypeOK
  <1> HIDE DEF h
  <1>6. ASSUME NEW g \in Flows
        PROVE  /\ Wire(g) \in Seq(Packets) /\ fifo[g] \in Seq(Packets)
               /\ Way(g) = ((Wire(g) \o <<>>) \o <<>>) \o fifo[g]
               /\ Way(g)' = ((Wire(g) \o <<h>>) \o <<>>) \o fifo'[g]
    <2>1. Way(g) = ((Wire(g) \o <<>>) \o <<>>) \o fifo[g]
      BY <1>4, WayParts DEF Gone
    <2>2. Wire(g)' = Wire(g)
      BY <1>1 DEF Wire, Single
    <2>3. Way(g)' = ((Wire(g) \o <<h>>) \o <<>>) \o fifo'[g]
      BY <1>4, <2>2, NextWay
    <2>. QED
      BY <2>1, <2>3, WayParts
  <1>7. ASSUME NEW g \in Flows \ {f} PROVE Stays(g)
    <2>1. Wire(g) \in Seq(Packets) /\ fifo[g] \in Seq(Packets) /\ fifo'[g] = fifo[g]
      BY <1>5, <1>6
    <2>2. h \in Packets /\ h.flow # g /\ <<>> \in Seq(Packets)
      BY <1>3
    <2>3. Alike(((Wire(g) \o <<h>>) \o <<>>) \o fifo[g],
                ((Wire(g) \o <<>>) \o <<>>) \o fifo[g], g)
      BY <2>1, <2>2, StrangerBetween
    <2>. QED
      BY <1>6, <2>1, <2>3 DEF Stays
  <1>8. Stays(f)
    <2>0. Wire(f) \in Seq(Packets) /\ fifo[f] \in Seq(Packets)
      BY <1>6
    <2>1. /\ Wire(f) \in Seq(Packets) /\ fifo[f] \in Seq(Packets)
          /\ Wire(f) \o <<h>> \in Seq(Packets)
      BY <1>3, <2>0
    <2>2. Wire(f) \o fifo[f] = (Wire(f) \o <<h>>) \o t
      BY <1>1, <2>1, HeadBefore DEF h
    <2>3. Way(f) = Wire(f) \o fifo[f]
      BY <1>6, <2>1, ConcatEmptySeq
    <2>4. Way(f)' = (Wire(f) \o <<h>>) \o t
      BY <1>5, <1>6, <2>1, ConcatEmptySeq
    <2>. QED
      BY <2>2, <2>3, <2>4, SameWay
  <1>. QED
    BY <1>1, <1>7, <1>8 DEF Moves

\* A packet is requeued, or taken again: it is in the same place on its way.
LEMMA RequeueWays == ASSUME TxTypeOK, PlacesInv, Requeue \/ TakeRequeued PROVE Moves
  <1>1. UNCHANGED <<sent, current, devQueue, fifo, arrived, dropped>>
    BY DEF Requeue, TakeRequeued, qdiscVars, devVars
  <1>2. \/ item \in Packets /\ requeued = NoPacket /\ requeued' = item /\ item' = NoPacket
        \/ /\ requeued \in Packets /\ item = NoPacket
           /\ item' = requeued /\ requeued' = NoPacket
    BY DEF Requeue, TakeRequeued, TxTypeOK, PlacesInv
  <1>3. ASSUME NEW f \in Flows PROVE Stays(f)
    <2>1. Wire(f)' = Wire(f) /\ fifo'[f] = fifo[f]
      BY <1>1 DEF Wire, Single
    <2>2. PICK p \in Packets :
             \/ /\ Single(item) = <<p>> /\ Single(requeued) = <<>>
                /\ Single(item') = <<>> /\ Single(requeued') = <<p>>
             \/ /\ Single(item) = <<>> /\ Single(requeued) = <<p>>
                /\ Single(item') = <<p>> /\ Single(requeued') = <<>>
      BY <1>2, SingleIs
    <2>3. Wire(f) \in Seq(Packets) /\ <<p>> \in Seq(Packets)
          /\ Wire(f) \o <<p>> \in Seq(Packets)
      BY WayParts
    <2>4. /\ (Wire(f) \o <<p>>) \o <<>> = Wire(f) \o <<p>>
          /\ (Wire(f) \o <<>>) \o <<p>> = Wire(f) \o <<p>>
      BY <2>3, ConcatEmptySeq
    <2>5. Gone(f)' = Gone(f)
      BY <2>1, <2>2, <2>4, NextWay DEF Gone
    <2>6. Way(f)' = Way(f)
      BY <2>1, <2>5, NextWay, WayParts
    <2>. QED
      BY <2>6, SameWay
  <1>. QED
    BY <1>1, <1>3 DEF Moves

\* A step that leaves all places alone.
LEMMA StillWays ==
  ASSUME UNCHANGED <<sent, current, devQueue, item, requeued, fifo, arrived, dropped>>
  PROVE  Moves
  <1>1. \A f \in Flows : Way(f)' = Way(f)
    BY DEF Way, Single
  <1>. QED
    BY <1>1, SameWay DEF Moves

\* The packet in hand is between those that have left the queue disc before it and
\* those in the queue disc; afterwards it is where the device has put it.
LEMMA TransmitWay ==
  ASSUME TxTypeOK, PlacesInv, Transmit, NEW f \in Flows
  PROVE  /\ Wire(f) \in Seq(Packets) /\ fifo[f] \in Seq(Packets)
         /\ Wire(f) \o <<item>> \in Seq(Packets)
         /\ Way(f) = (Wire(f) \o <<item>>) \o fifo[f]
         /\ Wire(f)' \in Seq(Packets) => Way(f)' = Wire(f)' \o fifo[f]
  <1>1. /\ item \in Packets /\ item' = NoPacket
        /\ requeued = NoPacket /\ requeued' = NoPacket /\ fifo' = fifo
    BY TransmitOutcomes
  <1>2. /\ Single(item) = <<item>> /\ Single(item') = <<>>
        /\ Single(requeued) = <<>> /\ Single(requeued') = <<>>
    BY <1>1, SingleIs
  <1>3. Wire(f) \in Seq(Packets) /\ fifo[f] \in Seq(Packets)
    BY WayParts
  <1>4. Wire(f) \o <<item>> \in Seq(Packets)
    BY <1>1, <1>3
  <1>5. Way(f) = (Wire(f) \o <<item>>) \o fifo[f]
    <2>1. Gone(f) = (Wire(f) \o <<item>>) \o <<>>
      BY <1>2 DEF Gone
    <2>2. Gone(f) = Wire(f) \o <<item>>
      BY <1>4, <2>1, ConcatEmptySeq
    <2>. QED
      BY <2>2, WayParts
  <1>6. ASSUME Wire(f)' \in Seq(Packets) PROVE Way(f)' = Wire(f)' \o fifo[f]
    <2>1. Way(f)' = ((Wire(f)' \o <<>>) \o <<>>) \o fifo[f]
      BY <1>1, <1>2, NextWay
    <2>. QED
      BY <1>6, <2>1, ConcatEmptySeq
  <1>. QED
    BY <1>3, <1>4, <1>5, <1>6

\* To the flows that are not its own the packet in hand makes no difference.
LEMMA StrangerTransmitted ==
  ASSUME TxTypeOK, PlacesInv, Transmit,
         NEW f \in Flows, Wire(f)' = Wire(f), item.flow # f
  PROVE  Stays(f)
  <1>1. item \in Packets
    BY TransmitOutcomes
  <1>2. Wire(f) \in Seq(Packets) /\ fifo[f] \in Seq(Packets)
    BY WayParts
  <1>3. Alike(<<>>, <<item>>, f)
    BY <1>1, AlikeStranger
  <1>4. Alike(Wire(f), Wire(f), f)
    BY DEF Alike
  <1>5. <<item>> \in Seq(Packets) /\ <<>> \in Seq(Packets)
    BY <1>1
  <1>6. Alike(Wire(f) \o <<>>, Wire(f) \o <<item>>, f)
    BY <1>2, <1>3, <1>4, <1>5, AlikeConcat
  <1>7. Wire(f) \o <<>> = Wire(f)
    BY <1>2, ConcatEmptySeq
  <1>8. Wire(f) \o <<item>> \in Seq(Packets)
    BY <1>2, <1>5
  <1>9. Alike(Wire(f) \o fifo[f], (Wire(f) \o <<item>>) \o fifo[f], f)
    BY <1>2, <1>6, <1>7, <1>8, AlikeFollowed
  <1>10. Way(f) = (Wire(f) \o <<item>>) \o fifo[f] /\ Way(f)' = Wire(f) \o fifo[f]
    BY <1>2, TransmitWay
  <1>. QED
    BY <1>9, <1>10 DEF Stays

\* The device drops the packet in hand.
LEMMA TransmitDropWays ==
  ASSUME TxTypeOK, PlacesInv, InOrder, Transmit,
         dropped' = dropped \union {item.id}, UNCHANGED <<devQueue, current>>
  PROVE  Drops(item.flow, item.id)
  <1>1. item \in Packets /\ UNCHANGED <<fifo, sent, arrived>>
    BY TransmitOutcomes
  <1>2. PICK f \in Flows : item.flow = f
    BY <1>1, PacketParts
  <1>3. ASSUME NEW g \in Flows
        PROVE  /\ Wire(g) \in Seq(Packets) /\ fifo[g] \in Seq(Packets)
               /\ Way(g) = (Wire(g) \o <<item>>) \o fifo[g]
               /\ Way(g)' = Wire(g) \o fifo[g]
    <2>1. Wire(g)' = Wire(g)
      BY <1>1 DEF Wire, Single
    <2>. QED
      BY <2>1, TransmitWay
  <1>4. \A g \in Flows \ {f} : Stays(g)
    BY <1>1, <1>2, StrangerTransmitted DEF Wire, Single
  <1>5. Loses(f, item.id)
    <2> DEFINE x == Wire(f)
               y == fifo[f]
               p == item
    <2>1. x \in Seq(Packets) /\ y \in Seq(Packets) /\ p \in Packets
      BY <1>1, <1>3
    <2>2. Way(f) = (x \o <<p>>) \o y /\ Way(f)' = x \o y
      BY <1>3
    <2>3. p.flow = f
      BY <1>2
    <2> HIDE DEF x, y, p
    <2>4. Ordered((x \o <<p>>) \o y, f)
      BY <2>2 DEF InOrder
    <2>5. TakenOut(x, p, y, f)
      BY <2>1, <2>3, <2>4, TakeOut
    <2>. QED
      BY <2>2, <2>5 DEF Loses, TakenOut, p
  <1>. QED
    BY <1>1, <1>2, <1>4, <1>5 DEF Drops

\* The device takes the packet in hand: it is behind those of its flow there.
LEMMA TransmitTakeWays ==
  ASSUME TxTypeOK, PlacesInv, Transmit, dropped' = dropped,
         \/ /\ UNCHANGED current /\ current # NoPacket
            /\ devQueue' = [devQueue EXCEPT ![Txq(item)] = Append(@, item)]
         \/ /\ UNCHANGED devQueue /\ current = NoPacket /\ current' = item
  PROVE  Moves
  <1>1. /\ item \in Packets /\ UNCHANGED <<sent, arrived, fifo>>
        /\ Txq(item) \in TxQueues
    BY TransmitOutcomes
  <1>2. ASSUME NEW f \in Flows, Wire(f)' = Wire(f) \o <<item>> PROVE Stays(f)
    BY <1>2, TransmitWay, SameWay
  <1>3. \A f \in Flows : Wire(f)' = Wire(f) /\ item.flow # f => Stays(f)
    BY StrangerTransmitted
  <1>4. CASE UNCHANGED current
             /\ devQueue' = [devQueue EXCEPT ![Txq(item)] = Append(@, item)]
    <2>1. ASSUME NEW f \in Flows, TxqOf[f] = Txq(item) PROVE Stays(f)
      <3> DEFINE x == sent \o Single(current)
                 d == devQueue[TxqOf[f]]
      <3>1. x \in Seq(Packets) /\ d \in Seq(Packets) /\ Wire(f) = x \o d
        BY WayParts DEF Wire
      <3>2. devQueue'[TxqOf[f]] = Append(d, item)
        BY <1>1, <1>4, <2>1 DEF TxTypeOK
      <3>3. Wire(f)' = x \o Append(d, item)
        BY <1>1, <1>4, <3>2, NextWay
      <3> HIDE DEF x, d
      <3>4. Wire(f)' = Wire(f) \o <<item>>
        BY <1>1, <3>1, <3>3, AppendBehind
      <3>. QED
        BY <1>2, <3>4
    <2>2. ASSUME NEW f \in Flows, TxqOf[f] # Txq(item) PROVE Stays(f)
      <3>1. devQueue'[TxqOf[f]] = devQueue[TxqOf[f]]
        BY <1>4, <2>2, WayParts DEF TxTypeOK
      <3>2. Wire(f)' = Wire(f)
        BY <1>1, <1>4, <3>1, NextWay DEF Wire
      <3>3. item.flow # f
        BY <2>2 DEF Txq
      <3>. QED
        BY <1>3, <3>2, <3>3
    <2>. QED
      BY <1>1, <2>1, <2>2 DEF Moves
  <1>5. CASE UNCHANGED devQueue /\ current = NoPacket /\ current' = item
    <2>1. ASSUME NEW f \in Flows PROVE Stays(f)
      <3>1. devQueue[TxqOf[f]] = <<>> /\ sent \in Seq(Packets)
        BY <1>5, WayParts DEF PlacesInv
      <3>2. Single(current) = <<>> /\ Single(current') = <<item>>
        BY <1>1, <1>5, SingleIs
      <3>3. sent \o <<item>> \in Seq(Packets)
        BY <1>1, <3>1
      <3>4. Wire(f) = (sent \o <<>>) \o <<>>
        BY <3>1, <3>2 DEF Wire
      <3>5. Wire(f)' = (sent \o <<item>>) \o <<>>
        BY <1>1, <1>5, <3>1, <3>2, NextWay
      <3>6. Wire(f) = sent /\ Wire(f)' = sent \o <<item>>
        BY <3>1, <3>3, <3>4, <3>5, ConcatEmptySeq
      <3>. QED
        BY <1>2, <3>6
    <2>. QED
      BY <1>1, <2>1 DEF Moves
  <1>. QED
    BY <1>4, <1>5

\* Transmit moves the packet in hand, or loses it.
LEMMA TransmitWays ==
  ASSUME TxTypeOK, PlacesInv, InOrder, Transmit
  PROVE  Moves \/ \E f \in Flows, n \in Nat : Drops(f, n)
  <1>1. item \in Packets
    BY TransmitOutcomes
  <1>2. item.flow \in Flows /\ item.id \in Nat
    BY <1>1, PacketParts
  <1>3. \/ dropped' = dropped \union {item.id} /\ UNCHANGED <<devQueue, current>>
        \/ /\ dropped' = dropped
           /\ \/ /\ UNCHANGED current /\ current # NoPacket
                 /\ devQueue' = [devQueue EXCEPT ![Txq(item)] = Append(@, item)]
              \/ /\ UNCHANGED devQueue /\ current = NoPacket /\ current' = item
    BY TransmitOutcomes
  <1>. QED
    BY <1>2, <1>3, TransmitDropWays, TransmitTakeWays

\* A transmission ends, and the next may begin.
LEMMA CompleteWays == ASSUME TxTypeOK, PlacesInv, TransmitComplete PROVE Moves
  <1>1. /\ current \in Packets /\ sent' = Append(sent, current)
        /\ UNCHANGED <<fifo, requeued, item, arrived, dropped>>
    BY CompleteOutcomes
  <1> DEFINE x == sent \o <<current>>
  <1>2. x \in Seq(Packets) /\ sent' = x
    <2>1. sent \in Seq(Packets)
      BY DEF TxTypeOK
    <2>. QED
      BY <1>1, <2>1, AppendIsConcat
  <1>3. \A f \in Flows : Wire(f) = x \o devQueue[TxqOf[f]]
    BY <1>1, SingleIs DEF Wire
  <1> HIDE DEF x
  <1>4. ASSUME NEW f \in Flows, Wire(f)' \in Seq(Packets), Alike(Wire(f)', Wire(f), f)
        PROVE  Stays(f)
    <2> DEFINE w == Wire(f)'
               r == Single(requeued)
               n == Single(item)
    <2>1. /\ Wire(f) \in Seq(Packets) /\ w \in Seq(Packets) /\ n \in Seq(Packets)
          /\ r \in Seq(Packets) /\ fifo[f] \in Seq(Packets)
      BY <1>4, WayParts
    <2>2. Way(f) = ((Wire(f) \o n) \o r) \o fifo[f]
      BY WayParts DEF Gone
    <2>3. Way(f)' = ((w \o n) \o r) \o fifo[f]
      BY <1>1, NextWay
    <2>4. Alike(w, Wire(f), f)
      BY <1>4
    <2> HIDE DEF w, r, n
    <2>5. w \o n \in Seq(Packets) /\ Wire(f) \o n \in Seq(Packets)
      BY <2>1
    <2>6. Alike(w \o n, Wire(f) \o n, f)
      BY <2>1, <2>4, AlikeFollowed
    <2>7. (w \o n) \o r \in Seq(Packets) /\ (Wire(f) \o n) \o r \in Seq(Packets)
      BY <2>1, <2>5
    <2>8. Alike((w \o n) \o r, (Wire(f) \o n) \o r, f)
      BY <2>1, <2>5, <2>6, AlikeFollowed
    <2>9. Alike(((w \o n) \o r) \o fifo[f], ((Wire(f) \o n) \o r) \o fifo[f], f)
      BY <2>1, <2>7, <2>8, AlikeFollowed
    <2>. QED
      BY <2>2, <2>3, <2>9 DEF Stays
  <1>5. ASSUME NEW f \in Flows, Wire(f)' = Wire(f) PROVE Stays(f)
    BY <1>4, <1>5, WayParts DEF Alike
  <1>6. CASE /\ \A q \in TxQueues : devQueue[q] = <<>>
             /\ current' = NoPacket /\ UNCHANGED devQueue
    <2>1. ASSUME NEW f \in Flows PROVE Stays(f)
      <3>1. devQueue[TxqOf[f]] = <<>> /\ devQueue'[TxqOf[f]] = <<>>
        BY <1>6, WayParts
      <3>2. Wire(f) = x \o <<>>
        BY <1>3, <3>1
      <3>3. Wire(f)' = (x \o <<>>) \o <<>>
        BY <1>2, <1>6, <3>1, SingleIs, NextWay
      <3>4. Wire(f)' = Wire(f)
        BY <1>2, <3>2, <3>3, ConcatEmptySeq
      <3>. QED
        BY <1>5, <3>4
    <2>. QED
      BY <1>1, <2>1 DEF Moves
  <1>7. ASSUME NEW q \in TxQueues, devQueue[q] # <<>>,
               current' = Head(devQueue[q]),
               devQueue' = [devQueue EXCEPT ![q] = Tail(@)]
        PROVE  Moves
    <2> DEFINE h == Head(devQueue[q])
    <2>1. h \in Packets /\ Txq(h) = q /\ Single(current') = <<h>>
      BY <1>7, HeadInPlace, SingleIs
    <2>2. ASSUME NEW f \in Flows, TxqOf[f] = q PROVE Stays(f)
      <3>1. devQueue[q] \in Seq(Packets)
        BY DEF TxTypeOK
      <3>2. Wire(f)' = (x \o <<h>>) \o Tail(devQueue[q])
        BY <1>2, <1>7, <2>1, <2>2, NextWay DEF TxTypeOK
      <3>3. Wire(f) = x \o devQueue[q]
        BY <1>3, <2>2
      <3>4. Wire(f)' = Wire(f)
        BY <1>2, <1>7, <3>1, <3>2, <3>3, HeadBefore
      <3>. QED
        BY <1>5, <3>4
    <2>3. ASSUME NEW f \in Flows, TxqOf[f] # q PROVE Stays(f)
      <3> DEFINE d == devQueue[TxqOf[f]]
                 p == h
      <3>1. d \in Seq(Packets) /\ p \in Packets
        BY <2>1, WayParts
      <3>2. p.flow # f
        BY <2>1, <2>3 DEF Txq
      <3>3. Wire(f) = x \o d
        BY <1>3
      <3>4. Wire(f)' = (x \o <<p>>) \o d
        BY <1>2, <1>7, <2>1, <2>3, WayParts, NextWay DEF TxTypeOK
      <3> HIDE DEF d, p
      <3>5. <<p>> \in Seq(Packets) /\ <<>> \in Seq(Packets)
        BY <3>1
      <3>6. Alike(<<p>>, <<>>, f)
        BY <3>1, <3>2, AlikeStranger
      <3>7. Alike(x, x, f)
        BY DEF Alike
      <3>8. Alike(x \o <<p>>, x \o <<>>, f)
        BY <1>2, <3>5, <3>6, <3>7, AlikeConcat
      <3>9. x \o <<>> = x /\ x \o <<p>> \in Seq(Packets)
        BY <1>2, <3>5, ConcatEmptySeq
      <3>10. Alike((x \o <<p>>) \o d, x \o d, f)
        BY <1>2, <3>1, <3>8, <3>9, AlikeFollowed
      <3>11. (x \o <<p>>) \o d \in Seq(Packets)
        BY <3>1, <3>9
      <3>. QED
        BY <1>4, <3>3, <3>4, <3>10, <3>11
    <2>. QED
      BY <1>1, <2>2, <2>3 DEF Moves
  <1>. QED
    BY <1>6, <1>7, CompleteOutcomes

\* Every step moves packets along, drops one, accepts one or refuses one.
LEMMA NextWays ==
  ASSUME TxTypeOK, WayInv, [Next]_vars
  PROVE  \/ Moves \/ Refuses
         \/ \E f \in Flows : Accepts(f) \/ \E n \in Nat : Drops(f, n)
  <1>0. PlacesInv /\ InOrder /\ NothingVanishes
    BY DEF WayInv
  <1>1. ASSUME NEW f \in Flows, NEW s \in Sizes, Send(f, s)
        PROVE  Accepts(f) \/ Refuses
    BY <1>0, <1>1, SendWays
  <1>2. ASSUME NEW f \in Flows, QdiscDrop(f)
        PROVE  \E n \in Nat : Drops(f, n)
    <2>1. fifo[f] # <<>>
      BY <1>2 DEF QdiscDrop, Qdisc!DropHead
    <2>2. Head(fifo[f]).id \in Nat
      BY <1>0, <2>1, HeadInPlace, PacketParts
    <2>. QED
      BY <1>0, <1>2, <2>2, QdiscDropWays
  <1>3. ASSUME NEW f \in Flows, Dequeued(f) PROVE Moves
    BY <1>0, <1>3, DequeuedWays
  <1>4. CASE Requeue \/ TakeRequeued
    BY <1>0, <1>4, RequeueWays
  <1>5. CASE Transmit
    BY <1>0, <1>5, TransmitWays
  <1>6. CASE TransmitComplete
    BY <1>0, <1>6, CompleteWays
  <1>7. CASE \/ Enqueued \/ WakeUp \/ CallDequeue \/ RunBlocked \/ NothingDequeued
             \/ UNCHANGED vars
    <2>1. UNCHANGED <<sent, current, devQueue, item, requeued, fifo, arrived, dropped>>
      BY <1>7 DEF Enqueued, WakeUp, CallDequeue, RunBlocked, NothingDequeued,
                  Qdisc!Call, Qdisc!ReturnNothing, vars, qdiscVars, runVars, devVars
    <2>. QED
      BY <2>1, StillWays
  <1>. QED
    BY <1>1, <1>2, <1>3, <1>4, <1>5, <1>6, <1>7 DEF Next, RunStep

\* What the invariant says of the ways, with the ways as they are after a step.
LEMMA NextInOrder == InOrder' <=> \A f \in Flows : Ordered(Way(f)', f)
  BY DEF InOrder, Ordered, OfFlow

LEMMA NextSeen == Seen' = UNION {Ids(Way(f)', f) : f \in Flows}
  BY DEF Seen, Ids, OfFlow

LEMMA NextApart ==
  FlowsApart' <=> \A f, g \in Flows :
                    f # g => Ids(Way(f)', f) \intersect Ids(Way(g)', g) = {}
  BY DEF FlowsApart, Ids, OfFlow

\* A step that moves packets along, or refuses one, keeps order and account.
LEMMA MovesKeep ==
  ASSUME InOrder, NothingVanishes, FlowsApart, arrived \in Nat,
         \A f \in Flows : Stays(f),
         \/ arrived' = arrived /\ dropped' = dropped
         \/ arrived' = arrived + 1 /\ dropped' = dropped \union {arrived + 1}
  PROVE  InOrder' /\ NothingVanishes' /\ FlowsApart'
  <1>1. \A f \in Flows : /\ Ids(Way(f)', f) = Ids(Way(f), f)
                         /\ Ordered(Way(f)', f) <=> Ordered(Way(f), f)
    BY DEF Stays, Alike
  <1>2. InOrder'
    BY <1>1, NextInOrder DEF InOrder
  <1>3. FlowsApart'
    BY <1>1, NextApart DEF FlowsApart
  <1>4. Seen' = Seen
    BY <1>1, NextSeen DEF Seen
  <1>5. Seen \union dropped = 1 .. arrived /\ Seen \intersect dropped = {}
    BY DEF NothingVanishes
  <1>6. (Seen \union dropped)' = 1 .. arrived' /\ (Seen \intersect dropped)' = {}
    <2>1. CASE arrived' = arrived /\ dropped' = dropped
      BY <1>4, <1>5, <2>1
    <2>2. CASE arrived' = arrived + 1 /\ dropped' = dropped \union {arrived + 1}
      <3>1. arrived + 1 \notin Seen
        BY <1>5
      <3>2. 1 .. arrived + 1 = (1 .. arrived) \union {arrived + 1}
        OBVIOUS
      <3>. QED
        BY <1>4, <1>5, <2>2, <3>1, <3>2
    <2>. QED
      BY <2>1, <2>2
  <1>. QED
    BY <1>2, <1>3, <1>6 DEF NothingVanishes

\* A drop keeps order and account.
LEMMA DropsKeep ==
  ASSUME InOrder, NothingVanishes, FlowsApart, NEW f \in Flows, NEW n \in Nat,
         Drops(f, n)
  PROVE  InOrder' /\ NothingVanishes' /\ FlowsApart'
  <1>1. \A g \in Flows \ {f} : /\ Ids(Way(g)', g) = Ids(Way(g), g)
                               /\ Ordered(Way(g)', g) <=> Ordered(Way(g), g)
    BY DEF Drops, Stays, Alike
  <1>2. /\ Ids(Way(f)', f) = Ids(Way(f), f) \ {n}
        /\ n \in Ids(Way(f), f) /\ Ordered(Way(f)', f)
    BY DEF Drops, Loses
  <1>3. InOrder'
    BY <1>1, <1>2, NextInOrder DEF InOrder
  <1>4. \A g \in Flows : Ids(Way(g)', g) \subseteq Ids(Way(g), g)
    BY <1>1, <1>2
  <1>5. FlowsApart'
    BY <1>4, NextApart DEF FlowsApart
  <1>6. Seen' = Seen \ {n}
    <2>1. ASSUME NEW m \in Seen' PROVE m \in Seen \ {n}
      <3>1. PICK g \in Flows : m \in Ids(Way(g)', g)
        BY <2>1, NextSeen
      <3>2. m \in Ids(Way(g), g)
        BY <1>4, <3>1
      <3>3. m # n
        BY <1>1, <1>2, <3>1, <3>2 DEF FlowsApart
      <3>. QED
        BY <3>2, <3>3 DEF Seen
    <2>2. ASSUME NEW m \in Seen, m # n PROVE m \in Seen'
      <3>1. PICK g \in Flows : m \in Ids(Way(g), g)
        BY <2>2 DEF Seen
      <3>2. m \in Ids(Way(g)', g)
        BY <1>1, <1>2, <2>2, <3>1
      <3>. QED
        BY <3>2, NextSeen
    <2>. QED
      BY <2>1, <2>2
  <1>7. n \in Seen
    BY <1>2 DEF Seen
  <1>8. /\ Seen \union dropped = 1 .. arrived /\ Seen \intersect dropped = {}
        /\ arrived' = arrived /\ dropped' = dropped \union {n}
    BY DEF NothingVanishes, Drops
  <1>9. (Seen \union dropped)' = 1 .. arrived' /\ (Seen \intersect dropped)' = {}
    BY <1>6, <1>7, <1>8
  <1>. QED
    BY <1>3, <1>5, <1>9 DEF NothingVanishes

\* A packet that is accepted keeps order and account.
LEMMA AcceptsKeep ==
  ASSUME InOrder, NothingVanishes, FlowsApart, arrived \in Nat,
         NEW f \in Flows, Accepts(f)
  PROVE  InOrder' /\ NothingVanishes' /\ FlowsApart'
  <1>1. \A g \in Flows \ {f} : /\ Ids(Way(g)', g) = Ids(Way(g), g)
                               /\ Ordered(Way(g)', g) <=> Ordered(Way(g), g)
    BY DEF Accepts, Stays, Alike
  <1>2. /\ Ids(Way(f)', f) = Ids(Way(f), f) \union {arrived + 1}
        /\ Ordered(Way(f)', f)
    BY DEF Accepts, Gains
  <1>3. \A g \in Flows : arrived + 1 \notin Ids(Way(g), g)
    BY IdsHaveArrived
  <1>4. InOrder'
    BY <1>1, <1>2, NextInOrder DEF InOrder
  <1>5. FlowsApart'
    <2>1. SUFFICES ASSUME NEW g \in Flows, NEW h \in Flows, g # h
                   PROVE  Ids(Way(g)', g) \intersect Ids(Way(h)', h) = {}
      BY NextApart
    <2>2. Ids(Way(g), g) \intersect Ids(Way(h), h) = {}
      BY <2>1 DEF FlowsApart
    <2>. QED
      BY <1>1, <1>2, <1>3, <2>1, <2>2
  <1>6. Seen' = Seen \union {arrived + 1}
    BY <1>1, <1>2, NextSeen DEF Seen
  <1>7. /\ Seen \union dropped = 1 .. arrived /\ Seen \intersect dropped = {}
        /\ arrived' = arrived + 1 /\ dropped' = dropped
    BY DEF NothingVanishes, Accepts
  <1>8. /\ arrived + 1 \notin dropped
        /\ 1 .. arrived + 1 = (1 .. arrived) \union {arrived + 1}
    BY <1>7
  <1>9. (Seen \union dropped)' = 1 .. arrived' /\ (Seen \intersect dropped)' = {}
    BY <1>6, <1>7, <1>8
  <1>. QED
    BY <1>4, <1>5, <1>9 DEF NothingVanishes

\* Every step preserves WayInv.
LEMMA NextWayInv == TxTypeOK /\ WayInv /\ [Next]_vars => WayInv'
  <1> SUFFICES ASSUME TxTypeOK, WayInv, [Next]_vars PROVE WayInv'
    OBVIOUS
  <1>1. PlacesInv /\ InOrder /\ NothingVanishes /\ FlowsApart /\ arrived \in Nat
    BY TxConstantsAssumption DEF WayInv, TxTypeOK
  <1>2. PlacesInv'
    BY <1>1, NextPlaces
  <1>3. CASE Moves
    BY <1>1, <1>2, <1>3, MovesKeep DEF Moves, WayInv
  <1>4. CASE Refuses
    BY <1>1, <1>2, <1>4, MovesKeep DEF Refuses, WayInv
  <1>5. ASSUME NEW f \in Flows, Accepts(f) PROVE WayInv'
    BY <1>1, <1>2, <1>5, AcceptsKeep DEF WayInv
  <1>6. ASSUME NEW f \in Flows, NEW n \in Nat, Drops(f, n) PROVE WayInv'
    BY <1>1, <1>2, <1>6, DropsKeep DEF WayInv
  <1>. QED
    BY <1>3, <1>4, <1>5, <1>6, NextWays

\* At the beginning nothing has arrived and all places are empty.
LEMMA InitWayInv == Init => WayInv
  <1> SUFFICES ASSUME Init PROVE WayInv
    OBVIOUS
  <1>1. /\ fifo = [f \in Flows |-> <<>>] /\ devQueue = [q \in TxQueues |-> <<>>]
        /\ sent = <<>> /\ current = NoPacket /\ item = NoPacket /\ requeued = NoPacket
        /\ arrived = 0 /\ dropped = {} /\ pc = "idle"
    BY DEF Init, Qdisc!Init
  <1>2. ASSUME NEW f \in Flows
        PROVE  Ids(Way(f), f) = {} /\ Ordered(Way(f), f)
    <2>1. <<>> \in Seq(Packets) /\ <<>> \o <<>> = <<>>
      OBVIOUS
    <2>2. Way(f) = <<>>
      <3>1. devQueue[TxqOf[f]] = <<>> /\ fifo[f] = <<>>
        BY <1>1, TxConstantsAssumption
      <3>2. Single(current) = <<>> /\ Single(item) = <<>> /\ Single(requeued) = <<>>
        BY <1>1, SingleIs
      <3>. QED
        BY <1>1, <2>1, <3>1, <3>2 DEF Way
    <2>. QED
      BY <2>2, OfNone
  <1>3. PlacesInv
    BY <1>1 DEF PlacesInv
  <1>4. InOrder /\ FlowsApart
    BY <1>2 DEF InOrder, FlowsApart
  <1>5. Seen = {}
    BY <1>2 DEF Seen
  <1>6. NothingVanishes
    BY <1>1, <1>5 DEF NothingVanishes
  <1>. QED
    BY <1>3, <1>4, <1>6 DEF WayInv

\* From the queue disc to the wire the packets of a flow stay in the order they
\* arrived in, over any number of device queues, limited in packets or in bytes.
THEOREM FlowsStayInOrder == Spec => []InOrder
  <1>1. WayInv => InOrder
    BY DEF WayInv
  <1>. QED
    BY <1>1, InitWayInv, NextWayInv, TxTypeCorrect, PTL DEF Spec

\* Each packet that arrived is on its way, was sent, or was counted as dropped,
\* and is in one place only.
THEOREM NoPacketVanishes == Spec => []NothingVanishes
  <1>1. WayInv => NothingVanishes
    BY DEF WayInv
  <1>. QED
    BY <1>1, InitWayInv, NextWayInv, TxTypeCorrect, PTL DEF Spec
-----------------------------------------------------------------------------
(***************************************************************************)
(* Over any number of device queues a quota is enough if it covers all the *)
(* places of the device. A Run that finds packets waiting finds the device *)
(* transmitting, and each packet it transmits takes a place: when the quota*)
(* is used up all queues are full.                                         *)
(***************************************************************************)
FreePlaces == {x \in TxQueues \X (1 .. DevMaxSize) : x[2] > Len(devQueue[x[1]])}
PlacesLeft == Cardinality(FreePlaces)

\* A stopped queue that holds a packet, whose departure will wake the queue disc.
Blocked == \E q \in TxQueues : stopped[q] /\ devQueue[q] # <<>>

\* Run has quota for each place it can fill.
Covered == current # NoPacket /\ PlacesLeft <= quota

QuotaInv ==
  /\ wakeEvents > 0 => current # NoPacket
  /\ pc = "idle" /\ Waiting => wakeEvents > 0 \/ Blocked
  /\ pc = "enqueue" => current # NoPacket \/ (requeued = NoPacket /\ OneLeft)
  /\ pc \in {"restart", "dequeue"} => Covered \/ (requeued = NoPacket /\ OneLeft)
  /\ pc = "transmit" => Covered \/ QdiscEmpty

CoverInv == TxTypeOK /\ StoppedIffFull /\ DevInv /\ PlacesInv /\ QuotaInv

LEMMA PlacesAreFinite ==
  /\ IsFiniteSet(FreePlaces) /\ PlacesLeft \in Nat
  /\ PlacesLeft <= Cardinality(TxQueues) * DevMaxSize
  <1>1. IsFiniteSet(TxQueues) /\ Cardinality(TxQueues) \in Nat /\ DevMaxSize \in Nat
    BY TxConstantsAssumption, FS_CardinalityType
  <1>2. IsFiniteSet(1 .. DevMaxSize) /\ Cardinality(1 .. DevMaxSize) = DevMaxSize
    <2>1. 1 \in Int /\ DevMaxSize \in Int
      BY <1>1
    <2>2. /\ IsFiniteSet(1 .. DevMaxSize)
          /\ Cardinality(1 .. DevMaxSize) =
               IF 1 > DevMaxSize THEN 0 ELSE DevMaxSize - 1 + 1
      BY ONLY <2>1, FS_Interval
    <2>. QED
      BY <1>1, <2>2
  <1>3. /\ IsFiniteSet(TxQueues \X (1 .. DevMaxSize))
        /\ Cardinality(TxQueues \X (1 .. DevMaxSize)) = Cardinality(TxQueues) * DevMaxSize
    BY <1>1, <1>2, FS_Product
  <1>4. FreePlaces \in SUBSET (TxQueues \X (1 .. DevMaxSize))
    BY DEF FreePlaces
  <1>. QED
    BY <1>3, <1>4, FS_Subset, FS_CardinalityType DEF PlacesLeft

\* A packet that stays in a queue takes one place.
LEMMA PlaceTaken ==
  ASSUME TxTypeOK, NEW q \in TxQueues, NEW s \in Seq(Packets),
         Len(s) = Len(devQueue[q]) + 1, Len(s) <= DevMaxSize,
         devQueue' = [devQueue EXCEPT ![q] = s]
  PROVE  PlacesLeft' = PlacesLeft - 1
  <1> DEFINE n == Len(devQueue[q]) + 1
  <1>1. /\ n \in 1 .. DevMaxSize /\ DevMaxSize \in Nat
        /\ \A r \in TxQueues : Len(devQueue[r]) \in Nat
    BY TxConstantsAssumption DEF TxTypeOK
  <1>2. /\ Len(devQueue'[q]) = n
        /\ \A r \in TxQueues \ {q} : devQueue'[r] = devQueue[r]
    BY DEF TxTypeOK
  <1>3. <<q, n>> \in FreePlaces
    BY <1>1 DEF FreePlaces
  <1>4. ASSUME NEW r \in TxQueues, NEW k \in 1 .. DevMaxSize
        PROVE  k > Len(devQueue'[r]) <=> k > Len(devQueue[r]) /\ <<r, k>> # <<q, n>>
    <2>1. CASE r = q
      <3>1. <<r, k>> # <<q, n>> <=> k # n
        BY <2>1
      <3>. QED
        BY <1>1, <1>2, <2>1, <3>1
    <2>2. CASE r # q
      <3>1. <<r, k>> # <<q, n>>
        BY <2>2
      <3>. QED
        BY <1>2, <2>2, <3>1
    <2>. QED
      BY <2>1, <2>2
  <1> HIDE DEF n
  <1>5. FreePlaces' = FreePlaces \ {<<q, n>>}
    <2>1. ASSUME NEW x \in TxQueues \X (1 .. DevMaxSize)
          PROVE  x \in FreePlaces' <=> x \in FreePlaces /\ x # <<q, n>>
      <3>1. /\ x[1] \in TxQueues /\ x[2] \in 1 .. DevMaxSize /\ x = <<x[1], x[2]>>
        OBVIOUS
      <3>2. x[2] > Len(devQueue'[x[1]])
              <=> x[2] > Len(devQueue[x[1]]) /\ <<x[1], x[2]>> # <<q, n>>
        BY <1>4, <3>1
      <3>. QED
        BY <3>1, <3>2 DEF FreePlaces
    <2>2. FreePlaces \subseteq TxQueues \X (1 .. DevMaxSize)
      BY DEF FreePlaces
    <2>3. FreePlaces' \subseteq TxQueues \X (1 .. DevMaxSize)
      BY DEF FreePlaces
    <2>. QED
      BY <2>1, <2>2, <2>3
  <1>. QED
    BY <1>3, <1>5, PlacesAreFinite, FS_RemoveElement DEF PlacesLeft

\* QueueLengths, of the queues as they are after a step.
LEMMA NextQueueLengths ==
  ASSUME DevMode = "packets", TxTypeOK', StoppedIffFull', NEW q \in TxQueues
  PROVE  Len(devQueue'[q]) \in Nat /\ (stopped'[q] <=> Len(devQueue'[q]) >= DevMaxSize)
  <1>1. devQueue'[q] \in Seq(Packets)
    BY DEF TxTypeOK
  <1>2. Room(devQueue'[q]) <=> Len(devQueue'[q]) < DevMaxSize
    BY <1>1, PacketRoom
  <1>3. stopped'[q] <=> ~Room(devQueue'[q])
    BY NextStoppedIffFull
  <1>. QED
    BY <1>1, <1>2, <1>3, TxConstantsAssumption

\* Without a place left after a step every queue is full, and so stopped.
LEMMA NextNoPlaceLeft ==
  ASSUME DevMode = "packets", TxTypeOK', StoppedIffFull', PlacesLeft' <= 0
  PROVE  Blocked'
  <1>1. FreePlaces' = {}
    <2>1. FreePlaces' = {x \in TxQueues \X (1 .. DevMaxSize) : x[2] > Len(devQueue'[x[1]])}
      BY DEF FreePlaces
    <2>2. FreePlaces' \in SUBSET (TxQueues \X (1 .. DevMaxSize))
      BY <2>1
    <2>3. IsFiniteSet(TxQueues \X (1 .. DevMaxSize))
      <3>1. IsFiniteSet(TxQueues) /\ DevMaxSize \in Int /\ 1 \in Int
        BY TxConstantsAssumption
      <3>2. IsFiniteSet(1 .. DevMaxSize)
        BY <3>1, FS_Interval
      <3>. QED
        BY <3>1, <3>2, FS_Product
    <2>4. IsFiniteSet(FreePlaces') /\ Cardinality(FreePlaces') \in Nat
      BY <2>2, <2>3, FS_Subset, FS_CardinalityType
    <2>5. Cardinality(FreePlaces') <= 0
      BY DEF PlacesLeft
    <2>. QED
      BY <2>4, <2>5, FS_EmptySet
  <1>2. PICK q \in TxQueues : TRUE
    BY TxConstantsAssumption
  <1>3. DevMaxSize \in Nat \ {0} /\ Len(devQueue'[q]) \in Nat
    BY <1>2, NextQueueLengths, TxConstantsAssumption
  <1>4. ~(DevMaxSize > Len(devQueue'[q]))
    <2>1. <<q, DevMaxSize>> \in TxQueues \X (1 .. DevMaxSize)
      BY <1>2, <1>3
    <2>. QED
      BY <1>1, <2>1 DEF FreePlaces
  <1>5. stopped'[q]
    BY <1>2, <1>3, <1>4, NextQueueLengths
  <1>6. devQueue'[q] # <<>>
    BY <1>3, <1>4
  <1>. QED
    BY <1>2, <1>5, <1>6 DEF Blocked

\* A queue that is stopped holds a packet.
LEMMA StoppedBlocks ==
  ASSUME DevMode = "packets", TxTypeOK, StoppedIffFull, NEW q \in TxQueues, stopped[q]
  PROVE  Blocked
  <1>1. /\ DevMaxSize \in Nat \ {0} /\ Len(devQueue[q]) \in Nat
        /\ Len(devQueue[q]) >= DevMaxSize
    BY QueueLengths, TxConstantsAssumption
  <1>2. devQueue[q] # <<>>
    BY <1>1
  <1>. QED
    BY <1>2 DEF Blocked

\* The facts about the device after a step that leaves it alone.
LEMMA SamePlacesLeft ==
  ASSUME UNCHANGED <<devQueue, current, stopped>>
  PROVE  PlacesLeft' = PlacesLeft /\ (Blocked' <=> Blocked)
  BY DEF PlacesLeft, FreePlaces, Blocked

\* Run begins with the quota, which covers the device if it is transmitting.
LEMMA RunBeginsCovered ==
  ASSUME Quota >= Cardinality(TxQueues) * DevMaxSize, current # NoPacket, RunBegin,
         UNCHANGED <<devQueue, current, stopped>>
  PROVE  Covered'
  <1>1. quota' = Quota /\ PlacesLeft' = PlacesLeft
    BY SamePlacesLeft DEF RunBegin
  <1>2. /\ Quota \in Nat /\ PlacesLeft \in Nat
        /\ Cardinality(TxQueues) \in Nat /\ DevMaxSize \in Nat
    BY PlacesAreFinite, TxConstantsAssumption, FS_CardinalityType
  <1>3. Cardinality(TxQueues) * DevMaxSize \in Nat
    BY <1>2
  <1>4. PlacesLeft <= Quota
    BY <1>2, <1>3, PlacesAreFinite
  <1>. QED
    BY <1>1, <1>4 DEF Covered
\* What Transmit leaves behind: nothing to send, or a full queue, or quota for
\* each place left.
LEMMA TransmitCovered ==
  ASSUME DevMode = "packets", CoverInv, Transmit
  PROVE  QuotaInv'
  <1>1. TxTypeOK /\ StoppedIffFull /\ DevInv /\ PlacesInv /\ QuotaInv
    BY DEF CoverInv
  <1>2. TxTypeOK' /\ StoppedIffFull'
    BY <1>1, TxNextType, PacketsNeedNoMtu, NextStopped DEF Next, RunStep
  <1> DEFINE q == Txq(item)
             s == Append(devQueue[q], item)
  <1>3. /\ q \in TxQueues /\ item \in Packets /\ s \in Seq(Packets)
        /\ Len(s) = Len(devQueue[q]) + 1 /\ Len(s) <= DevMaxSize
        /\ \/ /\ current # NoPacket /\ current' = current
              /\ devQueue' = [devQueue EXCEPT ![q] = s]
           \/ /\ current = NoPacket /\ current' = Head(s)
              /\ PacketDequeued(q, Tail(s), ~Room(s))
    BY <1>1, TransmitEffect
  <1>4. current' # NoPacket
    <2>1. Head(s) \in Packets
      BY <1>1, <1>3, HeadOfAppend DEF TxTypeOK
    <2> HIDE DEF s, q
    <2>. QED
      BY <1>3, <2>1, NoPacketIsNone
  <1>5. /\ pc = "transmit" /\ requeued = NoPacket /\ UNCHANGED <<requeued, fifo>>
        /\ \/ QdiscEmpty \/ stopped'[q] \/ quota = 1
           \/ pc' = "restart" /\ quota' = quota - 1
        /\ QdiscEmpty => pc' = "idle"
        /\ pc' \in {"idle", "restart"}
    BY <1>1 DEF Transmit, RunEnd, qdiscVars, PlacesInv
  <1>6. CASE QdiscEmpty
    <2>1. ~Waiting'
      BY <1>5, <1>6 DEF Waiting, QdiscEmpty
    <2>. QED
      BY <1>4, <1>5, <1>6, <2>1 DEF QuotaInv
  <1>7. CASE ~QdiscEmpty
    <2>1. Covered
      BY <1>1, <1>5, <1>7 DEF QuotaInv
    <2>2. PlacesLeft' = PlacesLeft - 1
      <3>1. devQueue' = [devQueue EXCEPT ![q] = s]
        BY <1>3, <2>1 DEF Covered
      <3>. QED
        BY <1>1, <1>3, <3>1, PlaceTaken
    <2>3. stopped'[q] => Blocked'
      <3>1. \A r \in TxQueues : stopped'[r] => Len(devQueue'[r]) >= DevMaxSize
        BY <1>2, NextQueueLengths
      <3>2. stopped'[q] => devQueue'[q] # <<>>
        <4>1. DevMaxSize \in Nat \ {0} /\ Len(<<>>) = 0
          BY TxConstantsAssumption
        <4> HIDE DEF q
        <4>. QED
          BY <1>3, <3>1, <4>1
      <3>. QED
        BY <1>3, <3>2 DEF Blocked
    <2>4. quota = 1 => Blocked'
      <3>1. quota = 1 => PlacesLeft' <= 0
        BY <2>1, <2>2, PlacesAreFinite DEF Covered
      <3>. QED
        BY <1>2, <3>1, NextNoPlaceLeft
    <2>5. pc' = "restart" /\ quota' = quota - 1 => Covered'
      BY <1>1, <1>4, <2>1, <2>2, PlacesAreFinite DEF Covered, TxTypeOK
    <2>6. Blocked' \/ Covered'
      BY <1>5, <1>7, <2>3, <2>4, <2>5
    <2>7. pc' = "restart" => Covered'
      <3>1. pc' = "restart" => quota' = quota - 1
        BY DEF Transmit, RunEnd
      <3>. QED
        BY <2>5, <3>1
    <2>8. pc' = "idle" => Blocked'
      <3>1. pc' = "idle" => stopped'[q] \/ quota = 1
        BY <1>5, <1>7
      <3>. QED
        BY <2>3, <2>4, <3>1
    <2>. QED
      BY <1>4, <1>5, <2>7, <2>8 DEF QuotaInv
  <1>. QED
    BY <1>6, <1>7

\* The end of a transmission wakes the queue disc if it takes a packet from the
\* stopped queue, and leaves that queue as it is if it takes another.
LEMMA CompleteCovered ==
  ASSUME DevMode = "packets", CoverInv, TransmitComplete
  PROVE  QuotaInv'
  <1>1. TxTypeOK /\ StoppedIffFull /\ DevInv /\ PlacesInv /\ QuotaInv
    BY DEF CoverInv
  <1>2. /\ pc = "idle" /\ pc' = "idle" /\ wakeEvents = 0 /\ (Waiting' <=> Waiting)
    BY DEF TransmitComplete, qdiscVars, runVars, Waiting, QdiscEmpty
  <1>3. CASE /\ \A q \in TxQueues : devQueue[q] = <<>>
             /\ UNCHANGED wakeEvents
    BY <1>1, <1>2, <1>3 DEF QuotaInv, Blocked, TxTypeOK
  <1>4. ASSUME NEW q \in TxQueues, devQueue[q] # <<>>, current' = Head(devQueue[q]),
               PacketDequeued(q, Tail(devQueue[q]), stopped[q])
        PROVE  QuotaInv'
    <2>1. /\ devQueue[q] \in Seq(Packets) /\ Head(devQueue[q]) \in Packets
          /\ Len(Tail(devQueue[q])) = Len(devQueue[q]) - 1
          /\ Tail(devQueue[q]) \in Seq(Packets)
      BY <1>1, <1>4 DEF TxTypeOK
    <2>2. current' # NoPacket
      BY <1>4, <2>1, NoPacketIsNone
    <2>3. CASE stopped[q]
      <3>1. Len(devQueue[q]) <= DevMaxSize /\ Len(devQueue[q]) \in Nat
        BY <1>1, <2>1 DEF DevInv
      <3>2. Room(Tail(devQueue[q]))
        <4>1. Len(Tail(devQueue[q])) < DevMaxSize /\ DevMaxSize \in Nat
          BY <2>1, <3>1, TxConstantsAssumption
        <4>. QED
          BY <4>1 DEF Room
      <3>3. wakeEvents' = wakeEvents + 1
        BY <1>4, <2>3, <3>2 DEF PacketDequeued
      <3>4. wakeEvents' > 0
        BY <1>2, <3>3
      <3>. QED
        BY <1>2, <2>2, <3>4 DEF QuotaInv
    <2>4. CASE ~stopped[q]
      <3>1. /\ wakeEvents' = wakeEvents
            /\ \A r \in TxQueues \ {q} : /\ stopped'[r] = stopped[r]
                                         /\ devQueue'[r] = devQueue[r]
        BY <1>1, <1>4, <2>4 DEF PacketDequeued, TxTypeOK
      <3>2. Blocked => Blocked'
        BY <2>4, <3>1 DEF Blocked
      <3>. QED
        BY <1>1, <1>2, <2>2, <3>1, <3>2 DEF QuotaInv
    <2>. QED
      BY <2>3, <2>4
  <1>. QED
    BY <1>3, <1>4 DEF TransmitComplete

\* Enqueue is over, and Run begins.
LEMMA EnqueuedCovered ==
  ASSUME CoverInv, Enqueued, Quota >= Cardinality(TxQueues) * DevMaxSize
  PROVE  QuotaInv'
  <1>1. /\ pc = "enqueue" /\ pc' = "restart" /\ RunBegin
        /\ UNCHANGED <<fifo, devQueue, current, stopped, wakeEvents, requeued>>
    BY DEF Enqueued, RunBegin, qdiscVars, devVars
  <1>2. QuotaInv
    BY DEF CoverInv
  <1>3. CASE current # NoPacket
    <2>1. Covered'
      BY <1>1, <1>3, RunBeginsCovered
    <2>. QED
      BY <1>1, <1>2, <2>1 DEF QuotaInv
  <1>4. CASE requeued = NoPacket /\ OneLeft
    <2>1. OneLeft' /\ requeued' = NoPacket
      BY <1>1, <1>4 DEF OneLeft
    <2>. QED
      BY <1>1, <1>2, <2>1 DEF QuotaInv
  <1>. QED
    BY <1>1, <1>2, <1>3, <1>4 DEF QuotaInv

\* The steps of the queue disc.
LEMMA QdiscCovered ==
  ASSUME DevMode = "packets", CoverInv,
         \/ \E f \in Flows, s \in Sizes : Send(f, s)
         \/ CallDequeue \/ NothingDequeued
         \/ \E f \in Flows : QdiscDrop(f) \/ Dequeued(f),
         Quota >= Cardinality(TxQueues) * DevMaxSize
  PROVE  QuotaInv'
  <1>1. TxTypeOK /\ StoppedIffFull /\ DevInv /\ PlacesInv /\ QuotaInv
    BY DEF CoverInv
  <1>2. ASSUME NEW f \in Flows, NEW s \in Sizes, Send(f, s)
        PROVE  QuotaInv'
    <2>1. /\ pc = "idle" /\ pc' = "enqueue"
          /\ UNCHANGED <<devQueue, current, stopped, wakeEvents, requeued>>
      BY <1>2 DEF Send, devVars
    <2>2. CASE Waiting
      <3>1. current # NoPacket
        BY <1>1, <2>1, <2>2 DEF QuotaInv, Blocked, DevInv
      <3>. QED
        BY <1>1, <2>1, <3>1 DEF QuotaInv
    <2>3. CASE ~Waiting
      <3>1. OneLeft' /\ requeued' = NoPacket
        BY <1>1, <1>2, <2>1, <2>3, FirstArrives DEF Waiting
      <3>. QED
        BY <1>1, <2>1, <3>1 DEF QuotaInv
    <2>. QED
      BY <2>2, <2>3
  <1>3. CASE CallDequeue
    <2>1. /\ pc = "restart" /\ pc' = "dequeue"
          /\ UNCHANGED <<fifo, devQueue, current, stopped, wakeEvents, requeued, quota>>
      BY <1>3 DEF CallDequeue, Qdisc!Call, devVars
    <2>. QED
      BY <1>1, <2>1, SamePlacesLeft DEF QuotaInv, Covered, OneLeft
  <1>4. CASE NothingDequeued
    <2>1. /\ pc = "dequeue" /\ pc' = "idle" /\ QdiscEmpty'
          /\ UNCHANGED <<current, wakeEvents, requeued>>
      BY <1>4 DEF NothingDequeued, RunEnd, Qdisc!ReturnNothing, QdiscEmpty, devVars
    <2>2. ~Waiting'
      BY <1>1, <2>1 DEF Waiting, PlacesInv
    <2>. QED
      BY <1>1, <2>1, <2>2 DEF QuotaInv
  <1>5. ASSUME NEW f \in Flows, QdiscDrop(f) \/ Dequeued(f)
        PROVE  QuotaInv'
    <2>1. /\ fifo[f] # <<>> /\ fifo' = [fifo EXCEPT ![f] = Tail(@)]
          /\ \/ pc = "enqueue" /\ pc' = "enqueue"
             \/ pc = "dequeue" /\ pc' \in {"dequeue", "transmit"}
          /\ UNCHANGED <<devQueue, current, stopped, wakeEvents, requeued, quota>>
      BY <1>5 DEF QdiscDrop, Dequeued, Qdisc!DropHead, Qdisc!Deliver, runVars, devVars
    <2>2. /\ pc = "dequeue" => Covered \/ (requeued = NoPacket /\ OneLeft)
          /\ pc = "enqueue" => current # NoPacket \/ (requeued = NoPacket /\ OneLeft)
      BY <1>1, <2>1 DEF QuotaInv
    <2>3. Covered => Covered'
      BY <2>1, SamePlacesLeft DEF Covered
    <2>4. OneLeft => QdiscEmpty' /\ OneLeft'
      <3>1. OneLeft => QdiscEmpty'
        BY <1>1, <2>1, LastLeaves
      <3>2. QdiscEmpty' => OneLeft'
        BY DEF QdiscEmpty, OneLeft
      <3>. QED
        BY <3>1, <3>2
    <2>. QED
      BY <1>1, <2>1, <2>2, <2>3, <2>4 DEF QuotaInv
  <1>. QED
    BY <1>2, <1>3, <1>4, <1>5

LEMMA NextQuotaInv ==
  ASSUME DevMode = "packets", Quota >= Cardinality(TxQueues) * DevMaxSize,
         CoverInv, [Next]_vars
  PROVE  QuotaInv'
  <1>1. TxTypeOK /\ StoppedIffFull /\ DevInv /\ PlacesInv /\ QuotaInv
    BY DEF CoverInv
  <1>2. CASE WakeUp
    <2>1. /\ pc = "idle" /\ pc' = "restart" /\ RunBegin /\ wakeEvents > 0
          /\ UNCHANGED <<devQueue, current, stopped>>
      BY <1>2 DEF WakeUp, RunBegin
    <2>2. Covered' /\ current' # NoPacket
      BY <1>1, <2>1, RunBeginsCovered DEF QuotaInv
    <2>. QED
      BY <2>1, <2>2 DEF QuotaInv
  <1>3. CASE TakeRequeued
    <2>1. /\ pc = "restart" /\ pc' = "transmit" /\ requeued # NoPacket
          /\ UNCHANGED <<devQueue, current, stopped, wakeEvents, quota>>
      BY <1>3 DEF TakeRequeued, devVars
    <2>2. Covered'
      BY <1>1, <2>1, SamePlacesLeft DEF QuotaInv, Covered
    <2>. QED
      BY <1>1, <2>1, <2>2 DEF QuotaInv
  <1>4. CASE RunBlocked \/ Requeue
    <2>1. /\ pc' = "idle" /\ UNCHANGED <<devQueue, current, stopped, wakeEvents>>
      BY <1>4 DEF RunBlocked, Requeue, RunEnd, devVars
    <2>2. \E q \in TxQueues : stopped[q]
      <3>1. CASE RunBlocked /\ requeued # NoPacket
        BY <1>1, <3>1, PacketParts DEF RunBlocked, TxTypeOK
      <3>2. CASE RunBlocked /\ requeued = NoPacket
        BY <3>2, TxConstantsAssumption DEF RunBlocked, MayDequeue
      <3>3. CASE Requeue
        BY <1>1, <3>3, PacketParts DEF Requeue, TxTypeOK
      <3>. QED
        BY <1>4, <3>1, <3>2, <3>3
    <2>3. Blocked'
      BY <1>1, <2>1, <2>2, StoppedBlocks, SamePlacesLeft
    <2>. QED
      BY <1>1, <2>1, <2>3 DEF QuotaInv
  <1>5. CASE UNCHANGED vars
    <2>1. UNCHANGED <<pc, devQueue, current, fifo, requeued, wakeEvents, stopped, quota>>
      BY <1>5 DEF vars, qdiscVars, runVars, devVars
    <2>. QED
      BY <1>1, <2>1, SamePlacesLeft
         DEF QuotaInv, Covered, Waiting, OneLeft, QdiscEmpty
  <1>. QED
    BY <1>2, <1>3, <1>4, <1>5, EnqueuedCovered, QdiscCovered, TransmitCovered,
       CompleteCovered DEF Next, RunStep

\* Over any number of device queues limited in packets, no packet waits between
\* events without a wake-up that is scheduled or a stopped queue that still holds
\* a packet, if the quota of Run covers the places of the device: the case that
\* the code leaves open is only that of a smaller quota.
THEOREM QuotaLeavesNothing ==
  ASSUME DevMode = "packets", Quota >= Cardinality(TxQueues) * DevMaxSize
  PROVE  Spec => []WaitingHasReason
  <1>1. Init => CoverInv
    <2> SUFFICES ASSUME Init PROVE CoverInv
      OBVIOUS
    <2>1. TxTypeOK /\ StoppedIffFull
      BY TxInitType, PacketsNeedNoMtu, InitStopped
    <2>2. PlacesInv
      BY InitWayInv DEF WayInv
    <2>3. DevInv
      BY TxConstantsAssumption DEF Init, DevInv
    <2>4. QuotaInv
      <3>1. fifo = [f \in Flows |-> <<>>]
        BY DEF Init, Qdisc!Init
      <3>2. QdiscEmpty
        BY <3>1 DEF QdiscEmpty
      <3>. QED
        BY <3>2 DEF Init, QuotaInv, Waiting
    <2>. QED
      BY <2>1, <2>2, <2>3, <2>4 DEF CoverInv
  <1>2. CoverInv /\ [Next]_vars => CoverInv'
    BY PacketsNeedNoMtu, TxNextType, NextStopped, NextDevInv, NextPlaces, NextQuotaInv
       DEF CoverInv
  <1>3. CoverInv => WaitingHasReason
    BY DEF CoverInv, QuotaInv, WaitingHasReason, Blocked
  <1>. QED
    BY <1>1, <1>2, <1>3, PTL DEF Spec
=============================================================================
