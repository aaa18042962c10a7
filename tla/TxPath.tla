------------------------------- MODULE TxPath -------------------------------
(***************************************************************************)
(* The way of a packet from the traffic-control layer to the wire:         *)
(* TrafficControlLayer::Send enqueues it in the root queue disc and runs   *)
(* that; QueueDisc::Run hands packets to the device until the device stops *)
(* its queue; the device wakes the queue disc when there is room again.    *)
(*                                                                         *)
(* The queue disc is any that keeps the contract of FlowFifos, MSFC being  *)
(* one. The device is a PointToPointNetDevice if it has one transmission   *)
(* queue; with more, a device with several such queues, served in any order*)
(* by one transmitter.                                                     *)
(*                                                                         *)
(* The simulator runs one event at a time: an arrival, a wake-up or the end*)
(* of a transmission starts only when pc = "idle".                         *)
(***************************************************************************)
EXTENDS Lists

CONSTANTS
  Flows,       \* the flows the queue disc tells apart
  TxQueues,    \* the transmission queues of the device
  TxqOf,       \* the transmission queue of each flow
  Sizes,       \* the sizes of packets as the queue disc sees them
  Header,      \* what the device puts in front of each (the PPP header)
  MaxPackets,  \* bound: the number of packets that arrive
  QdiscLimit,  \* the packets the queue disc holds at most
  Quota,       \* attribute Quota of the queue disc
  DevMode,     \* "packets" or "bytes": the unit of the device queues' limit
  DevMaxSize,  \* attribute MaxSize of the device queues
  Mtu,         \* the MTU of the device
  NoPacket     \* the null packet pointer

Packets == [id: 1 .. MaxPackets, flow: Flows, size: Sizes]

ASSUME TxConstantsAssumption ==
  /\ TxQueues # {} /\ IsFiniteSet(TxQueues)
  /\ TxqOf \in [Flows -> TxQueues]
  /\ Sizes \subseteq Nat \ {0}
  /\ {Header, MaxPackets, QdiscLimit, Mtu} \subseteq Nat
  /\ {Quota, DevMaxSize} \subseteq Nat \ {0}
  /\ DevMode \in {"packets", "bytes"}
  /\ NoPacket \notin Packets
-----------------------------------------------------------------------------
VARIABLES
  fifo,        \* the packets in the queue disc, flow by flow
  dequeuing,   \* whether a Dequeue of the queue disc is running
  requeued,    \* QueueDisc::m_requeued
  pc,          \* "enqueue" in Enqueue; "restart", "dequeue" or "transmit" in
               \* Run (m_running); "idle" between events
  quota,       \* the local quota of Run
  item,        \* the packet that Restart has in its hands
  stopped,     \* NetDeviceQueue::m_stoppedByDevice
  wakeEvents,  \* the calls of Run that were scheduled by Wake
  devQueue,    \* PointToPointNetDevice::m_queue
  current,     \* m_currentPkt; the transmitter is READY while there is none
  arrived,     \* history: the number of packets that have arrived
  sent,        \* history: the packets transmitted
  dropped      \* history: the packets dropped

qdiscVars == <<fifo, dequeuing>>
runVars   == <<requeued, pc, quota, item>>
devVars   == <<stopped, wakeEvents, devQueue, current>>
vars      == <<qdiscVars, runVars, devVars, arrived, sent, dropped>>

Qdisc == INSTANCE FlowFifos WITH FlowIds <- Flows, Sizes <- Packets

Init == /\ Qdisc!Init
        /\ requeued = NoPacket
        /\ pc = "idle"
        /\ quota = 0
        /\ item = NoPacket
        /\ stopped = [q \in TxQueues |-> FALSE]
        /\ wakeEvents = 0
        /\ devQueue = [q \in TxQueues |-> <<>>]
        /\ current = NoPacket
        /\ arrived = 0
        /\ sent = <<>>
        /\ dropped = {}
-----------------------------------------------------------------------------
Txq(p) == TxqOf[p.flow]

Total(n) == LET sum[F \in SUBSET Flows] ==
                  IF F = {} THEN 0
                  ELSE LET f == CHOOSE f \in F : TRUE IN n[f] + sum[F \ {f}]
            IN  sum[Flows]
NPackets == Total([f \in Flows |-> Len(fifo[f])])

\* GetNPackets () == 0
QdiscEmpty == \A f \in Flows : fifo[f] = <<>>

\* QueueBase::GetNBytes of a device queue.
Bytes(s) == Sum([i \in DOMAIN s |-> s[i].size + Header])

\* Queue::DoEnqueue takes a packet that leaves the queue within its limit.
Fits(s) == IF DevMode = "packets" THEN Len(s) <= DevMaxSize
                                  ELSE Bytes(s) <= DevMaxSize

\* NetDeviceQueue asks whether there would be room for another packet; GetMtu
\* does not count the header that the packets in the queue carry.
Room(s) == IF DevMode = "packets" THEN Len(s) < DevMaxSize
                                  ELSE Bytes(s) + Mtu <= DevMaxSize

\* Run has the device for itself: another Run would see m_running.
RunBegin == /\ pc' = "restart"
            /\ quota' = Quota

RunEnd   == /\ pc' = "idle"
            /\ quota' = 0

\* TrafficControlLayer::Send of a packet: it is accepted at the tail of its flow,
\* or refused by the queue disc or by the child it was meant for.
Send(f, s) ==
  /\ pc = "idle"
  /\ arrived < MaxPackets
  /\ arrived' = arrived + 1
  /\ pc' = "enqueue"
  /\ \/ /\ Qdisc!Accept(f, [id |-> arrived + 1, flow |-> f, size |-> s])
        /\ UNCHANGED dropped
     \/ /\ dropped' = dropped \union {arrived + 1}
        /\ UNCHANGED qdiscVars
  /\ UNCHANGED <<requeued, quota, item, devVars, sent>>

\* Enqueue returns once the queue disc is within its limit; then Run begins.
Enqueued == /\ pc = "enqueue"
            /\ NPackets <= QdiscLimit
            /\ RunBegin
            /\ UNCHANGED <<qdiscVars, requeued, item, devVars, arrived, sent, dropped>>

\* The callback that Wake scheduled runs the queue disc.
WakeUp == /\ pc = "idle"
          /\ wakeEvents > 0
          /\ wakeEvents' = wakeEvents - 1
          /\ RunBegin
          /\ UNCHANGED <<qdiscVars, requeued, item, stopped, devQueue, current,
                         arrived, sent, dropped>>
-----------------------------------------------------------------------------
\* Mutant: the requeued packet is taken and not forgotten.
MutTakeRequeuedKeeps == /\ pc = "restart"
                        /\ requeued # NoPacket
                        /\ ~stopped[Txq(requeued)]
                        /\ item' = requeued
                        /\ pc' = "transmit"
                        /\ UNCHANGED <<qdiscVars, requeued, quota, devVars, arrived,
                                       sent, dropped>>

\* DequeuePacket: a requeued packet goes first, once its queue is not stopped.
TakeRequeued == /\ pc = "restart"
                /\ requeued # NoPacket
                /\ ~stopped[Txq(requeued)]
                /\ item' = requeued
                /\ requeued' = NoPacket
                /\ pc' = "transmit"
                /\ UNCHANGED <<qdiscVars, quota, devVars, arrived, sent, dropped>>

\* Mutant: the queue disc is asked though a requeued packet has to wait.
MutMayDequeueBesideRequeued == \/ Cardinality(TxQueues) > 1
                               \/ \E q \in TxQueues : ~stopped[q]

\* The queue disc is asked unless the only queue of the device is stopped.
MayDequeue == /\ requeued = NoPacket
              /\ \/ Cardinality(TxQueues) > 1
                 \/ \E q \in TxQueues : ~stopped[q]

CallDequeue == /\ pc = "restart"
               /\ MayDequeue
               /\ Qdisc!Call
               /\ pc' = "dequeue"
               /\ UNCHANGED <<requeued, quota, item, devVars, arrived, sent, dropped>>

\* No packet may be taken now: Run is over.
RunBlocked == /\ pc = "restart"
              /\ \/ requeued # NoPacket /\ stopped[Txq(requeued)]
                 \/ requeued = NoPacket /\ ~MayDequeue
              /\ RunEnd
              /\ UNCHANGED <<qdiscVars, requeued, item, devVars, arrived, sent, dropped>>

\* The queue disc drops the head of a flow: when it is over its limit after an
\* Enqueue, or while it is dequeued.
QdiscDrop(f) == /\ pc \in {"enqueue", "dequeue"}
                /\ Qdisc!DropHead(f)
                /\ dropped' = dropped \union {Head(fifo[f]).id}
                /\ UNCHANGED <<runVars, devVars, arrived, sent>>

Dequeued(f) == /\ pc = "dequeue"
               /\ Qdisc!Deliver(f)
               /\ item' = Head(fifo[f])
               /\ pc' = "transmit"
               /\ UNCHANGED <<requeued, quota, devVars, arrived, sent, dropped>>

NothingDequeued == /\ pc = "dequeue"
                   /\ Qdisc!ReturnNothing
                   /\ RunEnd
                   /\ UNCHANGED <<requeued, item, devVars, arrived, sent, dropped>>

\* Transmit finds the queue of the packet stopped.
Requeue == /\ pc = "transmit"
           /\ stopped[Txq(item)]
           /\ requeued' = item
           /\ item' = NoPacket
           /\ RunEnd
           /\ UNCHANGED <<qdiscVars, devVars, arrived, sent, dropped>>
-----------------------------------------------------------------------------
\* Mutant: Wake restarts the queue and schedules nothing.
MutPacketDequeuedSilent(q, s, wasStopped) ==
  /\ devQueue' = [devQueue EXCEPT ![q] = s]
  /\ stopped' = [stopped EXCEPT ![q] = wasStopped /\ ~Room(s)]
  /\ UNCHANGED wakeEvents

\* NetDeviceQueue::PacketDequeued: queue q is left with the packets s; if it
\* has room, it is woken, and the queue disc too if the queue was stopped.
PacketDequeued(q, s, wasStopped) ==
  /\ devQueue' = [devQueue EXCEPT ![q] = s]
  /\ stopped' = [stopped EXCEPT ![q] = wasStopped /\ ~Room(s)]
  /\ wakeEvents' = IF wasStopped /\ Room(s) THEN wakeEvents + 1 ELSE wakeEvents

\* PointToPointNetDevice::Send: the packet goes through the queue in any case;
\* if it does not fit, it is dropped and the queue is stopped.
DevSend(p) ==
  LET q == Txq(p)
      s == Append(devQueue[q], p)
  IN  IF ~Fits(s)
      THEN /\ dropped' = dropped \union {p.id}
           /\ stopped' = [stopped EXCEPT ![q] = TRUE]
           /\ UNCHANGED <<devQueue, wakeEvents, current>>
      ELSE /\ UNCHANGED dropped
           /\ IF current = NoPacket
              THEN /\ current' = Head(s)
                   /\ PacketDequeued(q, Tail(s), stopped[q] \/ ~Room(s))
              ELSE /\ devQueue' = [devQueue EXCEPT ![q] = s]
                   /\ stopped' = [stopped EXCEPT ![q] = @ \/ ~Room(s)]
                   /\ UNCHANGED <<wakeEvents, current>>

\* Transmit hands the packet to the device, whatever becomes of it there. Run
\* goes on unless nothing is left, the queue is stopped or the quota used up.
Transmit == /\ pc = "transmit"
            /\ ~stopped[Txq(item)]
            /\ DevSend(item)
            /\ item' = NoPacket
            /\ IF QdiscEmpty \/ stopped'[Txq(item)] \/ quota = 1
               THEN RunEnd
               ELSE pc' = "restart" /\ quota' = quota - 1
            /\ UNCHANGED <<qdiscVars, requeued, arrived, sent>>

\* PointToPointNetDevice::TransmitComplete. A transmission takes time, and a
\* wake-up is scheduled for the present: none is pending by now.
TransmitComplete ==
  /\ pc = "idle"
  /\ wakeEvents = 0
  /\ current # NoPacket
  /\ sent' = Append(sent, current)
  /\ \/ /\ \A q \in TxQueues : devQueue[q] = <<>>
        /\ current' = NoPacket
        /\ UNCHANGED <<stopped, wakeEvents, devQueue>>
     \/ \E q \in TxQueues :
          /\ devQueue[q] # <<>>
          /\ current' = Head(devQueue[q])
          /\ PacketDequeued(q, Tail(devQueue[q]), stopped[q])
  /\ UNCHANGED <<qdiscVars, runVars, arrived, dropped>>
-----------------------------------------------------------------------------
RunStep == \/ Enqueued \/ TakeRequeued \/ CallDequeue \/ RunBlocked
           \/ \E f \in Flows : QdiscDrop(f) \/ Dequeued(f)
           \/ NothingDequeued
           \/ Requeue \/ Transmit

Next == \/ \E f \in Flows, s \in Sizes : Send(f, s)
        \/ WakeUp
        \/ RunStep
        \/ TransmitComplete

Spec == Init /\ [][Next]_vars

\* Every event that was scheduled happens, and an event that started goes on.
FairSpec == Spec /\ WF_vars(RunStep) /\ WF_vars(WakeUp) /\ WF_vars(TransmitComplete)
=============================================================================
