-------------------------- MODULE TxPathProperties --------------------------
(***************************************************************************)
(* What the path from the queue disc to the wire promises.                 *)
(***************************************************************************)
EXTENDS TxPath

\* The variables hold what the C++ types hold, and Restart has a packet in its
\* hands exactly while it is about to transmit it.
TxTypeOK ==
  /\ fifo \in [Flows -> Seq(Packets)]
  /\ dequeuing \in BOOLEAN
  /\ {requeued, item, current} \subseteq Packets \union {NoPacket}
  /\ pc \in {"idle", "enqueue", "restart", "dequeue", "transmit"}
  /\ quota \in 0 .. Quota
  /\ stopped \in [TxQueues -> BOOLEAN]
  /\ wakeEvents \in Nat
  /\ devQueue \in [TxQueues -> Seq(Packets)]
  /\ arrived \in 0 .. MaxPackets
  /\ sent \in Seq(Packets)
  /\ dropped \subseteq 1 .. MaxPackets
  /\ item # NoPacket <=> pc = "transmit"
  /\ dequeuing <=> pc = "dequeue"
  /\ pc \in {"idle", "enqueue"} <=> quota = 0
-----------------------------------------------------------------------------
Single(p) == IF p = NoPacket THEN <<>> ELSE <<p>>

\* The places a packet of flow f goes through, from the wire back to the queue
\* disc; packets of other flows are in some of them too.
Way(f) == sent \o Single(current) \o devQueue[TxqOf[f]]
          \o Single(item) \o Single(requeued) \o fifo[f]

OfFlow(s, f)  == {i \in DOMAIN s : s[i].flow = f}
Ids(s, f)     == {s[i].id : i \in OfFlow(s, f)}
Ordered(s, f) == \A i, j \in OfFlow(s, f) : i < j => s[i].id < s[j].id

\* The packets of a flow stay in the order they arrived in, from the queue disc
\* to the wire, and none is there twice: a packet that Transmit requeues is not
\* overtaken by a later one, whatever wakes the queue disc in the meantime.
InOrder == \A f \in Flows : Ordered(Way(f), f)

\* A packet that arrived is on its way, or was sent, or was counted as dropped,
\* and only one of them: none is lost when a requeued packet is put away.
Seen == UNION {Ids(Way(f), f) : f \in Flows}
NothingVanishes == /\ Seen \union dropped = 1 .. arrived
                   /\ Seen \intersect dropped = {}

\* Between events no packet waits without a reason: it waits for a wake-up that
\* is scheduled, or for a stopped queue that still holds a packet, whose
\* departure will wake the queue disc. The quota of Run leaves none behind.
Waiting == requeued # NoPacket \/ ~QdiscEmpty
WaitingHasReason ==
  pc = "idle" /\ Waiting =>
    \/ wakeEvents > 0
    \/ \E q \in TxQueues : stopped[q] /\ devQueue[q] # <<>>

\* A transmission queue is stopped exactly while it has no room for another
\* packet of the size of the MTU: no stop outlives the room. GetMtu() leaves out
\* the header, so a packet that carries one may still find too little room.
StoppedIffFull == \A q \in TxQueues : stopped[q] <=> ~Room(devQueue[q])

\* "If the underlying device has a single queue, no packet will ever be
\* requeued" (queue-discs.rst): what DequeuePacket checks still holds in Transmit.
SingleQueueNeverRequeues == Cardinality(TxQueues) = 1 => requeued = NoPacket

\* Once the queue disc hands a packet to the device, the device has room for it:
\* PacketDiscarded "should not happen if the device correctly stops the queue".
DeviceNeverDiscards == [][pc = "transmit" => dropped' = dropped]_vars

\* Every packet is transmitted or dropped in the end, also those that were in
\* the queue disc when the device queue was stopped and nothing arrived since.
EveryPacketLeaves ==
  \A i \in 1 .. MaxPackets :
    arrived >= i ~> i \in dropped \/ \E k \in DOMAIN sent : sent[k].id = i
=============================================================================
