-------------------------------- MODULE Msfc --------------------------------
(***************************************************************************)
(* MsfcQueueDisc (src/traffic-control/model/msfc-queue-disc.cc): the       *)
(* Multilevel Stochastic Fairness CoDel queue disc. Packets are sorted into*)
(* priority classes by DSCP and into flows by hash; an outer deficit round *)
(* robin chooses the class, an inner one the flow, and every flow is a     *)
(* CoDel child queue disc.                                                 *)
(*                                                                         *)
(* The simulator runs one event at a time, so Enqueue, Dequeue and Peek do *)
(* not interleave with each other: a call starts when pc = "idle". The     *)
(* loops inside a call are modelled one iteration per step, because whether*)
(* they end, and in which state they leave the lists, is what is asked.    *)
(*                                                                         *)
(* A packet is its size in bytes. The CoDel child is a FIFO that refuses   *)
(* what exceeds its byte limit and may drop from its head while it is being*)
(* dequeued; the sojourn times that decide when it does are left open.     *)
(***************************************************************************)
EXTENDS Lists

CONSTANTS
  Traffic,           \* what arrives: <<DSCP, filter result>> of its packets
  Flows,             \* attribute Flows: hashes are taken modulo it
  Sizes,             \* the sizes a packet may have
  MaxSize,           \* attribute MaxSize, in packets
  DropBatchSize,     \* attribute DropBatchSize
  QuantumMultiplier, \* attribute QuantumMultiplier
  UserQuantum,       \* attribute Quantum, 0 when left at its default
  UserBacklog,       \* attribute Backlog, 0 when left at its default
  Mtu,               \* the MTU of the device
  BacklogMtuPackets, \* DEFAULT_BACKLOG_MTU_PACKETS
  CoDelDefaultBytes, \* the byte limit of a CoDel queue disc nobody configured
  MinBytes,          \* attribute MinBytes of the CoDel children
  Word,              \* 2^32: class quanta are kept in 32-bit integers
  GarbageDeficit,    \* what the uninitialised deficit of a new class may hold
  Peekable,          \* whether some parent queue disc peeks (the root does not)
  NoItem             \* the null packet pointer

PF_NO_MATCH == -1  \* PacketFilter::PF_NO_MATCH: no filter matched

\* A class for each DSCP; in each of them, a flow for each hash.
Prios   == {t[1] : t \in Traffic}
Hashes  == 0 .. Flows - 1
FlowIds == Prios \X Hashes

\* MsfcQueueDisc::InitializeParams: without a quantum the MTU is taken, and
\* then the backlog the user set is overwritten too.
Quantum == IF UserQuantum = 0 THEN Mtu ELSE UserQuantum
Backlog == IF UserQuantum = 0 THEN BacklogMtuPackets * Quantum ELSE UserBacklog

\* QueueDisc::SetMaxSize ignores a null size, so a child given "0B" keeps the
\* limit CoDelQueueDisc has by default.
ChildMaxSize == IF Backlog = 0 THEN CoDelDefaultBytes ELSE Backlog

\* The quantum of class p: m_quantum * pow (m_quantum_multiplier / 1000, p),
\* an integer division, stored in a uint32_t and read back as an int32_t. A
\* product beyond 32 bits is left undefined by C++: x86-64 converts it to 64
\* bits and keeps the low 32.
ClassQuantum(p) ==
  LET q[i \in 0 .. p] == IF i = 0
                         THEN Quantum % Word
                         ELSE (q[i - 1] * (QuantumMultiplier \div 1000)) % Word
  IN  IF q[p] < Word \div 2 THEN q[p] ELSE q[p] - Word

ASSUME ConstantsAssumption ==
  /\ Traffic \subseteq Nat \X (Nat \union {PF_NO_MATCH})
  /\ Flows \in Nat \ {0}
  /\ Sizes \subseteq Nat \ {0}
  /\ {MaxSize, DropBatchSize, QuantumMultiplier, UserQuantum, UserBacklog, Mtu,
      BacklogMtuPackets, CoDelDefaultBytes, MinBytes} \subseteq Nat
  /\ Word \in Nat \ {0}
  /\ GarbageDeficit \subseteq Int /\ GarbageDeficit # {}
  /\ Peekable \in BOOLEAN
  /\ NoItem \notin Sizes

-----------------------------------------------------------------------------
VARIABLES
  prioClasses,   \* m_prioClasses, the list of active classes
  classActive,   \* MsfcPrioClass::m_active
  classDeficit,  \* MsfcPrioClass::m_deficit
  flows,         \* MsfcPrioClass::m_flows, the list of active flows of a class
  flowActive,    \* MsfcFlow::m_active
  flowDeficit,   \* MsfcFlow::m_deficit
  discClasses,   \* QueueDisc::m_classes: the flows in the order of creation
  queue,         \* the internal queue of the flow's CoDel child
  bytes,         \* QueueDisc::m_nBytes of that child
  requeued,      \* QueueDisc::m_requeued of that child: the packet it peeked
  nPackets,      \* QueueDisc::m_nPackets of the MSFC queue disc
  pc,            \* where the running call stands
  drop           \* the local variables of MsfcDrop

classVars == <<prioClasses, classActive, classDeficit>>
flowVars  == <<flows, flowActive, flowDeficit>>
queueVars == <<queue, bytes, nPackets>>
vars      == <<classVars, flowVars, discClasses, queueVars, requeued, pc, drop>>

\* (Init gives the locals of MsfcDrop a fixed value; they mean something only
\* while pc = "drop".)
NoDrop == [flow |-> <<>>, len |-> 0, count |-> 0, threshold |-> 0]

Init == /\ prioClasses = <<>>
        /\ classActive = [p \in Prios |-> FALSE]
        /\ classDeficit = [p \in Prios |-> 0]
        /\ flows = [p \in Prios |-> <<>>]
        /\ flowActive = [f \in FlowIds |-> FALSE]
        /\ flowDeficit = [f \in FlowIds |-> 0]
        /\ discClasses = <<>>
        /\ queue = [f \in FlowIds |-> <<>>]
        /\ bytes = [f \in FlowIds |-> 0]
        /\ requeued = [f \in FlowIds |-> NoItem]
        /\ nPackets = 0
        /\ pc = "idle"
        /\ drop = NoDrop
-----------------------------------------------------------------------------
AtMost(x, y) == IF x > y THEN y ELSE x

\* A class is created together with its first flow.
ClassExists(p) == \E f \in Elems(discClasses) : f[1] = p

\* The deficit an activated class starts from: a new class has never set it.
StoredDeficit(p) == IF ClassExists(p) THEN {classDeficit[p]} ELSE GarbageDeficit

\* Mutant: a class is put in the list when it is created, not when it is activated.
MutActivateNewOnly(p, f) ==
  /\ discClasses' = IF f \in Elems(discClasses) THEN discClasses
                                                ELSE Append(discClasses, f)
  /\ classActive' = [classActive EXCEPT ![p] = @ \/ ~ClassExists(p)]
  /\ flowActive'  = [flowActive EXCEPT ![f] = TRUE]
  /\ prioClasses' = IF ClassExists(p) THEN prioClasses ELSE Append(prioClasses, p)
  /\ UNCHANGED <<classDeficit, flowDeficit>>
  /\ flows' = IF flowActive[f] THEN flows ELSE [flows EXCEPT ![p] = Append(@, f)]

\* Mutant: a flow that becomes active again is given another quantum.
MutActivateRefill(p, f) ==
  /\ discClasses' = IF f \in Elems(discClasses) THEN discClasses
                                                ELSE Append(discClasses, f)
  /\ classActive' = [classActive EXCEPT ![p] = TRUE]
  /\ flowActive'  = [flowActive EXCEPT ![f] = TRUE]
  /\ prioClasses' = IF classActive[p] THEN prioClasses ELSE Append(prioClasses, p)
  /\ UNCHANGED classDeficit
  /\ flows' = IF flowActive[f] THEN flows ELSE [flows EXCEPT ![p] = Append(@, f)]
  /\ flowDeficit' = IF flowActive[f] THEN flowDeficit
                                     ELSE [flowDeficit EXCEPT ![f] = @ + Quantum]

\* DoEnqueue up to the call of the child: the class and the flow are found or
\* created, clamped and put at the tail of their lists if they were inactive.
Activate(p, f) ==
  /\ discClasses' = IF f \in Elems(discClasses) THEN discClasses
                                                ELSE Append(discClasses, f)
  /\ classActive' = [classActive EXCEPT ![p] = TRUE]
  /\ flowActive'  = [flowActive EXCEPT ![f] = TRUE]
  /\ IF classActive[p]
     THEN UNCHANGED <<prioClasses, classDeficit>>
     ELSE /\ prioClasses' = Append(prioClasses, p)
          /\ \E d \in StoredDeficit(p) :
               classDeficit' = [classDeficit EXCEPT ![p] = AtMost(d, ClassQuantum(p))]
  /\ IF flowActive[f]
     THEN UNCHANGED <<flows, flowDeficit>>
     ELSE /\ flows' = [flows EXCEPT ![p] = Append(@, f)]
          /\ flowDeficit' = [flowDeficit EXCEPT ![f] = AtMost(@, Quantum)]

\* The child's Enqueue: CoDelQueueDisc::DoEnqueue and the counters its traces
\* update, here and in the parent. A refused packet is dropped.
ChildEnqueue(f, s) ==
  IF bytes[f] + s > ChildMaxSize
  THEN UNCHANGED queueVars
  ELSE /\ queue' = [queue EXCEPT ![f] = Append(@, s)]
       /\ bytes' = [bytes EXCEPT ![f] = @ + s]
       /\ nPackets' = nPackets + 1

\* Mutant: the limit is compared with the size read before the child was called.
MutEnqueueStaleSize(p, ret, s) ==
  /\ pc = "idle"
  /\ ret # PF_NO_MATCH
  /\ LET f == <<p, ret % Flows>> IN Activate(p, f) /\ ChildEnqueue(f, s)
  /\ pc' = IF nPackets > MaxSize THEN "overlimit" ELSE "idle"
  /\ UNCHANGED <<requeued, drop>>

\* MsfcQueueDisc::DoEnqueue. A packet no filter matches is dropped at once.
Enqueue(p, ret, s) ==
  /\ pc = "idle"
  /\ ret # PF_NO_MATCH
  /\ LET f == <<p, ret % Flows>> IN Activate(p, f) /\ ChildEnqueue(f, s)
  /\ pc' = IF nPackets' > MaxSize THEN "overlimit" ELSE "idle"
  /\ UNCHANGED <<requeued, drop>>

\* The head of f leaves the internal queue, and is counted out of the child
\* and out of the parent.
TakeHead(f) == /\ queue[f] # <<>>
               /\ queue' = [queue EXCEPT ![f] = Tail(@)]
               /\ bytes' = [bytes EXCEPT ![f] = @ - Head(queue[f])]
               /\ nPackets' = nPackets - 1
-----------------------------------------------------------------------------
\* MsfcDrop looks for the flow with the most bytes, the first one created if
\* there are several.
IsFattest(i) ==
  /\ \A j \in DOMAIN discClasses : bytes[discClasses[j]] <= bytes[discClasses[i]]
  /\ \A j \in 1 .. i - 1 : bytes[discClasses[j]] < bytes[discClasses[i]]

MsfcDrop ==
  /\ pc = "overlimit"
  /\ \E i \in DOMAIN discClasses :
       /\ IsFattest(i)
       /\ drop' = [flow |-> discClasses[i], len |-> 0, count |-> 0,
                   threshold |-> bytes[discClasses[i]] \div 2]
  /\ pc' = "drop"
  /\ UNCHANGED <<classVars, flowVars, discClasses, queueVars, requeued>>

\* Mutant: the batch goes on until both of its limits are reached.
MutDropHeadOr ==
  /\ pc = "drop"
  /\ IF queue[drop.flow] = <<>>
     THEN pc' = "crashed" /\ UNCHANGED <<queueVars, drop>>
     ELSE /\ TakeHead(drop.flow)
          /\ LET len   == drop.len + Head(queue[drop.flow])
                 count == drop.count + 1
             IN  IF count < DropBatchSize \/ len < drop.threshold
                 THEN /\ drop' = [drop EXCEPT !.len = len, !.count = count]
                      /\ UNCHANGED pc
                 ELSE /\ drop' = NoDrop
                      /\ pc' = "idle"
  /\ UNCHANGED <<classVars, flowVars, discClasses, requeued>>

\* One iteration of the loop of MsfcDrop. Were the queue to run out, the loop
\* would dereference the null packet and the program would stop there.
DropHead ==
  /\ pc = "drop"
  /\ IF queue[drop.flow] = <<>>
     THEN pc' = "crashed" /\ UNCHANGED <<queueVars, drop>>
     ELSE /\ TakeHead(drop.flow)
          /\ LET len   == drop.len + Head(queue[drop.flow])
                 count == drop.count + 1
             IN  IF count < DropBatchSize /\ len < drop.threshold
                 THEN /\ drop' = [drop EXCEPT !.len = len, !.count = count]
                      /\ UNCHANGED pc
                 ELSE /\ drop' = NoDrop
                      /\ pc' = "idle"
  /\ UNCHANGED <<classVars, flowVars, discClasses, requeued>>
-----------------------------------------------------------------------------
\* MsfcQueueDisc::DoDequeue is called.
Dequeue == /\ pc = "idle"
           /\ pc' = "class"
           /\ UNCHANGED <<classVars, flowVars, discClasses, queueVars, requeued, drop>>

\* No class is active: DoDequeue returns null.
NoClass == /\ pc = "class"
           /\ prioClasses = <<>>
           /\ pc' = "idle"
           /\ UNCHANGED <<classVars, flowVars, discClasses, queueVars, requeued, drop>>

\* The first class has no credit: it gets its quantum and goes to the back.
RotateClass ==
  /\ pc = "class"
  /\ prioClasses # <<>>
  /\ LET p == Head(prioClasses) IN
       /\ classDeficit[p] <= 0
       /\ classDeficit' = [classDeficit EXCEPT ![p] = @ + ClassQuantum(p)]
       /\ prioClasses' = Rotate(prioClasses)
  /\ UNCHANGED <<classActive, flowVars, discClasses, queueVars, requeued, pc, drop>>

\* Mutant: the deficit is compared as an unsigned number.
MutFoundClassUnsigned ==
  /\ pc = "class"
  /\ prioClasses # <<>>
  /\ classDeficit[Head(prioClasses)] # 0
  /\ pc' = "flow"
  /\ UNCHANGED <<classVars, flowVars, discClasses, queueVars, requeued, drop>>

FoundClass == /\ pc = "class"
              /\ prioClasses # <<>>
              /\ classDeficit[Head(prioClasses)] > 0
              /\ pc' = "flow"
              /\ UNCHANGED <<classVars, flowVars, discClasses, queueVars, requeued, drop>>

\* The chosen class stays the first of the list until DoDequeue is done with it.
Chosen == Head(prioClasses)

\* Mutant: the flow gets its quantum and stays the first of the list.
MutRotateFlowInPlace ==
  /\ pc = "flow"
  /\ flows[Chosen] # <<>>
  /\ LET f == Head(flows[Chosen]) IN
       /\ flowDeficit[f] <= 0
       /\ flowDeficit' = [flowDeficit EXCEPT ![f] = @ + Quantum]
  /\ UNCHANGED <<classVars, flows, flowActive, discClasses, queueVars, requeued, pc, drop>>

RotateFlow ==
  /\ pc = "flow"
  /\ flows[Chosen] # <<>>
  /\ LET f == Head(flows[Chosen]) IN
       /\ flowDeficit[f] <= 0
       /\ flowDeficit' = [flowDeficit EXCEPT ![f] = @ + Quantum]
       /\ flows' = [flows EXCEPT ![Chosen] = Rotate(@)]
  /\ UNCHANGED <<classVars, flowActive, discClasses, queueVars, requeued, pc, drop>>

\* Mutant: once a class turns out to be empty, DoDequeue returns null.
MutClassEmptyReturns ==
  /\ pc = "flow"
  /\ flows[Chosen] = <<>>
  /\ classActive' = [classActive EXCEPT ![Chosen] = FALSE]
  /\ prioClasses' = Tail(prioClasses)
  /\ pc' = "idle"
  /\ UNCHANGED <<classDeficit, flowVars, discClasses, queueVars, requeued, drop>>

\* Mutant: after an empty class the search goes on among flows, not classes.
MutClassEmptyStays ==
  /\ pc = "flow"
  /\ flows[Chosen] = <<>>
  /\ classActive' = [classActive EXCEPT ![Chosen] = FALSE]
  /\ prioClasses' = Tail(prioClasses)
  /\ UNCHANGED <<classDeficit, flowVars, discClasses, queueVars, requeued, pc, drop>>

\* The class has no active flow: it is deactivated, the search starts again.
ClassEmpty ==
  /\ pc = "flow"
  /\ flows[Chosen] = <<>>
  /\ classActive' = [classActive EXCEPT ![Chosen] = FALSE]
  /\ prioClasses' = Tail(prioClasses)
  /\ pc' = "class"
  /\ UNCHANGED <<classDeficit, flowVars, discClasses, queueVars, requeued, drop>>

\* The flow whose child DoDequeue is dequeuing, or DoPeek is peeking.
ServedFlow == Head(flows[Chosen])
InChildDequeue == \/ /\ pc = "flow"
                     /\ flows[Chosen] # <<>>
                     /\ flowDeficit[ServedFlow] > 0
                  \/ pc = "peek"

\* Inside the child's Dequeue CoDel drops the head: it does so only while at
\* least MinBytes are left behind it.
CoDelDrop ==
  /\ InChildDequeue
  /\ TakeHead(ServedFlow)
  /\ bytes'[ServedFlow] >= MinBytes
  /\ UNCHANGED <<classVars, flowVars, discClasses, requeued, pc, drop>>

\* Mutant: an empty flow leaves the list and is still marked active.
MutFlowEmptyStillActive ==
  /\ pc = "flow"
  /\ InChildDequeue
  /\ queue[ServedFlow] = <<>>
  /\ flows' = [flows EXCEPT ![Chosen] = Tail(@)]
  /\ pc' = "class"
  /\ UNCHANGED <<classVars, flowActive, flowDeficit, discClasses, queueVars, requeued, drop>>

\* Mutant: a flow is kept active while its child holds a peeked packet.
MutFlowEmptyUnlessPeeked ==
  /\ pc = "flow"
  /\ InChildDequeue
  /\ queue[ServedFlow] = <<>>
  /\ pc' = "class"
  /\ IF requeued[ServedFlow] = NoItem
     THEN /\ flowActive' = [flowActive EXCEPT ![ServedFlow] = FALSE]
          /\ flows' = [flows EXCEPT ![Chosen] = Tail(@)]
     ELSE UNCHANGED <<flowActive, flows>>
  /\ UNCHANGED <<classVars, flowDeficit, discClasses, queueVars, requeued, drop>>

\* The child returns null: the flow is deactivated, the search starts again.
FlowEmpty ==
  /\ pc = "flow"
  /\ InChildDequeue
  /\ queue[ServedFlow] = <<>>
  /\ flowActive' = [flowActive EXCEPT ![ServedFlow] = FALSE]
  /\ flows' = [flows EXCEPT ![Chosen] = Tail(@)]
  /\ pc' = "class"
  /\ UNCHANGED <<classVars, flowDeficit, discClasses, queueVars, requeued, drop>>

\* Mutant: a packet is charged to its flow only.
MutServeChargesFlow ==
  /\ pc = "flow"
  /\ InChildDequeue
  /\ TakeHead(ServedFlow)
  /\ flowDeficit' = [flowDeficit EXCEPT ![ServedFlow] = @ - Head(queue[ServedFlow])]
  /\ pc' = "idle"
  /\ UNCHANGED <<classVars, flows, flowActive, discClasses, requeued, drop>>

\* The child returns a packet, charged to the flow and to the class.
Serve ==
  /\ pc = "flow"
  /\ InChildDequeue
  /\ TakeHead(ServedFlow)
  /\ flowDeficit' = [flowDeficit EXCEPT ![ServedFlow] = @ - Head(queue[ServedFlow])]
  /\ classDeficit' = [classDeficit EXCEPT ![Chosen] = @ - Head(queue[ServedFlow])]
  /\ pc' = "idle"
  /\ UNCHANGED <<prioClasses, classActive, flows, flowActive, discClasses, requeued, drop>>
-----------------------------------------------------------------------------
\* MsfcQueueDisc::DoPeek asks the child of the first flow of the first class;
\* CoDelQueueDisc::DoPeek dequeues that child unless it holds a packet already.
Peek == /\ Peekable
        /\ pc = "idle"
        /\ prioClasses # <<>>
        /\ flows[Chosen] # <<>>
        /\ requeued[ServedFlow] = NoItem
        /\ pc' = "peek"
        /\ UNCHANGED <<classVars, flowVars, discClasses, queueVars, requeued, drop>>

\* Mutant: the packet peeked is counted out but stays in the internal queue.
MutPeekTakeCopies ==
  /\ pc = "peek"
  /\ queue[ServedFlow] # <<>>
  /\ requeued' = [requeued EXCEPT ![ServedFlow] = Head(queue[ServedFlow])]
  /\ nPackets' = nPackets - 1
  /\ pc' = "idle"
  /\ UNCHANGED <<classVars, flowVars, discClasses, queue, bytes, drop>>

\* PeekDequeued keeps the packet in the child, outside of its internal queue.
PeekTake == /\ pc = "peek"
            /\ TakeHead(ServedFlow)
            /\ requeued' = [requeued EXCEPT ![ServedFlow] = Head(queue[ServedFlow])]
            /\ pc' = "idle"
            /\ UNCHANGED <<classVars, flowVars, discClasses, drop>>

PeekNull == /\ pc = "peek"
            /\ queue[ServedFlow] = <<>>
            /\ pc' = "idle"
            /\ UNCHANGED <<classVars, flowVars, discClasses, queueVars, requeued, drop>>
-----------------------------------------------------------------------------
\* What a call does once it has started.
DropStep    == MsfcDrop \/ DropHead
DequeueStep == \/ NoClass \/ RotateClass \/ FoundClass
               \/ RotateFlow \/ ClassEmpty
               \/ CoDelDrop \/ FlowEmpty \/ Serve
PeekStep    == PeekTake \/ PeekNull

Next == \/ \E t \in Traffic, s \in Sizes : Enqueue(t[1], t[2], s)
        \/ Dequeue
        \/ Peek
        \/ DropStep
        \/ DequeueStep
        \/ PeekStep

Spec == Init /\ [][Next]_vars

\* The thread that runs a call goes on running it.
FairSpec == Spec /\ WF_vars(DropStep) /\ WF_vars(DequeueStep) /\ WF_vars(PeekStep)
=============================================================================
