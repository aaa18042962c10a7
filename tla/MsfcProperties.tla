--------------------------- MODULE MsfcProperties ---------------------------
(***************************************************************************)
(* What is claimed of MsfcQueueDisc: the invariants, the liveness          *)
(* properties and the contract it refines.                                 *)
(***************************************************************************)
EXTENDS Msfc

\* The variables hold what the C++ types and lists can hold; while a call is
\* in one of its loops, the list that loop relies on is not empty.
TypeOK ==
  /\ prioClasses \in Seq(Prios)
  /\ classActive \in [Prios -> BOOLEAN]
  /\ classDeficit \in [Prios -> Int]
  /\ flows \in [Prios -> Seq(FlowIds)]
  /\ flowActive \in [FlowIds -> BOOLEAN]
  /\ flowDeficit \in [FlowIds -> Int]
  /\ discClasses \in Seq(FlowIds)
  /\ queue \in [FlowIds -> Seq(Sizes)]
  /\ bytes \in [FlowIds -> Int]
  /\ requeued \in [FlowIds -> Sizes \union {NoItem}]
  /\ nPackets \in Int
  /\ pc \in {"idle", "overlimit", "drop", "class", "flow", "peek", "crashed"}
  /\ pc = "drop" => drop \in [flow: FlowIds, len: Int, count: Int, threshold: Int]
  /\ pc = "flow" => prioClasses # <<>> /\ classDeficit[Chosen] > 0
  /\ pc = "peek" => prioClasses # <<>> /\ flows[Chosen] # <<>>
-----------------------------------------------------------------------------
\* The active flags and the round robin lists never disagree: a class is marked
\* active exactly while it is in m_prioClasses, once, and a flow exactly while
\* it is in the m_flows of its own class, once. DoEnqueue appends to a list only
\* after it looked at the flag, DoDequeue pops one list at a time.
ListsMatchFlags ==
  /\ Distinct(prioClasses)
  /\ \A p \in Prios : classActive[p] <=> p \in Elems(prioClasses)
  /\ \A p \in Prios : Distinct(flows[p])
  /\ \A p \in Prios, f \in FlowIds :
       f \in Elems(flows[p]) <=> f[1] = p /\ flowActive[f]

\* No packet is out of DoDequeue's reach: a flow that holds packets is in the
\* list of its class, and that class is in the list of classes, whatever was
\* dropped behind the scheduler's back since the lists were last walked.
NoPacketStranded ==
  \A f \in FlowIds : /\ queue[f] # <<>> => flowActive[f]
                     /\ flowActive[f] => classActive[f[1]]

\* A flow's credit never exceeds one quantum, an active class's never exceeds
\* the quantum of the class; a flow's debt never reaches the size of a packet it
\* was served: no idle period and no sequence of drops lets credit or debt add
\* up across rounds. (A class that was never active holds no deficit yet.)
DeficitsBounded ==
  /\ \A f \in FlowIds : flowDeficit[f] <= Quantum
  /\ \A p \in Prios : classActive[p] => classDeficit[p] <= ClassQuantum(p)
  /\ \A f \in FlowIds :
       flowDeficit[f] < 0 => \E s \in Sizes : flowDeficit[f] > -s

\* The debts that accumulate in the classes are bounded in the same way once the
\* deficits that classes start from are.
ClassDebtBounded ==
  \A p \in Prios : classDeficit[p] < 0 =>
    \E s \in Sizes \union {1 - d : d \in GarbageDeficit} : classDeficit[p] > -s
-----------------------------------------------------------------------------
\* The counters that the traces of the children keep agree with the packets
\* that are there, in the middle of a batch of drops too: MsfcDrop takes packets
\* from the internal queue of a child without telling the child.
CountersMatchQueues ==
  /\ \A f \in FlowIds : bytes[f] = Sum(queue[f])
  /\ nPackets = Sum([i \in DOMAIN discClasses |-> Len(queue[discClasses[i]])])

\* Between calls the queue disc holds no more than MaxSize packets, and never
\* more than one above it: one batch of drops always makes up for the packet
\* that was let in before the limit was looked at.
WithinLimit == /\ pc = "idle" => nPackets <= MaxSize
               /\ nPackets <= MaxSize + 1

\* MsfcDrop never runs out of packets before half of the fat flow is gone, and
\* so never uses the null packet it would then be given.
NeverCrashes == pc # "crashed"
-----------------------------------------------------------------------------
\* A call of DoDequeue comes back: the loop over classes, the loop over flows
\* and the loop around both, which walks over every empty flow and class that
\* drops have left in the lists, end.
DequeueReturns == pc = "class" ~> pc = "idle"

\* A flow with packets is served, or runs empty, again and again as long as the
\* device asks for packets: no class and no flow is starved.
Served(f) == pc = "flow" /\ pc' = "idle" /\ f = ServedFlow
NoFlowStarves ==
  \A f \in FlowIds : []<>(queue[f] = <<>>) \/ []<><<Served(f)>>_vars

\* The device takes packets again and again; enqueues may come at any time.
ServingSpec == FairSpec /\ SF_vars(Dequeue)

\* MsfcQueueDisc keeps the contract of FlowFifos: packets of a flow leave in
\* the order they came in, none is invented, duplicated or moved to another
\* flow, and DoDequeue returns null only when there is no packet at all.
Fifos == INSTANCE FlowFifos WITH fifo <- queue,
                                 dequeuing <- pc \in {"class", "flow"}
RefinesFlowFifos == Fifos!Spec
=============================================================================
