-------------------------- MODULE FqCoDelProperties --------------------------
(***************************************************************************)
(* What is claimed of FqCoDelQueueDisc.                                    *)
(***************************************************************************)
EXTENDS FqCoDel

\* The variables hold what the C++ types and lists can hold; the flow that is
\* being served is the first of its list and has credit, and the old flows are
\* looked at only when there is no new one.
FqTypeOK ==
  /\ newFlows \in Seq(FlowIds) /\ oldFlows \in Seq(FlowIds)
  /\ status \in [FlowIds -> {"INACTIVE", "NEW_FLOW", "OLD_FLOW"}]
  /\ deficit \in [FlowIds -> Int]
  /\ created \in Seq(FlowIds)
  /\ queue \in [FlowIds -> Seq(Sizes)]
  /\ pc \in {"idle", "overlimit", "drop", "new", "old", "serveNew", "serveOld",
             "crashed"}
  /\ pc = "drop" => drop.flow \in FlowIds
  /\ pc = "serveNew" => newFlows # <<>>
  /\ pc = "serveOld" => oldFlows # <<>>
  /\ pc \in {"old", "serveOld"} => newFlows = <<>>
  /\ Serving => deficit[ServedFlow] > 0
-----------------------------------------------------------------------------
\* A flow is in the list its status names, once, and in no other. DoEnqueue
\* decides by the status alone whether it has to put a flow in a list, while
\* DoDequeue moves flows between the lists and sets the status beside.
StatusMatchesLists ==
  /\ Distinct(newFlows) /\ Distinct(oldFlows)
  /\ \A f \in FlowIds : f \in Elems(newFlows) <=> status[f] = "NEW_FLOW"
  /\ \A f \in FlowIds : f \in Elems(oldFlows) <=> status[f] = "OLD_FLOW"

\* A flow that holds packets is in reach of DoDequeue.
FqNothingStranded == \A f \in FlowIds : queue[f] # <<>> => status[f] # "INACTIVE"

\* Credit never exceeds one quantum and debt stays below the size of a packet,
\* whatever lists the flow was moved through in between.
FqDeficitsBounded ==
  \A f \in FlowIds : /\ deficit[f] <= Quantum
                     /\ deficit[f] < 0 => \E s \in Sizes : deficit[f] > -s

\* Between calls the limit holds: one batch makes up for the packet that was let
\* in first; and the batch never runs out of packets.
FqWithinLimit == /\ pc = "idle" => NPackets <= MaxSize
                 /\ pc # "crashed"
-----------------------------------------------------------------------------
\* A flow with packets is served, or runs empty, again and again: flows that come
\* and go do not starve the old flows by being new each time.
Served(f) == Serving /\ pc' = "idle" /\ f = ServedFlow
FqNoFlowStarves ==
  \A f \in FlowIds : []<>(queue[f] = <<>>) \/ []<><<Served(f)>>_vars

\* FqCoDelQueueDisc keeps the same contract as MsfcQueueDisc: one FIFO for each
\* flow, and DoDequeue returns, with a packet if there is one.
Fifos == INSTANCE FlowFifos WITH
           fifo <- queue,
           dequeuing <- pc \in {"new", "old", "serveNew", "serveOld"}
FqRefinesFlowFifos == Fifos!Spec
=============================================================================
