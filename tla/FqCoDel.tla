------------------------------- MODULE FqCoDel -------------------------------
(***************************************************************************)
(* FqCoDelQueueDisc (src/traffic-control/model/fq-codel-queue-disc.cc), the*)
(* queue disc from which MSFC takes its flows: a list of new flows is      *)
(* served before the list of old flows, both by deficit round robin, and   *)
(* every flow is a CoDel child.                                            *)
(*                                                                         *)
(* Calls do not interleave, so one starts when pc = "idle"; their loops are*)
(* modelled one iteration per step. A packet is its size in bytes; when    *)
(* CoDel drops is left open. Peek is a Dequeue whose result the base class *)
(* keeps for the next call: the two are not told apart here.               *)
(***************************************************************************)
EXTENDS Lists

CONSTANTS
  Matches,        \* what the packet filters return for the packets that arrive
  Flows,          \* attribute Flows: hashes are taken modulo it
  Sizes,          \* the sizes a packet may have
  Quantum,        \* the quantum, set by the user or the MTU of the device
  MaxSize,        \* attribute MaxSize, in packets; each child gets it as well
  DropBatchSize,  \* attribute DropBatchSize
  MinBytes        \* attribute MinBytes of the CoDel children

PF_NO_MATCH == -1
FlowIds     == 0 .. Flows - 1

ASSUME FqCoDelAssumption ==
  /\ Matches \subseteq Nat \union {PF_NO_MATCH}
  /\ {Flows, Quantum} \subseteq Nat \ {0}
  /\ Sizes \subseteq Nat \ {0}
  /\ {MaxSize, DropBatchSize, MinBytes} \subseteq Nat
-----------------------------------------------------------------------------
VARIABLES
  newFlows,   \* m_newFlows
  oldFlows,   \* m_oldFlows
  status,     \* FqCoDelFlow::m_status
  deficit,    \* FqCoDelFlow::m_deficit
  created,    \* QueueDisc::m_classes: the flows in the order of creation
  queue,      \* the internal queue of the flow's child
  pc,         \* where the running call stands
  drop        \* the local variables of FqCoDelDrop

flowVars == <<newFlows, oldFlows, status, deficit>>
vars     == <<flowVars, created, queue, pc, drop>>

NoDrop == [flow |-> 0, len |-> 0, count |-> 0, threshold |-> 0]

Init == /\ newFlows = <<>> /\ oldFlows = <<>>
        /\ status = [f \in FlowIds |-> "INACTIVE"]
        /\ deficit = [f \in FlowIds |-> 0]
        /\ created = <<>>
        /\ queue = [f \in FlowIds |-> <<>>]
        /\ pc = "idle"
        /\ drop = NoDrop
-----------------------------------------------------------------------------
\* GetNBytes of a child and GetNPackets of the queue disc, kept by the traces.
Bytes(f) == Sum(queue[f])
NPackets == Sum([i \in DOMAIN created |-> Len(queue[created[i]])])

\* The counters as the running call leaves them: a flow is in created'.
NPacketsNext == Sum([i \in DOMAIN created' |-> Len(queue'[created'[i]])])

\* Mutant: the size is looked at before the child has taken the packet.
MutEnqueueStaleSize(ret, s) ==
  /\ pc = "idle"
  /\ ret # PF_NO_MATCH
  /\ LET f == ret % Flows IN
       /\ created' = IF f \in Elems(created) THEN created ELSE Append(created, f)
       /\ IF status[f] = "INACTIVE"
          THEN /\ status' = [status EXCEPT ![f] = "NEW_FLOW"]
               /\ deficit' = [deficit EXCEPT ![f] = Quantum]
               /\ newFlows' = Append(newFlows, f)
          ELSE UNCHANGED <<status, deficit, newFlows>>
       /\ queue' = IF Len(queue[f]) < MaxSize
                   THEN [queue EXCEPT ![f] = Append(@, s)] ELSE queue
  /\ pc' = IF NPackets > MaxSize THEN "overlimit" ELSE "idle"
  /\ UNCHANGED <<oldFlows, drop>>

\* Mutant: the quantum is added to what the flow had left.
MutEnqueueAddsQuantum(ret, s) ==
  /\ pc = "idle"
  /\ ret # PF_NO_MATCH
  /\ LET f == ret % Flows IN
       /\ created' = IF f \in Elems(created) THEN created ELSE Append(created, f)
       /\ IF status[f] = "INACTIVE"
          THEN /\ status' = [status EXCEPT ![f] = "NEW_FLOW"]
               /\ deficit' = [deficit EXCEPT ![f] = @ + Quantum]
               /\ newFlows' = Append(newFlows, f)
          ELSE UNCHANGED <<status, deficit, newFlows>>
       /\ queue' = IF Len(queue[f]) < MaxSize
                   THEN [queue EXCEPT ![f] = Append(@, s)] ELSE queue
  /\ pc' = IF NPacketsNext > MaxSize THEN "overlimit" ELSE "idle"
  /\ UNCHANGED <<oldFlows, drop>>

\* DoEnqueue: an inactive flow becomes a new one with a fresh quantum; the child
\* takes the packet or, being full, drops it.
Enqueue(ret, s) ==
  /\ pc = "idle"
  /\ ret # PF_NO_MATCH
  /\ LET f == ret % Flows IN
       /\ created' = IF f \in Elems(created) THEN created ELSE Append(created, f)
       /\ IF status[f] = "INACTIVE"
          THEN /\ status' = [status EXCEPT ![f] = "NEW_FLOW"]
               /\ deficit' = [deficit EXCEPT ![f] = Quantum]
               /\ newFlows' = Append(newFlows, f)
          ELSE UNCHANGED <<status, deficit, newFlows>>
       /\ queue' = IF Len(queue[f]) < MaxSize
                   THEN [queue EXCEPT ![f] = Append(@, s)] ELSE queue
  /\ pc' = IF NPacketsNext > MaxSize THEN "overlimit" ELSE "idle"
  /\ UNCHANGED <<oldFlows, drop>>

TakeHead(f) == /\ queue[f] # <<>>
               /\ queue' = [queue EXCEPT ![f] = Tail(@)]
-----------------------------------------------------------------------------
\* FqCoDelDrop looks for the flow with the most bytes, the first one created if
\* there are several.
FqCoDelDrop ==
  /\ pc = "overlimit"
  /\ \E i \in DOMAIN created :
       /\ \A j \in DOMAIN created : Bytes(created[j]) <= Bytes(created[i])
       /\ \A j \in 1 .. i - 1 : Bytes(created[j]) < Bytes(created[i])
       /\ drop' = [flow |-> created[i], len |-> 0, count |-> 0,
                   threshold |-> Bytes(created[i]) \div 2]
  /\ pc' = "drop"
  /\ UNCHANGED <<flowVars, created, queue>>

\* One iteration of its loop; a null packet would end the program.
DropHead ==
  /\ pc = "drop"
  /\ IF queue[drop.flow] = <<>>
     THEN pc' = "crashed" /\ UNCHANGED <<queue, drop>>
     ELSE /\ TakeHead(drop.flow)
          /\ LET len   == drop.len + Head(queue[drop.flow])
                 count == drop.count + 1
             IN  IF count < DropBatchSize /\ len < drop.threshold
                 THEN /\ drop' = [flow |-> drop.flow, len |-> len, count |-> count,
                                  threshold |-> drop.threshold]
                      /\ UNCHANGED pc
                 ELSE /\ drop' = NoDrop
                      /\ pc' = "idle"
  /\ UNCHANGED <<flowVars, created>>
-----------------------------------------------------------------------------
\* DoDequeue is called.
Dequeue == /\ pc = "idle"
           /\ pc' = "new"
           /\ UNCHANGED <<flowVars, created, queue, drop>>

\* Mutant: the flow is moved to the old flows and marked inactive.
MutNewToOldInactive ==
  /\ pc = "new" /\ newFlows # <<>>
  /\ LET f == Head(newFlows) IN
       /\ deficit[f] <= 0
       /\ deficit' = [deficit EXCEPT ![f] = @ + Quantum]
       /\ status' = [status EXCEPT ![f] = "INACTIVE"]
       /\ oldFlows' = Append(oldFlows, f)
  /\ newFlows' = Tail(newFlows)
  /\ UNCHANGED <<created, queue, pc, drop>>

\* A new flow without credit gets a quantum and becomes an old one.
NewToOld == /\ pc = "new" /\ newFlows # <<>>
            /\ LET f == Head(newFlows) IN
                 /\ deficit[f] <= 0
                 /\ deficit' = [deficit EXCEPT ![f] = @ + Quantum]
                 /\ status' = [status EXCEPT ![f] = "OLD_FLOW"]
                 /\ oldFlows' = Append(oldFlows, f)
            /\ newFlows' = Tail(newFlows)
            /\ UNCHANGED <<created, queue, pc, drop>>

FoundNew == /\ pc = "new" /\ newFlows # <<>>
            /\ deficit[Head(newFlows)] > 0
            /\ pc' = "serveNew"
            /\ UNCHANGED <<flowVars, created, queue, drop>>

NoNewFlow == /\ pc = "new" /\ newFlows = <<>>
             /\ pc' = "old"
             /\ UNCHANGED <<flowVars, created, queue, drop>>

RotateOld == /\ pc = "old" /\ oldFlows # <<>>
             /\ LET f == Head(oldFlows) IN
                  /\ deficit[f] <= 0
                  /\ deficit' = [deficit EXCEPT ![f] = @ + Quantum]
                  /\ oldFlows' = Rotate(oldFlows)
             /\ UNCHANGED <<newFlows, status, created, queue, pc, drop>>

FoundOld == /\ pc = "old" /\ oldFlows # <<>>
            /\ deficit[Head(oldFlows)] > 0
            /\ pc' = "serveOld"
            /\ UNCHANGED <<flowVars, created, queue, drop>>

\* No flow is active: DoDequeue returns null.
NoFlow == /\ pc = "old" /\ oldFlows = <<>>
          /\ pc' = "idle"
          /\ UNCHANGED <<flowVars, created, queue, drop>>

Serving    == pc \in {"serveNew", "serveOld"}
ServedFlow == IF pc = "serveNew" THEN Head(newFlows) ELSE Head(oldFlows)

\* CoDel drops the head while it is being dequeued.
CoDelDrop == /\ Serving
             /\ TakeHead(ServedFlow)
             /\ Sum(queue'[ServedFlow]) >= MinBytes
             /\ UNCHANGED <<flowVars, created, pc, drop>>

\* Mutant: the flow is moved, its status is not set.
MutNewFlowEmptyStillNew ==
  /\ pc = "serveNew" /\ queue[ServedFlow] = <<>>
  /\ oldFlows' = Append(oldFlows, ServedFlow)
  /\ newFlows' = Tail(newFlows)
  /\ pc' = "new"
  /\ UNCHANGED <<status, deficit, created, queue, drop>>

\* Mutant: an empty new flow becomes inactive at once.
MutNewFlowEmptyInactive ==
  /\ pc = "serveNew" /\ queue[ServedFlow] = <<>>
  /\ status' = [status EXCEPT ![ServedFlow] = "INACTIVE"]
  /\ newFlows' = Tail(newFlows)
  /\ pc' = "new"
  /\ UNCHANGED <<oldFlows, deficit, created, queue, drop>>

\* The child returns null. A new flow becomes an old one all the same, an old
\* one inactive; the search starts again.
NewFlowEmpty == /\ pc = "serveNew" /\ queue[ServedFlow] = <<>>
                /\ status' = [status EXCEPT ![ServedFlow] = "OLD_FLOW"]
                /\ oldFlows' = Append(oldFlows, ServedFlow)
                /\ newFlows' = Tail(newFlows)
                /\ pc' = "new"
                /\ UNCHANGED <<deficit, created, queue, drop>>

\* Mutant: DoDequeue returns null after the first empty old flow.
MutOldFlowEmptyReturns ==
  /\ pc = "serveOld" /\ queue[ServedFlow] = <<>>
  /\ status' = [status EXCEPT ![ServedFlow] = "INACTIVE"]
  /\ oldFlows' = Tail(oldFlows)
  /\ pc' = "idle"
  /\ UNCHANGED <<newFlows, deficit, created, queue, drop>>

OldFlowEmpty == /\ pc = "serveOld" /\ queue[ServedFlow] = <<>>
                /\ status' = [status EXCEPT ![ServedFlow] = "INACTIVE"]
                /\ oldFlows' = Tail(oldFlows)
                /\ pc' = "new"
                /\ UNCHANGED <<newFlows, deficit, created, queue, drop>>

Serve == /\ Serving
         /\ TakeHead(ServedFlow)
         /\ deficit' = [deficit EXCEPT ![ServedFlow] = @ - Head(queue[ServedFlow])]
         /\ pc' = "idle"
         /\ UNCHANGED <<newFlows, oldFlows, status, created, drop>>
-----------------------------------------------------------------------------
DropStep    == FqCoDelDrop \/ DropHead
DequeueStep == \/ NewToOld \/ FoundNew \/ NoNewFlow
               \/ RotateOld \/ FoundOld \/ NoFlow
               \/ CoDelDrop \/ NewFlowEmpty \/ OldFlowEmpty \/ Serve

Next == \/ \E ret \in Matches, s \in Sizes : Enqueue(ret, s)
        \/ Dequeue
        \/ DropStep
        \/ DequeueStep

Spec == Init /\ [][Next]_vars

\* A call that runs goes on; the device asks for packets again and again.
ServingSpec == /\ Spec
               /\ WF_vars(DropStep) /\ WF_vars(DequeueStep)
               /\ SF_vars(Dequeue)
=============================================================================
