----------------------------- MODULE FlowFifos -----------------------------
(***************************************************************************)
(* What a classful, work-conserving queue disc promises to the code that   *)
(* calls QueueDisc::Enqueue and QueueDisc::Dequeue: every flow is a FIFO;  *)
(* a packet is accepted at the tail of its flow or refused; a packet leaves*)
(* only from the head of its flow, either handed to the caller or dropped; *)
(* and Dequeue comes back empty-handed only when no flow has a packet.     *)
(* Which flow is served and when packets are dropped is left open.         *)
(*                                                                         *)
(* From the contract stated by QueueDisc::DoEnqueue / DoDequeue and the    *)
(* way MsfcQueueDisc and the classful disciplines beside it use their      *)
(* children.                                                               *)
(***************************************************************************)
EXTENDS Sequences

CONSTANTS FlowIds,  \* the flows
          Sizes     \* packets are told apart by their flow and their size

VARIABLES fifo,      \* fifo[f]: the packets of flow f, the head first
          dequeuing  \* TRUE between the call of Dequeue and its return

vars == <<fifo, dequeuing>>

Init == /\ fifo = [f \in FlowIds |-> <<>>]
        /\ dequeuing = FALSE

Accept(f, s) == /\ ~dequeuing
                /\ fifo' = [fifo EXCEPT ![f] = Append(@, s)]
                /\ UNCHANGED dequeuing

\* An overlimit drop, or a drop by the flow's active queue management.
DropHead(f) == /\ fifo[f] # <<>>
               /\ fifo' = [fifo EXCEPT ![f] = Tail(@)]
               /\ UNCHANGED dequeuing

Call == /\ ~dequeuing
        /\ dequeuing' = TRUE
        /\ UNCHANGED fifo

Deliver(f) == /\ dequeuing
              /\ fifo[f] # <<>>
              /\ fifo' = [fifo EXCEPT ![f] = Tail(@)]
              /\ dequeuing' = FALSE

ReturnNothing == /\ dequeuing
                 /\ \A f \in FlowIds : fifo[f] = <<>>
                 /\ dequeuing' = FALSE
                 /\ UNCHANGED fifo

Next == \/ \E f \in FlowIds, s \in Sizes : Accept(f, s)
        \/ \E f \in FlowIds : DropHead(f) \/ Deliver(f)
        \/ Call
        \/ ReturnNothing

\* What a queue disc may do.
SafeSpec == Init /\ [][Next]_vars

\* And what it must: a Dequeue that was called returns, it never loops forever.
Spec == SafeSpec /\ WF_vars(\/ \E f \in FlowIds : Deliver(f)
                            \/ ReturnNothing)
============================================================================
