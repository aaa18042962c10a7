------------------------------- MODULE MCMsfc -------------------------------
(***************************************************************************)
(* Instances of Msfc for TLC. Everything is bounded by MaxSize, the number *)
(* of packets in the queue disc, so that no other bound is needed.         *)
(***************************************************************************)
EXTENDS MsfcProperties

\* One class of two flows, the hash 2 wrapping around; a class of two flows
\* beside a class of one.
TwoFlows == {<<0, 0>>, <<0, 1>>, <<0, 2>>}
Grid     == {<<0, 0>>, <<0, 1>>, <<1, 0>>}

\* DSCP 0 and DSCP 46, expedited forwarding.
BestEffortAndExpedited == {<<0, 0>>, <<46, 0>>}

\* What the memory of a class just created may hold: nothing but zeroes, or a
\* debt of several quanta, or more credit than a quantum.
Zeroes  == {0}
Garbage == {-5, 0, 9}
=============================================================================
