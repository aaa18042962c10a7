-------------------------------- MODULE Lists --------------------------------
(***************************************************************************)
(* Lists of flows and queues of jobs: what is in one, whether an element is*)
(* in it twice, and the sum of a list of numbers.                          *)
(***************************************************************************)
EXTENDS Integers, Sequences, FiniteSets

Elems(s)    == {s[i] : i \in DOMAIN s}
Distinct(s) == \A i, j \in DOMAIN s : s[i] = s[j] => i = j

\* The first element becomes the last one.
Rotate(s) == Append(Tail(s), Head(s))

\* The sum of a sequence of numbers.
Sum(s) == LET sum[i \in 0 .. Len(s)] == IF i = 0 THEN 0 ELSE sum[i - 1] + s[i]
          IN  sum[Len(s)]
=============================================================================
