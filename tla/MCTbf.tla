-------------------------------- MODULE MCTbf --------------------------------
(***************************************************************************)
(* Instances of Tbf for TLC: two ticks make a second.                      *)
(***************************************************************************)
EXTENDS TbfProperties

\* One byte in two ticks; a rate that is not a whole number of bytes, so that the
\* tokens come later than the watchdog; two buckets.
OneBucket  == [burst: {2, 3}, mtu: {2}, rate: {8, 12}, peak: {0}]
TwoBuckets == [burst: {3}, mtu: {2, 3}, rate: {8}, peak: {12, 16}]
SlowAndPeak == OneBucket \union TwoBuckets
=============================================================================
