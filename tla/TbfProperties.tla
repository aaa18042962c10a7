---------------------------- MODULE TbfProperties ----------------------------
(***************************************************************************)
(* What a token bucket promises.                                           *)
(***************************************************************************)
EXTENDS Tbf

\* A bucket holds no more than it can, and never a debt: both are kept in
\* unsigned integers.
TbfTypeOK ==
  /\ conf \in Configs
  /\ queue \in Seq(Sizes)
  /\ btokens \in 0 .. conf.burst
  /\ ptokens \in 0 .. conf.mtu
  /\ since \in 0 .. Horizon
  /\ watchdog \in Nat \union {NoEvent}
  /\ stopped \in BOOLEAN
  /\ pc \in {"idle", "run"}
  /\ {blevel, plevel} \subseteq Int

\* In no interval does the queue disc send more than the burst and what the rate
\* yields in that time, up to half a byte for each packet, the rounding of the
\* tokens earned: an exact bucket that is forgiven this much is never overdrawn.
\* The same for the peak rate and the second bucket.
Conforms == blevel >= 0 /\ (conf.peak > 0 => plevel >= 0)

\* No packet waits for nothing: between events, a packet in the queue disc waits
\* for the device or for a watchdog that is set.
BlockedHasWatchdog ==
  pc = "idle" /\ queue # <<>> => stopped \/ watchdog # NoEvent

\* As long as every packet fits into the buckets, packets leave one after the
\* other, without any arrival to run the queue disc.
Leaves == queue # <<>> /\ queue' = Tail(queue)
EveryPacketPasses == []<>(queue = <<>>) \/ []<><<Leaves>>_vars

\* "In that case we have to schedule the waking of queue when enough tokens are
\* available" (tbf-queue-disc.cc:276): while a packet waits for tokens, the
\* watchdog is not due after there are tokens for one byte more than it has.
WatchdogInTime ==
  pc = "idle" /\ queue # <<>> /\ ~stopped /\ watchdog # NoEvent
    => \A t \in 0 .. watchdog - 1 : ~Enough(Head(queue) + 1, since + t)
=============================================================================
