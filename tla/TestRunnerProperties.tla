------------------------ MODULE TestRunnerProperties ------------------------
(***************************************************************************)
(* What test.py promises of a parallel run.                                *)
(***************************************************************************)
EXTENDS TestRunner

Occurrences(s, j) == Cardinality({i \in DOMAIN s : s[i] = j})

\* The variables hold what the Python variables hold, and a worker has a job in
\* its hands exactly while it deals with one.
RunnerTypeOK ==
  /\ mainPc \in {"feed", "collect", "done", "raised"}
  /\ sent \in 0 .. NJobs
  /\ breaks \in 0 .. Cardinality(Workers)
  /\ {collected, passed, skipped} \subseteq Nat
  /\ status \in [Jobs -> {"none", "BREAK", "SKIP", "PASS", "FAIL", "VALGR", "CRASH"}]
  /\ merged \subseteq Jobs
  /\ exitCode \in {-1, 0, 1}
  /\ inputQ \in Seq(Jobs \union {Break})
  /\ outputQ \in Seq(Jobs)
  /\ workerPc \in [Workers -> {"get", "got", "run", "left", "dead"}]
  /\ workerJob \in [Workers -> Jobs \union {Break}]
  /\ isBreak \subseteq Jobs
  /\ returncode \in [Jobs -> 0 .. 3]
  /\ ended \in [Jobs -> [exit: -1 .. 3, file: {"none", "partial", "whole"},
                         readable: BOOLEAN]]
  /\ threadExit \in BOOLEAN
  /\ \A w \in Workers : workerPc[w] \in {"got", "run", "dead"}
                          <=> workerJob[w] # Break

\* A job that was dispatched is in one place: it waits, or one worker has it, or
\* it is on its way back, or it was reported; an interrupt in the middle of the
\* handling neither loses it nor hands it back twice.
EveryJobInOnePlace ==
  \A j \in 1 .. sent :
    Occurrences(inputQ, j) + Occurrences(outputQ, j)
      + Cardinality({w \in Workers : workerJob[w] = j})
      + (IF status[j] = "none" THEN 0 ELSE 1) = 1

\* No worker leaves while a job waits for one: the break jobs are behind all
\* others, so the last worker to leave has left nothing behind.
NoWorkerLeavesEarly ==
  (\E w \in Workers : workerPc[w] = "left")
    => sent = NJobs /\ \A i \in DOMAIN inputQ : inputQ[i] = Break

\* The exit code tells the truth: 0 says that every job ran and exited with 0
\* or was to be skipped. An interrupted run never looks like a success, though
\* the return code of a job that was never run is False, which equals 0.
SuccessIsReal ==
  exitCode = 0 => \A j \in Jobs : j \in Skip \/ ended[j].exit = 0
-----------------------------------------------------------------------------
Waits(j) == j \in Jobs /\ \E i \in DOMAIN inputQ : inputQ[i] = j

\* After the interrupt the workers "stop doing real work": a job that still
\* waits at that moment is never run.
NoWorkAfterInterrupt ==
  \A j \in Jobs : [](threadExit /\ Waits(j) => [](ended[j] = NotRun))

\* The program ends, interrupt or no interrupt: the main thread gets as many
\* answers as it dispatched jobs (or raises on the way) and every worker finds a
\* break job. A worker that dies of an exception is the only way out of this:
\* its job is never answered.
EveryThreadEnds ==
  <>(\/ /\ mainPc \in {"done", "raised"}
        /\ \A w \in Workers : workerPc[w] = "left"
     \/ \E w \in Workers : workerPc[w] = "dead")
=============================================================================
