----------------------------- MODULE TestRunner -----------------------------
(***************************************************************************)
(* The parallel part of test.py: the main thread puts one job per test     *)
(* suite or example into a queue, then one "break" job per worker thread;  *)
(* the workers run the jobs as processes and put them into the output      *)
(* queue, from which the main thread reports them and builds the results   *)
(* file. A SIGINT makes the workers hand the rest back unrun.              *)
(***************************************************************************)
EXTENDS Integers, Sequences, FiniteSets

CONSTANTS
  Workers,     \* the worker threads, one per processor
  NJobs,       \* the number of suites and examples to run
  Skip,        \* the jobs with is_skip
  Examples     \* the jobs with is_example or is_pyexample

Jobs  == 1 .. NJobs
Break == 0     \* a job with is_break, as the main thread makes it

ASSUME TestRunnerAssumption ==
  /\ IsFiniteSet(Workers)
  /\ NJobs \in Nat
  /\ Skip \subseteq Jobs
  /\ Examples \subseteq Jobs
-----------------------------------------------------------------------------
VARIABLES
  mainPc,      \* what the main thread does
  sent,        \* jobs: the jobs in input_queue so far
  breaks,      \* the break jobs in input_queue so far
  collected,   \* the iterations of the loop over output_queue
  passed,      \* passed_tests
  skipped,     \* skipped_tests
  status,      \* the line printed for each job
  merged,      \* the suites whose results file is part of the report
  exitCode,    \* what run_tests returns
  inputQ,      \* input_queue
  outputQ,     \* output_queue
  workerPc,    \* what each worker does
  workerJob,   \* its local variable job
  isBreak,     \* the jobs a worker has marked with set_is_break
  returncode,  \* job.returncode
  ended,       \* history: how the process of each job ended
  threadExit   \* thread_exit

mainVars   == <<mainPc, sent, breaks, collected, passed, skipped, status,
                merged, exitCode>>
workerVars == <<workerPc, workerJob, isBreak, returncode, ended>>
vars       == <<mainVars, workerVars, inputQ, outputQ, threadExit>>

\* How the process of a job can end: its exit code (3 for all codes other than
\* 0, 1 and 2), the results file it leaves and whether its output can be
\* decoded. A suite that ends by itself leaves a whole file, an example none.
Ends(j) ==
  {e \in [exit: 0 .. 3, file: {"none", "partial", "whole"}, readable: BOOLEAN] :
     IF j \in Examples THEN e.file = "none"
                       ELSE e.exit < 3 <=> e.file = "whole"}

NotRun == [exit |-> -1, file |-> "none", readable |-> TRUE]

Init ==
  /\ mainPc = "feed"
  /\ sent = 0 /\ breaks = 0 /\ collected = 0 /\ passed = 0 /\ skipped = 0
  /\ status = [j \in Jobs |-> "none"]
  /\ merged = {}
  /\ exitCode = -1
  /\ inputQ = <<>> /\ outputQ = <<>>
  /\ workerPc = [w \in Workers |-> "get"]
  /\ workerJob = [w \in Workers |-> Break]
  /\ isBreak = {}
  /\ returncode = [j \in Jobs |-> 0]      \* False
  /\ ended = [j \in Jobs |-> NotRun]
  /\ threadExit = FALSE
-----------------------------------------------------------------------------
(* The main thread, in run_tests.                                          *)

Dispatch ==
  /\ mainPc = "feed" /\ sent < NJobs
  /\ sent' = sent + 1
  /\ inputQ' = Append(inputQ, sent + 1)
  /\ UNCHANGED <<mainPc, breaks, collected, passed, skipped, status, merged,
                 exitCode, outputQ, workerVars, threadExit>>

\* Mutant: break jobs are put in the queue while jobs are still to come.
MutPutBreakEarly ==
  /\ mainPc = "feed" /\ breaks < Cardinality(Workers)
  /\ breaks' = breaks + 1
  /\ inputQ' = Append(inputQ, Break)
  /\ UNCHANGED <<mainPc, sent, collected, passed, skipped, status, merged,
                 exitCode, outputQ, workerVars, threadExit>>

PutBreak ==
  /\ mainPc = "feed" /\ sent = NJobs /\ breaks < Cardinality(Workers)
  /\ breaks' = breaks + 1
  /\ inputQ' = Append(inputQ, Break)
  /\ UNCHANGED <<mainPc, sent, collected, passed, skipped, status, merged,
                 exitCode, outputQ, workerVars, threadExit>>

\* Mutant: one worker gets no break job.
MutStartCollectingOneShort ==
  /\ mainPc = "feed" /\ sent = NJobs /\ breaks >= Cardinality(Workers) - 1
  /\ mainPc' = "collect"
  /\ UNCHANGED <<sent, breaks, collected, passed, skipped, status, merged,
                 exitCode, inputQ, outputQ, workerVars, threadExit>>

StartCollecting ==
  /\ mainPc = "feed" /\ sent = NJobs /\ breaks = Cardinality(Workers)
  /\ mainPc' = "collect"
  /\ UNCHANGED <<sent, breaks, collected, passed, skipped, status, merged,
                 exitCode, inputQ, outputQ, workerVars, threadExit>>

\* Mutant: the return code of a job that was broken off is looked at.
MutStatusOfBreak(j) == IF j \in Skip THEN "SKIP"
                       ELSE <<"PASS", "FAIL", "VALGR", "CRASH">>[returncode[j] + 1]

StatusOf(j) == CASE j \in isBreak -> "BREAK"
                 [] j \in Skip \ isBreak -> "SKIP"
                 [] OTHER -> <<"PASS", "FAIL", "VALGR", "CRASH">>[returncode[j] + 1]

\* A suite with return code 0, 1 or 2 should have left a results file.
NeedsFile(j) == /\ j \notin Examples
                /\ StatusOf(j) \in {"PASS", "FAIL", "VALGR"}

\* One iteration of the loop; open raises if there is no file.
Collect ==
  /\ mainPc = "collect" /\ collected < sent /\ outputQ # <<>>
  /\ LET j == Head(outputQ) IN
     /\ status' = [status EXCEPT ![j] = StatusOf(j)]
     /\ passed' = passed + (IF StatusOf(j) = "PASS" THEN 1 ELSE 0)
     /\ skipped' = skipped + (IF StatusOf(j) = "SKIP" THEN 1 ELSE 0)
     /\ IF NeedsFile(j) /\ ended[j].file = "none"
        THEN mainPc' = "raised" /\ exitCode' = 1 /\ merged' = merged
        ELSE /\ merged' = IF NeedsFile(j) THEN merged \union {j} ELSE merged
             /\ UNCHANGED <<mainPc, exitCode>>
  /\ collected' = collected + 1
  /\ outputQ' = Tail(outputQ)
  /\ UNCHANGED <<sent, breaks, inputQ, workerVars, threadExit>>

\* All threads are joined, the summary is printed and the exit code returned.
Finish ==
  /\ mainPc = "collect" /\ collected = sent
  /\ \A w \in Workers : workerPc[w] \in {"left", "dead"}
  /\ mainPc' = "done"
  /\ exitCode' = IF passed + skipped = sent THEN 0 ELSE 1
  /\ UNCHANGED <<sent, breaks, collected, passed, skipped, status, merged,
                 inputQ, outputQ, workerVars, threadExit>>

Sigint == /\ ~threadExit /\ mainPc \notin {"done", "raised"}
          /\ threadExit' = TRUE
          /\ UNCHANGED <<mainVars, workerVars, inputQ, outputQ>>
-----------------------------------------------------------------------------
(* The worker threads, in worker_thread.run.                               *)

Get(w) ==
  /\ workerPc[w] = "get" /\ inputQ # <<>>
  /\ inputQ' = Tail(inputQ)
  /\ workerJob' = [workerJob EXCEPT ![w] = Head(inputQ)]
  /\ workerPc' = [workerPc EXCEPT ![w] = IF Head(inputQ) = Break
                                         THEN "left" ELSE "got"]
  /\ UNCHANGED <<mainVars, outputQ, isBreak, returncode, ended, threadExit>>

\* The job goes to output_queue and the worker back to the top of its loop.
HandBack(w) ==
  /\ outputQ' = Append(outputQ, workerJob[w])
  /\ workerPc' = [workerPc EXCEPT ![w] = "get"]
  /\ workerJob' = [workerJob EXCEPT ![w] = Break]

\* Mutant: the job is handed back and run all the same.
MutInterruptedGoesOn(w) ==
  /\ workerPc[w] = "got" /\ threadExit
  /\ isBreak' = isBreak \union {workerJob[w]}
  /\ outputQ' = Append(outputQ, workerJob[w])
  /\ workerPc' = [workerPc EXCEPT ![w] = "run"]
  /\ UNCHANGED <<mainVars, inputQ, workerJob, returncode, ended, threadExit>>

Interrupted(w) ==
  /\ workerPc[w] = "got" /\ threadExit
  /\ isBreak' = isBreak \union {workerJob[w]}
  /\ HandBack(w)
  /\ UNCHANGED <<mainVars, inputQ, returncode, ended, threadExit>>

SkipJob(w) ==
  /\ workerPc[w] = "got" /\ ~threadExit /\ workerJob[w] \in Skip
  /\ HandBack(w)
  /\ UNCHANGED <<mainVars, inputQ, isBreak, returncode, ended, threadExit>>

\* Mutant: the interrupt is not looked at.
MutLaunchAnyway(w) ==
  /\ workerPc[w] = "got" /\ workerJob[w] \notin Skip
  /\ workerPc' = [workerPc EXCEPT ![w] = "run"]
  /\ UNCHANGED <<mainVars, inputQ, outputQ, workerJob, isBreak, returncode,
                 ended, threadExit>>

Launch(w) ==
  /\ workerPc[w] = "got" /\ ~threadExit /\ workerJob[w] \notin Skip
  /\ workerPc' = [workerPc EXCEPT ![w] = "run"]
  /\ UNCHANGED <<mainVars, inputQ, outputQ, workerJob, isBreak, returncode,
                 ended, threadExit>>

\* run_job_synchronously returns; output that cannot be decoded makes it 1.
EndJob(w) ==
  /\ workerPc[w] = "run"
  /\ \E e \in Ends(workerJob[w]) :
       /\ ended' = [ended EXCEPT ![workerJob[w]] = e]
       /\ returncode' = [returncode EXCEPT
                           ![workerJob[w]] = IF e.readable THEN e.exit ELSE 1]
  /\ HandBack(w)
  /\ UNCHANGED <<mainVars, inputQ, isBreak, threadExit>>

\* Popen raises, and nothing catches it: the thread ends with the job in its
\* hands.
Die(w) ==
  /\ workerPc[w] = "run"
  /\ workerPc' = [workerPc EXCEPT ![w] = "dead"]
  /\ UNCHANGED <<mainVars, inputQ, outputQ, workerJob, isBreak, returncode,
                 ended, threadExit>>
-----------------------------------------------------------------------------
Main == Dispatch \/ PutBreak \/ StartCollecting \/ Collect \/ Finish

Worker(w) == Get(w) \/ Interrupted(w) \/ SkipJob(w) \/ Launch(w) \/ EndJob(w)

Next == Main \/ Sigint \/ \E w \in Workers : Worker(w) \/ Die(w)

Spec == Init /\ [][Next]_vars

\* The operating system runs every thread, and every process ends some day.
FairSpec == /\ Spec
            /\ WF_vars(Main)
            /\ \A w \in Workers : WF_vars(Worker(w))
=============================================================================
