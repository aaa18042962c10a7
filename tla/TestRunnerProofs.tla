-------------------------- MODULE TestRunnerProofs --------------------------
(***************************************************************************)
(* Proofs about TestRunner, for any number of workers and of jobs.         *)
(*                                                                         *)
(* That no worker leaves early rests on the order of the input queue: break*)
(* jobs enter it behind all others, so what is behind a break job is break *)
(* jobs. What becomes of a job rests on the places it can be in (Places).  *)
(***************************************************************************)
EXTENDS TestRunnerProperties, ListProofs, FiniteSetTheorems, TLAPS

\* What HandBack does to the types, with the job a worker has in its hands.
LEMMA HandBackType ==
  ASSUME RunnerTypeOK, NEW w \in Workers, workerPc[w] \in {"got", "run"}, HandBack(w)
  PROVE  /\ workerJob[w] \in Jobs
         /\ outputQ' \in Seq(Jobs)
         /\ workerPc' \in [Workers -> {"get", "got", "run", "left", "dead"}]
         /\ workerJob' \in [Workers -> Jobs \union {Break}]
         /\ \A v \in Workers : workerPc'[v] \in {"got", "run", "dead"}
                                 <=> workerJob'[v] # Break
  <1>1. workerJob[w] \in Jobs
    BY DEF RunnerTypeOK
  <1>2. outputQ' \in Seq(Jobs)
    <2>1. outputQ \in Seq(Jobs)
      BY DEF RunnerTypeOK
    <2>. QED
      BY <1>1, <2>1 DEF HandBack
  <1>3. /\ workerPc' = [workerPc EXCEPT ![w] = "get"]
        /\ workerJob' = [workerJob EXCEPT ![w] = Break]
    BY DEF HandBack
  <1>. QED
    BY <1>1, <1>2, <1>3 DEF RunnerTypeOK

\* A step of a worker that only moves it on, its job staying in its hands.
LEMMA MoveOnType ==
  ASSUME RunnerTypeOK, NEW w \in Workers, workerPc[w] \in {"got", "run"},
         NEW to \in {"run", "dead"}, workerPc' = [workerPc EXCEPT ![w] = to],
         UNCHANGED <<mainVars, inputQ, outputQ, workerJob, isBreak, returncode,
                     ended, threadExit>>
  PROVE  RunnerTypeOK'
  <1>1. /\ workerPc' \in [Workers -> {"get", "got", "run", "left", "dead"}]
        /\ \A v \in Workers : workerPc'[v] \in {"got", "run", "dead"}
                                <=> workerJob'[v] # Break
    BY DEF RunnerTypeOK
  <1>. QED
    BY <1>1 DEF RunnerTypeOK, mainVars

LEMMA InitRunnerTypeOK == Init => RunnerTypeOK
  <1> SUFFICES ASSUME Init PROVE RunnerTypeOK
    OBVIOUS
  <1>1. Cardinality(Workers) \in Nat
    BY TestRunnerAssumption, FS_CardinalityType
  <1>2. threadExit \in BOOLEAN
    BY DEF Init
  <1>3. ended \in [Jobs -> [exit: -1 .. 3, file: {"none", "partial", "whole"},
                            readable: BOOLEAN]]
    BY DEF Init, NotRun
  <1>. QED
    BY <1>1, <1>2, <1>3, TestRunnerAssumption DEF Init, RunnerTypeOK, Break

LEMMA StatusOfType ==
  ASSUME RunnerTypeOK, NEW j \in Jobs
  PROVE  StatusOf(j) \in {"BREAK", "SKIP", "PASS", "FAIL", "VALGR", "CRASH"}
  <1>1. returncode[j] \in 0 .. 3
    BY DEF RunnerTypeOK
  <1>2. <<"PASS", "FAIL", "VALGR", "CRASH">>[returncode[j] + 1]
          \in {"PASS", "FAIL", "VALGR", "CRASH"}
    BY <1>1
  <1>. QED
    BY <1>2 DEF StatusOf

LEMMA NextRunnerTypeOK == RunnerTypeOK /\ [Next]_vars => RunnerTypeOK'
  <1> SUFFICES ASSUME RunnerTypeOK, [Next]_vars
               PROVE  RunnerTypeOK'
    OBVIOUS
  <1>. Cardinality(Workers) \in Nat /\ NJobs \in Nat
    BY TestRunnerAssumption, FS_CardinalityType
  <1>1. CASE Dispatch
    <2>1. sent + 1 \in Jobs /\ sent' \in 0 .. NJobs
      BY <1>1 DEF Dispatch, RunnerTypeOK, Jobs
    <2>2. inputQ' \in Seq(Jobs \union {Break})
      <3>1. inputQ \in Seq(Jobs \union {Break})
        BY DEF RunnerTypeOK
      <3>. QED
        BY <1>1, <2>1, <3>1 DEF Dispatch
    <2>. QED
      BY <1>1, <2>1, <2>2 DEF Dispatch, RunnerTypeOK, workerVars
  <1>2. CASE PutBreak
    <2>1. inputQ' \in Seq(Jobs \union {Break})
      <3>1. inputQ \in Seq(Jobs \union {Break})
        BY DEF RunnerTypeOK
      <3>. QED
        BY <1>2, <3>1 DEF PutBreak
    <2>2. breaks' \in 0 .. Cardinality(Workers)
      BY <1>2 DEF PutBreak, RunnerTypeOK
    <2>. QED
      BY <1>2, <2>1, <2>2 DEF PutBreak, RunnerTypeOK, workerVars
  <1>3. CASE StartCollecting
    BY <1>3 DEF StartCollecting, RunnerTypeOK, workerVars
  <1>4. CASE Collect
    <2> DEFINE j == Head(outputQ)
    <2>1. j \in Jobs /\ Tail(outputQ) \in Seq(Jobs)
      BY <1>4 DEF Collect, RunnerTypeOK
    <2>2. StatusOf(j) \in {"BREAK", "SKIP", "PASS", "FAIL", "VALGR", "CRASH"}
      BY <2>1, StatusOfType
    <2>3. /\ status' = [status EXCEPT ![j] = StatusOf(j)]
          /\ passed' = passed + (IF StatusOf(j) = "PASS" THEN 1 ELSE 0)
          /\ skipped' = skipped + (IF StatusOf(j) = "SKIP" THEN 1 ELSE 0)
          /\ mainPc' \in {"collect", "raised"}
          /\ exitCode' \in {exitCode, 1}
          /\ merged' \in {merged, merged \union {j}}
          /\ collected' = collected + 1
          /\ outputQ' = Tail(outputQ)
          /\ UNCHANGED <<sent, breaks, inputQ, workerVars, threadExit>>
      BY <1>4 DEF Collect
    <2> HIDE DEF j
    <2>4. status' \in [Jobs -> {"none", "BREAK", "SKIP", "PASS", "FAIL", "VALGR", "CRASH"}]
      BY <2>1, <2>2, <2>3 DEF RunnerTypeOK
    <2>5. {collected', passed', skipped'} \subseteq Nat
      BY <2>3 DEF RunnerTypeOK
    <2>. QED
      BY <2>1, <2>3, <2>4, <2>5 DEF RunnerTypeOK, workerVars
  <1>5. CASE Finish
    BY <1>5 DEF Finish, RunnerTypeOK, workerVars
  <1>6. CASE Sigint
    <2>1. threadExit' \in BOOLEAN
      BY <1>6 DEF Sigint
    <2>. QED
      BY <1>6, <2>1 DEF Sigint, RunnerTypeOK, mainVars, workerVars
  <1>7. ASSUME NEW w \in Workers, Get(w)
        PROVE  RunnerTypeOK'
    <2>1. Head(inputQ) \in Jobs \union {Break} /\ Tail(inputQ) \in Seq(Jobs \union {Break})
      BY <1>7 DEF Get, RunnerTypeOK
    <2>2. /\ workerPc' \in [Workers -> {"get", "got", "run", "left", "dead"}]
          /\ workerJob' \in [Workers -> Jobs \union {Break}]
      BY <1>7, <2>1 DEF Get, RunnerTypeOK
    <2>3. \A v \in Workers : workerPc'[v] \in {"got", "run", "dead"}
                               <=> workerJob'[v] # Break
      BY <1>7 DEF Get, RunnerTypeOK
    <2>. QED
      BY <1>7, <2>1, <2>2, <2>3 DEF Get, RunnerTypeOK, mainVars
  <1>8. ASSUME NEW w \in Workers, Interrupted(w)
        PROVE  RunnerTypeOK'
    <2>1. workerPc[w] \in {"got", "run"} /\ HandBack(w)
      BY <1>8 DEF Interrupted
    <2>. QED
      BY <1>8, <2>1, HandBackType DEF Interrupted, RunnerTypeOK, mainVars
  <1>9. ASSUME NEW w \in Workers, SkipJob(w)
        PROVE  RunnerTypeOK'
    <2>1. workerPc[w] \in {"got", "run"} /\ HandBack(w)
      BY <1>9 DEF SkipJob
    <2>. QED
      BY <1>9, <2>1, HandBackType DEF SkipJob, RunnerTypeOK, mainVars
  <1>10. ASSUME NEW w \in Workers, Launch(w)
         PROVE  RunnerTypeOK'
    BY <1>10, MoveOnType DEF Launch
  <1>11. ASSUME NEW w \in Workers, Die(w)
         PROVE  RunnerTypeOK'
    BY <1>11, MoveOnType DEF Die
  <1>12. ASSUME NEW w \in Workers, EndJob(w)
         PROVE  RunnerTypeOK'
    <2>1. workerPc[w] \in {"got", "run"} /\ HandBack(w)
      BY <1>12 DEF EndJob
    <2>2. workerJob[w] \in Jobs
      BY <2>1, HandBackType
    <2>3. PICK e \in Ends(workerJob[w]) :
            /\ ended' = [ended EXCEPT ![workerJob[w]] = e]
            /\ returncode' = [returncode EXCEPT
                                ![workerJob[w]] = IF e.readable THEN e.exit ELSE 1]
      BY <1>12 DEF EndJob
    <2>4. e \in [exit: 0 .. 3, file: {"none", "partial", "whole"}, readable: BOOLEAN]
      BY DEF Ends
    <2>5. e \in [exit: -1 .. 3, file: {"none", "partial", "whole"}, readable: BOOLEAN]
      BY <2>4
    <2>6. ended' \in [Jobs -> [exit: -1 .. 3, file: {"none", "partial", "whole"},
                               readable: BOOLEAN]]
      BY <2>2, <2>3, <2>5 DEF RunnerTypeOK
    <2>7. (IF e.readable THEN e.exit ELSE 1) \in 0 .. 3
      BY <2>4
    <2>8. returncode' \in [Jobs -> 0 .. 3]
      BY <2>2, <2>3, <2>7 DEF RunnerTypeOK
    <2>. QED
      BY <1>12, <2>1, <2>6, <2>8, HandBackType DEF EndJob, RunnerTypeOK, mainVars
  <1>13. CASE UNCHANGED vars
    BY <1>13 DEF vars, mainVars, workerVars, RunnerTypeOK
  <1>. QED
    BY <1>1, <1>2, <1>3, <1>4, <1>5, <1>6, <1>7, <1>8, <1>9, <1>10, <1>11, <1>12,
       <1>13 DEF Next, Main, Worker

\* Type correctness: in particular a worker holds a job exactly while it deals
\* with one, whatever the interrupt interrupts.
THEOREM RunnerTypeCorrect == Spec => []RunnerTypeOK
  <1>1. Init => RunnerTypeOK
    BY InitRunnerTypeOK
  <1>2. RunnerTypeOK /\ [Next]_vars => RunnerTypeOK'
    BY NextRunnerTypeOK
  <1>. QED
    BY <1>1, <1>2, PTL DEF Spec
-----------------------------------------------------------------------------
\* What Append and Tail do to the elements of a queue, by position.
LEMMA AppendAt ==
  ASSUME NEW S, NEW s \in Seq(S), NEW x \in S
  PROVE  /\ DOMAIN Append(s, x) = 1 .. Len(s) + 1 /\ DOMAIN s = 1 .. Len(s)
         /\ Len(s) \in Nat
         /\ \A i \in DOMAIN s : Append(s, x)[i] = s[i]
         /\ Append(s, x)[Len(s) + 1] = x
  OBVIOUS

LEMMA TailAt ==
  ASSUME NEW S, NEW s \in Seq(S), s # <<>>
  PROVE  /\ DOMAIN Tail(s) = 1 .. Len(s) - 1 /\ DOMAIN s = 1 .. Len(s)
         /\ Len(s) \in Nat \ {0}
         /\ \A i \in DOMAIN Tail(s) : Tail(s)[i] = s[i + 1] /\ i + 1 \in DOMAIN s
         /\ Head(s) = s[1] /\ 1 \in DOMAIN s
  OBVIOUS

\* Behind a break job there are break jobs only, and there is none, and no worker
\* has taken one, before all jobs were put in the queue.
BreaksLast ==
  /\ \A i, k \in DOMAIN inputQ : i < k /\ inputQ[i] = Break => inputQ[k] = Break
  /\ (\E i \in DOMAIN inputQ : inputQ[i] = Break) => sent = NJobs

LeaveInv == RunnerTypeOK /\ BreaksLast /\ NoWorkerLeavesEarly

LEMMA SameQueue ==
  ASSUME LeaveInv, UNCHANGED <<inputQ, sent>>,
         \A w \in Workers : workerPc'[w] = "left" => workerPc[w] = "left"
  PROVE  BreaksLast' /\ NoWorkerLeavesEarly'
  BY DEF LeaveInv, BreaksLast, NoWorkerLeavesEarly

LEMMA NextLeaveInv == LeaveInv /\ [Next]_vars => LeaveInv'
  <1> SUFFICES ASSUME LeaveInv, [Next]_vars
               PROVE  BreaksLast' /\ NoWorkerLeavesEarly'
    BY NextRunnerTypeOK DEF LeaveInv
  <1>. /\ inputQ \in Seq(Jobs \union {Break}) /\ RunnerTypeOK
       /\ sent \in Nat /\ NJobs \in Nat
    BY TestRunnerAssumption DEF LeaveInv, RunnerTypeOK
  <1>1. CASE Dispatch
    <2>1. inputQ' = Append(inputQ, sent + 1) /\ sent < NJobs /\ sent' = sent + 1
      BY <1>1 DEF Dispatch
    <2>2. \A i \in DOMAIN inputQ : inputQ[i] # Break
      BY <2>1 DEF LeaveInv, BreaksLast
    <2>3. sent + 1 \in Jobs \union {Break} /\ sent + 1 # Break
      BY <2>1 DEF Jobs, Break
    <2>4. \A i \in DOMAIN inputQ' : inputQ'[i] # Break
      BY <2>1, <2>2, <2>3, AppendAt
    <2>5. \A w \in Workers : workerPc'[w] # "left"
      BY <1>1, <2>1 DEF Dispatch, LeaveInv, NoWorkerLeavesEarly, workerVars
    <2>. QED
      BY <2>4, <2>5 DEF BreaksLast, NoWorkerLeavesEarly
  <1>2. CASE PutBreak
    <2>1. inputQ' = Append(inputQ, Break) /\ sent = NJobs /\ sent' = sent
          /\ workerPc' = workerPc
      BY <1>2 DEF PutBreak, workerVars
    <2>2. /\ DOMAIN inputQ' = 1 .. Len(inputQ) + 1 /\ DOMAIN inputQ = 1 .. Len(inputQ)
          /\ Len(inputQ) \in Nat
          /\ \A i \in DOMAIN inputQ : inputQ'[i] = inputQ[i]
          /\ inputQ'[Len(inputQ) + 1] = Break
      BY <2>1, AppendAt
    <2>3. \A i, k \in DOMAIN inputQ' : i < k /\ inputQ'[i] = Break => inputQ'[k] = Break
      BY <2>2 DEF LeaveInv, BreaksLast
    <2>4. NoWorkerLeavesEarly'
      BY <2>1, <2>2 DEF LeaveInv, NoWorkerLeavesEarly
    <2>. QED
      BY <2>1, <2>3, <2>4 DEF BreaksLast
  <1>3. CASE StartCollecting \/ Collect \/ Finish \/ Sigint
    BY <1>3, SameQueue DEF StartCollecting, Collect, Finish, Sigint, mainVars, workerVars
  <1>4. ASSUME NEW w \in Workers, Get(w)
        PROVE  BreaksLast' /\ NoWorkerLeavesEarly'
    <2>1. inputQ' = Tail(inputQ) /\ inputQ # <<>> /\ sent' = sent
      BY <1>4 DEF Get, mainVars
    <2>2. /\ DOMAIN inputQ' = 1 .. Len(inputQ) - 1 /\ DOMAIN inputQ = 1 .. Len(inputQ)
          /\ Len(inputQ) \in Nat \ {0}
          /\ \A i \in DOMAIN inputQ' : inputQ'[i] = inputQ[i + 1] /\ i + 1 \in DOMAIN inputQ
          /\ Head(inputQ) = inputQ[1] /\ 1 \in DOMAIN inputQ
      BY <2>1, TailAt
    <2>3. BreaksLast'
      <3>1. ASSUME NEW i \in DOMAIN inputQ', NEW k \in DOMAIN inputQ', i < k,
                   inputQ'[i] = Break
            PROVE  inputQ'[k] = Break
        <4>1. i + 1 < k + 1 /\ i + 1 \in DOMAIN inputQ /\ k + 1 \in DOMAIN inputQ
          BY <3>1, <2>2
        <4>. QED
          BY <3>1, <4>1, <2>2 DEF LeaveInv, BreaksLast
      <3>2. (\E i \in DOMAIN inputQ' : inputQ'[i] = Break) => sent' = NJobs
        BY <2>1, <2>2 DEF LeaveInv, BreaksLast
      <3>. QED
        BY <3>1, <3>2 DEF BreaksLast
    <2>4. CASE Head(inputQ) = Break
      <3>1. sent = NJobs
        BY <2>2, <2>4 DEF LeaveInv, BreaksLast
      <3>2. ASSUME NEW i \in DOMAIN inputQ'
            PROVE  inputQ'[i] = Break
        <4>1. i + 1 \in DOMAIN inputQ /\ 1 < i + 1
          BY <2>2
        <4>. QED
          BY <2>2, <2>4, <4>1 DEF LeaveInv, BreaksLast
      <3>. QED
        BY <2>1, <2>3, <3>1, <3>2 DEF NoWorkerLeavesEarly
    <2>5. CASE Head(inputQ) # Break
      <3>1. \A v \in Workers : workerPc[v] # "left"
        BY <2>2, <2>5 DEF LeaveInv, NoWorkerLeavesEarly
      <3>2. \A v \in Workers : workerPc'[v] # "left"
        BY <1>4, <2>5, <3>1 DEF Get, RunnerTypeOK
      <3>. QED
        BY <2>3, <3>2 DEF NoWorkerLeavesEarly
    <2>. QED
      BY <2>4, <2>5
  <1>5. ASSUME NEW w \in Workers,
               Interrupted(w) \/ SkipJob(w) \/ Launch(w) \/ EndJob(w) \/ Die(w)
        PROVE  BreaksLast' /\ NoWorkerLeavesEarly'
    <2>1. \/ workerPc' = [workerPc EXCEPT ![w] = "get"]
          \/ workerPc' = [workerPc EXCEPT ![w] = "run"]
          \/ workerPc' = [workerPc EXCEPT ![w] = "dead"]
      BY <1>5 DEF Interrupted, SkipJob, Launch, EndJob, Die, HandBack
    <2>2. \A v \in Workers : workerPc'[v] = "left" => workerPc[v] = "left"
      BY <2>1 DEF RunnerTypeOK
    <2>3. UNCHANGED <<inputQ, sent>>
      BY <1>5 DEF Interrupted, SkipJob, Launch, EndJob, Die, mainVars
    <2>. QED
      BY <2>2, <2>3, SameQueue
  <1>6. CASE UNCHANGED vars
    BY <1>6, SameQueue DEF vars, mainVars, workerVars
  <1>. QED
    BY <1>1, <1>2, <1>3, <1>4, <1>5, <1>6 DEF Next, Main, Worker

\* No worker leaves while a job still waits for one, for any number of workers:
\* when the last of them has left, every job was taken by one.
THEOREM WorkersLeaveLast == Spec => []NoWorkerLeavesEarly
  <1>1. Init => LeaveInv
    <2> SUFFICES ASSUME Init PROVE BreaksLast /\ NoWorkerLeavesEarly
      BY InitRunnerTypeOK DEF LeaveInv
    <2>1. DOMAIN inputQ = {} /\ \A w \in Workers : workerPc[w] # "left"
      BY DEF Init
    <2>. QED
      BY <2>1 DEF BreaksLast, NoWorkerLeavesEarly
  <1>2. LeaveInv /\ [Next]_vars => LeaveInv'
    BY NextLeaveInv
  <1>3. LeaveInv => NoWorkerLeavesEarly
    BY DEF LeaveInv
  <1>. QED
    BY <1>1, <1>2, <1>3, PTL DEF Spec
-----------------------------------------------------------------------------
\* Where a job is: waiting, in the hands of a worker, or on its way back. It is
\* in one place at most, or reported, and nowhere before it is dispatched.
Waiting(j)  == j \in Elems(inputQ)
Held(j)     == \E w \in Workers : workerJob[w] = j
Returned(j) == j \in Elems(outputQ)

OnePlace(j) ==
  /\ ~(Waiting(j) /\ Held(j)) /\ ~(Waiting(j) /\ Returned(j)) /\ ~(Held(j) /\ Returned(j))
  /\ Waiting(j) \/ Held(j) \/ Returned(j) => status[j] = "none"
  /\ Waiting(j) \/ Held(j) \/ Returned(j) \/ status[j] # "none" <=> j <= sent

OnceWaiting ==
  \A i, k \in DOMAIN inputQ : inputQ[i] = inputQ[k] /\ inputQ[i] # Break => i = k
OnceHeld ==
  \A v, w \in Workers : workerJob[v] = workerJob[w] /\ workerJob[v] # Break => v = w

Places == /\ OnceWaiting /\ OnceHeld /\ Distinct(outputQ)
          /\ \A j \in Jobs : OnePlace(j)

LEMMA BreakIsNoJob == Break \notin Jobs
  BY DEF Break, Jobs

\* A step that moves no job.
LEMMA SamePlaces ==
  ASSUME Places, UNCHANGED <<inputQ, outputQ, workerJob, status, sent>>
  PROVE  Places'
  BY DEF Places, OnceWaiting, OnceHeld, OnePlace, Waiting, Held, Returned

\* A job is handed back: it goes from a worker to the output queue.
LEMMA HandBackPlaces ==
  ASSUME RunnerTypeOK, Places, NEW w \in Workers, workerPc[w] \in {"got", "run"},
         HandBack(w), UNCHANGED <<inputQ, status, sent>>
  PROVE  /\ Places'
         /\ Elems(outputQ') = Elems(outputQ) \union {workerJob[w]}
         /\ workerJob[w] \in Jobs /\ ~Returned(workerJob[w])
         /\ status[workerJob[w]] = "none"
  <1> DEFINE h == workerJob[w]
  <1>1. h \in Jobs /\ outputQ \in Seq(Jobs) /\ workerJob \in [Workers -> Jobs \union {Break}]
    BY HandBackType DEF RunnerTypeOK
  <1>2. outputQ' = Append(outputQ, h) /\ workerJob' = [workerJob EXCEPT ![w] = Break]
    BY DEF HandBack
  <1>3. OnePlace(h) /\ Held(h)
    BY <1>1 DEF Places, Held
  <1> HIDE DEF h
  <1>4. ~Waiting(h) /\ ~Returned(h) /\ status[h] = "none" /\ h <= sent
    BY <1>3 DEF OnePlace
  <1>5. Elems(outputQ') = Elems(outputQ) \union {h} /\ Distinct(outputQ')
    BY <1>1, <1>2, <1>4, AppendElems DEF Places, Returned
  <1>6. OnceHeld'
    BY <1>1, <1>2, BreakIsNoJob DEF Places, OnceHeld
  <1>7. \A j \in Jobs : Held(j)' <=> Held(j) /\ j # h
    <2>1. ASSUME NEW j \in Jobs, NEW v \in Workers, workerJob'[v] = j
          PROVE  Held(j) /\ j # h
      <3>1. v # w /\ workerJob[v] = j
        BY <2>1, <1>1, <1>2, BreakIsNoJob
      <3>2. j # h
        BY <3>1, <2>1, <1>1, BreakIsNoJob DEF Places, OnceHeld, h
      <3>. QED
        BY <3>1, <3>2 DEF Held
    <2>2. ASSUME NEW j \in Jobs, NEW v \in Workers, workerJob[v] = j, j # h
          PROVE  workerJob'[v] = j
      BY <2>2, <1>1, <1>2 DEF h
    <2>. QED
      BY <2>1, <2>2 DEF Held
  <1>8. \A j \in Jobs : Returned(j)' <=> Returned(j) \/ j = h
    BY <1>5 DEF Returned
  <1>9. ASSUME NEW j \in Jobs
        PROVE  OnePlace(j)'
    <2>1. OnePlace(j) /\ Waiting(j)' = Waiting(j)
      BY DEF Places, Waiting
    <2>2. CASE j = h
      BY <2>1, <2>2, <1>4, <1>7, <1>8 DEF OnePlace
    <2>3. CASE j # h
      BY <2>1, <2>3, <1>7, <1>8 DEF OnePlace
    <2>. QED
      BY <2>2, <2>3
  <1>10. OnceWaiting'
    BY DEF Places, OnceWaiting
  <1>. QED
    BY <1>1, <1>4, <1>5, <1>6, <1>9, <1>10 DEF Places, h

LEMMA DispatchPlaces ==
  ASSUME RunnerTypeOK, Places, Dispatch
  PROVE  Places'
  <1> DEFINE h == sent + 1
  <1>1. /\ h \in Jobs /\ h \in Nat /\ sent' = h /\ inputQ' = Append(inputQ, h)
        /\ UNCHANGED <<outputQ, workerJob, status>> /\ sent \in Nat
    BY TestRunnerAssumption DEF Dispatch, RunnerTypeOK, Jobs, workerVars
  <1>2. inputQ \in Seq(Jobs \union {Break})
    BY DEF RunnerTypeOK
  <1>3. ~(h <= sent) /\ \A j \in Jobs : j <= sent <=> j <= h /\ j # h
    BY <1>1 DEF Jobs
  <1> HIDE DEF h
  <1>4. ~Waiting(h) /\ ~Held(h) /\ ~Returned(h) /\ status[h] = "none"
    BY <1>1, <1>3 DEF Places, OnePlace
  <1>5. Elems(inputQ') = Elems(inputQ) \union {h}
    BY <1>1, <1>2, AppendElems
  <1>6. OnceWaiting'
    <2>1. /\ DOMAIN inputQ' = 1 .. Len(inputQ) + 1 /\ DOMAIN inputQ = 1 .. Len(inputQ)
          /\ Len(inputQ) \in Nat
          /\ \A i \in DOMAIN inputQ : inputQ'[i] = inputQ[i]
          /\ inputQ'[Len(inputQ) + 1] = h
      BY <1>1, <1>2, AppendAt
    <2>2. \A i \in DOMAIN inputQ : inputQ[i] # h
      BY <1>4 DEF Waiting, Elems
    <2>. QED
      BY <2>1, <2>2 DEF Places, OnceWaiting
  <1>7. ASSUME NEW j \in Jobs
        PROVE  OnePlace(j)'
    <2>1. /\ Waiting(j)' <=> Waiting(j) \/ j = h
          /\ Held(j)' <=> Held(j)
          /\ Returned(j)' <=> Returned(j)
      BY <1>1, <1>5 DEF Waiting, Held, Returned
    <2>2. CASE j = h
      <3>1. j <= sent'
        BY <1>1, <2>2
      <3>. QED
        BY <2>1, <2>2, <3>1, <1>1, <1>4 DEF OnePlace
    <2>3. CASE j # h
      <3>1. j <= sent <=> j <= sent'
        BY <1>1, <1>3, <2>3
      <3>. QED
        BY <2>1, <2>3, <3>1, <1>1 DEF Places, OnePlace
    <2>. QED
      BY <2>2, <2>3
  <1>8. OnceHeld' /\ Distinct(outputQ')
    BY <1>1 DEF Places, OnceHeld
  <1>. QED
    BY <1>6, <1>7, <1>8 DEF Places

LEMMA GetPlaces ==
  ASSUME RunnerTypeOK, Places, NEW w \in Workers, Get(w)
  PROVE  Places'
  <1> DEFINE h == Head(inputQ)
  <1>1. /\ inputQ # <<>> /\ inputQ' = Tail(inputQ)
        /\ workerJob' = [workerJob EXCEPT ![w] = h]
        /\ UNCHANGED <<outputQ, status, sent>>
    BY DEF Get, mainVars
  <1>2. /\ inputQ \in Seq(Jobs \union {Break}) /\ h \in Jobs \union {Break}
        /\ workerJob \in [Workers -> Jobs \union {Break}]
    BY <1>1 DEF RunnerTypeOK
  <1>3. workerJob[w] = Break
    BY DEF Get, RunnerTypeOK
  <1>4. /\ DOMAIN inputQ' = 1 .. Len(inputQ) - 1 /\ DOMAIN inputQ = 1 .. Len(inputQ)
        /\ Len(inputQ) \in Nat \ {0}
        /\ \A i \in DOMAIN inputQ' : inputQ'[i] = inputQ[i + 1] /\ i + 1 \in DOMAIN inputQ
        /\ h = inputQ[1] /\ 1 \in DOMAIN inputQ
    BY <1>1, <1>2, TailAt
  <1>5. Elems(inputQ) = Elems(inputQ') \union {h}
    BY <1>1, <1>2, TailElems
  <1> HIDE DEF h
  <1>6. OnceWaiting'
    <2>1. ASSUME NEW i \in DOMAIN inputQ', NEW k \in DOMAIN inputQ',
                 inputQ'[i] = inputQ'[k], inputQ'[i] # Break
          PROVE  i = k
      <3>1. i + 1 = k + 1
        BY <2>1, <1>4 DEF Places, OnceWaiting
      <3>. QED
        BY <3>1, <1>4
    <2>. QED
      BY <2>1 DEF OnceWaiting
  <1>7. h # Break => h \notin Elems(inputQ')
    <2>1. ASSUME h # Break, NEW i \in DOMAIN inputQ', inputQ'[i] = h
          PROVE  FALSE
      <3>1. i + 1 = 1
        BY <2>1, <1>4 DEF Places, OnceWaiting
      <3>. QED
        BY <3>1, <1>4
    <2>. QED
      BY <2>1 DEF Elems
  <1>8. h \in Jobs => Waiting(h)
    BY <1>5 DEF Waiting
  <1>9. OnceHeld'
    <2>1. h \in Jobs => ~Held(h)
      BY <1>8 DEF Places, OnePlace
    <2>2. ASSUME NEW u \in Workers, NEW v \in Workers, u # v,
                 workerJob'[u] = workerJob'[v], workerJob'[u] # Break
          PROVE  FALSE
      <3>1. CASE u = w
        BY <2>1, <2>2, <3>1, <1>1, <1>2 DEF Held
      <3>2. CASE v = w
        BY <2>1, <2>2, <3>2, <1>1, <1>2 DEF Held
      <3>3. CASE u # w /\ v # w
        BY <2>2, <3>3, <1>1, <1>2 DEF Places, OnceHeld
      <3>. QED
        BY <3>1, <3>2, <3>3
    <2>. QED
      BY <2>2 DEF OnceHeld
  <1>10. ASSUME NEW j \in Jobs
         PROVE  OnePlace(j)'
    <2>1. /\ Waiting(j)' <=> Waiting(j) /\ j # h
          /\ Returned(j)' <=> Returned(j)
      BY <1>1, <1>5, <1>7, BreakIsNoJob DEF Waiting, Returned
    <2>2. Held(j)' <=> Held(j) \/ j = h
      <3>1. workerJob'[w] = h /\ \A v \in Workers \ {w} : workerJob'[v] = workerJob[v]
        BY <1>1, <1>2
      <3>2. workerJob[w] # j
        BY <1>3, BreakIsNoJob
      <3>. QED
        BY <3>1, <3>2 DEF Held
    <2>3. OnePlace(j)
      BY DEF Places
    <2>4. CASE j = h
      BY <2>1, <2>2, <2>3, <2>4, <1>1, <1>8 DEF OnePlace
    <2>5. CASE j # h
      BY <2>1, <2>2, <2>3, <2>5, <1>1 DEF OnePlace
    <2>. QED
      BY <2>4, <2>5
  <1>11. Distinct(outputQ')
    BY <1>1 DEF Places
  <1>. QED
    BY <1>6, <1>9, <1>10, <1>11 DEF Places

LEMMA CollectPlaces ==
  ASSUME RunnerTypeOK, Places, Collect
  PROVE  /\ Places'
         /\ Head(outputQ) \in Jobs /\ Returned(Head(outputQ))
         /\ status[Head(outputQ)] = "none"
         /\ Elems(outputQ') \subseteq Elems(outputQ)
         /\ StatusOf(Head(outputQ))
              \in {"BREAK", "SKIP", "PASS", "FAIL", "VALGR", "CRASH"}
  <1> DEFINE h == Head(outputQ)
  <1>1. /\ outputQ # <<>> /\ outputQ' = Tail(outputQ)
        /\ status' = [status EXCEPT ![h] = StatusOf(h)]
        /\ UNCHANGED <<inputQ, workerJob, sent>>
    BY DEF Collect, workerVars
  <1>2. outputQ \in Seq(Jobs) /\ h \in Jobs
    BY <1>1 DEF RunnerTypeOK
  <1>3. StatusOf(h) \in {"BREAK", "SKIP", "PASS", "FAIL", "VALGR", "CRASH"}
    BY <1>2, StatusOfType
  <1>4. /\ Elems(outputQ) = Elems(outputQ') \union {h}
        /\ Distinct(outputQ') /\ h \notin Elems(outputQ')
    BY <1>1, <1>2, TailElems DEF Places
  <1>5. status'[h] # "none" /\ \A j \in Jobs : j # h => status'[j] = status[j]
    BY <1>1, <1>2, <1>3 DEF RunnerTypeOK
  <1> HIDE DEF h
  <1>6. Returned(h) /\ OnePlace(h)
    BY <1>2, <1>4 DEF Returned, Places
  <1>7. ASSUME NEW j \in Jobs
        PROVE  OnePlace(j)'
    <2>1. /\ Waiting(j)' <=> Waiting(j)
          /\ Held(j)' <=> Held(j)
          /\ Returned(j)' <=> Returned(j) /\ j # h
      BY <1>1, <1>4 DEF Waiting, Held, Returned
    <2>2. OnePlace(j)
      BY DEF Places
    <2>3. CASE j = h
      BY <2>1, <2>2, <2>3, <1>1, <1>5, <1>6 DEF OnePlace
    <2>4. CASE j # h
      BY <2>1, <2>2, <2>4, <1>1, <1>5 DEF OnePlace
    <2>. QED
      BY <2>3, <2>4
  <1>8. OnceWaiting' /\ OnceHeld'
    BY <1>1 DEF Places, OnceWaiting, OnceHeld
  <1>9. status[h] = "none"
    BY <1>6 DEF OnePlace
  <1>. QED
    BY <1>2, <1>3, <1>4, <1>6, <1>7, <1>8, <1>9 DEF Places, h

\* The cardinality of a set that has at most one element.
LEMMA AtMostOne ==
  ASSUME NEW S, \A x, y \in S : x = y
  PROVE  Cardinality(S) = IF S = {} THEN 0 ELSE 1
  <1>1. CASE S = {}
    BY <1>1, FS_EmptySet
  <1>2. CASE S # {}
    <2>1. PICK x \in S : TRUE
      BY <1>2
    <2>2. S = {x}
      BY <2>1
    <2>. QED
      BY <1>2, <2>2, FS_Singleton
  <1>. QED
    BY <1>1, <1>2

LEMMA PlacesCounted ==
  ASSUME RunnerTypeOK, Places
  PROVE  EveryJobInOnePlace
  <1> SUFFICES ASSUME NEW j \in 1 .. sent
               PROVE  Occurrences(inputQ, j) + Occurrences(outputQ, j)
                        + Cardinality({w \in Workers : workerJob[w] = j})
                        + (IF status[j] = "none" THEN 0 ELSE 1) = 1
    BY DEF EveryJobInOnePlace
  <1>1. j \in Jobs /\ j <= sent
    BY TestRunnerAssumption DEF RunnerTypeOK, Jobs
  <1>2. j # Break
    BY <1>1, BreakIsNoJob
  <1>3. Occurrences(inputQ, j) = IF Waiting(j) THEN 1 ELSE 0
    <2> DEFINE S == {i \in DOMAIN inputQ : inputQ[i] = j}
    <2>1. \A x, y \in S : x = y
      BY <1>2 DEF Places, OnceWaiting
    <2>2. S = {} <=> ~Waiting(j)
      BY DEF Waiting, Elems
    <2>3. Cardinality(S) = IF S = {} THEN 0 ELSE 1
      <3> HIDE DEF S
      <3>. QED
        BY <2>1, AtMostOne
    <2>. QED
      BY <2>2, <2>3 DEF Occurrences
  <1>4. Occurrences(outputQ, j) = IF Returned(j) THEN 1 ELSE 0
    <2> DEFINE S == {i \in DOMAIN outputQ : outputQ[i] = j}
    <2>1. \A x, y \in S : x = y
      BY DEF Places, Distinct
    <2>2. S = {} <=> ~Returned(j)
      BY DEF Returned, Elems
    <2>3. Cardinality(S) = IF S = {} THEN 0 ELSE 1
      <3> HIDE DEF S
      <3>. QED
        BY <2>1, AtMostOne
    <2>. QED
      BY <2>2, <2>3 DEF Occurrences
  <1>5. Cardinality({w \in Workers : workerJob[w] = j}) = IF Held(j) THEN 1 ELSE 0
    <2> DEFINE S == {w \in Workers : workerJob[w] = j}
    <2>1. \A x, y \in S : x = y
      BY <1>2 DEF Places, OnceHeld
    <2>2. S = {} <=> ~Held(j)
      BY DEF Held
    <2>3. Cardinality(S) = IF S = {} THEN 0 ELSE 1
      <3> HIDE DEF S
      <3>. QED
        BY <2>1, AtMostOne
    <2>. QED
      BY <2>2, <2>3
  <1>6. OnePlace(j)
    BY <1>1 DEF Places
  <1>. QED
    BY <1>1, <1>3, <1>4, <1>5, <1>6 DEF OnePlace
-----------------------------------------------------------------------------
\* When a job counts as passed, and as skipped.
LEMMA StatusPass ==
  ASSUME RunnerTypeOK, NEW j \in Jobs
  PROVE  /\ StatusOf(j) = "PASS" <=> j \notin isBreak /\ j \notin Skip /\ returncode[j] = 0
         /\ StatusOf(j) = "SKIP" => j \in Skip
  <1> DEFINE byCode == <<"PASS", "FAIL", "VALGR", "CRASH">>[returncode[j] + 1]
  <1>1. /\ byCode = "PASS" <=> returncode[j] = 0
        /\ byCode # "SKIP"
    <2>1. returncode[j] \in 0 .. 3
      BY DEF RunnerTypeOK
    <2>2. returncode[j] \in {0, 1, 2, 3}
      BY <2>1
    <2>. QED
      BY <2>2
  <1>2. StatusOf(j) = CASE j \in isBreak -> "BREAK"
                        [] j \in Skip \ isBreak -> "SKIP"
                        [] OTHER -> byCode
    BY DEF StatusOf
  <1> HIDE DEF byCode
  <1>3. CASE j \in isBreak
    BY <1>2, <1>3
  <1>4. CASE j \notin isBreak /\ j \in Skip
    BY <1>2, <1>4
  <1>5. CASE j \notin isBreak /\ j \notin Skip
    BY <1>1, <1>2, <1>5
  <1>. QED
    BY <1>3, <1>4, <1>5

\* A job that is, or will be, reported as passed ran and exited with 0.
Truthful(j) ==
  /\ Returned(j) /\ j \notin isBreak /\ j \notin Skip /\ returncode[j] = 0
       => ended[j].exit = 0
  /\ status[j] = "PASS" => ended[j].exit = 0
  /\ status[j] = "SKIP" => j \in Skip

AnswerInv == RunnerTypeOK /\ Places /\ \A j \in Jobs : Truthful(j)

LEMMA InitPlaces == Init => Places
  <1> SUFFICES ASSUME Init PROVE Places
    OBVIOUS
  <1>1. /\ DOMAIN inputQ = {} /\ Elems(inputQ) = {} /\ Elems(outputQ) = {}
        /\ Distinct(outputQ)
    BY EmptyElems DEF Init
  <1>2. \A j \in Jobs : ~(j <= sent)
    BY DEF Init, Jobs
  <1>. QED
    BY <1>1, <1>2, BreakIsNoJob
       DEF Init, Places, OnceWaiting, OnceHeld, OnePlace, Waiting, Held, Returned

LEMMA NextPlaces == RunnerTypeOK /\ Places /\ [Next]_vars => Places'
  <1> SUFFICES ASSUME RunnerTypeOK, Places, [Next]_vars
               PROVE  Places'
    OBVIOUS
  <1>1. CASE PutBreak
    <2>1. /\ inputQ' = Append(inputQ, Break)
          /\ UNCHANGED <<outputQ, workerJob, status, sent>>
      BY <1>1 DEF PutBreak, workerVars
    <2>2. /\ inputQ \in Seq(Jobs \union {Break}) /\ Break \in Jobs \union {Break}
      BY DEF RunnerTypeOK
    <2>3. /\ DOMAIN inputQ' = 1 .. Len(inputQ) + 1 /\ DOMAIN inputQ = 1 .. Len(inputQ)
          /\ Len(inputQ) \in Nat
          /\ \A i \in DOMAIN inputQ : inputQ'[i] = inputQ[i]
          /\ inputQ'[Len(inputQ) + 1] = Break
      BY <2>1, <2>2, AppendAt
    <2>4. Elems(inputQ') = Elems(inputQ) \union {Break}
      BY <2>1, <2>2, AppendElems
    <2>5. OnceWaiting'
      BY <2>3 DEF Places, OnceWaiting
    <2>6. \A j \in Jobs : OnePlace(j)'
      BY <2>1, <2>4, BreakIsNoJob DEF Places, OnePlace, Waiting, Held, Returned
    <2>. QED
      BY <2>1, <2>5, <2>6 DEF Places, OnceHeld
  <1>2. CASE Dispatch
    BY <1>2, DispatchPlaces
  <1>3. CASE Collect
    BY <1>3, CollectPlaces
  <1>4. CASE StartCollecting \/ Finish \/ Sigint
    BY <1>4, SamePlaces DEF StartCollecting, Finish, Sigint, mainVars, workerVars
  <1>5. ASSUME NEW w \in Workers, Get(w)
        PROVE  Places'
    BY <1>5, GetPlaces
  <1>6. ASSUME NEW w \in Workers, Launch(w) \/ Die(w)
        PROVE  Places'
    BY <1>6, SamePlaces DEF Launch, Die, mainVars
  <1>7. ASSUME NEW w \in Workers, Interrupted(w) \/ SkipJob(w) \/ EndJob(w)
        PROVE  Places'
    BY <1>7, HandBackPlaces DEF Interrupted, SkipJob, EndJob, mainVars
  <1>8. CASE UNCHANGED vars
    BY <1>8, SamePlaces DEF vars, mainVars, workerVars
  <1>. QED
    BY <1>1, <1>2, <1>3, <1>4, <1>5, <1>6, <1>7, <1>8 DEF Next, Main, Worker

\* No job is lost and none is in two places, for any number of workers and of
\* jobs: an interrupt, a skip and the end of a process hand a job back once.
THEOREM NoJobIsLost == Spec => []EveryJobInOnePlace
  <1> DEFINE Inv == RunnerTypeOK /\ Places
  <1>1. Init => Inv
    BY InitRunnerTypeOK, InitPlaces
  <1>2. Inv /\ [Next]_vars => Inv'
    BY NextRunnerTypeOK, NextPlaces
  <1>3. Inv => EveryJobInOnePlace
    BY PlacesCounted
  <1> HIDE DEF Inv
  <1>. QED
    BY <1>1, <1>2, <1>3, PTL DEF Spec

\* A step that answers no job and reports none.
LEMMA SameAnswers ==
  ASSUME AnswerInv, UNCHANGED <<outputQ, status, isBreak, returncode, ended>>
  PROVE  \A j \in Jobs : Truthful(j)'
  BY DEF AnswerInv, Truthful, Returned

LEMMA NextAnswers ==
  ASSUME AnswerInv, [Next]_vars
  PROVE  \A j \in Jobs : Truthful(j)'
  <1>. RunnerTypeOK /\ Places /\ \A j \in Jobs : Truthful(j)
    BY DEF AnswerInv
  <1>1. CASE Dispatch \/ PutBreak \/ StartCollecting \/ Finish \/ Sigint
    BY <1>1, SameAnswers DEF Dispatch, PutBreak, StartCollecting, Finish, Sigint,
                             mainVars, workerVars
  <1>2. CASE Collect
    <2> DEFINE h == Head(outputQ)
    <2>1. h \in Jobs /\ Returned(h) /\ Elems(outputQ') \subseteq Elems(outputQ)
      BY <1>2, CollectPlaces
    <2>2. /\ status' = [status EXCEPT ![h] = StatusOf(h)]
          /\ UNCHANGED <<isBreak, returncode, ended>>
      BY <1>2 DEF Collect, workerVars
    <2>3. /\ StatusOf(h) = "PASS" => ended[h].exit = 0
          /\ StatusOf(h) = "SKIP" => h \in Skip
      BY <2>1, StatusPass DEF Truthful
    <2> HIDE DEF h
    <2>4. status'[h] = StatusOf(h) /\ \A j \in Jobs : j # h => status'[j] = status[j]
      BY <2>1, <2>2 DEF RunnerTypeOK
    <2>5. ASSUME NEW j \in Jobs
          PROVE  Truthful(j)'
      <3>1. Returned(j)' => Returned(j)
        BY <2>1 DEF Returned
      <3>2. CASE j = h
        BY <3>1, <3>2, <2>2, <2>3, <2>4 DEF Truthful
      <3>3. CASE j # h
        BY <3>1, <3>3, <2>2, <2>4 DEF Truthful
      <3>. QED
        BY <3>2, <3>3
    <2>. QED
      BY <2>5
  <1>3. ASSUME NEW w \in Workers, Get(w) \/ Launch(w) \/ Die(w)
        PROVE  \A j \in Jobs : Truthful(j)'
    BY <1>3, SameAnswers DEF Get, Launch, Die, mainVars
  <1>4. ASSUME NEW w \in Workers, Interrupted(w) \/ SkipJob(w)
        PROVE  \A j \in Jobs : Truthful(j)'
    <2> DEFINE h == workerJob[w]
    <2>1. Elems(outputQ') = Elems(outputQ) \union {h}
      BY <1>4, HandBackPlaces DEF Interrupted, SkipJob, mainVars
    <2>2. UNCHANGED <<status, returncode, ended>>
      BY <1>4 DEF Interrupted, SkipJob, mainVars
    <2>3. isBreak \subseteq isBreak' /\ (h \in isBreak' \/ h \in Skip)
      BY <1>4 DEF Interrupted, SkipJob
    <2> HIDE DEF h
    <2>4. \A j \in Jobs : Returned(j)' => Returned(j) \/ j = h
      BY <2>1 DEF Returned
    <2>. QED
      BY <2>2, <2>3, <2>4 DEF Truthful
  <1>5. ASSUME NEW w \in Workers, EndJob(w)
        PROVE  \A j \in Jobs : Truthful(j)'
    <2> DEFINE h == workerJob[w]
    <2>1. /\ Elems(outputQ') = Elems(outputQ) \union {h}
          /\ h \in Jobs /\ status[h] = "none"
      BY <1>5, HandBackPlaces DEF EndJob, mainVars
    <2>2. UNCHANGED <<status, isBreak>>
      BY <1>5 DEF EndJob, mainVars
    <2>3. PICK e \in Ends(h) :
            /\ ended' = [ended EXCEPT ![h] = e]
            /\ returncode' = [returncode EXCEPT ![h] = IF e.readable THEN e.exit ELSE 1]
      BY <1>5 DEF EndJob
    <2> HIDE DEF h
    <2>4. /\ ended'[h] = e
          /\ returncode'[h] = IF e.readable THEN e.exit ELSE 1
          /\ \A j \in Jobs : j # h => ended'[j] = ended[j] /\ returncode'[j] = returncode[j]
      BY <2>1, <2>3 DEF RunnerTypeOK
    <2>5. \A j \in Jobs : Returned(j)' => Returned(j) \/ j = h
      BY <2>1 DEF Returned
    <2>6. returncode'[h] = 0 => ended'[h].exit = 0
      BY <2>4
    <2>7. ASSUME NEW j \in Jobs
          PROVE  Truthful(j)'
      <3>1. CASE j = h
        BY <3>1, <2>1, <2>2, <2>6 DEF Truthful
      <3>2. CASE j # h
        BY <3>2, <2>2, <2>4, <2>5 DEF Truthful
      <3>. QED
        BY <3>1, <3>2
    <2>. QED
      BY <2>7
  <1>6. CASE UNCHANGED vars
    BY <1>6, SameAnswers DEF vars, mainVars, workerVars
  <1>. QED
    BY <1>1, <1>2, <1>3, <1>4, <1>5, <1>6 DEF Next, Main, Worker
-----------------------------------------------------------------------------
\* The jobs reported as passed or skipped are at least as many as were counted.
Reported == {j \in Jobs : status[j] \in {"PASS", "SKIP"}}

Tally == /\ passed + skipped <= Cardinality(Reported)
         /\ mainPc = "feed" \/ sent = NJobs
         /\ exitCode = 0 => mainPc = "done" /\ passed + skipped = NJobs

LEMMA FiniteReported == IsFiniteSet(Reported) /\ Cardinality(Reported) \in Nat
                        /\ IsFiniteSet(Jobs) /\ Cardinality(Jobs) = NJobs
  <1>1. IsFiniteSet(Jobs) /\ Cardinality(Jobs) = NJobs
    BY TestRunnerAssumption, FS_Interval DEF Jobs
  <1>2. IsFiniteSet(Reported)
    BY <1>1, FS_Subset DEF Reported
  <1>. QED
    BY <1>1, <1>2, FS_CardinalityType

LEMMA SameTally ==
  ASSUME Tally, UNCHANGED mainVars
  PROVE  Tally'
  BY DEF Tally, Reported, mainVars

LEMMA NextTally ==
  ASSUME RunnerTypeOK, Places, Tally, [Next]_vars
  PROVE  Tally'
  <1>. {passed, skipped, sent} \subseteq Nat
    BY DEF RunnerTypeOK
  <1>1. CASE Dispatch \/ PutBreak
    BY <1>1 DEF Dispatch, PutBreak, Tally, Reported
  <1>2. CASE StartCollecting
    BY <1>2 DEF StartCollecting, Tally, Reported
  <1>3. CASE Finish
    BY <1>3 DEF Finish, Tally, Reported
  <1>4. CASE Collect
    <2> DEFINE h == Head(outputQ)
               s == StatusOf(h)
    <2>1. h \in Jobs /\ status[h] = "none"
      BY <1>4, CollectPlaces
    <2>2. /\ status' = [status EXCEPT ![h] = s]
          /\ passed' = passed + (IF s = "PASS" THEN 1 ELSE 0)
          /\ skipped' = skipped + (IF s = "SKIP" THEN 1 ELSE 0)
          /\ exitCode' \in {exitCode, 1} /\ mainPc = "collect" /\ sent' = sent
      BY <1>4 DEF Collect
    <2> HIDE DEF h, s
    <2>3. h \notin Reported
      BY <2>1 DEF Reported
    <2>4. Reported' = IF s \in {"PASS", "SKIP"} THEN Reported \union {h} ELSE Reported
      BY <2>1, <2>2 DEF Reported, RunnerTypeOK
    <2>5. Cardinality(Reported \union {h}) = Cardinality(Reported) + 1
      BY <2>3, FiniteReported, FS_AddElement
    <2>6. passed' + skipped' <= Cardinality(Reported')
      <3>1. passed + skipped <= Cardinality(Reported) /\ Cardinality(Reported) \in Nat
        BY FiniteReported DEF Tally
      <3>2. CASE s \in {"PASS", "SKIP"}
        BY <3>1, <3>2, <2>2, <2>4, <2>5
      <3>3. CASE s \notin {"PASS", "SKIP"}
        BY <3>1, <3>3, <2>2, <2>4
      <3>. QED
        BY <3>2, <3>3
    <2>. QED
      BY <2>2, <2>6 DEF Tally
  <1>5. CASE Sigint \/ \E w \in Workers : Worker(w) \/ Die(w)
    BY <1>5, SameTally DEF Sigint, Worker, Get, Interrupted, SkipJob, Launch, EndJob, Die
  <1>6. CASE UNCHANGED vars
    BY <1>6, SameTally DEF vars
  <1>. QED
    BY <1>1, <1>2, <1>3, <1>4, <1>5, <1>6 DEF Next, Main

\* Exit code 0 is only returned for a run in which every job exited with 0 or was
\* to be skipped, for any number of jobs, workers and any moment of an interrupt.
THEOREM SuccessIsAlwaysReal == Spec => []SuccessIsReal
  <1> DEFINE Inv == AnswerInv /\ Tally
  <1>1. Init => Inv
    <2> SUFFICES ASSUME Init PROVE Inv
      OBVIOUS
    <2>1. Elems(outputQ) = {}
      BY EmptyElems DEF Init
    <2>2. Places
      BY InitPlaces
    <2>3. \A j \in Jobs : Truthful(j)
      BY <2>1 DEF Init, Truthful, Returned
    <2>4. Tally
      <3>1. passed + skipped = 0 /\ exitCode # 0 /\ mainPc = "feed"
        BY DEF Init
      <3>. QED
        BY <3>1, FiniteReported DEF Tally
    <2>. QED
      BY <2>2, <2>3, <2>4, InitRunnerTypeOK DEF AnswerInv
  <1>2. Inv /\ [Next]_vars => Inv'
    BY NextRunnerTypeOK, NextPlaces, NextAnswers, NextTally DEF AnswerInv
  <1>3. Inv => SuccessIsReal
    <2> SUFFICES ASSUME Inv, exitCode = 0
                 PROVE  \A j \in Jobs : j \in Skip \/ ended[j].exit = 0
      BY DEF SuccessIsReal
    <2>1. Cardinality(Reported) >= Cardinality(Jobs)
      BY FiniteReported DEF Tally
    <2>2. Reported \subseteq Jobs
      BY DEF Reported
    <2>3. Reported = Jobs
      <3>1. /\ Cardinality(Reported) <= Cardinality(Jobs)
            /\ Cardinality(Jobs) = Cardinality(Reported) => Jobs = Reported
        BY <2>2, FiniteReported, FS_Subset
      <3>2. Cardinality(Jobs) = Cardinality(Reported)
        <4>1. Cardinality(Reported) \in Nat /\ Cardinality(Jobs) \in Nat
          BY FiniteReported, TestRunnerAssumption
        <4>. QED
          BY <2>1, <3>1, <4>1
      <3>. QED
        BY <3>1, <3>2
    <2>. QED
      BY <2>3 DEF Reported, AnswerInv, Truthful
  <1> HIDE DEF Inv
  <1>. QED
    BY <1>1, <1>2, <1>3, PTL DEF Spec
-----------------------------------------------------------------------------
\* No process has ended for a job that waits or is still to be dispatched.
Fresh(j) == Waiting(j) \/ ~(j <= sent) => ended[j] = NotRun

FreshInv == RunnerTypeOK /\ Places /\ \A j \in Jobs : Fresh(j)

\* After the interrupt: no worker runs j, and none ran it before.
Idle(j) == /\ threadExit /\ ended[j] = NotRun
           /\ \A w \in Workers : workerJob[w] = j => workerPc[w] # "run"

LEMMA InitFreshInv == Init => FreshInv
  BY InitRunnerTypeOK, InitPlaces DEF FreshInv, Fresh, Init

\* The end of a job changes what is known of that job only.
LEMMA EndsOne ==
  ASSUME RunnerTypeOK, NEW w \in Workers, EndJob(w), NEW j \in Jobs, j # workerJob[w]
  PROVE  ended'[j] = ended[j]
  <1>1. PICK e : ended' = [ended EXCEPT ![workerJob[w]] = e]
    BY DEF EndJob
  <1>. QED
    BY <1>1 DEF RunnerTypeOK

\* A worker takes the first job of the queue.
LEMMA GetTakesWaiting ==
  ASSUME RunnerTypeOK, NEW w \in Workers, Get(w)
  PROVE  Elems(inputQ') \subseteq Elems(inputQ)
  <1>1. inputQ \in Seq(Jobs \union {Break}) /\ inputQ # <<>> /\ inputQ' = Tail(inputQ)
    BY DEF RunnerTypeOK, Get
  <1>. QED
    BY <1>1, TailAt DEF Elems

LEMMA NextFreshInv == FreshInv /\ [Next]_vars => FreshInv'
  <1> SUFFICES ASSUME FreshInv, [Next]_vars
               PROVE  FreshInv'
    OBVIOUS
  <1>1. RunnerTypeOK /\ Places /\ RunnerTypeOK' /\ Places'
    BY NextRunnerTypeOK, NextPlaces DEF FreshInv
  <1> SUFFICES ASSUME NEW j \in Jobs
               PROVE  Fresh(j)'
    BY <1>1 DEF FreshInv
  <1>2. Fresh(j) /\ OnePlace(j)
    BY <1>1 DEF FreshInv, Places
  <1>3. CASE Dispatch
    <2>1. /\ inputQ' = Append(inputQ, sent + 1) /\ sent' = sent + 1
          /\ UNCHANGED ended /\ sent \in Nat
          /\ inputQ \in Seq(Jobs \union {Break}) /\ sent + 1 \in Jobs \union {Break}
      BY <1>1, <1>3, TestRunnerAssumption DEF Dispatch, RunnerTypeOK, workerVars, Jobs
    <2>2. Elems(inputQ') = Elems(inputQ) \union {sent + 1}
      BY <2>1, AppendElems
    <2>3. Waiting(j)' => Waiting(j) \/ ~(j <= sent)
      BY <2>1, <2>2 DEF Waiting
    <2>4. ~(j <= sent)' => ~(j <= sent)
      BY <2>1 DEF Jobs
    <2>. QED
      BY <2>1, <2>3, <2>4, <1>2 DEF Fresh
  <1>4. CASE PutBreak
    <2>1. /\ inputQ' = Append(inputQ, Break) /\ UNCHANGED <<sent, ended>>
          /\ inputQ \in Seq(Jobs \union {Break}) /\ Break \in Jobs \union {Break}
      BY <1>1, <1>4 DEF PutBreak, RunnerTypeOK, workerVars
    <2>2. Elems(inputQ') = Elems(inputQ) \union {Break}
      BY <2>1, AppendElems
    <2>. QED
      BY <2>1, <2>2, <1>2, BreakIsNoJob DEF Fresh, Waiting
  <1>5. ASSUME UNCHANGED <<inputQ, sent, ended>>
        PROVE  Fresh(j)'
    BY <1>5, <1>2 DEF Fresh, Waiting
  <1>6. ASSUME NEW w \in Workers, Get(w)
        PROVE  Fresh(j)'
    <2>1. Elems(inputQ') \subseteq Elems(inputQ) /\ UNCHANGED <<sent, ended>>
      BY <1>1, <1>6, GetTakesWaiting DEF Get, mainVars
    <2>. QED
      BY <2>1, <1>2 DEF Fresh, Waiting
  <1>7. ASSUME NEW w \in Workers, EndJob(w)
        PROVE  Fresh(j)'
    <2>1. UNCHANGED <<inputQ, sent>> /\ workerPc[w] = "run" /\ workerJob[w] # Break
      BY <1>1, <1>7 DEF EndJob, mainVars, RunnerTypeOK
    <2>2. CASE j = workerJob[w]
      <3>1. ~Waiting(j) /\ j <= sent
        BY <1>2, <2>2 DEF OnePlace, Held
      <3>. QED
        BY <2>1, <3>1 DEF Fresh, Waiting
    <2>3. CASE j # workerJob[w]
      <3>1. ended'[j] = ended[j]
        BY <1>1, <1>7, <2>3, EndsOne
      <3>. QED
        BY <2>1, <3>1, <1>2 DEF Fresh, Waiting
    <2>. QED
      BY <2>2, <2>3
  <1>8. CASE StartCollecting \/ Collect \/ Finish \/ Sigint \/ UNCHANGED vars
    BY <1>5, <1>8 DEF StartCollecting, Collect, Finish, Sigint, vars, mainVars, workerVars
  <1>9. ASSUME NEW w \in Workers, Interrupted(w) \/ SkipJob(w) \/ Launch(w) \/ Die(w)
        PROVE  Fresh(j)'
    BY <1>5, <1>9 DEF Interrupted, SkipJob, Launch, Die, mainVars
  <1>. QED
    BY <1>3, <1>4, <1>6, <1>7, <1>8, <1>9 DEF Next, Main, Worker

\* A job that waits when the interrupt comes is idle,
LEMMA WaitsIsIdle ==
  ASSUME NEW j \in Jobs, FreshInv, threadExit, Waits(j)
  PROVE  Idle(j)
  <1>1. Waiting(j)
    BY DEF Waits, Waiting, Elems
  <1>2. OnePlace(j) /\ Fresh(j)
    BY DEF FreshInv, Places
  <1>. QED
    BY <1>1, <1>2 DEF Idle, OnePlace, Held, Fresh

\* and stays idle, whoever takes it from the queue.
LEMMA StaysIdle ==
  ASSUME NEW j \in Jobs, FreshInv, Idle(j), [Next]_vars
  PROVE  Idle(j)'
  <1>1. RunnerTypeOK
    BY DEF FreshInv
  <1>2. ASSUME UNCHANGED <<threadExit, ended, workerJob, workerPc>>
        PROVE  Idle(j)'
    BY <1>2 DEF Idle
  <1>3. CASE Main \/ Sigint \/ UNCHANGED vars
    BY <1>2, <1>3 DEF Main, Dispatch, PutBreak, StartCollecting, Collect, Finish, Sigint,
                      vars, workerVars, Idle
  <1>4. ASSUME NEW w \in Workers, Get(w) \/ Interrupted(w) \/ SkipJob(w) \/ Die(w)
        PROVE  Idle(j)'
    <2>1. /\ UNCHANGED <<threadExit, ended>> /\ workerPc'[w] # "run"
          /\ \A v \in Workers \ {w} : workerPc'[v] = workerPc[v]
                                     /\ workerJob'[v] = workerJob[v]
      BY <1>1, <1>4 DEF Get, Interrupted, SkipJob, Die, HandBack, RunnerTypeOK
    <2>. QED
      BY <2>1 DEF Idle
  <1>5. ASSUME NEW w \in Workers, Launch(w)
        PROVE  Idle(j)'
    BY <1>5 DEF Launch, Idle
  <1>6. ASSUME NEW w \in Workers, EndJob(w)
        PROVE  Idle(j)'
    <2>1. j # workerJob[w]
      BY <1>6 DEF EndJob, Idle
    <2>2. ended'[j] = ended[j]
      BY <1>1, <1>6, <2>1, EndsOne
    <2>3. /\ UNCHANGED threadExit /\ workerPc'[w] # "run"
          /\ \A v \in Workers \ {w} : workerPc'[v] = workerPc[v]
                                     /\ workerJob'[v] = workerJob[v]
      BY <1>1, <1>6 DEF EndJob, HandBack, RunnerTypeOK
    <2>. QED
      BY <2>2, <2>3 DEF Idle
  <1>. QED
    BY <1>3, <1>4, <1>5, <1>6 DEF Next, Worker

LEMMA FreshAlways == Spec => []FreshInv
  BY InitFreshInv, NextFreshInv, PTL DEF Spec

\* After an interrupt the workers do no real work, for any number of workers and
\* jobs: a job that waits in the queue at that time is never run, by the worker
\* that takes it or by another.
THEOREM InterruptStopsWork == Spec => NoWorkAfterInterrupt
  <1> SUFFICES ASSUME NEW j \in Jobs
               PROVE  Spec => [](threadExit /\ Waits(j) => [](ended[j] = NotRun))
    BY DEF NoWorkAfterInterrupt
  <1>1. FreshInv /\ threadExit /\ Waits(j) => Idle(j)
    BY WaitsIsIdle
  <1>2. FreshInv /\ Idle(j) /\ [Next]_vars => Idle(j)'
    BY StaysIdle
  <1>3. Idle(j) => ended[j] = NotRun
    BY DEF Idle
  <1>. QED
    BY <1>1, <1>2, <1>3, FreshAlways, PTL DEF Spec
=============================================================================
