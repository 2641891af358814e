--------------------------- MODULE WorkloadProofs ---------------------------
(***************************************************************************)
(* Proofs of what the simulation measures, for every workload and time     *)
(* slice.  First what Project 4/README.txt says of its novel workloads:    *)
(* when the wait times under RR are the response times, and when the three *)
(* policies agree.  Then what print_averages prints: the averages are      *)
(* those of the jobs' times and fit together, and no order of the jobs has *)
(* a smaller turnaround time than that of SJF.  The invariants are         *)
(* inductive relative to the one of SchedulerProofs.                       *)
(***************************************************************************)
EXTENDS MCScheduler, SchedulerProofs, SumProofs

USE DEF Job, NULL, Unset, Policies
-----------------------------------------------------------------------------
(* Workloads on which the policies agree. *)

\* The jobs run in the order they arrived, each from the moment the one before
\* it has finished: Clock is the time at which the last one did.
AgreeInv ==
  SamePoliciesWorkload =>
    /\ \A j \in Ran : RunsBackToBack(j)
    /\ \A j \in Ran, i \in Jobs : i < j => i \in Ran
    /\ Ran = {} => Clock = 0
    /\ \A j \in Ran : j + 1 \notin Ran => turnaroundTime[j] = Clock

\* On such a workload the order of the policy is the order of arrival.
LEMMA OrderOfArrival ==
  ASSUME workload \in Workloads, policy \in Policies, SamePoliciesWorkload
  PROVE  \A i, j \in Jobs : Precedes(i, j) <=> i < j
  <1> SUFFICES ASSUME NEW i \in Jobs, NEW j \in Jobs
      PROVE  Precedes(i, j) <=> i < j
    OBVIOUS
  <1>1. /\ i \in Int /\ j \in Int
        /\ workload[i] \in Int /\ workload[j] \in Int
    BY JobsAreJobs
  <1>2. CASE policy = "SJF"
    <2>1. /\ i < j => workload[i] <= workload[j]
          /\ j < i => workload[j] <= workload[i]
      BY <1>2 DEF SamePoliciesWorkload
    <2> QED
      BY <1>1, <1>2, <2>1 DEF Precedes
  <1>3. CASE policy # "SJF"
    BY <1>3 DEF Precedes
  <1> QED
    BY <1>2, <1>3

\* The next job in the order of arrival runs to its end.
LEMMA NextJobRuns ==
  ASSUME IInv, AgreeInv, SamePoliciesWorkload, UNCHANGED arguments,
         NEW t \in Jobs \ Ran, Ran' = Ran \cup {t},
         \A i \in Jobs : i < t <=> i \in Ran,
         responseTime'[t] = Clock, waitTime'[t] = Clock,
         turnaroundTime'[t] = Clock + workload[t],
         Clock' = Clock + workload[t],
         \A j \in Job \ {t} :
           /\ responseTime'[j] = responseTime[j]
           /\ turnaroundTime'[j] = turnaroundTime[j]
           /\ waitTime'[j] = waitTime[j]
  PROVE  AgreeInv'
  <1> USE DEF IInv
  <1>1. /\ Jobs' = Jobs /\ Jobs \subseteq Job /\ Jobs \subseteq Int
        /\ Ran \subseteq Jobs
        /\ \A j \in Jobs, i \in Nat : i < j => i \in Jobs
    <2>1. Jobs \subseteq Job /\ \A j \in Jobs, i \in Nat : i < j => i \in Jobs
      BY JobsAreJobs DEF TypeOK
    <2>2. Jobs' = Jobs /\ Ran \subseteq Jobs
      BY SameOrder, QueuedAreJobs
    <2> QED
      BY <2>1, <2>2
  <1>2. t # 0 => t - 1 \in Ran /\ turnaroundTime[t - 1] = Clock
    <2>1. t # 0 => t - 1 \in Nat /\ t - 1 < t
      BY <1>1
    <2>2. t # 0 => t - 1 \in Ran
      BY <1>1, <2>1
    <2>3. t # 0 => (t - 1) + 1 = t
      BY <1>1
    <2> QED
      BY <2>2, <2>3 DEF AgreeInv
  <1>3. t = 0 => Clock = 0
    <2>1. t = 0 => Ran = {}
      BY <1>1
    <2> QED
      BY <2>1 DEF AgreeInv
  <1>4. ASSUME NEW j \in Ran'
        PROVE  RunsBackToBack(j)'
    <2>1. CASE j = t
      <3>1. t # 0 => turnaroundTime'[t - 1] = turnaroundTime[t - 1]
        BY <1>1, <1>2
      <3> QED
        BY <1>2, <1>3, <2>1, <3>1 DEF RunsBackToBack, arguments
    <2>2. CASE j # t
      <3>1. j \in Ran /\ RunsBackToBack(j)
        BY <2>2 DEF AgreeInv
      <3>2. j # 0 => j - 1 \in Jobs /\ j - 1 # t
        <4>1. j < t
          BY <1>1, <3>1
        <4>2. j # 0 => j - 1 \in Nat /\ j - 1 < j
          BY <1>1, <3>1
        <4> QED
          BY <1>1, <3>1, <4>1, <4>2
      <3>3. j # 0 => turnaroundTime'[j - 1] = turnaroundTime[j - 1]
        BY <1>1, <3>2
      <3>4. /\ responseTime'[j] = responseTime[j] /\ waitTime'[j] = waitTime[j]
            /\ turnaroundTime'[j] = turnaroundTime[j]
        BY <1>1, <2>2, <3>1
      <3> QED
        BY <3>1, <3>3, <3>4 DEF RunsBackToBack, arguments
    <2> QED
      BY <2>1, <2>2
  <1>5. \A j \in Ran', i \in Jobs' : i < j => i \in Ran'
    BY <1>1 DEF AgreeInv
  <1>6. ASSUME NEW j \in Ran', j + 1 \notin Ran'
        PROVE  turnaroundTime'[j] = Clock'
    <2>1. j = t
      <3>1. SUFFICES ASSUME j # t PROVE FALSE
        OBVIOUS
      <3>2. j \in Jobs /\ j < t
        BY <1>1, <3>1
      <3>3. j + 1 \in Nat /\ j + 1 <= t
        BY <1>1, <3>2
      <3> QED
        BY <1>1, <1>6, <3>2, <3>3
    <2> QED
      BY <2>1
  <1> QED
    BY <1>4, <1>5, <1>6 DEF AgreeInv

\* FIFO and SJF run the job that was dequeued.
LEMMA AgreeRunJob ==
  ASSUME IInv, AgreeInv, SamePoliciesWorkload, RunJob, UNCHANGED arguments
  PROVE  AgreeInv'
  <1> USE DEF IInv
  <1>1. /\ tp \in Jobs \ Ran /\ Ran' = Ran \cup {tp} /\ Loaded = Jobs
        /\ tp \in Job /\ Jobs \subseteq Job /\ Ran \subseteq Jobs
    BY FinishesSets, QueuedAreJobs, JobsAreJobs DEF Finishes, TypeOK
  <1>2. /\ pc = "run" /\ pc' = "add_completed" /\ policy # "RR" /\ tp # NULL
        /\ UNCHANGED <<policy, currentTime, tp, length>>
        /\ responseTime' = [responseTime EXCEPT ![tp] = currentTime]
        /\ turnaroundTime' = [turnaroundTime EXCEPT ![tp] = currentTime + length[tp]]
        /\ waitTime' = [waitTime EXCEPT ![tp] = currentTime]
    BY DEF RunJob, arguments
  <1>3. length[tp] = workload[tp]
    BY <1>1, <1>2 DEF SequentialInv
  <1>4. Clock = currentTime /\ Clock' = Clock + workload[tp]
    BY <1>2, <1>3 DEF Clock
  <1>5. ASSUME NEW i \in Jobs
        PROVE  i < tp <=> i \in Ran
    <2>1. i \in Ran => Precedes(i, tp)
      BY <1>1, <1>2 DEF SequentialInv
    <2>2. i \notin Ran /\ i # tp => Precedes(tp, i)
      <3>1. i \notin Ran /\ i # tp => i \in Queued
        BY <1>1, <1>2 DEF Queued, Loaded
      <3> QED
        BY <1>2, <3>1 DEF RunningInv
    <2>3. /\ Precedes(i, tp) <=> i < tp
          /\ Precedes(tp, i) <=> tp < i
      BY <1>1, OrderOfArrival DEF TypeOK
    <2>4. i \in Int /\ tp \in Int
      BY <1>1
    <2> QED
      BY <2>1, <2>2, <2>3, <2>4
  <1>6. /\ responseTime'[tp] = Clock /\ waitTime'[tp] = Clock
        /\ turnaroundTime'[tp] = Clock + workload[tp]
        /\ \A j \in Job \ {tp} :
             /\ responseTime'[j] = responseTime[j]
             /\ turnaroundTime'[j] = turnaroundTime[j]
             /\ waitTime'[j] = waitTime[j]
    BY <1>1, <1>2, <1>3, <1>4 DEF TypeOK
  <1> QED
    BY <1>1, <1>4, <1>5, <1>6, NextJobRuns

\* RR finishes every job in its first turn.
LEMMA AgreeTurn ==
  ASSUME IInv, AgreeInv, SamePoliciesWorkload, Turns, UNCHANGED arguments
  PROVE  AgreeInv'
  <1> USE DEF IInv
  <1>1. /\ policy = "RR" /\ tp \in Jobs \ Ran /\ tp \in Job /\ tp \in Loaded
        /\ Loaded \subseteq Jobs /\ Jobs \subseteq Job /\ Ran \subseteq Loaded
        /\ \A j \in Jobs, i \in Nat : i < j => i \in Jobs
        /\ workload \in [Jobs -> Nat]
    BY TurnEffects, QueuedAreJobs, JobsAreJobs DEF TypeOK
  <1>2. /\ time_slice \in Nat /\ currentTime \in Nat
        /\ lastTime[tp] \in Nat /\ waitTime[tp] \in Nat /\ hasRun[tp] \in {0, 1}
    BY <1>1, SchedulerAssumption DEF TypeOK
  <1>3. \A j \in Jobs : workload[j] <= time_slice
    BY <1>1 DEF SamePoliciesWorkload, FitsInSlice
  <1>4. \A j \in Jobs : hasRun[j] = 1 => j \in Ran
    BY <1>1, <1>2, <1>3 DEF HasRunInv, HasRunFacts
  <1>5. hasRun[tp] = 0
    BY <1>1, <1>2, <1>4
  <1>6. /\ length[tp] = workload[tp] /\ waitTime[tp] = 0 /\ lastTime[tp] = 0
    BY <1>1, <1>5 DEF NotRunInv
  <1>7. length[tp] <= time_slice
    BY <1>1, <1>3, <1>6
  <1>8. /\ Ran' = Ran \cup {tp} /\ TimeOfTurn = workload[tp]
        /\ turnaroundTime'[tp] = currentTime + workload[tp]
    <2>1. ~(length[tp] > time_slice)
      BY <1>1, <1>2, <1>6, <1>7
    <2> QED
      BY <1>6, <2>1, TurnEffects
  <1>9. Clock = currentTime /\ Clock' = Clock + workload[tp]
    BY <1>1, <1>8, TurnEffects DEF Clock
  <1>10. /\ responseTime'[tp] = Clock /\ waitTime'[tp] = Clock
         /\ turnaroundTime'[tp] = Clock + workload[tp]
    BY <1>2, <1>5, <1>6, <1>8, <1>9, TurnEffects
  <1>11. ASSUME NEW i \in Jobs
         PROVE  i < tp <=> i \in Ran
    <2>1. i < tp => i \in Loaded
      BY <1>1 DEF Loaded, TypeOK
    <2>2. i \in Ran => hasRun[i] = 1
      BY <1>1, RanTimes
    <2>3. i \in Loaded => (hasRun[i] = 1 <=> i < tp)
      BY <1>5, FirstTurn
    <2> QED
      BY <1>1, <1>4, <2>1, <2>2, <2>3
  <1>12. \A j \in Job \ {tp} :
           /\ responseTime'[j] = responseTime[j]
           /\ turnaroundTime'[j] = turnaroundTime[j]
           /\ waitTime'[j] = waitTime[j]
    BY TurnEffects
  <1> QED
    BY <1>1, <1>8, <1>9, <1>10, <1>11, <1>12, NextJobRuns

\* No other step sets a time.
LEMMA KeepsWait ==
  ASSUME [Next]_vars, ~Turns, ~RunJob
  PROVE  UNCHANGED <<responseTime, turnaroundTime, waitTime>>
  BY DEF Next, Load, Run, add_job_responseTime_ascending, Analysis, vars, times,
     Main, add_job_to_back, add_job_to_front, StartSeek, Seek, add_job_sjf,
     StartRunning, Advance, NextRound, Turns, RemoveFirst, RemoveNext, AddFirst,
     AddToFront, StartAddAfter, AddBetween, MoveOn, AddLast, StartAnalysis,
     Analyze, print_averages

LEMMA AgreeStep ==
  ASSUME IInv, AgreeInv, [Next]_vars
  PROVE  AgreeInv'
  <1>1. UNCHANGED arguments /\ Jobs' = Jobs
    BY SameArguments, SameOrder
  <1>2. SamePoliciesWorkload' <=> SamePoliciesWorkload
    BY <1>1 DEF SamePoliciesWorkload, FitsInSlice, arguments
  <1>3. CASE SamePoliciesWorkload /\ RunJob
    BY <1>1, <1>3, AgreeRunJob
  <1>4. CASE SamePoliciesWorkload /\ Turns
    BY <1>1, <1>4, AgreeTurn
  <1>5. CASE SamePoliciesWorkload /\ ~Turns /\ ~RunJob
    <2>1. UNCHANGED <<responseTime, turnaroundTime, waitTime>>
      BY <1>5, KeepsWait
    <2>2. Clock' = Clock
      BY <1>5, KeepsTimes
    <2>3. Ran' = Ran
      BY <2>1 DEF Ran
    <2>4. \A j : RunsBackToBack(j)' <=> RunsBackToBack(j)
      BY <1>1, <2>1 DEF RunsBackToBack, arguments
    <2> QED
      BY <1>1, <1>5, <2>1, <2>2, <2>3, <2>4 DEF AgreeInv
  <1>6. CASE ~SamePoliciesWorkload
    BY <1>2, <1>6 DEF AgreeInv
  <1> QED
    BY <1>3, <1>4, <1>5, <1>6

\* README.txt:85 on workload_3.in: when the jobs arrive from the shortest to the
\* longest (for SJF) and fit in a time slice (for RR), every policy runs them
\* one after the other as FIFO does.
THEOREM PoliciesRunAlike == Spec => []PoliciesAgree
  <1>1. ASSUME Init PROVE AgreeInv
    <2>1. Ran = {} /\ Clock = 0
      BY <1>1 DEF Init, Ran, Clock
    <2> QED
      BY <2>1 DEF AgreeInv
  <1>2. IInv /\ AgreeInv /\ [Next]_vars => AgreeInv'
    BY AgreeStep
  <1>3. AgreeInv => PoliciesAgree
    BY DEF AgreeInv, PoliciesAgree
  <1> QED
    BY <1>1, <1>2, <1>3, SpecInv, PTL DEF Spec
-----------------------------------------------------------------------------
(* Workloads whose wait times are their response times under RR. *)

\* In the first round only jobs that fit in a time slice finish.
FirstRoundInv ==
  policy = "RR" =>
    \A j \in Ran, k \in Jobs : hasRun[k] = 0 => FitsInSlice(j)

\* A job that does not fit waits once more as soon as a later job of some length
\* has had its first turn: it has waited, or time has passed since it ran.
DelayedInv ==
  policy = "RR" /\ time_slice > 0 =>
    \A j, k \in Jobs :
      /\ j < k
      /\ hasRun[j] = 1
      /\ hasRun[k] = 1
      /\ ~FitsInSlice(j)
      /\ workload[k] > 0
      => \/ waitTime[j] > responseTime[j]
         \/ j \notin Ran /\ lastTime[j] < currentTime

NobodyDelays ==
  \A j \in Jobs : FitsInSlice(j) \/ \A k \in Jobs : k > j => workload[k] = 0

\* When no later job has a length, no time passes between the turns of a job.
UndelayedInv ==
  policy = "RR" /\ NobodyDelays =>
    \A j \in Jobs : hasRun[j] = 1 =>
      /\ waitTime[j] = responseTime[j]
      /\ j \notin Ran => lastTime[j] = currentTime

EqualTimesInv == FirstRoundInv /\ DelayedInv /\ UndelayedInv

\* What the steps below read of the state.
LEMMA TurnTypes ==
  ASSUME IInv, NEW j \in Jobs
  PROVE  /\ j \in Job /\ j \in Int /\ workload[j] \in Nat
         /\ time_slice \in Nat /\ currentTime \in Nat
         /\ hasRun[j] \in {0, 1} /\ lastTime[j] \in Nat /\ waitTime[j] \in Nat
         /\ length[j] \in Nat
         /\ policy = "RR" /\ hasRun[j] = 1 =>
              responseTime[j] \in Nat /\ responseTime[j] <= waitTime[j]
  <1>1. j \in Job /\ workload[j] \in Nat
    BY JobsAreJobs DEF IInv, TypeOK
  <1>2. /\ time_slice \in Nat /\ currentTime \in Nat
        /\ hasRun[j] \in {0, 1} /\ lastTime[j] \in Nat /\ waitTime[j] \in Nat
        /\ length[j] \in Nat
    BY <1>1, SchedulerAssumption DEF IInv, TypeOK
  <1>3. policy = "RR" /\ hasRun[j] = 1 =>
          responseTime[j] \in Nat /\ responseTime[j] <= waitTime[j]
    BY <1>1, <1>2 DEF IInv, HasRunInv, HasRunFacts
  <1> QED
    BY <1>1, <1>2, <1>3

LEMMA FirstRoundTurn ==
  ASSUME IInv, FirstRoundInv, Turns
  PROVE  FirstRoundInv'
  <1> USE DEF IInv
  <1>1. /\ policy = "RR" /\ tp \in Jobs \ Ran /\ tp \in Loaded /\ Jobs' = Jobs
        /\ UNCHANGED <<workload, time_slice>> /\ Jobs \subseteq Job
        /\ Loaded = Jobs
    BY TurnEffects, QueuedAreJobs, JobsAreJobs
       DEF TypeOK, Jobs, Turns, RunSlice, RunLastSlice, Turn, Loading
  <1> SUFFICES ASSUME NEW j \in Ran', NEW k \in Jobs, hasRun'[k] = 0
      PROVE  FitsInSlice(j)
    BY <1>1 DEF FirstRoundInv, FitsInSlice
  <1>2. k # tp /\ hasRun[k] = 0
    BY <1>1, TurnEffects
  <1>3. CASE j \in Ran
    BY <1>1, <1>2, <1>3 DEF FirstRoundInv
  <1>4. CASE j \notin Ran
    <2>1. j = tp /\ length[tp] <= time_slice
      BY <1>4, TurnEffects
    <2>2. hasRun[tp] = 0
      <3>1. SUFFICES ASSUME hasRun[tp] = 1 PROVE FALSE
        BY <1>1 DEF TypeOK
      <3>2. /\ NextTurn = tp /\ tp # NULL /\ ~Analyzing
        BY TurnEffects DEF Turns, RunSlice, RunLastSlice, Turn, Analyzing
      <3>3. hasRun[tp] = 1 <=> tp < NextTurn
        BY <1>1, <1>2, <3>2 DEF RoundInv
      <3> QED
        BY <1>1, <3>1, <3>2, <3>3, TurnTypes
    <2>3. length[tp] = workload[tp]
      BY <1>1, <2>2 DEF NotRunInv
    <2> QED
      BY <2>1, <2>3 DEF FitsInSlice
  <1> QED
    BY <1>3, <1>4

LEMMA DelayedTurn ==
  ASSUME IInv, FirstRoundInv, DelayedInv, Turns
  PROVE  DelayedInv'
  <1> USE DEF IInv
  <1>0. /\ policy = "RR" /\ tp \in Jobs \ Ran /\ tp \in Loaded /\ Jobs' = Jobs
        /\ UNCHANGED <<workload, time_slice>> /\ Jobs \subseteq Job
        /\ Loaded = Jobs
    BY TurnEffects, QueuedAreJobs, JobsAreJobs
       DEF TypeOK, Jobs, Turns, RunSlice, RunLastSlice, Turn, Loading
  <1>1. /\ policy = "RR" /\ tp \in Jobs \ Ran /\ Jobs' = Jobs /\ tp \in Job
        /\ UNCHANGED <<workload, time_slice>>
        /\ currentTime' = currentTime + TimeOfTurn /\ TimeOfTurn \in Nat
        /\ tp \in Loaded /\ Ran \subseteq Loaded /\ Loaded = Jobs
    <2>1. TimeOfTurn \in Nat
      BY <1>0, TurnTypes DEF TimeOfTurn
    <2> QED
      BY <1>0, <2>1, TurnEffects DEF RunningInv
  <1> SUFFICES ASSUME time_slice > 0, NEW j \in Jobs, NEW k \in Jobs, j < k,
                      hasRun'[j] = 1, hasRun'[k] = 1, ~FitsInSlice(j),
                      workload[k] > 0
      PROVE  \/ waitTime'[j] > responseTime'[j]
             \/ j \notin Ran' /\ lastTime'[j] < currentTime'
    BY <1>1 DEF DelayedInv, FitsInSlice
  <1>2. ASSUME NEW i \in Jobs \ {tp}
        PROVE  /\ hasRun'[i] = hasRun[i] /\ waitTime'[i] = waitTime[i]
               /\ responseTime'[i] = responseTime[i]
               /\ lastTime'[i] = lastTime[i]
               /\ i \notin Ran => i \notin Ran'
    BY TurnTypes, TurnEffects
  \* The later job has its first turn: the other one waits from now on.
  <1>3. CASE hasRun[k] = 0
    <2>1. k = tp /\ j # tp
      BY <1>1, <1>2, <1>3, TurnTypes
    <2>2. j \notin Ran
      BY <1>1, <1>3 DEF FirstRoundInv
    <2>3. lastTime[j] <= currentTime
      BY <1>1, <1>2, <2>1, <2>2, TurnTypes DEF HasRunInv, HasRunFacts
    <2>4. TimeOfTurn > 0
      <3>1. length[tp] = workload[tp]
        BY <1>1, <1>3, <2>1 DEF NotRunInv
      <3> QED
        BY <1>1, <2>1, <3>1, TurnTypes DEF TimeOfTurn
    <2> QED
      BY <1>1, <1>2, <2>1, <2>2, <2>3, <2>4, TurnTypes
  <1>4. CASE hasRun[k] = 1
    <2>1. hasRun[j] = 1
      BY <1>1, <1>4, TurnTypes DEF FirstTurnsInv
    <2>2. \/ waitTime[j] > responseTime[j]
          \/ j \notin Ran /\ lastTime[j] < currentTime
      BY <1>1, <1>4, <2>1 DEF DelayedInv
    <2>3. CASE j # tp
      BY <1>1, <1>2, <2>2, <2>3, TurnTypes
    <2>4. CASE j = tp
      <3>1. /\ responseTime'[j] = responseTime[j]
            /\ waitTime'[j] = waitTime[j] + (currentTime - lastTime[j])
        BY <2>1, <2>4, TurnEffects
      <3>2. lastTime[j] <= currentTime
        BY <1>1, <2>1, <2>4 DEF HasRunInv, HasRunFacts
      <3>3. responseTime[j] <= waitTime[j] /\ responseTime[j] \in Nat
            /\ waitTime[j] \in Nat /\ lastTime[j] \in Nat /\ currentTime \in Nat
        BY <1>1, <2>1, TurnTypes
      <3> QED
        BY <2>2, <3>1, <3>2, <3>3
    <2> QED
      BY <2>3, <2>4
  <1> QED
    BY <1>3, <1>4, TurnTypes

LEMMA UndelayedTurn ==
  ASSUME IInv, UndelayedInv, Turns
  PROVE  UndelayedInv'
  <1> USE DEF IInv
  <1>0. /\ policy = "RR" /\ tp \in Jobs \ Ran /\ tp \in Loaded /\ Jobs' = Jobs
        /\ UNCHANGED <<workload, time_slice>> /\ Jobs \subseteq Job
        /\ Loaded = Jobs
    BY TurnEffects, QueuedAreJobs, JobsAreJobs
       DEF TypeOK, Jobs, Turns, RunSlice, RunLastSlice, Turn, Loading
  <1>1. /\ policy = "RR" /\ tp \in Jobs \ Ran /\ Jobs' = Jobs /\ tp \in Job
        /\ UNCHANGED <<workload, time_slice>>
        /\ currentTime' = currentTime + TimeOfTurn /\ TimeOfTurn \in Nat
        /\ tp \in Loaded
    <2>1. TimeOfTurn \in Nat
      BY <1>0, TurnTypes DEF TimeOfTurn
    <2> QED
      BY <1>0, <2>1, TurnEffects DEF RunningInv
  <1> SUFFICES ASSUME NobodyDelays, NEW j \in Jobs, hasRun'[j] = 1
      PROVE  /\ waitTime'[j] = responseTime'[j]
             /\ j \notin Ran' => lastTime'[j] = currentTime'
    BY <1>1 DEF UndelayedInv, NobodyDelays, FitsInSlice
  <1>2. CASE j = tp
    <2>1. /\ responseTime'[j] = IF hasRun[j] = 0 THEN currentTime
                                ELSE responseTime[j]
          /\ waitTime'[j] = waitTime[j] + (currentTime - lastTime[j])
          /\ lastTime'[j] = currentTime'
      BY <1>1, <1>2, TurnEffects
    <2>2. CASE hasRun[j] = 0
      <3>1. waitTime[j] = 0 /\ lastTime[j] = 0
        BY <1>1, <1>2, <2>2 DEF NotRunInv
      <3> QED
        BY <2>1, <2>2, <3>1, TurnTypes
    <2>3. CASE hasRun[j] = 1
      <3>1. waitTime[j] = responseTime[j] /\ lastTime[j] = currentTime
        BY <1>1, <1>2, <2>3 DEF UndelayedInv
      <3> QED
        BY <2>1, <2>3, <3>1, TurnTypes
    <2> QED
      BY <2>2, <2>3, TurnTypes
  <1>3. CASE j # tp
    <2>1. /\ hasRun[j] = 1 /\ waitTime'[j] = waitTime[j]
          /\ responseTime'[j] = responseTime[j] /\ lastTime'[j] = lastTime[j]
          /\ j \notin Ran' => j \notin Ran
      BY <1>3, TurnEffects, TurnTypes
    <2>2. /\ waitTime[j] = responseTime[j]
          /\ j \notin Ran => lastTime[j] = currentTime
      BY <1>1, <2>1 DEF UndelayedInv
    \* A job that has not finished does not fit, so that the others have no
    \* length or come before it, and have finished.
    <2>3. ASSUME j \notin Ran PROVE TimeOfTurn = 0
      <3>1. workload[j] > time_slice
        BY <1>1, <2>1, <2>3, TurnTypes DEF HasRunInv, HasRunFacts
      <3>2. \A k \in Jobs : k > j => workload[k] = 0
        BY <3>1, TurnTypes DEF NobodyDelays, FitsInSlice
      <3>3. CASE tp > j
        <4>1. workload[tp] = 0
          BY <1>1, <3>2, <3>3
        <4>2. length[tp] <= workload[tp]
          <5>1. CASE hasRun[tp] = 0
            BY <1>1, <5>1, TurnTypes DEF NotRunInv
          <5>2. CASE hasRun[tp] = 1
            BY <1>1, <5>2 DEF HasRunInv, HasRunFacts
          <5> QED
            BY <1>1, <5>1, <5>2, TurnTypes
        <4> QED
          BY <1>1, <4>1, <4>2, TurnTypes DEF TimeOfTurn
      <3>4. CASE tp < j
        <4>1. hasRun[tp] = 1
          BY <1>1, <2>1, <3>4, TurnTypes DEF FirstTurnsInv
        <4>2. workload[tp] > time_slice
          BY <1>1, <4>1 DEF HasRunInv, HasRunFacts
        <4>3. workload[j] = 0
          BY <1>1, <3>4, <4>2, TurnTypes DEF NobodyDelays, FitsInSlice
        <4> QED
          BY <3>1, <4>3, TurnTypes
      <3> QED
        BY <1>1, <1>3, <3>3, <3>4, TurnTypes
    <2> QED
      BY <1>1, <2>1, <2>2, <2>3, TurnTypes
  <1> QED
    BY <1>2, <1>3

LEMMA EqualTimesStep ==
  ASSUME IInv, EqualTimesInv, [Next]_vars
  PROVE  EqualTimesInv'
  <1>1. UNCHANGED <<policy, workload, time_slice>> /\ Jobs' = Jobs
    BY SameArguments, SameOrder DEF arguments
  <1>2. CASE Turns
    BY <1>2, FirstRoundTurn, DelayedTurn, UndelayedTurn DEF EqualTimesInv
  <1>3. CASE ~Turns /\ policy = "RR"
    <2>1. UNCHANGED <<currentTime, responseTime, waitTime, hasRun, lastTime>>
          /\ Ran' = Ran
      BY <1>3, NotATurn
    <2>2. FirstRoundInv'
      BY <1>1, <2>1 DEF EqualTimesInv, FirstRoundInv, FitsInSlice
    <2>3. DelayedInv'
      BY <1>1, <2>1 DEF EqualTimesInv, DelayedInv, FitsInSlice
    <2>4. NobodyDelays' <=> NobodyDelays
      BY <1>1 DEF NobodyDelays, FitsInSlice
    <2>5. UndelayedInv'
      BY <1>1, <2>1, <2>4 DEF EqualTimesInv, UndelayedInv
    <2> QED
      BY <2>2, <2>3, <2>5 DEF EqualTimesInv
  <1>4. CASE policy # "RR"
    BY <1>1, <1>4 DEF EqualTimesInv, FirstRoundInv, DelayedInv, UndelayedInv
  <1> QED
    BY <1>2, <1>3, <1>4

\* README.txt:65 on workload_1.in: under RR every job's wait time is its response
\* time exactly when all jobs but the last one fit in a time slice, or only jobs
\* of length 0 come after those that do not.
THEOREM EqualTimes == Spec => []EqualTimesWorkload
  <1>1. ASSUME Init PROVE EqualTimesInv
    <2>1. Ran = {} /\ \A j \in Job : hasRun[j] = 0
      BY <1>1 DEF Init, Ran
    <2>2. Jobs \subseteq Job
      BY <1>1, JobsAreJobs DEF Init
    <2> QED
      BY <2>1, <2>2
         DEF EqualTimesInv, FirstRoundInv, DelayedInv, UndelayedInv
  <1>2. IInv /\ EqualTimesInv /\ [Next]_vars => EqualTimesInv'
    BY EqualTimesStep
  <1>3. ASSUME IInv, EqualTimesInv PROVE EqualTimesWorkload
    <2> SUFFICES ASSUME policy = "RR", pc = "done"
        PROVE  WaitIsResponse <=> NobodyDelays
      BY DEF EqualTimesWorkload, NobodyDelays
    <2>1. Ran = Jobs
      BY <1>3 DEF IInv, RunningInv, Analyzing
    <2>2. \A j \in Jobs : hasRun[j] = 1
      BY <1>3, <2>1, RanTimes
    <2>3. ASSUME NobodyDelays PROVE WaitIsResponse
      BY <1>3, <2>2, <2>3 DEF EqualTimesInv, UndelayedInv, WaitIsResponse
    <2>4. ASSUME WaitIsResponse, NEW j \in Jobs, ~FitsInSlice(j), NEW k \in Jobs,
                 k > j, workload[k] # 0
          PROVE  FALSE
      <3>1. time_slice > 0
        <4>1. SUFFICES ASSUME time_slice = 0 PROVE FALSE
          BY <1>3, <2>4, TurnTypes
        <4>2. workload[j] = 0
          BY <1>3, <2>1, <2>2, <4>1, TurnTypes DEF IInv, HasRunInv, HasRunFacts
        <4> QED
          BY <2>4, <4>1, <4>2 DEF FitsInSlice
      <3>2. waitTime[j] > responseTime[j]
        BY <1>3, <2>1, <2>2, <2>4, <3>1, TurnTypes DEF EqualTimesInv, DelayedInv
      <3> QED
        BY <1>3, <2>2, <2>4, <3>2, TurnTypes DEF WaitIsResponse
    <2> QED
      BY <2>3, <2>4 DEF NobodyDelays
  <1> QED
    BY <1>1, <1>2, <1>3, SpecInv, PTL DEF Spec
-----------------------------------------------------------------------------
(* The totals. *)

\* The jobs that print_averages has come to.
Counted ==
  IF pc = "done" THEN Jobs
  ELSE IF pc = "print_averages" THEN {j \in Jobs : tp = NULL \/ Precedes(j, tp)}
  ELSE {}

TotalsInv ==
  /\ total.numJobs = Cardinality(Counted)
  /\ total.response = SumOver(responseTime, Counted)
  /\ total.turnaround = SumOver(turnaroundTime, Counted)
  /\ total.wait = SumOver(waitTime, Counted)

\* While the jobs are analyzed, all of them have times and are on one list.
LEMMA AllHaveTimes ==
  ASSUME IInv, Analyzing
  PROVE  /\ Ran = Jobs /\ Finished = Jobs /\ Jobs \subseteq Job
         /\ \A j \in Jobs :
              /\ responseTime[j] \in Nat /\ turnaroundTime[j] \in Nat
              /\ waitTime[j] \in Nat /\ workload[j] \in Nat
  <1>1. Ran = Jobs
    BY DEF IInv, RunningInv
  <1>2. Finished = Jobs
    BY <1>1 DEF Finished, Moving, Analyzing
  <1>3. Jobs \subseteq Job /\ \A j \in Jobs : workload[j] \in Nat
    BY JobsAreJobs DEF IInv, TypeOK
  <1> QED
    BY <1>1, <1>2, <1>3, RanTimes

\* No job is counted before print_averages begins.
LEMMA CountedNone ==
  ASSUME pc \notin {"print_averages", "done"}, TotalsInv
  PROVE  /\ total.numJobs = 0 /\ total.response = 0
         /\ total.turnaround = 0 /\ total.wait = 0
  <1>1. Counted = {}
    BY DEF Counted
  <1> QED
    BY <1>1, SumEmpty, FS_EmptySet DEF TotalsInv

LEMMA TotalsOfNone ==
  ASSUME Counted = {}, total.numJobs = 0, total.response = 0,
         total.turnaround = 0, total.wait = 0
  PROVE  TotalsInv
  BY SumEmpty, FS_EmptySet DEF TotalsInv

\* A job is counted.
LEMMA CountOne ==
  ASSUME IInv, TotalsInv, print_averages, tp # NULL
  PROVE  TotalsInv'
  <1>1. /\ pc = "print_averages" /\ pc' = "print_averages" /\ tp' = next[tp]
        /\ total' = [response   |-> total.response + responseTime[tp],
                     turnaround |-> total.turnaround + turnaroundTime[tp],
                     wait       |-> total.wait + waitTime[tp],
                     numJobs    |-> total.numJobs + 1]
        /\ UNCHANGED arguments
        /\ UNCHANGED <<responseTime, turnaroundTime, waitTime>>
    BY DEF print_averages, times
  <1>2. /\ Ran = Jobs /\ Finished = Jobs /\ Jobs \subseteq Job
        /\ \A j \in Jobs :
             /\ responseTime[j] \in Nat /\ turnaroundTime[j] \in Nat
             /\ waitTime[j] \in Nat
    BY <1>1, AllHaveTimes DEF Analyzing
  <1>3. tp \in Jobs
    BY <1>1 DEF IInv, RunningInv, Analyzing
  <1>4. /\ Jobs' = Jobs /\ \A i, j : Precedes(i, j)' <=> Precedes(i, j)
    BY <1>1, SameOrder
  <1>5. \/ tp' = NULL /\ \A k \in Jobs : ~Precedes(tp, k)
        \/ /\ tp' \in Jobs /\ Precedes(tp, tp')
           /\ \A k \in Jobs : Precedes(tp, k) => k = tp' \/ Precedes(tp', k)
    BY <1>1, <1>2, <1>3, ListsAreChains DEF IInv, Chain
  <1>6. Counted = {j \in Jobs : Precedes(j, tp)}
    BY <1>1 DEF Counted
  <1>7. tp \notin Counted /\ Counted \subseteq Jobs
    BY <1>3, <1>6, StrictOrder DEF IInv, TypeOK
  <1>8. Counted' = Counted \cup {tp}
    <2>1. Counted' = {j \in Jobs : tp' = NULL \/ Precedes(j, tp')}
      BY <1>1, <1>4 DEF Counted
    <2>2. ASSUME NEW j \in Jobs
          PROVE  (tp' = NULL \/ Precedes(j, tp')) <=> (j = tp \/ Precedes(j, tp))
      <3>1. /\ ~Precedes(tp, tp) /\ NULL \notin Jobs
            /\ j = tp \/ Precedes(j, tp) \/ Precedes(tp, j)
            /\ ~(Precedes(j, tp) /\ Precedes(tp, j))
        BY <1>2, <1>3, StrictOrder DEF IInv, TypeOK
      <3>2. CASE tp' = NULL
        BY <1>5, <3>1, <3>2
      <3>3. CASE tp' \in Jobs
        <4>1. /\ ~(Precedes(j, tp') /\ Precedes(tp', j))
              /\ Precedes(j, tp) /\ Precedes(tp, tp') => Precedes(j, tp')
              /\ ~Precedes(tp', tp')
          BY <1>3, <3>3, StrictOrder DEF IInv, TypeOK
        <4> QED
          BY <1>5, <3>1, <3>3, <4>1
      <3> QED
        BY <1>5, <3>2, <3>3
    <2> QED
      BY <1>3, <1>6, <2>1, <2>2
  <1>9. IsFiniteSet(Counted)
    BY <1>7, JobsAreFinite, FS_Subset DEF IInv, TypeOK
  <1>10. Cardinality(Counted') = Cardinality(Counted) + 1
    BY <1>7, <1>8, <1>9, FS_AddElement
  <1>11. \A j \in Counted \cup {tp} :
           /\ responseTime[j] \in Nat /\ turnaroundTime[j] \in Nat
           /\ waitTime[j] \in Nat
    BY <1>2, <1>3, <1>7
  <1>12. /\ SumOver(responseTime, Counted') = SumOver(responseTime, Counted) + responseTime[tp]
         /\ SumOver(turnaroundTime, Counted') = SumOver(turnaroundTime, Counted) + turnaroundTime[tp]
         /\ SumOver(waitTime, Counted') = SumOver(waitTime, Counted) + waitTime[tp]
    BY <1>7, <1>8, <1>9, <1>11, SumAdd
  <1> QED
    BY <1>1, <1>10, <1>12 DEF TotalsInv

LEMMA TotalsStep ==
  ASSUME IInv, TotalsInv, [Next]_vars
  PROVE  TotalsInv'
  <1>1. UNCHANGED arguments /\ Jobs' = Jobs
        /\ \A i, j : Precedes(i, j)' <=> Precedes(i, j)
    BY SameArguments, SameOrder
  <1>2. CASE print_averages /\ tp # NULL
    BY <1>2, CountOne
  <1>3. CASE UNCHANGED vars \/ (print_averages /\ tp = NULL)
    <2>1. /\ UNCHANGED <<total, responseTime, turnaroundTime, waitTime, tp>>
          /\ pc' = pc \/ (pc = "print_averages" /\ pc' = "done" /\ tp = NULL)
      BY <1>3 DEF print_averages, vars, times
    <2>2. Counted' = Counted
      BY <1>1, <2>1 DEF Counted
    <2> QED
      BY <2>1, <2>2 DEF TotalsInv
  <1>4. CASE Next /\ ~print_averages
    <2>1. pc \notin {"print_averages", "done"} /\ UNCHANGED total
      BY <1>4 DEF Next, Load, Run, add_job_responseTime_ascending, Analysis,
        printed, Main, add_job_to_back, add_job_to_front, StartSeek, Seek,
        add_job_sjf, StartRunning, RunJob, Advance, NextRound, RunSlice,
        RunLastSlice, Turn, RemoveFirst, RemoveNext, AddFirst, AddToFront,
        StartAddAfter, AddBetween, MoveOn, AddLast, StartAnalysis, Analyze,
        ReadLine
    <2>2. \/ pc' \notin {"print_averages", "done"}
          \/ pc = "analyze" /\ pc' = "print_averages" /\ tp' = completed.first
      BY <1>4 DEF Next, Load, Run, add_job_responseTime_ascending, Analysis,
        Main, add_job_to_back, add_job_to_front, StartSeek, Seek,
        add_job_sjf, StartRunning, RunJob, Advance, NextRound, RunSlice,
        RunLastSlice, Turn, RemoveFirst, RemoveNext, AddFirst, AddToFront,
        StartAddAfter, AddBetween, MoveOn, AddLast, StartAnalysis, Analyze,
        ReadLine, Added
    <2>3. Counted' = {}
      <3>1. CASE pc' \notin {"print_averages", "done"}
        BY <3>1 DEF Counted
      <3>2. CASE pc = "analyze" /\ pc' = "print_averages" /\ tp' = completed.first
        <4>1. Counted' = {j \in Jobs : tp' = NULL \/ Precedes(j, tp')}
          BY <1>1, <3>2 DEF Counted
        <4>2. Finished = Jobs /\ Jobs \subseteq Job
          BY <3>2, AllHaveTimes DEF Analyzing
        <4>3. \/ tp' = NULL /\ Jobs = {}
              \/ tp' \in Jobs /\ \A k \in Jobs : k = tp' \/ Precedes(tp', k)
          BY <3>2, <4>2, ListsAreChains DEF IInv, Chain
        <4>4. ASSUME NEW j \in Jobs PROVE ~(tp' = NULL \/ Precedes(j, tp'))
          <5>1. tp' \in Jobs /\ tp' # NULL /\ (j = tp' \/ Precedes(tp', j))
            BY <4>2, <4>3
          <5>2. ~(Precedes(j, tp') /\ Precedes(tp', j)) /\ ~Precedes(tp', tp')
            BY <5>1, StrictOrder DEF IInv, TypeOK
          <5> QED
            BY <5>1, <5>2
        <4> QED
          BY <4>1, <4>4
      <3> QED
        BY <2>2, <3>1, <3>2
    <2>4. /\ total'.numJobs = 0 /\ total'.response = 0
          /\ total'.turnaround = 0 /\ total'.wait = 0
      BY <2>1, CountedNone
    <2> QED
      BY <2>3, <2>4, SumEmpty, FS_EmptySet DEF TotalsInv
  <1> QED
    BY <1>2, <1>3, <1>4

LEMMA SpecTotals == Spec => []TotalsInv
  <1>1. ASSUME Init PROVE TotalsInv
    <2>1. Counted = {}
      BY <1>1 DEF Init, Counted
    <2> QED
      BY <1>1, <2>1, TotalsOfNone DEF Init
  <1> QED
    BY <1>1, TotalsStep, SpecInv, PTL DEF Spec
-----------------------------------------------------------------------------
\* The averages of print_averages are over all jobs, and fit together: a job's
\* turnaround is its length and its wait, and only RR makes a job wait after
\* its first turn.
THEOREM AveragesFitTogether == Spec => []AveragesAddUp
  <1>1. ASSUME IInv, TotalsInv PROVE AveragesAddUp
    <2> SUFFICES ASSUME pc = "done"
        PROVE  /\ total.numJobs = Cardinality(Jobs)
               /\ total.turnaround = total.wait + TotalLength
               /\ total.response <= total.wait
               /\ policy # "RR" => total.response = total.wait
      BY DEF AveragesAddUp
    <2>1. Counted = Jobs
      BY DEF Counted
    <2>2. /\ Ran = Jobs
          /\ \A j \in Jobs :
               /\ responseTime[j] \in Nat /\ turnaroundTime[j] \in Nat
               /\ waitTime[j] \in Nat /\ workload[j] \in Nat
      BY <1>1, AllHaveTimes DEF Analyzing
    <2>3. IsFiniteSet(Jobs)
      BY <1>1, JobsAreFinite DEF IInv, TypeOK
    <2>4. ASSUME NEW j \in Jobs
          PROVE  /\ turnaroundTime[j] = waitTime[j] + workload[j]
                 /\ responseTime[j] <= waitTime[j]
                 /\ policy # "RR" => responseTime[j] = waitTime[j]
      <3>1. j \in Job
        BY <2>2 DEF Ran
      <3>2. CASE policy = "RR"
        <4>1. hasRun[j] = 1
          BY <1>1, <2>2, <3>2, RanTimes
        <4> QED
          BY <1>1, <2>2, <3>1, <3>2, <4>1 DEF IInv, HasRunInv, HasRunFacts
      <3>3. CASE policy # "RR"
        BY <1>1, <2>2, <3>3 DEF IInv, SequentialInv
      <3> QED
        BY <3>2, <3>3
    <2>5. TotalLength = SumOver(workload, Jobs)
      BY DEF TotalLength, SumOver
    <2>6. SumOver(turnaroundTime, Jobs)
            = SumOver(waitTime, Jobs) + SumOver(workload, Jobs)
      BY <2>2, <2>3, <2>4, SumOfSums
    <2>7. SumOver(responseTime, Jobs) <= SumOver(waitTime, Jobs)
      BY <2>2, <2>3, <2>4, SumAtMost
    <2>8. policy # "RR" => SumOver(responseTime, Jobs) = SumOver(waitTime, Jobs)
      BY <2>2, <2>3, <2>4, SumSame
    <2> QED
      BY <1>1, <2>1, <2>5, <2>6, <2>7, <2>8 DEF TotalsInv
  <1> QED
    BY <1>1, SpecInv, SpecTotals, PTL
-----------------------------------------------------------------------------
(* What an order costs.  An order is a set of pairs. *)

IsOrder(E, S) ==
  \A i, j \in S : i # j => (<<i, j>> \in E <=> <<j, i>> \notin E)

\* What j waits for, itself included, of the jobs in S.
Ahead(E, w, S, j) ==
  [k \in S |-> IF k = j \/ <<k, j>> \in E THEN w[k] ELSE 0]

Finish(E, w, S) == [j \in S |-> SumOver(Ahead(E, w, S, j), S)]

\* The turnaround times added up, when the jobs in S run in the order of E.
Cost(E, w, S) == SumOver(Finish(E, w, S), S)

\* Of each two jobs, one is waited for.
Earlier(E, w, S, x) ==
  [k \in S |-> IF <<k, x>> \in E THEN w[k] ELSE w[x]]

LEMMA FinishIsNat ==
  ASSUME NEW E, NEW w, NEW S, IsFiniteSet(S), \A k \in S : w[k] \in Nat
  PROVE  /\ \A j \in S : Finish(E, w, S)[j] \in Nat
         /\ Cost(E, w, S) \in Nat
  <1>1. ASSUME NEW j \in S PROVE Finish(E, w, S)[j] \in Nat
    <2>1. \A k \in S : Ahead(E, w, S, j)[k] \in Nat
      BY DEF Ahead
    <2> QED
      BY <2>1, SumIsNat DEF Finish
  <1> QED
    BY <1>1, SumIsNat DEF Cost

\* A job joins those of S: each of them waits for it, or it waits for them.
LEMMA CostAdd ==
  ASSUME NEW E, NEW w, NEW S, IsFiniteSet(S), NEW x, x \notin S,
         \A k \in S \cup {x} : w[k] \in Nat, IsOrder(E, S \cup {x})
  PROVE  Cost(E, w, S \cup {x})
           = Cost(E, w, S) + w[x] + SumOver(Earlier(E, w, S, x), S)
  <1> DEFINE T == S \cup {x}
             late  == [j \in S |-> IF <<x, j>> \in E THEN w[x] ELSE 0]
             early == [k \in S |-> IF <<k, x>> \in E THEN w[k] ELSE 0]
             F == Finish(E, w, T)
  <1>1. IsFiniteSet(T)
    BY FS_AddElement
  <1>2. ASSUME NEW j \in T PROVE \A k \in T : Ahead(E, w, T, j)[k] \in Nat
    BY <1>2 DEF Ahead
  <1>3. ASSUME NEW j \in S PROVE F[j] = Finish(E, w, S)[j] + late[j]
    <2> DEFINE A == Ahead(E, w, T, j)
    <2>1. SumOver(A, T) = SumOver(A, S) + A[x]
      BY <1>2, SumAdd
    <2>2. \A k \in S : A[k] \in Nat /\ A[k] = Ahead(E, w, S, j)[k]
      BY <1>2 DEF Ahead
    <2>3. SumOver(A, S) = SumOver(Ahead(E, w, S, j), S)
      BY <2>2, SumSame
    <2>4. A[x] = late[j]
      BY DEF Ahead
    <2> QED
      BY <2>1, <2>3, <2>4 DEF Finish
  <1>4. F[x] = SumOver(early, S) + w[x]
    <2> DEFINE A == Ahead(E, w, T, x)
    <2>1. SumOver(A, T) = SumOver(A, S) + A[x]
      BY <1>2, SumAdd
    <2>2. \A k \in S : A[k] \in Nat /\ A[k] = early[k]
      BY <1>2 DEF Ahead
    <2>3. SumOver(A, S) = SumOver(early, S)
      BY <2>2, SumSame
    <2>4. A[x] = w[x]
      BY DEF Ahead
    <2> QED
      BY <2>1, <2>3, <2>4 DEF Finish
  <1>5. \A j \in T : F[j] \in Nat
    BY <1>1, FinishIsNat
  <1>6. SumOver(F, T) = SumOver(F, S) + F[x]
    BY <1>5, SumAdd
  <1>7. \A j \in S : Finish(E, w, S)[j] \in Nat /\ late[j] \in Nat /\ early[j] \in Nat
    BY FinishIsNat
  <1>8. SumOver(F, S) = Cost(E, w, S) + SumOver(late, S)
    <2> HIDE DEF late, F
    <2> QED
      BY <1>3, <1>7, SumOfSums DEF Cost
  <1>9. SumOver(Earlier(E, w, S, x), S) = SumOver(late, S) + SumOver(early, S)
    <2>1. ASSUME NEW k \in S PROVE Earlier(E, w, S, x)[k] = late[k] + early[k]
      <3>1. <<k, x>> \in E <=> <<x, k>> \notin E
        BY DEF IsOrder
      <3> QED
        BY <3>1 DEF Earlier
    <2> HIDE DEF late, early
    <2> QED
      BY <1>7, <2>1, SumOfSums
  <1>10. /\ SumOver(late, S) \in Nat /\ SumOver(early, S) \in Nat
         /\ Cost(E, w, S) \in Nat /\ w[x] \in Nat
    <2> HIDE DEF late, early
    <2> QED
      BY <1>7, SumIsNat, FinishIsNat
  <1>11. Cost(E, w, T) = (Cost(E, w, S) + SumOver(late, S)) + (SumOver(early, S) + w[x])
    BY <1>4, <1>6, <1>8 DEF Cost
  <1> HIDE DEF late, early
  <1> QED
    BY <1>9, <1>10, <1>11

\* The exchange argument: when the shorter of each two jobs runs first, no
\* order costs less.
LEMMA ShortestCostsLeast ==
  ASSUME NEW S, IsFiniteSet(S), NEW w, \A k \in S : w[k] \in Nat,
         NEW E, IsOrder(E, S), NEW F, IsOrder(F, S),
         \A i, j \in S : i # j /\ <<i, j>> \in E => w[i] <= w[j]
  PROVE  Cost(E, w, S) <= Cost(F, w, S)
  <1> DEFINE P == {T \in SUBSET S : Cost(E, w, T) <= Cost(F, w, T)}
  <1>1. {} \in P
    <2>1. Cost(E, w, {}) = 0 /\ Cost(F, w, {}) = 0
      BY SumEmpty DEF Cost
    <2> QED
      BY <2>1
  <1>2. ASSUME NEW T \in SUBSET S, T \in P, NEW x \in S \ T
        PROVE  T \cup {x} \in P
    <2>1. IsFiniteSet(T) /\ T \cup {x} \subseteq S
      BY <1>2, FS_Subset
    <2>2. IsOrder(E, T \cup {x}) /\ IsOrder(F, T \cup {x})
      BY <2>1 DEF IsOrder
    <2>3. \A k \in T \cup {x} : w[k] \in Nat
      BY <2>1
    <2>4. /\ Cost(E, w, T \cup {x})
               = Cost(E, w, T) + w[x] + SumOver(Earlier(E, w, T, x), T)
          /\ Cost(F, w, T \cup {x})
               = Cost(F, w, T) + w[x] + SumOver(Earlier(F, w, T, x), T)
      BY <1>2, <2>1, <2>2, <2>3, CostAdd
    <2>5. ASSUME NEW k \in T
          PROVE  /\ Earlier(E, w, T, x)[k] \in Nat
                 /\ Earlier(F, w, T, x)[k] \in Nat
                 /\ Earlier(E, w, T, x)[k] <= Earlier(F, w, T, x)[k]
      <3>1. k # x /\ k \in S /\ w[k] \in Nat /\ w[x] \in Nat
        BY <1>2, <2>3
      <3>2. /\ <<k, x>> \in E => w[k] <= w[x]
            /\ <<k, x>> \notin E => w[x] <= w[k]
        BY <3>1 DEF IsOrder
      <3> QED
        BY <3>1, <3>2 DEF Earlier
    <2>6. /\ SumOver(Earlier(E, w, T, x), T) <= SumOver(Earlier(F, w, T, x), T)
          /\ SumOver(Earlier(E, w, T, x), T) \in Nat
          /\ SumOver(Earlier(F, w, T, x), T) \in Nat
      BY <2>1, <2>5, SumAtMost, SumIsNat
    <2>7. Cost(E, w, T) \in Nat /\ Cost(F, w, T) \in Nat /\ w[x] \in Nat
      BY <2>1, <2>3, FinishIsNat
    <2>8. Cost(E, w, T) <= Cost(F, w, T)
      BY <1>2
    <2>9. Cost(E, w, T \cup {x}) <= Cost(F, w, T \cup {x})
      BY <2>4, <2>6, <2>7, <2>8
    <2> QED
      BY <2>1, <2>9
  <1> HIDE DEF P
  <1>3. S \in P
    BY <1>1, <1>2, SetInduction
  <1> QED
    BY <1>3 DEF P
-----------------------------------------------------------------------------
(* The cost of an order given by positions, as TurnaroundOf adds it up. *)

InOrder(order) ==
  {p \in Jobs \X Jobs :
     \E i, k \in Jobs : i < k /\ p = <<order[i], order[k]>>}

\* The jobs in the first m positions, and what they cost.
FirstOf(order, m) == {order[i] : i \in 0 .. m - 1}

CostsAt(order, m) == [i \in 0 .. m - 1 |-> workload[order[i]] * (m - i)]

LengthsAt(order) == [i \in Jobs |-> workload[order[i]]]

LEMMA TurnaroundOfIs ==
  ASSUME workload \in Workloads, NEW order \in Orders
  PROVE  TurnaroundOf(order) = SumOver(CostsAt(order, Cardinality(Jobs)), Jobs)
  <1> DEFINE f == CostsAt(order, Cardinality(Jobs))
             Q(g) == g = [s \in SUBSET Jobs |->
                            IF s = {} THEN 0
                            ELSE workload[order[First(s)]] * (Cardinality(Jobs) - First(s))
                                   + g[s \ {First(s)}]]
  <1>1. TurnaroundOf(order) = (CHOOSE g : Q(g))[Jobs]
    BY DEF TurnaroundOf, MapThenSumSet, MapThenFoldSet, First
  <1>2. ASSUME NEW s \in SUBSET Jobs, s # {}
        PROVE  f[First(s)] = workload[order[First(s)]] * (Cardinality(Jobs) - First(s))
    <2>1. First(s) \in 0 .. Cardinality(Jobs) - 1
      BY <1>2, FirstIn, JobsAreFinite
    <2> QED
      BY <2>1 DEF CostsAt
  <1> HIDE DEF f
  <1>3. ASSUME NEW g PROVE Q(g) <=> AddsUp(f, g, Jobs)
    <2>1. [s \in SUBSET Jobs |->
             IF s = {} THEN 0
             ELSE workload[order[First(s)]] * (Cardinality(Jobs) - First(s))
                    + g[s \ {First(s)}]]
            = [s \in SUBSET Jobs |-> IF s = {} THEN 0
                                     ELSE f[First(s)] + g[s \ {First(s)}]]
      BY <1>2
    <2> QED
      BY <2>1 DEF AddsUp
  <1>4. \E g : AddsUp(f, g, Jobs)
    BY AddsUpExists, JobsAreFinite
  <1>5. Q(CHOOSE g : Q(g))
    BY <1>3, <1>4
  <1> DEFINE G == CHOOSE g : Q(g)
             H == CHOOSE h : AddsUp(f, h, Jobs)
  <1>6. AddsUp(f, G, Jobs) /\ AddsUp(f, H, Jobs)
    BY <1>3, <1>4, <1>5
  <1>7. G[Jobs] = H[Jobs]
    <2> HIDE DEF G, H
    <2> QED
      BY <1>6, AddsUpOnce, JobsAreFinite
  <1> QED
    BY <1>1, <1>7, SumOverIs DEF f

\* The orders of the jobs put each of them in one position.
LEMMA OrderPlaces ==
  ASSUME workload \in Workloads, NEW order \in Orders
  PROVE  /\ order \in [Jobs -> Jobs]
         /\ \A i, k \in Jobs : i # k => order[i] # order[k]
         /\ FirstOf(order, Cardinality(Jobs)) = Jobs
         /\ IsOrder(InOrder(order), Jobs)
         /\ \A i, k \in Jobs : i < k => <<order[i], order[k]>> \in InOrder(order)
  <1>1. /\ order \in [Jobs -> Jobs]
        /\ \A i, k \in Jobs : i # k => order[i] # order[k]
    BY DEF Orders
  <1>2. /\ IsFiniteSet(Jobs) /\ Jobs = 0 .. Cardinality(Jobs) - 1
        /\ Cardinality(Jobs) \in Nat
    BY JobsAreFinite
  <1>3. order \in Injection(Jobs, Jobs)
    BY <1>1 DEF Injection, IsInjective
  <1>4. order \in Surjection(Jobs, Jobs)
    BY <1>2, <1>3, FS_Injection
  <1>5. \A j \in Jobs : \E i \in Jobs : order[i] = j
    BY <1>4 DEF Surjection
  <1>6. FirstOf(order, Cardinality(Jobs)) = Jobs
    BY <1>1, <1>2, <1>5 DEF FirstOf
  <1>7. \A i, k \in Jobs : i < k => <<order[i], order[k]>> \in InOrder(order)
    BY <1>1 DEF InOrder
  <1>8. ASSUME NEW i \in Jobs, NEW k \in Jobs, i # k
        PROVE  <<order[i], order[k]>> \in InOrder(order)
                 <=> <<order[k], order[i]>> \notin InOrder(order)
    <2>1. ASSUME NEW a \in Jobs, NEW b \in Jobs
          PROVE  <<order[a], order[b]>> \in InOrder(order) <=> a < b
      <3>1. ASSUME <<order[a], order[b]>> \in InOrder(order) PROVE a < b
        <4>1. PICK c \in Jobs, d \in Jobs :
                c < d /\ <<order[a], order[b]>> = <<order[c], order[d]>>
          BY <3>1 DEF InOrder
        <4>2. a = c /\ b = d
          BY <1>1, <4>1
        <4> QED
          BY <4>1, <4>2
      <3> QED
        BY <1>7, <3>1
    <2>2. i \in Int /\ k \in Int
      BY <1>2
    <2> QED
      BY <1>8, <2>1, <2>2
  <1>9. IsOrder(InOrder(order), Jobs)
    <2> SUFFICES ASSUME NEW p \in Jobs, NEW q \in Jobs, p # q
        PROVE  <<p, q>> \in InOrder(order) <=> <<q, p>> \notin InOrder(order)
      BY DEF IsOrder
    <2>1. PICK i \in Jobs : order[i] = p
      BY <1>5
    <2>2. PICK k \in Jobs : order[k] = q
      BY <1>5
    <2> QED
      BY <1>8, <2>1, <2>2
  <1> QED
    BY <1>1, <1>6, <1>7, <1>9

\* One more job at the end of the order waits for all the others.
LEMMA PositionAdds ==
  ASSUME workload \in Workloads, NEW order \in Orders, NEW m \in Jobs,
         SumOver(CostsAt(order, m), 0 .. m - 1)
           = Cost(InOrder(order), workload, FirstOf(order, m)),
         SumOver(LengthsAt(order), 0 .. m - 1)
           = SumOver(workload, FirstOf(order, m))
  PROVE  /\ SumOver(CostsAt(order, m + 1), 0 .. m)
              = Cost(InOrder(order), workload, FirstOf(order, m + 1))
         /\ SumOver(LengthsAt(order), 0 .. m)
              = SumOver(workload, FirstOf(order, m + 1))
  <1> DEFINE E == InOrder(order)
             S == FirstOf(order, m)
             x == order[m]
             I == 0 .. m - 1
             L == LengthsAt(order)
  <1>1. /\ m \in Nat /\ I \subseteq Jobs /\ IsFiniteSet(I) /\ m \notin I
        /\ 0 .. m = I \cup {m}
    <2>1. m \in Nat /\ I \subseteq Jobs
      <3>1. /\ Jobs = 0 .. Cardinality(Jobs) - 1 /\ Cardinality(Jobs) \in Nat
        BY JobsAreFinite
      <3> QED
        BY <3>1
    <2>2. IsFiniteSet(I)
      BY <2>1, FS_Interval
    <2> QED
      BY <2>1, <2>2
  <1>2. /\ order \in [Jobs -> Jobs]
        /\ \A i, k \in Jobs : i # k => order[i] # order[k]
        /\ IsOrder(E, Jobs)
        /\ \A i, k \in Jobs : i < k => <<order[i], order[k]>> \in E
    BY OrderPlaces
  <1>3. \A j \in Jobs : workload[j] \in Nat
    BY JobsAreJobs
  <1>4. /\ S \subseteq Jobs /\ x \in Jobs \ S /\ FirstOf(order, m + 1) = S \cup {x}
    BY <1>1, <1>2 DEF FirstOf
  <1>5. IsFiniteSet(S)
    BY <1>4, JobsAreFinite, FS_Subset
  <1>6. /\ \A i \in Jobs : L[i] \in Nat
        /\ L[m] = workload[x]
    BY <1>2, <1>3 DEF LengthsAt
  <1>7. SumOver(L, I \cup {m}) = SumOver(L, I) + L[m]
    BY <1>1, <1>6, SumAdd
  <1>8. SumOver(workload, S \cup {x}) = SumOver(workload, S) + workload[x]
    BY <1>3, <1>4, <1>5, SumAdd
  <1>9. Cost(E, workload, S \cup {x})
          = Cost(E, workload, S) + workload[x] + SumOver(Earlier(E, workload, S, x), S)
    <2>1. IsOrder(E, S \cup {x}) /\ \A k \in S \cup {x} : workload[k] \in Nat
      BY <1>2, <1>3, <1>4 DEF IsOrder
    <2> QED
      BY <1>4, <1>5, <2>1, CostAdd
  <1>10. SumOver(Earlier(E, workload, S, x), S) = SumOver(workload, S)
    <2>1. ASSUME NEW k \in S PROVE Earlier(E, workload, S, x)[k] = workload[k]
      <3>1. PICK i \in I : k = order[i]
        BY DEF FirstOf
      <3>2. <<k, x>> \in E
        BY <1>1, <1>2, <3>1
      <3> QED
        BY <3>2 DEF Earlier
    <2> QED
      BY <1>3, <1>4, <1>5, <2>1, SumSame
  <1> DEFINE C == CostsAt(order, m)
             D == CostsAt(order, m + 1)
  <1>11. ASSUME NEW i \in I
         PROVE  C[i] \in Nat /\ D[i] \in Nat /\ D[i] = C[i] + L[i]
    <2>1. C[i] = workload[order[i]] * (m - i) /\ L[i] = workload[order[i]]
      BY <1>1 DEF CostsAt, LengthsAt
    <2>2. D[i] = workload[order[i]] * ((m + 1) - i)
      BY <1>1 DEF CostsAt
    <2>3. workload[order[i]] \in Nat /\ m - i \in Nat
      <3>1. i \in Jobs /\ order[i] \in Jobs
        BY <1>1, <1>2
      <3>2. m - i \in Nat
        BY <1>1
      <3> QED
        BY <1>3, <3>1, <3>2
    <2>4. (m + 1) - i = (m - i) + 1
      BY <1>1
    <2>5. ASSUME NEW a \in Nat, NEW b \in Nat
          PROVE  a * b \in Nat /\ a * (b + 1) \in Nat /\ a * (b + 1) = a * b + a
      OBVIOUS
    <2> DEFINE a == workload[order[i]]
               b == m - i
    <2>6. C[i] = a * b /\ L[i] = a /\ D[i] = a * (b + 1)
      BY <2>1, <2>2, <2>4
    <2>7. a \in Nat /\ b \in Nat
      BY <2>3
    <2> HIDE DEF a, b, C, D, L
    <2>8. a * b \in Nat /\ a * (b + 1) \in Nat /\ a * (b + 1) = a * b + a
      BY <2>5, <2>7
    <2> QED
      BY <2>6, <2>8
  <1>12. D[m] = L[m] /\ D[m] \in Nat
    <2>1. D[m] = workload[x] * ((m + 1) - m)
      BY <1>1 DEF CostsAt
    <2>2. (m + 1) - m = 1 /\ workload[x] \in Nat
      <3>1. (m + 1) - m = 1
        BY <1>1
      <3>2. workload[x] \in Nat
        BY <1>3, <1>4
      <3> QED
        BY <3>1, <3>2
    <2> QED
      BY <1>6, <2>1, <2>2
  <1>13. SumOver(D, I) = SumOver(C, I) + SumOver(L, I)
    <2>1. \A i \in I : C[i] \in Nat /\ L[i] \in Nat /\ D[i] = C[i] + L[i]
      BY <1>1, <1>6, <1>11
    <2>2. IsFiniteSet(I)
      BY <1>1
    <2> HIDE DEF C, D, L, I
    <2> QED
      BY <2>1, <2>2, SumOfSums
  <1>14. SumOver(D, I \cup {m}) = SumOver(D, I) + D[m]
    <2>1. \A i \in I \cup {m} : D[i] \in Nat
      BY <1>11, <1>12
    <2>2. IsFiniteSet(I) /\ m \notin I
      BY <1>1
    <2> HIDE DEF D, I
    <2> QED
      BY <2>1, <2>2, SumAdd
  <1>15. /\ SumOver(C, I) \in Nat /\ SumOver(L, I) \in Nat /\ L[m] \in Nat
    <2> HIDE DEF C, L
    <2> QED
      BY <1>1, <1>6, <1>11, SumIsNat
  <1>16. SumOver(C, I) = Cost(E, workload, S) /\ SumOver(L, I) = SumOver(workload, S)
    OBVIOUS
  <1>17. SumOver(D, I \cup {m}) = (SumOver(C, I) + SumOver(L, I)) + L[m]
    BY <1>12, <1>13, <1>14
  <1>18. Cost(E, workload, S \cup {x}) = SumOver(C, I) + L[m] + SumOver(L, I)
    BY <1>6, <1>9, <1>10, <1>16
  <1>19. SumOver(D, I \cup {m}) = Cost(E, workload, S \cup {x})
    <2> HIDE DEF C, D, L, S, x
    <2> QED
      BY <1>15, <1>17, <1>18
  <1>20. SumOver(L, I \cup {m}) = SumOver(workload, S \cup {x})
    BY <1>6, <1>7, <1>8, <1>16
  <1> QED
    BY <1>1, <1>4, <1>19, <1>20

LEMMA TurnaroundIsCost ==
  ASSUME workload \in Workloads, NEW order \in Orders
  PROVE  TurnaroundOf(order) = Cost(InOrder(order), workload, Jobs)
  <1> DEFINE Same(m) ==
        /\ SumOver(CostsAt(order, m), 0 .. m - 1)
             = Cost(InOrder(order), workload, FirstOf(order, m))
        /\ SumOver(LengthsAt(order), 0 .. m - 1)
             = SumOver(workload, FirstOf(order, m))
        n == Cardinality(Jobs)
        Bad == {m \in 0 .. n : ~Same(m)}
  <1>1. n \in Nat /\ Jobs = 0 .. n - 1
    BY JobsAreFinite
  <1>2. Same(0)
    <2>1. 0 .. 0 - 1 = {} /\ FirstOf(order, 0) = {}
      BY DEF FirstOf
    <2> QED
      BY <2>1, SumEmpty DEF Cost
  <1>3. ASSUME NEW m \in Jobs, Same(m) PROVE Same(m + 1)
    <2>1. (m + 1) - 1 = m
      BY <1>1
    <2> QED
      BY <1>3, <2>1, PositionAdds
  <1>4. Same(n)
    <2> SUFFICES ASSUME Bad # {} PROVE FALSE
      BY <1>1
    <2> HIDE DEF Same, n
    <2>1. Bad \in SUBSET Nat
      BY <1>1
    <2>2. PICK m \in Bad : \A k \in Bad : m <= k
      <3> HIDE DEF Bad
      <3> QED
        BY <2>1, SmallestNumber
    <2>3. m # 0 /\ m \in 0 .. n /\ ~Same(m)
      BY <1>2, <2>2
    <2>4. m - 1 \in Jobs /\ m - 1 \in 0 .. n /\ (m - 1) + 1 = m /\ ~(m <= m - 1)
      BY <1>1, <2>3
    <2>5. Same(m - 1)
      BY <2>2, <2>4
    <2> QED
      BY <1>3, <2>3, <2>4, <2>5
  <1>5. FirstOf(order, n) = Jobs
    BY OrderPlaces
  <1> QED
    BY <1>1, <1>4, <1>5, TurnaroundOfIs
-----------------------------------------------------------------------------
(* FIFO and SJF run the jobs in the order of the policy, without a pause. *)

UpTo(j) == {k \in Jobs : k = j \/ Precedes(k, j)}

NoPauseInv ==
  policy # "RR" =>
    /\ Clock = SumOver(workload, Ran)
    /\ \A j \in Ran : turnaroundTime[j] = SumOver(workload, UpTo(j))

LEMMA NoPauseRunJob ==
  ASSUME IInv, NoPauseInv, RunJob, UNCHANGED arguments
  PROVE  NoPauseInv'
  <1> USE DEF IInv
  <1>1. /\ tp \in Jobs \ Ran /\ Ran' = Ran \cup {tp} /\ Loaded = Jobs
        /\ tp \in Job /\ Jobs \subseteq Job /\ Ran \subseteq Jobs
    BY FinishesSets, QueuedAreJobs, JobsAreJobs DEF Finishes, TypeOK
  <1>2. /\ pc = "run" /\ pc' = "add_completed" /\ policy # "RR" /\ tp # NULL
        /\ UNCHANGED <<policy, workload, currentTime, tp, length>>
        /\ turnaroundTime' = [turnaroundTime EXCEPT ![tp] = currentTime + length[tp]]
    BY DEF RunJob, arguments
  <1>3. /\ Jobs' = Jobs /\ \A i, j : Precedes(i, j)' <=> Precedes(i, j)
        /\ \A j \in Jobs : workload[j] \in Nat
    BY SameOrder, JobsAreJobs DEF TypeOK
  <1>4. length[tp] = workload[tp]
    BY <1>1, <1>2 DEF SequentialInv
  <1>5. Clock = currentTime /\ Clock' = Clock + workload[tp]
    BY <1>2, <1>4 DEF Clock
  <1>6. SumOver(workload, Ran \cup {tp}) = SumOver(workload, Ran) + workload[tp]
    <2>1. IsFiniteSet(Ran)
      BY <1>1, JobsAreFinite, FS_Subset DEF TypeOK
    <2>2. \A j \in Ran \cup {tp} : workload[j] \in Nat
      BY <1>1, <1>3
    <2> QED
      BY <1>1, <2>1, <2>2, SumAdd
  <1>7. Clock' = SumOver(workload', Ran')
    BY <1>1, <1>2, <1>5, <1>6 DEF NoPauseInv
  <1>8. \A j : UpTo(j)' = UpTo(j)
    BY <1>3 DEF UpTo
  <1>9. UpTo(tp) = Ran \cup {tp}
    <2>1. ASSUME NEW i \in Jobs \ {tp}
          PROVE  Precedes(i, tp) <=> i \in Ran
      <3>1. i \in Ran => Precedes(i, tp)
        BY <1>1, <1>2 DEF SequentialInv
      <3>2. i \notin Ran => Precedes(tp, i)
        <4>1. i \notin Ran => i \in Queued
          BY <1>1, <1>2 DEF Queued, Loaded
        <4> QED
          BY <1>2, <4>1 DEF RunningInv
      <3>3. ~(Precedes(i, tp) /\ Precedes(tp, i))
        BY <1>1, StrictOrder DEF TypeOK
      <3> QED
        BY <3>1, <3>2, <3>3
    <2> QED
      BY <1>1, <2>1 DEF UpTo
  <1>10. ASSUME NEW j \in Ran'
         PROVE  turnaroundTime'[j] = SumOver(workload', UpTo(j)')
    <2>1. CASE j = tp
      BY <1>1, <1>2, <1>4, <1>5, <1>6, <1>8, <1>9, <2>1 DEF NoPauseInv, TypeOK
    <2>2. CASE j # tp
      BY <1>1, <1>2, <1>8, <2>2 DEF NoPauseInv, TypeOK
    <2> QED
      BY <2>1, <2>2
  <1> QED
    BY <1>7, <1>10 DEF NoPauseInv

LEMMA NoPauseStep ==
  ASSUME IInv, NoPauseInv, [Next]_vars
  PROVE  NoPauseInv'
  <1>1. UNCHANGED arguments /\ Jobs' = Jobs
        /\ \A i, j : Precedes(i, j)' <=> Precedes(i, j)
    BY SameArguments, SameOrder
  <1>2. CASE RunJob
    BY <1>1, <1>2, NoPauseRunJob
  <1>3. CASE Turns
    <2>1. policy = "RR"
      BY <1>3 DEF Turns, RunSlice, RunLastSlice, Turn
    <2> QED
      BY <1>1, <2>1 DEF NoPauseInv, arguments
  <1>4. CASE ~RunJob /\ ~Turns
    <2>1. UNCHANGED <<turnaroundTime, Clock>>
      BY <1>4, KeepsWait, KeepsTimes
    <2>2. Ran' = Ran
      BY <2>1 DEF Ran
    <2>3. \A j : UpTo(j)' = UpTo(j)
      BY <1>1 DEF UpTo
    <2> QED
      BY <1>1, <2>1, <2>2, <2>3 DEF NoPauseInv, arguments
  <1> QED
    BY <1>2, <1>3, <1>4

LEMMA SpecNoPause == Spec => []NoPauseInv
  <1>1. ASSUME Init PROVE NoPauseInv
    <2>1. Ran = {} /\ Clock = 0
      BY <1>1 DEF Init, Ran, Clock
    <2> QED
      BY <2>1, SumEmpty DEF NoPauseInv
  <1> QED
    BY <1>1, NoPauseStep, SpecInv, PTL DEF Spec
-----------------------------------------------------------------------------
PolicyOrder == {p \in Jobs \X Jobs : Precedes(p[1], p[2])}

LEMMA TotalIsCost ==
  ASSUME IInv, TotalsInv, NoPauseInv, pc = "done", policy # "RR"
  PROVE  total.turnaround = Cost(PolicyOrder, workload, Jobs)
  <1>1. /\ Ran = Jobs
        /\ \A j \in Jobs : turnaroundTime[j] \in Nat /\ workload[j] \in Nat
    BY AllHaveTimes DEF Analyzing
  <1>2. IsFiniteSet(Jobs)
    BY JobsAreFinite DEF IInv, TypeOK
  <1>3. ASSUME NEW j \in Jobs
        PROVE  turnaroundTime[j] = Finish(PolicyOrder, workload, Jobs)[j]
    <2> DEFINE A == Ahead(PolicyOrder, workload, Jobs, j)
    <2>1. \A k \in Jobs : A[k] = IF k \in UpTo(j) THEN workload[k] ELSE 0
      BY DEF Ahead, PolicyOrder, UpTo
    <2>2. UpTo(j) \in SUBSET Jobs
      BY DEF UpTo
    <2>3. SumOver(A, Jobs) = SumOver(workload, UpTo(j))
      <3> HIDE DEF A
      <3> QED
        BY <1>1, <1>2, <2>1, <2>2, SumOfPart
    <2> QED
      BY <1>1, <2>3 DEF NoPauseInv, Finish
  <1>4. total.turnaround = SumOver(turnaroundTime, Jobs)
    BY DEF TotalsInv, Counted
  <1> QED
    BY <1>1, <1>2, <1>3, <1>4, SumSame DEF Cost

\* Once SJF has run, no order of the jobs has a smaller average turnaround
\* time than the one print_averages prints: each two jobs cost least when the
\* shorter one runs first, which is how add_job_sjf sorts them.
THEOREM ShortestJobFirstIsBest == Spec => []ShortestFirstIsBest
  <1>1. ASSUME IInv, TotalsInv, NoPauseInv PROVE ShortestFirstIsBest
    <2> SUFFICES ASSUME pc = "done", policy = "SJF", NEW order \in Orders
        PROVE  total.turnaround <= TurnaroundOf(order)
      BY DEF ShortestFirstIsBest
    <2>1. workload \in Workloads /\ IsFiniteSet(Jobs)
      BY <1>1, JobsAreFinite DEF IInv, TypeOK
    <2>2. total.turnaround = Cost(PolicyOrder, workload, Jobs)
      BY <1>1, TotalIsCost
    <2>3. TurnaroundOf(order) = Cost(InOrder(order), workload, Jobs)
      BY <2>1, TurnaroundIsCost
    <2>4. \A j \in Jobs : workload[j] \in Nat
      BY <2>1, JobsAreJobs
    <2>5. IsOrder(PolicyOrder, Jobs)
      <3>1. \A i, j \in Jobs : i # j => (Precedes(i, j) <=> ~Precedes(j, i))
        BY <2>1, StrictOrder
      <3> QED
        BY <3>1 DEF IsOrder, PolicyOrder
    <2>6. IsOrder(InOrder(order), Jobs)
      BY <2>1, OrderPlaces
    <2>7. ASSUME NEW i \in Jobs, NEW j \in Jobs, <<i, j>> \in PolicyOrder
          PROVE  workload[i] <= workload[j]
      BY <2>4, <2>7 DEF PolicyOrder, Precedes
    <2> QED
      BY <2>1, <2>2, <2>3, <2>4, <2>5, <2>6, <2>7, ShortestCostsLeast
  <1> QED
    BY <1>1, SpecInv, SpecTotals, SpecNoPause, PTL
=============================================================================
