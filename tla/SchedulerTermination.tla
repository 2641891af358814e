------------------------ MODULE SchedulerTermination ------------------------
(***************************************************************************)
(* Proofs that no loop of scheduler.c or linkedlist.c runs on for ever,    *)
(* and that none follows a NULL pointer: what is behind Terminates, for    *)
(* every workload and time slice.                                          *)
(***************************************************************************)
EXTENDS SchedulerProofs, SumProofs

USE DEF Job, NULL, Unset, Policies
-----------------------------------------------------------------------------
(* The countdown. *)

\* The parts of the program, counted down to its end.
Phase ==
  CASE pc = "main" -> 5
    [] pc \in {"load", "add_job_sjf"} -> 4
    [] pc = "analyze" -> 2
    [] pc = "print_averages" -> 1
    [] pc \in {"done", "exit"} -> 0
    [] OTHER -> 3

\* The jobs the part has yet to load, or to run to their ends.
JobsToGo == IF Phase = 4 THEN Jobs \ Loaded ELSE Jobs \ Ran

\* What is left to be done about the job in hand.
Stage ==
  CASE pc = "removeFromList" -> 4
    [] pc = "add_completed" -> 3
    [] pc = "add_after" -> 2
    [] pc \in {"load", "advance"} -> 1
    [] OTHER -> 0

LengthToGo == SumOver(length, Jobs \ Ran)

\* The nodes a walk of a list has yet to pass.  Between two rounds of RR tp
\* is NULL, and the walk of the next one has yet to begin.
NodesToGo ==
  CASE pc \in {"add_job_sjf", "removeFromList"} -> After(cursor, Queued)
    [] pc = "add_after" -> After(cursor, Finished)
    [] pc \in {"analyze", "print_averages"} ->
         {j \in Jobs : tp # NULL /\ ~Precedes(j, tp)}
    [] pc = "run" /\ tp = NULL -> {NULL}
    [] OTHER -> {}

Countdown ==
  <<Phase, Cardinality(JobsToGo), Stage, LengthToGo, Cardinality(NodesToGo)>>

\* The order of dictionaries.
Smaller(m, n) ==
  \E k \in 1 .. 5 : m[k] < n[k] /\ \A i \in 1 .. k - 1 : m[i] = n[i]

Countdowns == [1 .. 5 -> Nat]

LEMMA Fewer ==
  ASSUME NEW S, IsFiniteSet(S), NEW T \in SUBSET S
  PROVE  /\ IsFiniteSet(T)
         /\ Cardinality(S) \in Nat /\ Cardinality(T) \in Nat
         /\ T # S => Cardinality(T) < Cardinality(S)
  <1>1. IsFiniteSet(T) /\ Cardinality(T) <= Cardinality(S)
        /\ (Cardinality(S) = Cardinality(T) => S = T)
    BY FS_Subset
  <1>2. Cardinality(S) \in Nat /\ Cardinality(T) \in Nat
    BY <1>1, FS_CardinalityType
  <1> QED
    BY <1>1, <1>2

\* What is counted can be counted.
LEMMA ToGoIsFinite ==
  ASSUME IInv
  PROVE  /\ JobsToGo \subseteq Jobs /\ IsFiniteSet(JobsToGo)
         /\ IsFiniteSet(Jobs \ Ran)
         /\ IsFiniteSet(NodesToGo)
         /\ \A j \in Jobs \ Ran : length[j] \in Nat
  <1>1. IsFiniteSet(Jobs) /\ Jobs \subseteq Job
    BY JobsAreFinite, JobsAreJobs DEF IInv, TypeOK
  <1>2. JobsToGo \subseteq Jobs
    BY DEF JobsToGo
  <1>3. Queued \subseteq Jobs /\ Finished \subseteq Jobs
    BY QueuedAreJobs DEF IInv
  <1>4. NodesToGo \subseteq Jobs \/ NodesToGo = {NULL}
    BY <1>3 DEF NodesToGo, After
  <1>5. IsFiniteSet(NodesToGo)
    BY <1>1, <1>4, FS_Subset, FS_Singleton
  <1>6. \A j \in Jobs \ Ran : length[j] \in Nat
    BY <1>1 DEF IInv, TypeOK
  <1> QED
    BY <1>1, <1>2, <1>5, <1>6, FS_Subset

LEMMA CountdownType ==
  ASSUME IInv
  PROVE  /\ Phase \in Nat /\ Cardinality(JobsToGo) \in Nat /\ Stage \in Nat
         /\ LengthToGo \in Nat /\ Cardinality(NodesToGo) \in Nat
         /\ Countdown \in Countdowns
  <1>1. Phase \in Nat /\ Stage \in Nat
    BY DEF Phase, Stage
  <1>2. Cardinality(JobsToGo) \in Nat /\ Cardinality(NodesToGo) \in Nat
    BY ToGoIsFinite, FS_CardinalityType
  <1>3. LengthToGo \in Nat
    BY ToGoIsFinite, SumIsNat DEF LengthToGo
  <1> QED
    BY <1>1, <1>2, <1>3 DEF Countdown, Countdowns

\* The first of the five numbers that changes is the one that must fall.
LEMMA FirstFalls ==
  ASSUME NEW m, NEW n,
         \/ m[1] < n[1]
         \/ m[1] = n[1] /\ m[2] < n[2]
         \/ m[1] = n[1] /\ m[2] = n[2] /\ m[3] < n[3]
         \/ m[1] = n[1] /\ m[2] = n[2] /\ m[3] = n[3] /\ m[4] < n[4]
         \/ /\ m[1] = n[1] /\ m[2] = n[2] /\ m[3] = n[3] /\ m[4] = n[4]
            /\ m[5] < n[5]
  PROVE  Smaller(m, n)
  <1>1. ASSUME NEW k \in 1 .. 5, m[k] < n[k], \A i \in 1 .. k - 1 : m[i] = n[i]
        PROVE  Smaller(m, n)
    BY <1>1 DEF Smaller
  <1>2. CASE m[1] < n[1]
    <2>1. 1 .. 1 - 1 = {}
      OBVIOUS
    <2> QED
      BY <1>1, <1>2, <2>1
  <1>3. CASE m[1] = n[1] /\ m[2] < n[2]
    <2>1. 1 .. 2 - 1 = {1}
      OBVIOUS
    <2> QED
      BY <1>1, <1>3, <2>1
  <1>4. CASE m[1] = n[1] /\ m[2] = n[2] /\ m[3] < n[3]
    <2>1. 1 .. 3 - 1 = {1, 2}
      OBVIOUS
    <2> QED
      BY <1>1, <1>4, <2>1
  <1>5. CASE m[1] = n[1] /\ m[2] = n[2] /\ m[3] = n[3] /\ m[4] < n[4]
    <2>1. 1 .. 4 - 1 = {1, 2, 3}
      OBVIOUS
    <2> QED
      BY <1>1, <1>5, <2>1
  <1>6. CASE m[1] = n[1] /\ m[2] = n[2] /\ m[3] = n[3] /\ m[4] = n[4]
             /\ m[5] < n[5]
    <2>1. 1 .. 5 - 1 = {1, 2, 3, 4}
      OBVIOUS
    <2> QED
      BY <1>1, <1>6, <2>1
  <1> QED
    BY <1>2, <1>3, <1>4, <1>5, <1>6

LEMMA FallsIf ==
  ASSUME \/ Phase' < Phase
         \/ /\ Phase' = Phase
            /\ Cardinality(JobsToGo)' < Cardinality(JobsToGo)
         \/ /\ Phase' = Phase
            /\ Cardinality(JobsToGo)' = Cardinality(JobsToGo)
            /\ \/ Stage' < Stage
               \/ Stage' = Stage /\ LengthToGo' < LengthToGo
               \/ /\ Stage' = Stage /\ LengthToGo' = LengthToGo
                  /\ Cardinality(NodesToGo)' < Cardinality(NodesToGo)
  PROVE  Smaller(Countdown', Countdown)
  <1>1. /\ Countdown'[1] = Phase' /\ Countdown[1] = Phase
        /\ Countdown'[2] = Cardinality(JobsToGo)'
        /\ Countdown[2] = Cardinality(JobsToGo)
        /\ Countdown'[3] = Stage' /\ Countdown[3] = Stage
        /\ Countdown'[4] = LengthToGo' /\ Countdown[4] = LengthToGo
        /\ Countdown'[5] = Cardinality(NodesToGo)'
        /\ Countdown[5] = Cardinality(NodesToGo)
    BY DEF Countdown
  <1> QED
    BY <1>1, FirstFalls
-----------------------------------------------------------------------------
(* Each step counts down. *)

\* A walk goes from a node to the next one, and leaves the first behind.
LEMMA WalkShortens ==
  ASSUME workload \in Workloads, NEW S \in SUBSET Jobs, IsFiniteSet(S),
         NEW first, Chain(next, first, S), NEW c \in S, next[c] # NULL
  PROVE  /\ next[c] \in S /\ Precedes(c, next[c])
         /\ Cardinality(After(next[c], S)) < Cardinality(After(c, S))
  <1>1. next[c] \in S /\ Precedes(c, next[c])
    BY DEF Chain
  <1>2. /\ After(next[c], S) \subseteq After(c, S)
        /\ next[c] \in After(c, S) /\ next[c] \notin After(next[c], S)
    BY <1>1, StrictOrder DEF After
  <1>3. IsFiniteSet(After(c, S))
    BY FS_Subset DEF After
  <1> QED
    BY <1>1, <1>2, <1>3, Fewer

\* A part of the program is over.
LEMMA PhaseFalls ==
  ASSUME \/ Main \/ StartRunning \/ StartAnalysis
         \/ (Analyze \/ print_averages) /\ tp = NULL
  PROVE  Smaller(Countdown', Countdown)
  <1>1. Phase' < Phase
    BY DEF Main, StartRunning, StartAnalysis, Analyze, print_averages, Phase
  <1> QED
    BY <1>1, FallsIf

\* A job is loaded, or runs to its end.
LEMMA JobsFall ==
  ASSUME IInv, IInv', [Next]_vars, Loads \/ Finishes
  PROVE  Smaller(Countdown', Countdown)
  <1>1. Jobs' = Jobs
    BY SameArguments, SameOrder
  <1>2. /\ Phase' = Phase
        /\ JobsToGo' \subseteq JobsToGo /\ JobsToGo' # JobsToGo
    <2>1. CASE Loads
      <3>1. pc \in {"load", "add_job_sjf"} /\ pc' = "load"
        BY <2>1 DEF Loads, add_job_to_back, add_job_to_front, add_job_sjf, ReadLine
      <3>2. Phase = 4 /\ Phase' = 4
        BY <3>1 DEF Phase
      <3>3. id \in Jobs \ Loaded /\ Loaded' = Loaded \cup {id}
        BY <2>1, LoadsSets, QueuedAreJobs DEF IInv
      <3> QED
        BY <1>1, <3>2, <3>3 DEF JobsToGo
    <2>2. CASE Finishes
      <3>1. pc = "run" /\ pc' \in {"add_completed", "removeFromList"}
        BY <2>2 DEF Finishes, RunJob, RunLastSlice, Turn
      <3>2. Phase = 3 /\ Phase' = 3
        BY <3>1 DEF Phase
      <3>3. tp \in Jobs \ Ran /\ Ran' = Ran \cup {tp}
        BY <2>2, FinishesSets DEF IInv
      <3> QED
        BY <1>1, <3>2, <3>3 DEF JobsToGo
    <2> QED
      BY <2>1, <2>2
  <1>3. Cardinality(JobsToGo)' < Cardinality(JobsToGo)
    BY <1>2, ToGoIsFinite, Fewer
  <1> QED
    BY <1>2, <1>3, FallsIf

\* What a step that neither loads nor finishes a job leaves alone.
LEMMA SameJobsToGo ==
  ASSUME IInv, [Next]_vars, Phase' = Phase, Loaded' = Loaded, Ran' = Ran
  PROVE  /\ Jobs' = Jobs /\ JobsToGo' = JobsToGo
         /\ Cardinality(JobsToGo)' = Cardinality(JobsToGo)
         /\ UNCHANGED length => LengthToGo' = LengthToGo
  <1>1. Jobs' = Jobs
    BY SameArguments, SameOrder
  <1> QED
    BY <1>1 DEF JobsToGo, LengthToGo

\* The job in hand is one stage further.
LEMMA StageFalls ==
  ASSUME IInv, [Next]_vars,
         StartSeek \/ Advance \/ Removes \/ StartAddAfter \/ Adds
  PROVE  Smaller(Countdown', Countdown)
  <1>1. Phase' = Phase /\ Stage' < Stage
    <2>1. CASE StartSeek \/ Advance \/ Removes \/ StartAddAfter
      BY <2>1 DEF StartSeek, ReadLine, Advance, Removes, RemoveFirst, RemoveNext,
                  StartAddAfter, Phase, Stage
    <2>2. CASE Adds
      <3>1. pc \in {"add_completed", "add_after"} /\ pc' \in {"run", "advance"}
        BY <2>2 DEF Adds, AddFirst, AddToFront, AddBetween, AddLast, Added
      <3> QED
        BY <3>1 DEF Phase, Stage
    <2> QED
      BY <2>1, <2>2
  <1>2. Loaded' = Loaded /\ Ran' = Ran
    <2>1. CASE StartSeek \/ StartAddAfter
      BY <2>1, StaysSets DEF IInv, Stays
    <2>2. CASE Advance
      BY <2>2, DequeuesSets DEF IInv, Dequeues
    <2>3. CASE Removes \/ Adds
      BY <2>3, RemovesSets, AddsSets DEF IInv
    <2> QED
      BY <2>1, <2>2, <2>3
  <1> QED
    BY <1>1, <1>2, SameJobsToGo, FallsIf

\* A time slice is taken off the length of a job that does not fit in it.  A
\* slice of 0 takes nothing off, but then no job that can end has a length.
LEMMA LengthFalls ==
  ASSUME IInv, [Next]_vars, CanEnd, RunSlice
  PROVE  Smaller(Countdown', Countdown)
  <1>1. /\ pc = "run" /\ pc' = pc /\ policy = "RR" /\ tp # NULL
        /\ length[tp] > time_slice
        /\ length' = [length EXCEPT ![tp] = @ - time_slice]
    BY DEF RunSlice, Turn
  <1>2. Phase' = Phase /\ Stage' = Stage
    BY <1>1 DEF Phase, Stage
  <1>3. Loaded' = Loaded /\ Ran' = Ran
    BY StaysSets DEF IInv, Stays
  <1>4. /\ tp \in Jobs \ Ran /\ tp \in Loaded /\ tp \in Job
        /\ length[tp] \in Nat /\ time_slice \in Nat /\ workload[tp] \in Nat
    <2>1. tp \in Loaded \ Ran /\ Loaded \subseteq Jobs /\ Jobs \subseteq Job
      BY <1>1, QueuedAreJobs, JobsAreJobs DEF IInv, RunningInv, TypeOK
    <2> QED
      BY <2>1, SchedulerAssumption, JobsAreJobs DEF IInv, TypeOK
  <1>5. length[tp] <= workload[tp]
    BY <1>1, <1>4 DEF IInv, TypeOK, NotRunInv, HasRunInv, HasRunFacts
  <1>6. time_slice > 0
    BY <1>1, <1>4, <1>5 DEF CanEnd
  <1>7. LengthToGo' < LengthToGo
    <2> DEFINE S == Jobs \ Ran
    <2>1. IsFiniteSet(S) /\ \A j \in S : length[j] \in Nat
      BY ToGoIsFinite
    <2>2. /\ length'[tp] = length[tp] - time_slice
          /\ \A j \in S \ {tp} : length'[j] = length[j]
          /\ length'[tp] \in Nat
      BY <1>1, <1>4, JobsAreJobs DEF IInv, TypeOK
    <2>3. LengthToGo' = SumOver(length', S) /\ LengthToGo = SumOver(length, S)
      BY <1>2, <1>3, SameJobsToGo DEF LengthToGo
    <2> HIDE DEF S
    <2>4. IsFiniteSet(S \ {tp}) /\ tp \in S
      BY <1>4, <2>1, FS_Subset DEF S
    <2>5. SumOver(length, S) = length[tp] + SumOver(length, S \ {tp})
      BY <2>1, <2>4, SumRemove
    <2>6. \A j \in S : length'[j] \in Nat
      BY <2>1, <2>2
    <2>7. SumOver(length', S) = length'[tp] + SumOver(length', S \ {tp})
      BY <2>1, <2>4, <2>6, SumRemove
    <2>8. SumOver(length', S \ {tp}) = SumOver(length, S \ {tp})
      BY <2>2, <2>1, <2>4, <2>6, SumSame
    <2>9. SumOver(length, S \ {tp}) \in Nat
      BY <2>1, <2>4, SumIsNat
    <2> QED
      BY <1>4, <1>6, <2>2, <2>3, <2>5, <2>7, <2>8, <2>9
  <1> QED
    BY <1>2, <1>3, <1>7, SameJobsToGo, FallsIf

\* A walk of a list is one node further, or the next round of RR begins.
Walks ==
  \/ Seek \/ NextRound \/ MoveOn
  \/ RemoveNext /\ next[cursor] # tp
  \/ (Analyze \/ print_averages) /\ tp # NULL

\* removeFromList finds its job before the list ends.
LEMMA NotTheLast ==
  ASSUME IInv, pc = "removeFromList", notCompleted.first # tp
  PROVE  cursor \in Queued /\ next[cursor] \in Queued /\ next[cursor] # NULL
  <1>1. Chain(next, notCompleted.first, Queued) /\ cursor \in Queued
        /\ cursor < tp /\ policy = "RR" /\ tp \in Ran /\ Moving = {tp}
    BY ListsAreChains DEF IInv, RunningInv, Moving
  <1>2. tp \in Queued
    BY <1>1 DEF IInv, RunningInv, Queued, Finished, Loaded
  <1>3. Precedes(cursor, tp)
    BY <1>1 DEF Precedes
  <1>4. next[cursor] \in Queued /\ Queued \subseteq Job
    BY <1>1, <1>2, <1>3, QueuedAreJobs, JobsAreJobs DEF Chain, IInv, TypeOK
  <1> QED
    BY <1>1, <1>4

LEMMA NodesFall ==
  ASSUME IInv, [Next]_vars, Walks
  PROVE  Smaller(Countdown', Countdown)
  <1>1. Stays
    BY DEF Walks, Stays
  <1>2. /\ Loaded' = Loaded /\ Queued' = Queued /\ Finished' = Finished
        /\ Ran' = Ran /\ UNCHANGED <<next, notCompleted, completed, id>>
    BY <1>1, StaysSets DEF IInv
  <1>3. pc' = pc /\ UNCHANGED length
    BY DEF Walks, Seek, NextRound, MoveOn, RemoveNext, Analyze, print_averages
  <1>4. Phase' = Phase /\ Stage' = Stage
    BY <1>3 DEF Phase, Stage
  <1>5. Jobs' = Jobs /\ \A i, j : Precedes(i, j)' <=> Precedes(i, j)
    BY SameArguments, SameOrder
  <1>6. \A j, S : After(j, S)' = After(j, S)
    BY <1>5 DEF After
  <1>7. /\ workload \in Workloads /\ Queued \subseteq Jobs
        /\ Finished \subseteq Jobs /\ Jobs \subseteq Job
        /\ IsFiniteSet(Jobs) /\ IsFiniteSet(Queued) /\ IsFiniteSet(Finished)
        /\ Chain(next, notCompleted.first, Queued)
        /\ Chain(next, completed.first, Finished)
    <2>1. workload \in Workloads /\ Queued \subseteq Jobs /\ Finished \subseteq Jobs
      BY QueuedAreJobs DEF IInv, TypeOK
    <2>2. IsFiniteSet(Jobs) /\ Jobs \subseteq Job
      BY <2>1, JobsAreFinite, JobsAreJobs
    <2>3. IsFiniteSet(Queued) /\ IsFiniteSet(Finished)
      BY <2>1, <2>2, FS_Subset
    <2> QED
      BY <2>1, <2>2, <2>3, ListsAreChains DEF IInv
  <1>8. Cardinality(NodesToGo)' < Cardinality(NodesToGo)
    <2>1. CASE Seek
      <3>1. /\ cursor \in Queued /\ next[cursor] # NULL
            /\ cursor' = next[cursor] /\ pc = "add_job_sjf"
        BY <2>1, QueuedAreJobs
           DEF Seek, NextIsNoLonger, IInv, LoadingInv, Loading
      <3>2. /\ NodesToGo = After(cursor, Queued)
            /\ NodesToGo' = After(next[cursor], Queued)
        BY <1>2, <1>3, <1>6, <3>1 DEF NodesToGo
      <3> QED
        BY <1>7, <3>1, <3>2, WalkShortens
    <2>2. CASE RemoveNext /\ next[cursor] # tp
      <3>1. /\ cursor \in Queued /\ next[cursor] # NULL
            /\ cursor' = next[cursor] /\ pc = "removeFromList"
        BY <2>2, NotTheLast DEF RemoveNext
      <3>2. /\ NodesToGo = After(cursor, Queued)
            /\ NodesToGo' = After(next[cursor], Queued)
        BY <1>2, <1>3, <1>6, <3>1 DEF NodesToGo
      <3> QED
        BY <1>7, <3>1, <3>2, WalkShortens
    <2>3. CASE MoveOn
      <3>1. /\ cursor \in Finished /\ next[cursor] # NULL
            /\ cursor' = next[cursor] /\ pc = "add_after"
        BY <2>3 DEF MoveOn, IInv, RunningInv
      <3>2. /\ NodesToGo = After(cursor, Finished)
            /\ NodesToGo' = After(next[cursor], Finished)
        BY <1>2, <1>3, <1>6, <3>1 DEF NodesToGo
      <3> QED
        BY <1>7, <3>1, <3>2, WalkShortens
    <2>4. CASE NextRound
      <3>1. /\ pc = "run" /\ pc' = "run" /\ tp = NULL /\ tp' # NULL
        BY <2>4 DEF NextRound
      <3>2. NodesToGo = {NULL} /\ NodesToGo' = {}
        BY <3>1 DEF NodesToGo
      <3>3. Cardinality(NodesToGo) = 1 /\ Cardinality(NodesToGo)' = 0
        BY <3>2, FS_Singleton, FS_EmptySet
      <3> QED
        BY <3>3
    <2>5. CASE (Analyze \/ print_averages) /\ tp # NULL
      <3>1. /\ pc \in {"analyze", "print_averages"} /\ tp # NULL
            /\ tp' = next[tp]
        BY <2>5 DEF Analyze, print_averages
      <3>2. Finished = Jobs /\ tp \in Jobs
        <4>1. Ran = Jobs /\ tp \in Jobs
          BY <3>1 DEF IInv, RunningInv, Analyzing
        <4> QED
          BY <3>1, <4>1 DEF Finished, Moving
      <3>3. /\ NodesToGo = {j \in Jobs : ~Precedes(j, tp)}
            /\ NodesToGo' = {j \in Jobs : next[tp] # NULL /\ ~Precedes(j, next[tp])}
        <4>1. NodesToGo = {j \in Jobs : tp # NULL /\ ~Precedes(j, tp)}
          BY <3>1 DEF NodesToGo
        <4>2. NodesToGo' = {j \in Jobs' : tp' # NULL /\ ~Precedes(j, tp)'}
          BY <1>3, <3>1 DEF NodesToGo
        <4>3. \A j : Precedes(j, tp)' <=> Precedes(j, next[tp])
          BY <1>5, <3>1 DEF Precedes
        <4> QED
          BY <1>5, <3>1, <4>1, <4>2, <4>3
      <3>4. tp \in NodesToGo /\ tp \notin NodesToGo' /\ NodesToGo' \subseteq NodesToGo
        BY <1>7, <3>1, <3>2, <3>3, StrictOrder DEF Chain
      <3> QED
        BY <3>4, ToGoIsFinite, Fewer
    <2> QED
      BY <2>1, <2>2, <2>3, <2>4, <2>5 DEF Walks
  <1>9. Cardinality(JobsToGo)' = Cardinality(JobsToGo) /\ LengthToGo' = LengthToGo
    BY <1>2, <1>3, <1>4, SameJobsToGo
  <1> QED
    BY <1>4, <1>8, <1>9, FallsIf

LEMMA StepFalls ==
  ASSUME IInv, CanEnd, Next
  PROVE  Smaller(Countdown', Countdown)
  <1>1. [Next]_vars /\ IInv'
    BY StepInv
  <1>2. CASE Load
    BY <1>1, <1>2, JobsFall, StageFalls, NodesFall DEF Load, Loads, Walks
  <1>3. CASE Run
    <2>1. CASE StartRunning  BY <2>1, PhaseFalls
    <2>2. CASE RunJob \/ RunLastSlice  BY <1>1, <2>2, JobsFall DEF Finishes
    <2>3. CASE Advance \/ RemoveFirst \/ (RemoveNext /\ next[cursor] = tp)
      BY <1>1, <2>3, StageFalls DEF Removes
    <2>4. CASE NextRound \/ (RemoveNext /\ next[cursor] # tp)
      BY <1>1, <2>4, NodesFall DEF Walks
    <2>5. CASE RunSlice  BY <1>1, <2>5, LengthFalls
    <2> QED
      BY <1>3, <2>1, <2>2, <2>3, <2>4, <2>5 DEF Run
  <1>4. CASE add_job_responseTime_ascending
    BY <1>1, <1>4, StageFalls, NodesFall
       DEF add_job_responseTime_ascending, Adds, Walks
  <1>5. CASE Analysis
    BY <1>1, <1>5, PhaseFalls, NodesFall DEF Analysis, Walks
  <1>6. CASE Main
    BY <1>6, PhaseFalls
  <1> QED
    BY <1>2, <1>3, <1>4, <1>5, <1>6 DEF Next
-----------------------------------------------------------------------------
(* The results. *)

\* Each step of the simulation, every turn of every loop of the two files, is
\* a step of the countdown.
CountsDown == [][CanEnd => Smaller(Countdown', Countdown)]_vars

\* What is behind Terminates: unless the time slice is 0 and a job has a length,
\* every turn of a loop brings the end of the program closer.
THEOREM EveryStepCountsDown == Spec => CountsDown
  <1>1. IInv /\ [Next]_vars => [CanEnd => Smaller(Countdown', Countdown)]_vars
    BY StepFalls
  <1> QED
    BY <1>1, SpecInv, PTL DEF Spec, CountsDown

\* There is always a countdown, and no countdown goes on for ever.  With the
\* theorem above: unless the time slice is 0 and a job has a length, the program
\* takes finitely many steps.
THEOREM CountdownsEnd ==
  /\ Spec => [](Countdown \in Countdowns)
  /\ IsWellFoundedOn({c \in Countdowns \X Countdowns : Smaller(c[1], c[2])},
                     Countdowns)
  <1>1. Spec => [](Countdown \in Countdowns)
    BY SpecInv, CountdownType, PTL
  <1>2. IsWellFoundedOn({c \in Countdowns \X Countdowns : Smaller(c[1], c[2])},
                        Countdowns)
    <2> DEFINE Less == OpToRel(<, Nat)
    <2>1. IsWellFoundedOn(Less, Nat)
      BY NatLessThanWellFounded, Zenon
    <2>2. \A x, y \in Nat : <<x, y>> \in Less <=> x < y
      BY DEF OpToRel
    <2> HIDE DEF Less
    <2>3. IsWellFoundedOn(LexProductOrdering(Less, Nat, 5), [1 .. 5 -> Nat])
      BY <2>1, WFLexProductOrdering
    <2>4. {c \in Countdowns \X Countdowns : Smaller(c[1], c[2])}
            = LexProductOrdering(Less, Nat, 5)
      BY <2>2 DEF LexProductOrdering, Countdowns, Smaller
    <2> QED
      BY <2>3, <2>4 DEF Countdowns
  <1> QED
    BY <1>1, <1>2

\* The nodes the code reads or writes the fields of, without a test.
NoNullFollowed ==
  /\ pc \in {"removeFromList", "add_completed", "add_after", "advance"} =>
       tp \in Jobs
  /\ pc = "add_job_sjf" => cursor \in Jobs
  /\ pc = "removeFromList" /\ notCompleted.first # tp =>
       cursor \in Jobs /\ next[cursor] \in Jobs
  /\ pc = "add_after" => cursor \in Jobs

\* No walk of a list runs off its end: each pointer that add_job_sjf,
\* removeFromList and add_job_responseTime_ascending follow leads to a job.
THEOREM NoNullIsFollowed == Spec => []NoNullFollowed
  <1>1. IInv => NoNullFollowed
    <2> SUFFICES ASSUME IInv PROVE NoNullFollowed
      OBVIOUS
    <2>1. /\ Loaded \subseteq Jobs /\ Ran \subseteq Jobs
          /\ Queued \subseteq Jobs /\ Finished \subseteq Jobs
      BY QueuedAreJobs DEF IInv
    <2>2. pc \in {"removeFromList", "add_completed", "add_after", "advance"} =>
            tp \in Ran
      BY DEF IInv, RunningInv, Moving
    <2>3. pc = "add_job_sjf" => cursor \in Loaded
      BY DEF IInv, LoadingInv
    <2>4. pc = "add_after" => cursor \in Finished
      BY DEF IInv, RunningInv
    <2> QED
      BY <2>1, <2>2, <2>3, <2>4, NotTheLast DEF NoNullFollowed
  <1> QED
    BY <1>1, SpecInv, PTL
=============================================================================
