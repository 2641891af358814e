--------------------------- MODULE SchedulerProofs --------------------------
(***************************************************************************)
(* Proofs about Scheduler: its lists, its times and its report are what    *)
(* they should be for every workload, time slice and number of jobs, and   *)
(* it carries out the policies that Dispatch states.                       *)
(***************************************************************************)
EXTENDS Scheduler, FiniteSetTheorems, TLAPS
-----------------------------------------------------------------------------
(* The inductive invariant. *)

Loaded == 0 .. id - 1

Loading == pc \in {"main", "load", "add_job_sjf", "exit"}

Analyzing == pc \in {"analyze", "print_averages", "done"}

\* Before the first job runs.
LoadingInv ==
  /\ id - 1 \in Jobs \cup {-1}
  /\ pc = "main" => id = 0 /\ notCompleted = EmptyList
  /\ Loading =>
       /\ Ran = {}
       /\ tp = NULL
       /\ temp = NULL
       /\ completed = EmptyList
       /\ currentTime = 0
       /\ \A j \in Job : hasRun[j] = 0
  /\ pc = "add_job_sjf" =>
       /\ policy = "SJF"
       /\ id \in Jobs
       /\ cursor \in Loaded
       /\ length[cursor] <= workload[id]
  /\ ~Loading => id \notin Jobs

\* Where tp, temp and the cursor are while the jobs run.
RunningInv ==
  /\ Ran \subseteq Loaded
  /\ pc = "run" => tp \in (Loaded \ Ran) \cup {NULL}
  /\ pc = "run" /\ policy # "RR" =>
       IF tp = NULL THEN Ran = Loaded ELSE \A k \in Queued : Precedes(tp, k)
  /\ pc = "advance" => policy # "RR" /\ tp \in Ran
  /\ Moving # {} => tp \in Ran
  /\ pc = "removeFromList" =>
       /\ policy = "RR"
       /\ temp = next[tp]
       /\ notCompleted.first # tp => cursor \in Queued /\ cursor < tp
  /\ pc \in {"add_completed", "add_after"} /\ policy = "RR" =>
       IsLeast(temp, After(tp, Queued))
  /\ pc = "add_after" =>
       cursor \in Finished /\ responseTime[cursor] <= responseTime[tp]
  /\ Analyzing => Ran = Jobs /\ tp \in Jobs \cup {NULL}

\* The response times of the completed list and of the job that joins it are
\* in the order of the policy.
ResponseOrder ==
  Moving # {} =>
    \A k \in Finished :
      /\ Precedes(k, tp) => responseTime[k] <= responseTime[tp]
      /\ Precedes(tp, k) => responseTime[tp] < responseTime[k]

\* FIFO and SJF: one job after the other.
SequentialInv ==
  policy # "RR" =>
    /\ \A j \in Loaded : length[j] = workload[j]
    /\ \A j \in Job \ Ran : responseTime[j] = Unset
    /\ \A j \in Ran :
         /\ responseTime[j] \in 0 .. currentTime
         /\ turnaroundTime[j] = responseTime[j] + workload[j]
         /\ waitTime[j] = responseTime[j]
         /\ \A k \in Jobs \ Ran : Precedes(j, k)

\* RR: a job that has not run is as it was loaded.
NotRunInv ==
  policy = "RR" =>
    \A j \in Job : hasRun[j] = 0 =>
      /\ j \notin Ran
      /\ responseTime[j] = Unset
      /\ waitTime[j] = 0
      /\ lastTime[j] = 0
      /\ j \in Loaded => length[j] = workload[j]

\* RR: a job that has run accounts for its waiting.
HasRunFacts(j) ==
  /\ j \in Loaded
  /\ responseTime[j] \in 0 .. waitTime[j]
  /\ responseTime[j] <= j * time_slice
  /\ responseTime[j] <= currentTime
  /\ j \in Ran =>
       /\ waitTime[j] = turnaroundTime[j] - workload[j]
       /\ time_slice = 0 => workload[j] = 0
  /\ j \notin Ran =>
       /\ lastTime[j] <= currentTime
       /\ waitTime[j] = lastTime[j] - (workload[j] - length[j])
       /\ length[j] <= workload[j]
       /\ workload[j] > time_slice
       /\ time_slice = 0 => length[j] = workload[j]
       /\ responseTime[j] + time_slice <= currentTime

HasRunInv ==
  policy = "RR" => \A j \in Job : hasRun[j] = 1 => HasRunFacts(j)

\* RR: the first turns are in the order of arrival, a slice apart when the
\* job did not finish.
FirstTurnsInv ==
  policy = "RR" =>
    \A i, j \in Job : i < j /\ hasRun[j] = 1 =>
      /\ hasRun[i] = 1
      /\ responseTime[i] <= responseTime[j]
      /\ i \notin Ran => responseTime[i] + time_slice <= responseTime[j]

\* RR: the first round is over, or it has come to the job whose turn is next.
RoundInv ==
  policy = "RR" /\ ~Analyzing =>
    \/ \A j \in Loaded : hasRun[j] = 1
    \/ /\ NextTurn = NULL
       /\ currentTime = 0
       /\ \A j \in Loaded : hasRun[j] = 0
    \/ /\ NextTurn # NULL
       /\ currentTime <= NextTurn * time_slice
       /\ \A j \in Loaded : hasRun[j] = 1 <=> j < NextTurn

\* The jobs printed so far come before tp.
ReportInv ==
  /\ pc \notin {"analyze", "print_averages", "done"} => report = <<>>
  /\ \A i, k \in DOMAIN report : i < k => Precedes(report[i], report[k])
  /\ \A i \in DOMAIN report : report[i] \in Jobs
  /\ pc = "analyze" =>
       /\ tp # NULL => \A i \in DOMAIN report : Precedes(report[i], tp)
       /\ \A j \in Jobs : tp = NULL \/ Precedes(j, tp) =>
            \E i \in DOMAIN report : report[i] = j
  /\ pc \in {"print_averages", "done"} =>
       \A j \in Jobs : \E i \in DOMAIN report : report[i] = j

IInv ==
  /\ TypeOK
  /\ LoadingInv
  /\ RunningInv
  /\ ListsInOrder
  /\ LastIsBack
  /\ ResponseOrder
  /\ SequentialInv
  /\ NotRunInv
  /\ HasRunInv
  /\ FirstTurnsInv
  /\ RoundInv
  /\ ReportInv
-----------------------------------------------------------------------------
(* The order of a policy, and lists in that order. *)

USE DEF Job, NULL, Unset, Policies

LEMMA JobsAreJobs ==
  ASSUME workload \in Workloads
  PROVE  /\ Jobs \subseteq Job
         /\ \A j \in Jobs, i \in Nat : i < j => i \in Jobs
         /\ workload \in [Jobs -> Nat]
  <1>1. PICK n \in 0 .. MaxJobs : workload \in [0 .. n - 1 -> Lengths]
    BY DEF Workloads
  <1>2. Jobs = 0 .. n - 1
    BY <1>1 DEF Jobs
  <1>3. Jobs \subseteq Job /\ \A j \in Jobs, i \in Nat : i < j => i \in Jobs
    BY <1>2, SchedulerAssumption
  <1>4. workload \in [Jobs -> Lengths]
    BY <1>1, <1>2
  <1>5. workload \in [Jobs -> Nat]
    BY <1>4, SchedulerAssumption
  <1> QED
    BY <1>3, <1>5

LEMMA JobsAreFinite ==
  ASSUME workload \in Workloads
  PROVE  /\ IsFiniteSet(Jobs)
         /\ Cardinality(Jobs) \in Nat
         /\ Jobs = 0 .. Cardinality(Jobs) - 1
  <1>1. PICK n \in 0 .. MaxJobs : workload \in [0 .. n - 1 -> Lengths]
    BY DEF Workloads
  <1>2. Jobs = 0 .. n - 1 /\ n \in Nat
    BY <1>1, SchedulerAssumption DEF Jobs
  <1>3. IsFiniteSet(Jobs) /\ Cardinality(Jobs) = n
    BY <1>2, FS_Interval
  <1> QED
    BY <1>2, <1>3

LEMMA StrictOrder ==
  ASSUME workload \in Workloads
  PROVE  /\ \A i \in Jobs : ~Precedes(i, i)
         /\ \A i, j \in Jobs : i = j \/ Precedes(i, j) \/ Precedes(j, i)
         /\ \A i, j, k \in Jobs :
              Precedes(i, j) /\ Precedes(j, k) => Precedes(i, k)
  <1> SUFFICES ASSUME NEW i \in Jobs, NEW j \in Jobs, NEW k \in Jobs
      PROVE  /\ ~Precedes(i, i)
             /\ i = j \/ Precedes(i, j) \/ Precedes(j, i)
             /\ Precedes(i, j) /\ Precedes(j, k) => Precedes(i, k)
    OBVIOUS
  <1>1. /\ i \in Int /\ j \in Int /\ k \in Int
        /\ workload[i] \in Int /\ workload[j] \in Int /\ workload[k] \in Int
    BY JobsAreJobs
  <1> QED
    BY <1>1 DEF Precedes

LEMMA SameOrder ==
  ASSUME UNCHANGED arguments
  PROVE  /\ Jobs' = Jobs
         /\ \A i, j : Precedes(i, j)' <=> Precedes(i, j)
  BY DEF arguments, Jobs, Precedes

\* IsChain for any next pointers, with the bounds of its sets unfolded.
Chain(nx, first, S) ==
  /\ \/ first = NULL /\ S = {}
     \/ first \in S /\ \A k \in S : k = first \/ Precedes(first, k)
  /\ \A j \in S :
       \/ nx[j] = NULL /\ \A k \in S : ~Precedes(j, k)
       \/ /\ nx[j] \in S
          /\ Precedes(j, nx[j])
          /\ \A k \in S : Precedes(j, k) => k = nx[j] \/ Precedes(nx[j], k)

LEMMA LeastAfter ==
  ASSUME NEW S \in SUBSET Job, NEW j
  PROVE  \A n : IsLeast(n, After(j, S)) <=>
           \/ n = NULL /\ \A k \in S : ~Precedes(j, k)
           \/ /\ n \in S
              /\ Precedes(j, n)
              /\ \A k \in S : Precedes(j, k) => k = n \/ Precedes(n, k)
  <1> TAKE n
  <1> DEFINE A == After(j, S)
  <1>1. CASE A = {}
    <2>1. \A k \in S : ~Precedes(j, k)
      BY <1>1 DEF After
    <2>2. IsLeast(n, A) <=> n = NULL
      BY <1>1 DEF IsLeast
    <2> QED
      BY <2>1, <2>2
  <1>2. CASE A # {}
    <2>1. PICK k \in S : Precedes(j, k)
      BY <1>2 DEF After
    <2>2. IsLeast(n, A) <=> n \in A /\ \A m \in A \ {n} : Precedes(n, m)
      BY <1>2 DEF IsLeast
    <2> QED
      BY <2>1, <2>2 DEF After
  <1> QED
    BY <1>1, <1>2

LEMMA IsChainIsChain ==
  ASSUME NEW S \in SUBSET Job, NEW first
  PROVE  IsChain(first, S) <=> Chain(next, first, S)
  <1>1. IsLeast(first, S) <=>
          \/ first = NULL /\ S = {}
          \/ first \in S /\ \A k \in S : k = first \/ Precedes(first, k)
    BY DEF IsLeast
  <1>2. ASSUME NEW j \in S
        PROVE  IsLeast(next[j], After(j, S)) <=>
                 \/ next[j] = NULL /\ \A k \in S : ~Precedes(j, k)
                 \/ /\ next[j] \in S
                    /\ Precedes(j, next[j])
                    /\ \A k \in S : Precedes(j, k) =>
                         k = next[j] \/ Precedes(next[j], k)
    BY LeastAfter
  <1> QED
    BY <1>1, <1>2 DEF IsChain, Chain

LEMMA ChainAgrees ==
  ASSUME NEW S, NEW first, NEW nx, NEW mx, Chain(nx, first, S),
         \A j \in S : mx[j] = nx[j]
  PROVE  Chain(mx, first, S)
  BY DEF Chain

LEMMA ChainDropFirst ==
  ASSUME workload \in Workloads, NEW S \in SUBSET Jobs, NEW first, NEW nx,
         Chain(nx, first, S), first # NULL
  PROVE  Chain(nx, nx[first], S \ {first})
  BY StrictOrder, JobsAreJobs DEF Chain

LEMMA ChainDropNext ==
  ASSUME workload \in Workloads, NEW S \in SUBSET Jobs, NEW first,
         NEW nx \in [Job -> Job \cup {NULL}], Chain(nx, first, S),
         NEW c \in S, NEW t \in S, nx[c] = t
  PROVE  Chain([nx EXCEPT ![c] = nx[t], ![t] = NULL], first, S \ {t})
  <1> DEFINE mx == [nx EXCEPT ![c] = nx[t], ![t] = NULL]
             T  == S \ {t}
  <1>1. c # t /\ Precedes(c, t) /\ c \in T /\ first # t
    BY StrictOrder, JobsAreJobs DEF Chain
  <1>2. mx[c] = nx[t] /\ \A j \in T \ {c} : mx[j] = nx[j]
    BY <1>1, JobsAreJobs
  <1>3. \/ first = NULL /\ T = {}
        \/ first \in T /\ \A k \in T : k = first \/ Precedes(first, k)
    BY <1>1 DEF Chain
  <1>4. ASSUME NEW j \in T
        PROVE  \/ mx[j] = NULL /\ \A k \in T : ~Precedes(j, k)
               \/ /\ mx[j] \in T
                  /\ Precedes(j, mx[j])
                  /\ \A k \in T : Precedes(j, k) => k = mx[j] \/ Precedes(mx[j], k)
    <2>1. CASE j = c
      BY <1>1, <1>2, <2>1, StrictOrder DEF Chain
    <2>2. CASE j # c
      <3>1. nx[j] # t
        <4>1. CASE Precedes(j, c)
          <5>1. c = nx[j] \/ Precedes(nx[j], c)
            BY <1>1, <4>1, JobsAreJobs DEF Chain
          <5> QED
            BY <1>1, <5>1, StrictOrder
        <4>2. CASE Precedes(c, j)
          <5>1. j = t \/ Precedes(t, j)
            BY <1>1, <4>2, JobsAreJobs DEF Chain
          <5>2. nx[j] # NULL => Precedes(j, nx[j])
            BY DEF Chain
          <5> QED
            BY <5>1, <5>2, StrictOrder, JobsAreJobs
        <4> QED
          BY <2>2, <4>1, <4>2, StrictOrder
      <3> QED
        BY <1>2, <2>2, <3>1 DEF Chain
    <2> QED
      BY <2>1, <2>2
  <1> HIDE DEF mx, T
  <1>5. Chain(mx, first, T)
    BY <1>3, <1>4 DEF Chain
  <1> QED
    BY <1>5 DEF mx, T

LEMMA ChainAddFirst ==
  ASSUME workload \in Workloads, NEW S \in SUBSET Jobs, NEW first,
         NEW nx \in [Job -> Job \cup {NULL}], Chain(nx, first, S),
         NEW t \in Jobs \ S, \A k \in S : Precedes(t, k)
  PROVE  Chain([nx EXCEPT ![t] = first], t, S \cup {t})
  <1> DEFINE mx == [nx EXCEPT ![t] = first]
             T  == S \cup {t}
  <1>1. mx[t] = first /\ \A j \in S : mx[j] = nx[j]
    BY JobsAreJobs
  <1>2. ASSUME NEW j \in T
        PROVE  \/ mx[j] = NULL /\ \A k \in T : ~Precedes(j, k)
               \/ /\ mx[j] \in T
                  /\ Precedes(j, mx[j])
                  /\ \A k \in T : Precedes(j, k) => k = mx[j] \/ Precedes(mx[j], k)
    <2>1. CASE j = t
      BY <1>1, <2>1, StrictOrder DEF Chain
    <2>2. CASE j \in S
      BY <1>1, <2>2, StrictOrder DEF Chain
    <2> QED
      BY <2>1, <2>2
  <1>3. \A k \in T : k = t \/ Precedes(t, k)
    OBVIOUS
  <1>4. t \in T
    OBVIOUS
  <1> HIDE DEF mx, T
  <1>5. Chain(mx, t, T)
    BY <1>2, <1>3, <1>4 DEF Chain
  <1> QED
    BY <1>5 DEF mx, T

LEMMA ChainAddAfter ==
  ASSUME workload \in Workloads, NEW S \in SUBSET Jobs, NEW first,
         NEW nx \in [Job -> Job \cup {NULL}], Chain(nx, first, S),
         NEW t \in Jobs \ S, NEW c \in S, Precedes(c, t),
         nx[c] # NULL => Precedes(t, nx[c])
  PROVE  Chain([nx EXCEPT ![c] = t, ![t] = nx[c]], first, S \cup {t})
  <1> DEFINE mx == [nx EXCEPT ![c] = t, ![t] = nx[c]]
             T  == S \cup {t}
  <1>1. mx[c] = t /\ mx[t] = nx[c] /\ \A j \in S \ {c} : mx[j] = nx[j]
    BY JobsAreJobs
  <1>2. first \in T /\ \A k \in T : k = first \/ Precedes(first, k)
    BY StrictOrder DEF Chain
  <1>3. ASSUME NEW k \in S, Precedes(c, k)
        PROVE  Precedes(t, k)
    <2>1. nx[c] \in S /\ (k = nx[c] \/ Precedes(nx[c], k))
      BY <1>3 DEF Chain
    <2>2. Precedes(t, nx[c])
      BY <2>1, JobsAreJobs
    <2> QED
      BY <2>1, <2>2, StrictOrder
  <1>4. \A k \in S : Precedes(k, t) => k = c \/ Precedes(k, c)
    BY <1>3, StrictOrder DEF Chain
  <1>5. ASSUME NEW j \in T
        PROVE  \/ mx[j] = NULL /\ \A k \in T : ~Precedes(j, k)
               \/ /\ mx[j] \in T
                  /\ Precedes(j, mx[j])
                  /\ \A k \in T : Precedes(j, k) => k = mx[j] \/ Precedes(mx[j], k)
    <2>1. CASE j = c
      BY <1>1, <1>3, <2>1, StrictOrder DEF Chain
    <2>2. CASE j = t
      <3>1. \A k \in T : Precedes(t, k) => k \in S /\ Precedes(c, k)
        BY StrictOrder
      <3>2. CASE nx[c] = NULL
        BY <1>1, <2>2, <3>1, <3>2, JobsAreJobs DEF Chain
      <3>3. CASE nx[c] # NULL
        BY <1>1, <2>2, <3>1, <3>3 DEF Chain
      <3> QED
        BY <3>2, <3>3
    <2>3. CASE j \in S /\ j # c
      <3>1. mx[j] = nx[j]
        BY <1>1, <2>3
      <3>2. Precedes(j, t) => Precedes(j, c)
        BY <1>4, <2>3
      <3>3. CASE nx[j] = NULL
        BY <2>3, <3>1, <3>2, <3>3, JobsAreJobs DEF Chain
      <3>4. CASE nx[j] # NULL
        <4>1. nx[j] \in S /\ Precedes(j, nx[j])
          BY <2>3, <3>4 DEF Chain
        <4>2. Precedes(j, c) => c = nx[j] \/ Precedes(nx[j], c)
          BY <2>3, <3>4 DEF Chain
        <4>3. Precedes(j, t) => Precedes(nx[j], t)
          BY <3>2, <4>1, <4>2, StrictOrder
        <4> QED
          BY <2>3, <3>1, <3>4, <4>1, <4>3 DEF Chain
      <3> QED
        BY <3>3, <3>4
    <2> QED
      BY <2>1, <2>2, <2>3
  <1> HIDE DEF mx, T
  <1>6. Chain(mx, first, T)
    BY <1>2, <1>5 DEF Chain
  <1> QED
    BY <1>6 DEF mx, T

-----------------------------------------------------------------------------
(* The two lists. *)

LEMMA QueuedAreJobs ==
  ASSUME TypeOK, LoadingInv, RunningInv
  PROVE  /\ Loaded \subseteq Jobs
         /\ Ran \subseteq Loaded
         /\ Queued \subseteq Loaded
         /\ Finished \subseteq Ran
         /\ Loading => Queued = Loaded /\ Finished = {}
         /\ ~Loading => Loaded = Jobs
  <1>1. /\ Jobs \subseteq Job
        /\ \A j \in Jobs, i \in Nat : i < j => i \in Jobs
    BY JobsAreJobs DEF TypeOK
  <1>2. Loaded \subseteq Jobs
    BY <1>1 DEF LoadingInv, Loaded, TypeOK
  <1>3. ASSUME ~Loading, NEW j \in Jobs
        PROVE  j \in Loaded
    <2>1. j \in Nat /\ id \in Nat /\ id \notin Jobs
      BY <1>1, <1>3 DEF LoadingInv, TypeOK
    <2>2. ~(id < j) /\ id # j
      BY <1>1, <1>3, <2>1
    <2> QED
      BY <2>1, <2>2 DEF Loaded
  <1>4. Ran \subseteq Loaded /\ Queued \subseteq Loaded /\ Finished \subseteq Ran
    BY DEF RunningInv, Queued, Finished, Loaded
  <1>5. Loading => Queued = Loaded /\ Finished = {}
    BY DEF Loading, LoadingInv, Queued, Finished, Loaded
  <1> QED
    BY <1>2, <1>3, <1>4, <1>5

LEMMA ListsAreChains ==
  ASSUME TypeOK, LoadingInv, RunningInv, ListsInOrder
  PROVE  /\ Chain(next, notCompleted.first, Queued)
         /\ Chain(next, completed.first, Finished)
  <1>1. Queued \subseteq Job /\ Finished \subseteq Job
    BY QueuedAreJobs, JobsAreJobs DEF TypeOK
  <1> QED
    BY <1>1, IsChainIsChain DEF ListsInOrder

LEMMA ChainsAreLists ==
  ASSUME UNCHANGED arguments,
         Queued' \subseteq Job, Finished' \subseteq Job,
         Chain(next', notCompleted'.first, Queued'),
         Chain(next', completed'.first, Finished')
  PROVE  ListsInOrder'
  <1>1. \A j, S : IsLeast(j, S)' <=> IsLeast(j, S)
    BY SameOrder DEF IsLeast
  <1>2. \A j, S : After(j, S)' = After(j, S)
    BY SameOrder DEF After
  <1>3. ASSUME NEW nx, NEW first, NEW S \in SUBSET Job, Chain(nx, first, S)
        PROVE  /\ IsLeast(first, S)
               /\ \A j \in S : IsLeast(nx[j], After(j, S))
    <2>1. IsLeast(first, S)
      BY <1>3 DEF Chain, IsLeast
    <2>2. ASSUME NEW j \in S
          PROVE  IsLeast(nx[j], After(j, S))
      BY <1>3, LeastAfter DEF Chain
    <2> QED
      BY <2>1, <2>2
  <1>4. /\ IsLeast(notCompleted'.first, Queued')
        /\ \A j \in Queued' : IsLeast(next'[j], After(j, Queued'))
    BY <1>3
  <1>5. /\ IsLeast(completed'.first, Finished')
        /\ \A j \in Finished' : IsLeast(next'[j], After(j, Finished'))
    BY <1>3
  <1>6. IsChain(notCompleted.first, Queued)'
    BY <1>1, <1>2, <1>4 DEF IsChain
  <1>7. IsChain(completed.first, Finished)'
    BY <1>1, <1>2, <1>5 DEF IsChain
  <1> QED
    BY <1>6, <1>7 DEF ListsInOrder
-----------------------------------------------------------------------------
(* What a step does to the sets of jobs. *)

LEMMA SameArguments ==
  ASSUME [Next]_vars
  PROVE  UNCHANGED arguments
  BY DEF Next, Load, Run, add_job_responseTime_ascending, Analysis, vars,
         arguments, Main, add_job_to_back, add_job_to_front, StartSeek, Seek,
         add_job_sjf, StartRunning, RunJob, Advance, NextRound, RunSlice,
         RunLastSlice, RemoveFirst, RemoveNext, AddFirst, AddToFront,
         StartAddAfter, AddBetween, MoveOn, AddLast, StartAnalysis, Analyze,
         print_averages

\* A job is loaded.
Loads == add_job_to_back \/ add_job_to_front \/ add_job_sjf

LEMMA LoadsSets ==
  ASSUME TypeOK, LoadingInv, RunningInv, Loads
  PROVE  /\ id \in Jobs \ Queued /\ Loaded' = Loaded \cup {id}
         /\ Queued' = Queued \cup {id} /\ Finished' = Finished /\ Ran' = Ran
         /\ Loading /\ Loading' /\ Moving = {} /\ Moving' = {}
  <1>1. /\ id \in DOMAIN workload /\ id' = id + 1
        /\ pc \in {"load", "add_job_sjf"} /\ pc' = "load"
        /\ UNCHANGED <<tp, turnaroundTime>>
    BY DEF Loads, add_job_to_back, add_job_to_front, add_job_sjf, ReadLine,
           NewJob, times, LoadingInv, Jobs
  <1>2. Ran' = Ran /\ Ran = {}
    BY <1>1 DEF Ran, LoadingInv, Loading
  <1>3. Loaded' = Loaded \cup {id} /\ id \notin Loaded
    BY <1>1 DEF Loaded, TypeOK
  <1>4. Queued = Loaded /\ Queued' = Loaded' /\ Finished = {} /\ Finished' = {}
    BY <1>1, <1>2 DEF Queued, Finished, Moving, Loaded
  <1> QED
    BY <1>1, <1>2, <1>3, <1>4 DEF Loading, Moving, Jobs

\* FIFO and SJF dequeue a job.
Dequeues == (StartRunning /\ policy # "RR") \/ Advance

LEMMA DequeuesSets ==
  ASSUME TypeOK, LoadingInv, RunningInv, Dequeues
  PROVE  /\ Loaded' = Loaded /\ Finished' = Finished /\ Ran' = Ran
         /\ Finished = Ran /\ Queued = Loaded \ Ran
         /\ Queued' = Queued \ {notCompleted.first}
         /\ tp' = notCompleted.first
         /\ Moving = {} /\ Moving' = {} /\ policy # "RR"
  <1>1. /\ pc' = "run" /\ pc \in {"load", "advance"} /\ policy' = policy
        /\ policy # "RR" /\ tp' = notCompleted.first
        /\ UNCHANGED <<id, turnaroundTime>>
    BY DEF Dequeues, StartRunning, Advance, times, arguments, RunningInv
  <1>2. Ran' = Ran /\ Loaded' = Loaded
    BY <1>1 DEF Ran, Loaded
  <1>3. Moving = {} /\ Moving' = {}
    BY <1>1 DEF Moving
  <1>4. Finished = Ran /\ Finished' = Ran'
    BY <1>3 DEF Finished
  <1>5. Queued = Loaded \ Ran
    BY <1>1, <1>3 DEF Queued, Loaded
  <1>6. Queued' = Loaded' \ (Ran' \cup {tp'})
    BY <1>1 DEF Queued, Loaded
  <1> QED
    BY <1>1, <1>2, <1>3, <1>4, <1>5, <1>6

\* RR takes the finished job off the list.
Removes == RemoveFirst \/ (RemoveNext /\ next[cursor] = tp)

LEMMA RemovesSets ==
  ASSUME TypeOK, LoadingInv, RunningInv, Removes
  PROVE  /\ Loaded' = Loaded /\ Finished' = Finished /\ Ran' = Ran
         /\ Queued' = Queued \ {tp}
         /\ tp \in Queued /\ tp \notin Finished
         /\ Moving = {tp} /\ Moving' = {tp'} /\ tp' = tp /\ policy = "RR"
  <1>1. /\ pc = "removeFromList" /\ pc' = "add_completed"
        /\ UNCHANGED <<id, turnaroundTime, tp>> /\ policy' = policy
    BY DEF Removes, RemoveFirst, RemoveNext, times, arguments
  <1>2. Ran' = Ran /\ Loaded' = Loaded
    BY <1>1 DEF Ran, Loaded
  <1>3. Moving = {tp} /\ Moving' = {tp'} /\ tp \in Ran /\ policy = "RR"
    BY <1>1 DEF Moving, RunningInv
  <1>4. Finished = Ran \ {tp} /\ Finished' = Finished
    BY <1>1, <1>2, <1>3 DEF Finished
  <1>5. Queued = Loaded \ Finished
    BY <1>1 DEF Queued, Loaded
  <1>6. Queued' = Loaded' \ Ran'
    BY <1>1, <1>3 DEF Queued, Loaded
  <1> QED
    BY <1>1, <1>2, <1>3, <1>4, <1>5, <1>6 DEF RunningInv

\* The finished job joins the other list.
Adds == AddFirst \/ AddToFront \/ AddBetween \/ AddLast

LEMMA AddsSets ==
  ASSUME TypeOK, LoadingInv, RunningInv, Adds
  PROVE  /\ Loaded' = Loaded /\ Queued' = Queued /\ Ran' = Ran
         /\ Finished' = Finished \cup {tp}
         /\ tp \in Jobs /\ tp \notin Queued /\ tp \notin Finished
         /\ Queued = Loaded \ Ran
         /\ Moving = {tp} /\ Moving' = {}
  <1>1. /\ pc \in {"add_completed", "add_after"}
        /\ UNCHANGED <<id, turnaroundTime>> /\ policy' = policy
        /\ \/ policy = "RR" /\ pc' = "run" /\ tp' = temp
           \/ policy # "RR" /\ pc' = "advance" /\ tp' = tp
    BY DEF Adds, AddFirst, AddToFront, AddBetween, AddLast, Added, times,
           arguments
  <1>2. Ran' = Ran /\ Loaded' = Loaded
    BY <1>1 DEF Ran, Loaded
  <1>3. Moving = {tp} /\ Moving' = {} /\ tp \in Ran
    BY <1>1 DEF Moving, RunningInv
  <1>4. Finished = Ran \ {tp} /\ Finished' = Ran'
    BY <1>3 DEF Finished
  <1>5. Queued = Loaded \ Ran
    BY <1>1 DEF Queued, Loaded
  <1>6. Queued' = Loaded' \ Ran'
    BY <1>1, <1>2 DEF Queued, Loaded
  <1> QED
    BY <1>1, <1>2, <1>3, <1>4, <1>5, <1>6, QueuedAreJobs

\* A job runs to its end: it is the one in hand.
Finishes == RunJob \/ RunLastSlice

LEMMA FinishesSets ==
  ASSUME TypeOK, LoadingInv, RunningInv, Finishes
  PROVE  /\ Loaded' = Loaded /\ Queued' = Queued /\ Finished' = Finished
         /\ Finished = Ran /\ Ran' = Ran \cup {tp}
         /\ tp \in Jobs \ Ran /\ Loaded = Jobs
         /\ Moving = {} /\ Moving' = {tp} /\ tp' = tp
  <1>1. /\ pc = "run" /\ tp # NULL /\ tp' = tp /\ id' = id /\ policy' = policy
        /\ turnaroundTime' = [turnaroundTime EXCEPT ![tp] = currentTime + length[tp]]
        /\ \/ policy # "RR" /\ pc' = "add_completed"
           \/ policy = "RR" /\ pc' = "removeFromList"
    BY DEF Finishes, RunJob, RunLastSlice, Turn, arguments
  <1>2. Loaded' = Loaded /\ Loaded = Jobs /\ tp \in Jobs \ Ran
    BY <1>1, QueuedAreJobs DEF RunningInv, Loaded, Loading
  <1>3. tp \in Job /\ currentTime + length[tp] \in Nat
    BY <1>1 DEF TypeOK
  <1>4. Ran' = Ran \cup {tp}
    BY <1>1, <1>3 DEF Ran, TypeOK
  <1>5. Moving = {} /\ Moving' = {tp}
    BY <1>1 DEF Moving
  <1>6. Finished = Ran /\ Finished' = Ran
    BY <1>1, <1>2, <1>4, <1>5 DEF Finished
  <1>7. ASSUME policy = "RR" PROVE Queued' = Queued
    <2>1. Queued = Loaded \ Ran
      BY <1>1, <1>7 DEF Queued, Loaded
    <2>2. Queued' = Loaded' \ Finished'
      BY <1>1, <1>7 DEF Queued, Loaded
    <2> QED
      BY <1>2, <1>6, <2>1, <2>2
  <1>8. ASSUME policy # "RR" PROVE Queued' = Queued
    <2>1. Queued = Loaded \ (Ran \cup {tp})
      BY <1>1, <1>8 DEF Queued, Loaded
    <2>2. Queued' = Loaded' \ Ran'
      BY <1>1, <1>8 DEF Queued, Loaded
    <2> QED
      BY <1>2, <1>4, <2>1, <2>2
  <1> QED
    BY <1>1, <1>2, <1>4, <1>5, <1>6, <1>7, <1>8

\* No job changes its place.
Stays ==
  \/ Main \/ StartSeek \/ Seek \/ (StartRunning /\ policy = "RR") \/ NextRound
  \/ RunSlice \/ (RemoveNext /\ next[cursor] # tp) \/ StartAddAfter \/ MoveOn
  \/ StartAnalysis \/ Analyze \/ print_averages \/ UNCHANGED vars

LEMMA StaysSets ==
  ASSUME TypeOK, LoadingInv, RunningInv, Stays
  PROVE  /\ Loaded' = Loaded /\ Queued' = Queued /\ Finished' = Finished
         /\ Ran' = Ran
         /\ UNCHANGED <<next, notCompleted, completed, id>>
         /\ Moving' = Moving
  <1> USE DEF times, arguments
  <1>1. UNCHANGED <<next, notCompleted, completed, id, turnaroundTime, policy>>
    BY DEF Stays, Main, StartSeek, Seek, StartRunning, NextRound, RunSlice,
           RemoveNext, StartAddAfter, MoveOn, StartAnalysis, Analyze,
           print_averages, Turn, vars
  <1>2. Ran' = Ran /\ Loaded' = Loaded
    BY <1>1 DEF Ran, Loaded
  <1> DEFINE quiet == {"main", "load", "add_job_sjf", "exit", "analyze",
                       "print_averages", "done"}
  <1>3. \/ /\ pc \in quiet \/ (policy = "RR" /\ pc = "run")
           /\ pc' \in quiet \/ (policy = "RR" /\ pc' = "run")
        \/ /\ pc \in {"add_completed", "add_after"}
           /\ pc' \in {"add_completed", "add_after"}
           /\ tp' = tp
        \/ pc = "removeFromList" /\ pc' = pc /\ tp' = tp
        \/ pc = "run" /\ policy # "RR" /\ tp = NULL /\ pc' = "analyze"
        \/ pc' = pc /\ tp' = tp
    <2>1. CASE Main \/ StartSeek \/ Seek \/ (StartRunning /\ policy = "RR")
      BY <1>1, <2>1 DEF Main, StartSeek, Seek, StartRunning, ReadLine
    <2>2. CASE NextRound \/ RunSlice
      BY <1>1, <2>2 DEF NextRound, RunSlice, Turn
    <2>3. CASE RemoveNext /\ next[cursor] # tp
      BY <2>3 DEF RemoveNext
    <2>4. CASE StartAddAfter \/ MoveOn
      BY <2>4 DEF StartAddAfter, MoveOn
    <2>5. CASE StartAnalysis \/ Analyze \/ print_averages
      BY <1>1, <2>5 DEF StartAnalysis, Analyze, print_averages
    <2>6. CASE UNCHANGED vars
      BY <2>6 DEF vars
    <2> QED
      BY <2>1, <2>2, <2>3, <2>4, <2>5, <2>6 DEF Stays
  <1>4. Moving' = Moving
    BY <1>3 DEF Moving
  <1>5. Finished' = Finished
    BY <1>2, <1>4 DEF Finished
  <1>6. Queued' = Queued
    BY <1>1, <1>2, <1>3, <1>5 DEF Queued, Loaded
  <1> QED
    BY <1>1, <1>2, <1>4, <1>5, <1>6

LEMMA StepKinds ==
  ASSUME [Next]_vars
  PROVE  Loads \/ Dequeues \/ Removes \/ Adds \/ Finishes \/ Stays
  BY DEF Next, Load, Run, add_job_responseTime_ascending, Analysis, Loads,
         Dequeues, Removes, Adds, Finishes, Stays
-----------------------------------------------------------------------------
(* The lists stay in order. *)

\* The new job and those that are loaded already.
LEMMA NewJobOrder ==
  ASSUME TypeOK, LoadingInv, RunningInv, id \in Jobs
  PROVE  \A k \in Loaded :
           /\ policy # "SJF" => Precedes(k, id)
           /\ workload[k] <= workload[id] => Precedes(k, id)
           /\ policy = "SJF" /\ workload[k] > workload[id] => Precedes(id, k)
  <1> SUFFICES ASSUME NEW k \in Loaded
      PROVE  /\ policy # "SJF" => Precedes(k, id)
             /\ workload[k] <= workload[id] => Precedes(k, id)
             /\ policy = "SJF" /\ workload[k] > workload[id] => Precedes(id, k)
    OBVIOUS
  <1>1. k < id /\ k \in Int /\ id \in Int
    BY DEF Loaded, TypeOK
  <1>2. workload[k] \in Int /\ workload[id] \in Int
    <2>1. k \in Jobs /\ workload \in [Jobs -> Nat]
      BY QueuedAreJobs, JobsAreJobs DEF TypeOK
    <2> QED
      BY <2>1
  <1> QED
    BY <1>1, <1>2 DEF Precedes

\* The finished job and those on the completed list.
LEMMA AddedJobOrder ==
  ASSUME TypeOK, LoadingInv, RunningInv, ResponseOrder, Adds
  PROVE  \A k \in Finished :
           /\ responseTime[k] <= responseTime[tp] => Precedes(k, tp)
           /\ responseTime[tp] < responseTime[k] => Precedes(tp, k)
  <1> SUFFICES ASSUME NEW k \in Finished
      PROVE  /\ responseTime[k] <= responseTime[tp] => Precedes(k, tp)
             /\ responseTime[tp] < responseTime[k] => Precedes(tp, k)
    OBVIOUS
  <1>1. k \in Jobs /\ tp \in Jobs /\ k # tp
    BY AddsSets, QueuedAreJobs
  <1>2. responseTime[k] \in Int /\ responseTime[tp] \in Int
    BY <1>1, JobsAreJobs DEF TypeOK
  <1>3. Precedes(k, tp) \/ Precedes(tp, k)
    BY <1>1, StrictOrder DEF TypeOK
  <1>4. /\ Precedes(k, tp) => responseTime[k] <= responseTime[tp]
        /\ Precedes(tp, k) => responseTime[tp] < responseTime[k]
    BY AddsSets DEF ResponseOrder
  <1> QED
    BY <1>2, <1>3, <1>4

LEMMA LoadsLists ==
  ASSUME TypeOK, LoadingInv, RunningInv, ListsInOrder, LastIsBack,
         SequentialInv, Loads
  PROVE  /\ Chain(next', notCompleted'.first, Queued')
         /\ Chain(next', completed'.first, Finished')
  <1>1. /\ Queued = Loaded /\ Finished = {} /\ completed' = completed
        /\ id \in Jobs \ Queued /\ Queued' = Queued \cup {id}
        /\ Finished' = Finished
    BY LoadsSets, QueuedAreJobs
       DEF Loads, add_job_to_back, add_job_to_front, add_job_sjf
  <1>2. /\ Chain(next, notCompleted.first, Queued)
        /\ Chain(next, completed.first, Finished)
    BY ListsAreChains
  <1>3. /\ Queued \in SUBSET Jobs /\ next \in [Job -> Job \cup {NULL}]
        /\ workload \in Workloads
        /\ id \in Jobs \ Queued
    BY <1>1, QueuedAreJobs DEF TypeOK
  <1>4. Chain(next', completed'.first, Finished')
    BY <1>1, <1>2, ChainAgrees
  <1>5. CASE add_job_to_back
    <2>1. policy # "SJF" /\ pc = "load" /\ \A k \in Queued : Precedes(k, id)
      BY <1>1, <1>5, NewJobOrder DEF add_job_to_back, ReadLine
    <2>2. IsBack(notCompleted.last, Queued)
      BY <2>1 DEF LastIsBack
    <2>3. CASE notCompleted.last = NULL
      <3>1. Queued = {}
        BY <2>2, <2>3, <1>3, JobsAreJobs DEF IsBack, TypeOK
      <3>2. notCompleted.first = NULL
        BY <1>2, <3>1 DEF Chain
      <3>3. next' = [next EXCEPT ![id] = NULL] /\ notCompleted'.first = id
        BY <1>5, <2>3 DEF add_job_to_back
      <3>4. Chain([next EXCEPT ![id] = notCompleted.first], id, Queued \cup {id})
        BY <1>2, <1>3, <3>1, ChainAddFirst
      <3> QED
        BY <1>1, <1>4, <3>2, <3>3, <3>4
    <2>4. CASE notCompleted.last # NULL
      <3> DEFINE c == notCompleted.last
      <3>1. c \in Queued /\ next[c] = NULL
        BY <2>2, <2>4 DEF IsBack
      <3>2. /\ next' = [next EXCEPT ![id] = NULL, ![c] = id]
            /\ notCompleted'.first = notCompleted.first
        BY <1>5, <2>4 DEF add_job_to_back, TypeOK, list
      <3>3. next' = [next EXCEPT ![c] = id, ![id] = next[c]]
        BY <1>1, <1>3, <3>1, <3>2, JobsAreJobs
      <3>4. Chain([next EXCEPT ![c] = id, ![id] = next[c]], notCompleted.first,
                  Queued \cup {id})
        <4> HIDE DEF c
        <4> QED
          BY <1>2, <1>3, <2>1, <3>1, ChainAddAfter
      <3> QED
        BY <1>1, <1>4, <3>2, <3>3, <3>4
    <2> QED
      BY <2>3, <2>4
  <1>6. CASE add_job_to_front
    <2>1. policy = "SJF" /\ ShorterThanAll
      BY <1>6 DEF add_job_to_front
    <2>2. \A k \in Queued : Precedes(id, k)
      <3>1. CASE Queued = {}
        BY <3>1
      <3>2. CASE Queued # {}
        <4>1. /\ notCompleted.first \in Queued
              /\ \A k \in Queued :
                   k = notCompleted.first \/ Precedes(notCompleted.first, k)
          BY <1>2, <3>2 DEF Chain
        <4>2. workload[notCompleted.first] > workload[id]
          BY <1>1, <1>3, <2>1, <4>1, JobsAreJobs DEF ShorterThanAll, SequentialInv
        <4>3. Precedes(id, notCompleted.first)
          BY <1>1, <2>1, <4>1, <4>2, NewJobOrder
        <4> QED
          BY <1>3, <4>1, <4>3, StrictOrder
      <3> QED
        BY <3>1, <3>2
    <2>3. /\ next' = [next EXCEPT ![id] = notCompleted.first]
          /\ notCompleted'.first = id
      BY <1>6 DEF add_job_to_front
    <2>4. Chain([next EXCEPT ![id] = notCompleted.first], id, Queued \cup {id})
      BY <1>2, <1>3, <2>2, ChainAddFirst
    <2> QED
      BY <1>1, <1>4, <2>3, <2>4
  <1>7. CASE add_job_sjf
    <2>1. /\ policy = "SJF" /\ cursor \in Queued
          /\ length[cursor] <= workload[id]
          /\ next[cursor] # NULL => length[next[cursor]] > workload[id]
      <3>1. /\ policy = "SJF" /\ cursor \in Queued
            /\ length[cursor] <= workload[id] /\ ~NextIsNoLonger
        BY <1>1, <1>7 DEF add_job_sjf, LoadingInv
      <3>2. ASSUME next[cursor] # NULL
            PROVE  length[next[cursor]] > workload[id]
        <4>1. next[cursor] \in Job /\ id \in Jobs
          BY <1>1, <1>3, <3>1, <3>2, JobsAreJobs
        <4>2. length[next[cursor]] \in Int /\ workload[id] \in Int
          BY <1>3, <4>1, JobsAreJobs DEF TypeOK
        <4> QED
          BY <3>1, <3>2, <4>2 DEF NextIsNoLonger
      <3> QED
        BY <3>1, <3>2
    <2>2. Precedes(cursor, id)
      BY <1>1, <2>1, NewJobOrder DEF SequentialInv
    <2>3. next[cursor] # NULL => Precedes(id, next[cursor])
      <3>1. next[cursor] # NULL => next[cursor] \in Queued
        BY <1>2, <2>1 DEF Chain
      <3> QED
        BY <1>1, <2>1, <3>1, NewJobOrder DEF SequentialInv
    <2>4. /\ next' = [next EXCEPT ![cursor] = id, ![id] = next[cursor]]
          /\ notCompleted'.first = notCompleted.first
      BY <1>7 DEF add_job_sjf
    <2>5. Chain([next EXCEPT ![cursor] = id, ![id] = next[cursor]],
                notCompleted.first, Queued \cup {id})
      BY <1>2, <1>3, <2>1, <2>2, <2>3, ChainAddAfter
    <2> QED
      BY <1>1, <1>4, <2>4, <2>5
  <1> QED
    BY <1>5, <1>6, <1>7 DEF Loads

LEMMA DequeuesLists ==
  ASSUME TypeOK, LoadingInv, RunningInv, ListsInOrder, Dequeues
  PROVE  /\ Chain(next', notCompleted'.first, Queued')
         /\ Chain(next', completed'.first, Finished')
  <1>1. /\ next' = next /\ completed' = completed
        /\ notCompleted' = Dequeued(notCompleted)
    BY DEF Dequeues, StartRunning, Advance
  <1>2. /\ Chain(next, notCompleted.first, Queued)
        /\ Chain(next, completed.first, Finished)
        /\ Queued \in SUBSET Jobs /\ workload \in Workloads
    BY ListsAreChains, QueuedAreJobs DEF TypeOK
  <1>3. Finished' = Finished /\ Queued' = Queued \ {notCompleted.first}
    BY DequeuesSets
  <1>4. CASE notCompleted.first = NULL
    <2>1. Queued = {} /\ Queued' = {}
      BY <1>2, <1>3, <1>4, JobsAreJobs DEF Chain
    <2> QED
      BY <1>1, <1>2, <1>3, <1>4, <2>1 DEF Dequeued
  <1>5. CASE notCompleted.first # NULL
    <2>1. notCompleted'.first = next[notCompleted.first]
      BY <1>1, <1>5 DEF Dequeued, TypeOK, list
    <2>2. Chain(next, next[notCompleted.first], Queued \ {notCompleted.first})
      BY <1>2, <1>5, ChainDropFirst
    <2> QED
      BY <1>1, <1>2, <1>3, <2>1, <2>2
  <1> QED
    BY <1>4, <1>5

LEMMA RemovesLists ==
  ASSUME TypeOK, LoadingInv, RunningInv, ListsInOrder, Removes
  PROVE  /\ Chain(next', notCompleted'.first, Queued')
         /\ Chain(next', completed'.first, Finished')
  <1>1. /\ Chain(next, notCompleted.first, Queued)
        /\ Chain(next, completed.first, Finished)
        /\ Queued \in SUBSET Jobs /\ workload \in Workloads
        /\ next \in [Job -> Job \cup {NULL}]
    BY ListsAreChains, QueuedAreJobs DEF TypeOK
  <1>2. /\ Finished' = Finished /\ Queued' = Queued \ {tp}
        /\ tp \in Queued /\ tp \notin Finished
        /\ completed' = completed
    BY RemovesSets DEF Removes, RemoveFirst, RemoveNext
  <1>3. CASE RemoveFirst
    <2>1. /\ notCompleted.first = tp /\ notCompleted'.first = next[tp]
          /\ next' = next
      BY <1>3 DEF RemoveFirst
    <2>2. tp # NULL
      BY <1>1, <1>2, JobsAreJobs
    <2>3. Chain(next, next[tp], Queued \ {tp})
      BY <1>1, <2>1, <2>2, ChainDropFirst
    <2> QED
      BY <1>1, <1>2, <2>1, <2>3
  <1>4. CASE RemoveNext /\ next[cursor] = tp
    <2>1. /\ next' = [next EXCEPT ![cursor] = next[tp], ![tp] = NULL]
          /\ notCompleted' = notCompleted /\ next[cursor] = tp
          /\ notCompleted.first # tp /\ pc = "removeFromList"
      BY <1>4 DEF RemoveNext
    <2>2. cursor \in Queued
      BY <2>1 DEF RunningInv
    <2>3. Chain([next EXCEPT ![cursor] = next[tp], ![tp] = NULL],
                notCompleted.first, Queued \ {tp})
      BY <1>1, <1>2, <2>1, <2>2, ChainDropNext
    <2>4. cursor \notin Finished
      BY <2>1, <2>2 DEF Queued
    <2>5. \A j \in Finished : next'[j] = next[j]
      BY <1>1, <1>2, <2>1, <2>4, QueuedAreJobs, JobsAreJobs
    <2>6. Chain(next', completed.first, Finished)
      BY <1>1, <2>5, ChainAgrees
    <2> QED
      BY <1>2, <2>1, <2>3, <2>6
  <1> QED
    BY <1>3, <1>4 DEF Removes

LEMMA AddsLists ==
  ASSUME TypeOK, LoadingInv, RunningInv, ListsInOrder, ResponseOrder, Adds
  PROVE  /\ Chain(next', notCompleted'.first, Queued')
         /\ Chain(next', completed'.first, Finished')
  <1>1. /\ Chain(next, notCompleted.first, Queued)
        /\ Chain(next, completed.first, Finished)
        /\ Queued \in SUBSET Jobs /\ Finished \in SUBSET Jobs
        /\ workload \in Workloads /\ next \in [Job -> Job \cup {NULL}]
    BY ListsAreChains, QueuedAreJobs DEF TypeOK
  <1>2. /\ Queued' = Queued /\ Finished' = Finished \cup {tp}
        /\ tp \in Jobs \ Finished /\ tp \notin Queued
        /\ notCompleted' = notCompleted
        /\ Queued \cap Finished = {}
    BY AddsSets, QueuedAreJobs
       DEF Adds, AddFirst, AddToFront, AddBetween, AddLast
  <1>3. CASE AddFirst \/ AddToFront
    <2>1. /\ next' = [next EXCEPT ![tp] = completed.first]
          /\ completed'.first = tp
          /\ \/ completed.first = NULL
             \/ responseTime[tp] < responseTime[completed.first]
      BY <1>3 DEF AddFirst, AddToFront, TypeOK, list
    <2>2. \A k \in Finished : Precedes(tp, k)
      <3>1. CASE Finished = {}
        BY <3>1
      <3>2. CASE Finished # {}
        <4>1. /\ completed.first \in Finished
              /\ \A k \in Finished :
                   k = completed.first \/ Precedes(completed.first, k)
          BY <1>1, <3>2 DEF Chain
        <4>2. Precedes(tp, completed.first)
          BY <1>1, <2>1, <4>1, AddedJobOrder, JobsAreJobs
        <4> QED
          BY <1>1, <1>2, <4>1, <4>2, StrictOrder
      <3> QED
        BY <3>1, <3>2
    <2>3. Chain([next EXCEPT ![tp] = completed.first], tp, Finished \cup {tp})
      BY <1>1, <1>2, <2>2, ChainAddFirst
    <2>4. \A j \in Queued : next'[j] = next[j]
      BY <1>1, <1>2, <2>1, JobsAreJobs
    <2>5. Chain(next', notCompleted.first, Queued)
      BY <1>1, <2>4, ChainAgrees
    <2> QED
      BY <1>2, <2>1, <2>3, <2>5
  <1>4. CASE AddBetween \/ AddLast
    <2>1. /\ next' = [next EXCEPT ![cursor] = tp, ![tp] = next[cursor]]
          /\ completed'.first = completed.first
          /\ pc = "add_after"
          /\ \/ next[cursor] = NULL
             \/ responseTime[tp] < responseTime[next[cursor]]
      BY <1>4 DEF AddBetween, AddLast, TypeOK, list
    <2>2. cursor \in Finished /\ Precedes(cursor, tp)
      BY <2>1, AddedJobOrder DEF RunningInv
    <2>3. next[cursor] # NULL => Precedes(tp, next[cursor])
      <3>1. next[cursor] # NULL => next[cursor] \in Finished
        BY <1>1, <2>2 DEF Chain
      <3> QED
        BY <2>1, <3>1, AddedJobOrder
    <2>4. Chain([next EXCEPT ![cursor] = tp, ![tp] = next[cursor]],
                completed.first, Finished \cup {tp})
      BY <1>1, <1>2, <2>2, <2>3, ChainAddAfter
    <2>5. \A j \in Queued : next'[j] = next[j]
      BY <1>1, <1>2, <2>1, <2>2, JobsAreJobs
    <2>6. Chain(next', notCompleted.first, Queued)
      BY <1>1, <2>5, ChainAgrees
    <2> QED
      BY <1>2, <2>1, <2>4, <2>6
  <1> QED
    BY <1>3, <1>4 DEF Adds

LEMMA ListsStep ==
  ASSUME IInv, [Next]_vars
  PROVE  ListsInOrder'
  <1> USE DEF IInv
  <1>1. /\ Chain(next', notCompleted'.first, Queued')
        /\ Chain(next', completed'.first, Finished')
    <2>1. CASE Loads
      BY <2>1, LoadsLists
    <2>2. CASE Dequeues
      BY <2>2, DequeuesLists
    <2>3. CASE Removes
      BY <2>3, RemovesLists
    <2>4. CASE Adds
      BY <2>4, AddsLists
    <2>5. CASE Finishes
      <3>1. UNCHANGED <<next, notCompleted, completed>>
        BY <2>5 DEF Finishes, RunJob, RunLastSlice
      <3> QED
        BY <2>5, <3>1, FinishesSets, ListsAreChains
    <2>6. CASE Stays
      BY <2>6, StaysSets, ListsAreChains
    <2> QED
      BY <2>1, <2>2, <2>3, <2>4, <2>5, <2>6, StepKinds
  <1>2. UNCHANGED arguments
    BY SameArguments
  <1>3. Queued' \subseteq Job /\ Finished' \subseteq Job
    BY QueuedAreJobs, JobsAreJobs, LoadsSets, DequeuesSets, RemovesSets,
       AddsSets, FinishesSets, StaysSets, StepKinds DEF TypeOK
  <1> QED
    BY <1>1, <1>2, <1>3, ChainsAreLists

LEMMA LastStep ==
  ASSUME IInv, [Next]_vars
  PROVE  LastIsBack'
  <1> USE DEF IInv
  <1>1. /\ Chain(next, completed.first, Finished)
        /\ Queued \in SUBSET Jobs /\ Finished \in SUBSET Jobs
        /\ Jobs \subseteq Job
        /\ workload \in Workloads /\ next \in [Job -> Job \cup {NULL}]
    BY ListsAreChains, QueuedAreJobs, JobsAreJobs DEF TypeOK
  <1>2. policy' = policy /\ Jobs' = Jobs
    BY SameArguments, SameOrder DEF arguments
  <1>3. IsBack(completed.last, Finished)
    BY DEF LastIsBack
  <1>4. CASE Loads
    <2>1. /\ Queued' = Queued \cup {id} /\ Finished' = Finished /\ Finished = {}
          /\ completed' = completed /\ id \in Jobs
      BY <1>4, LoadsSets, QueuedAreJobs
         DEF Loads, add_job_to_back, add_job_to_front, add_job_sjf
    <2>2. IsBack(completed.last, Finished)'
      BY <1>3, <2>1 DEF IsBack
    <2>3. policy # "SJF" => IsBack(notCompleted.last, Queued)'
      <3>1. ASSUME policy # "SJF" PROVE add_job_to_back
        BY <1>4, <3>1 DEF Loads, add_job_to_front, add_job_sjf, LoadingInv
      <3>2. ASSUME policy # "SJF"
            PROVE  notCompleted'.last = id /\ next'[id] = NULL
        <4>1. notCompleted.last # NULL => notCompleted.last # id
          <5>1. pc = "load"
            BY <3>1, <3>2 DEF add_job_to_back, ReadLine
          <5>2. IsBack(notCompleted.last, Queued)
            BY <3>2, <5>1 DEF LastIsBack
          <5> QED
            BY <1>4, <5>2, LoadsSets DEF IsBack
        <4> QED
          <5>1. CASE notCompleted.last = NULL
            <6>1. notCompleted' = [first |-> id, last |-> id]
              BY <3>1, <3>2, <5>1 DEF add_job_to_back
            <6>2. next' = [next EXCEPT ![id] = NULL]
              BY <3>1, <3>2, <5>1 DEF add_job_to_back
            <6>3. notCompleted'.last = id
              BY <6>1
            <6>4. next'[id] = NULL
              BY <1>1, <2>1, <6>2
            <6> QED
              BY <6>3, <6>4
          <5>2. CASE notCompleted.last # NULL
            <6>1. notCompleted' = [notCompleted EXCEPT !.last = id]
              BY <3>1, <3>2, <5>2 DEF add_job_to_back
            <6>2. next' = [next EXCEPT ![id] = NULL, ![notCompleted.last] = id]
              BY <3>1, <3>2, <5>2 DEF add_job_to_back
            <6>3. notCompleted'.last = id
              BY <6>1 DEF TypeOK, list
            <6>4. next'[id] = NULL
              BY <1>1, <2>1, <4>1, <5>2, <6>2
            <6> QED
              BY <6>3, <6>4
          <5> QED
            BY <5>1, <5>2
      <3> QED
        BY <2>1, <3>2 DEF IsBack
    <2> QED
      BY <1>2, <2>2, <2>3 DEF LastIsBack
  <1>5. CASE Dequeues
    <2>1. /\ next' = next /\ completed' = completed /\ pc' = "run"
      BY <1>5 DEF Dequeues, StartRunning, Advance
    <2> QED
      BY <1>3, <1>5, <2>1, DequeuesSets DEF LastIsBack, IsBack
  <1>6. CASE Removes
    <2>1. /\ completed' = completed /\ pc' = "add_completed"
          /\ \/ next' = next
             \/ /\ cursor \in Queued
                /\ pc = "removeFromList"
                /\ next' = [next EXCEPT ![cursor] = next[tp], ![tp] = NULL]
      BY <1>6 DEF Removes, RemoveFirst, RemoveNext, RunningInv
    <2>2. \A j \in Finished : next'[j] = next[j]
      BY <1>1, <1>6, <2>1, RemovesSets DEF Queued
    <2> QED
      BY <1>3, <1>6, <2>1, <2>2, RemovesSets DEF LastIsBack, IsBack
  <1>7. CASE Adds
    <2>1. /\ pc' # "load" /\ Finished' = Finished \cup {tp}
          /\ tp \in Job /\ tp \notin Finished
      BY <1>1, <1>7, AddsSets
         DEF Adds, AddFirst, AddToFront, AddBetween, AddLast, Added
    <2>2. \/ completed'.last = tp /\ next'[tp] = NULL
          \/ /\ completed'.last = completed.last
             /\ completed.last \in Finished
             /\ next'[completed.last] = NULL
      <3>1. CASE AddFirst
        BY <1>1, <2>1, <3>1 DEF AddFirst
      <3>2. CASE AddLast
        BY <1>1, <2>1, <3>2 DEF AddLast, TypeOK, list
      <3>3. CASE AddToFront \/ AddBetween
        <4>1. completed.first # NULL \/ cursor \in Finished
          BY <3>3 DEF AddToFront, AddBetween, RunningInv
        <4>2. completed.last \in Finished /\ next[completed.last] = NULL
          BY <1>1, <1>3, <4>1 DEF IsBack, Chain
        <4>3. completed'.last = completed.last
          BY <3>3 DEF AddToFront, AddBetween, TypeOK, list
        <4>4. next'[completed.last] = next[completed.last]
          BY <1>1, <2>1, <3>3, <4>2 DEF AddToFront, AddBetween
        <4> QED
          BY <4>2, <4>3, <4>4
      <3> QED
        BY <1>7, <3>1, <3>2, <3>3 DEF Adds
    <2> QED
      BY <2>1, <2>2 DEF LastIsBack, IsBack
  <1>8. CASE Finishes
    <2>1. /\ UNCHANGED <<next, notCompleted, completed>>
          /\ pc' # "load"
      BY <1>8 DEF Finishes, RunJob, RunLastSlice
    <2> QED
      BY <1>3, <1>8, <2>1, FinishesSets DEF LastIsBack, IsBack
  <1>9. CASE Stays
    <2>1. pc' = "load" => pc = "load" \/ Main
      BY <1>9 DEF Stays, StartSeek, Seek, StartRunning, NextRound,
         RunSlice, Turn, RemoveNext, StartAddAfter, MoveOn, StartAnalysis,
         Analyze, print_averages, vars
    <2>2. Main => Queued = {} /\ notCompleted.last = NULL
      BY QueuedAreJobs DEF Main, LoadingInv, EmptyList, Loaded, Loading
    <2> QED
      BY <1>2, <1>3, <1>9, <2>1, <2>2, StaysSets DEF LastIsBack, IsBack
  <1> QED
    BY <1>4, <1>5, <1>6, <1>7, <1>8, <1>9, StepKinds
-----------------------------------------------------------------------------
(* Types. *)

\* The times of a finished job have been measured.
LEMMA RanTimes ==
  ASSUME IInv, NEW j \in Ran
  PROVE  /\ responseTime[j] \in Nat /\ turnaroundTime[j] \in Nat
         /\ waitTime[j] \in Nat
         /\ policy = "RR" => hasRun[j] = 1
  <1> USE DEF IInv
  <1>1. j \in Job /\ waitTime[j] \in Nat /\ turnaroundTime[j] \in Nat
    BY DEF Ran, TypeOK
  <1>2. CASE policy = "RR"
    <2>1. hasRun[j] = 1
      BY <1>1, <1>2 DEF NotRunInv, TypeOK
    <2> QED
      BY <1>1, <1>2, <2>1 DEF HasRunInv, HasRunFacts
  <1>3. CASE policy # "RR"
    BY <1>1, <1>3 DEF SequentialInv, TypeOK
  <1> QED
    BY <1>2, <1>3

\* The job whose turn it is last ran before now.
LEMMA TurnTime ==
  ASSUME IInv, pc = "run", policy = "RR", tp # NULL
  PROVE  /\ tp \in Job /\ tp \in Jobs \ Ran /\ tp \in Queued
         /\ currentTime - lastTime[tp] \in Nat
  <1> USE DEF IInv
  <1>1. tp \in Job /\ tp \in Jobs \ Ran /\ tp \in Queued
    BY QueuedAreJobs DEF RunningInv, TypeOK, Queued, Loaded, Loading
  <1>2. hasRun[tp] \in {0, 1} /\ lastTime[tp] \in Nat /\ currentTime \in Nat
    BY <1>1 DEF TypeOK
  <1>3. lastTime[tp] <= currentTime
    BY <1>1, <1>2 DEF NotRunInv, HasRunInv, HasRunFacts
  <1> QED
    BY <1>1, <1>2, <1>3

LEMMA TypeStep ==
  ASSUME IInv, [Next]_vars
  PROVE  TypeOK'
  <1> USE DEF IInv
  <1>0. UNCHANGED arguments
    BY SameArguments
  <1>a. pc \in {"removeFromList", "add_completed", "add_after", "advance"} =>
          tp \in Job
    BY DEF RunningInv, Moving, Ran
  <1>b. pc \in {"add_job_sjf", "add_after"} => cursor \in Job
    BY QueuedAreJobs, JobsAreJobs DEF RunningInv, LoadingInv, TypeOK
  <1>c. /\ time_slice \in Nat /\ Dequeued(notCompleted) \in list
        /\ notCompleted.first \in Job \cup {NULL}
        /\ completed.first \in Job \cup {NULL}
    BY SchedulerAssumption DEF TypeOK, list, Dequeued
  <1>1. CASE Loads
    <2>1. /\ id \in Job /\ id + 1 \in 0 .. MaxJobs /\ workload[id] \in Nat
      <3>1. id \in Jobs /\ Jobs \subseteq Job /\ workload \in [Jobs -> Nat]
        BY <1>1, LoadsSets, JobsAreJobs DEF TypeOK
      <3> QED
        BY <3>1, SchedulerAssumption
    <2>2. /\ length' \in [Job -> Nat] /\ id' \in 0 .. MaxJobs
          /\ pc' \in {"load"}
      BY <1>1, <2>1
         DEF Loads, add_job_to_back, add_job_to_front, add_job_sjf, NewJob,
             TypeOK, ReadLine
    <2>3. next' \in [Job -> Job \cup {NULL}] /\ notCompleted' \in list
      <3>1. CASE add_job_to_back
        <4>1. notCompleted.last # NULL => notCompleted.last \in Job
          BY DEF TypeOK, list
        <4>2. next' \in [Job -> Job \cup {NULL}]
          BY <2>1, <3>1, <4>1 DEF add_job_to_back, TypeOK
        <4>3. notCompleted' \in list
          BY <2>1, <3>1 DEF add_job_to_back, TypeOK, list
        <4> QED
          BY <4>2, <4>3
      <3>2. CASE add_job_to_front
        BY <1>c, <2>1, <3>2 DEF add_job_to_front, list, TypeOK
      <3>3. CASE add_job_sjf
        <4>1. cursor \in Job /\ next[cursor] \in Job \cup {NULL}
          BY <1>b, <3>3 DEF add_job_sjf, TypeOK
        <4>2. next' = [next EXCEPT ![cursor] = id, ![id] = next[cursor]]
          BY <3>3 DEF add_job_sjf
        <4>3. notCompleted' = notCompleted
          BY <3>3 DEF add_job_sjf
        <4> QED
          <5>1. next' \in [Job -> Job \cup {NULL}]
            BY <2>1, <4>1, <4>2 DEF TypeOK
          <5>2. notCompleted' \in list
            BY <4>3 DEF TypeOK
          <5> QED
            BY <5>1, <5>2
      <3> QED
        BY <1>1, <3>1, <3>2, <3>3 DEF Loads
    <2>4. UNCHANGED <<currentTime, tp, temp, cursor, completed, responseTime,
                      turnaroundTime, waitTime, hasRun, lastTime, report, total>>
      BY <1>1 DEF Loads, add_job_to_back, add_job_to_front, add_job_sjf,
                  times, printed
    <2> QED
      BY <1>0, <2>2, <2>3, <2>4 DEF TypeOK, arguments
  <1>2. CASE Main \/ StartSeek \/ Seek
    BY <1>0, <1>2, <1>b, <1>c
       DEF TypeOK, arguments, Main, StartSeek, Seek, times, printed
  <1>3. CASE Dequeues \/ (StartRunning /\ policy = "RR")
    <2>1. currentTime' \in Nat
      <3>1. ASSUME Advance PROVE currentTime + length[tp] \in Nat
        BY <1>a, <3>1 DEF Advance, TypeOK
      <3> QED
        BY <1>3, <3>1 DEF Dequeues, StartRunning, Advance, TypeOK
    <2>2. tp' \in Job \cup {NULL} /\ notCompleted' \in list /\ pc' = "run"
      BY <1>3, <1>c DEF Dequeues, StartRunning, Advance, TypeOK
    <2>3. UNCHANGED <<id, temp, cursor, completed, length, times, next, printed>>
      BY <1>3 DEF Dequeues, StartRunning, Advance
    <2> QED
      BY <1>0, <2>1, <2>2, <2>3 DEF TypeOK, arguments, times, printed
  <1>4. CASE RunJob
    <2>1. tp \in Job /\ currentTime \in Nat /\ length[tp] \in Nat
      BY <1>4 DEF RunJob, TypeOK
    <2>2. /\ responseTime' \in [Job -> Nat \cup {Unset}]
          /\ turnaroundTime' \in [Job -> Nat \cup {Unset}]
          /\ waitTime' \in [Job -> Nat]
      <3>1. currentTime + length[tp] \in Nat
        BY <2>1
      <3> QED
        BY <1>4, <2>1, <3>1 DEF RunJob, TypeOK
    <2>3. /\ pc' = "add_completed"
          /\ UNCHANGED <<arguments, id, currentTime, tp, temp, cursor,
                         notCompleted, completed, length, hasRun, lastTime,
                         next, printed>>
      BY <1>4 DEF RunJob
    <2> QED
      BY <1>0, <2>2, <2>3 DEF TypeOK, arguments, times, printed
  <1>5. CASE NextRound
    BY <1>0, <1>5, <1>c DEF TypeOK, arguments, NextRound, times, printed
  <1>6. CASE RunSlice \/ RunLastSlice
    <2>1. tp \in Job /\ currentTime - lastTime[tp] \in Nat
      BY <1>6, TurnTime DEF RunSlice, RunLastSlice, Turn
    <2>4. /\ length[tp] \in Nat /\ waitTime[tp] \in Nat /\ currentTime \in Nat
          /\ next[tp] \in Job \cup {NULL}
      BY <2>1 DEF TypeOK
    <2>5. ASSUME NEW time \in Nat, Turn(time)
          PROVE  /\ responseTime' \in [Job -> Nat \cup {Unset}]
                 /\ hasRun' \in [Job -> {0, 1}]
                 /\ waitTime' \in [Job -> Nat]
                 /\ lastTime' \in [Job -> Nat]
                 /\ currentTime' \in Nat
      <3>1. currentTime' \in Nat /\ hasRun' \in [Job -> {0, 1}]
        BY <2>1, <2>4, <2>5 DEF Turn, TypeOK
      <3>2. responseTime' \in [Job -> Nat \cup {Unset}]
        BY <2>1, <2>4, <2>5 DEF Turn, TypeOK
      <3>3. waitTime' \in [Job -> Nat]
        BY <2>1, <2>4, <2>5 DEF Turn, TypeOK
      <3>4. lastTime' \in [Job -> Nat]
        BY <2>1, <2>4, <2>5 DEF Turn, TypeOK
      <3> QED
        BY <3>1, <3>2, <3>3, <3>4
    <2>2. CASE RunSlice
      <3>1. length[tp] - time_slice \in Nat
        BY <1>c, <2>4, <2>2 DEF RunSlice
      <3>2. /\ length' \in [Job -> Nat] /\ tp' \in Job \cup {NULL}
            /\ Turn(time_slice)
            /\ UNCHANGED <<arguments, pc, id, temp, cursor, notCompleted,
                           completed, turnaroundTime, next, printed>>
        BY <2>2, <2>4, <3>1 DEF RunSlice, TypeOK
      <3> QED
        BY <1>0, <1>c, <2>5, <3>2 DEF TypeOK, arguments, printed
    <2>3. CASE RunLastSlice
      <3>1. /\ turnaroundTime' \in [Job -> Nat \cup {Unset}]
            /\ temp' \in Job \cup {NULL} /\ cursor' \in Job \cup {NULL}
            /\ pc' = "removeFromList" /\ Turn(length[tp])
            /\ UNCHANGED <<arguments, id, tp, notCompleted, completed, length,
                           next, printed>>
        <4>1. turnaroundTime' \in [Job -> Nat \cup {Unset}]
          BY <2>1, <2>3, <2>4 DEF RunLastSlice, TypeOK
        <4> QED
          BY <1>c, <2>3, <2>4, <4>1 DEF RunLastSlice
      <3> QED
        BY <1>0, <2>4, <2>5, <3>1 DEF TypeOK, arguments, printed
    <2> QED
      BY <1>6, <2>2, <2>3
  <1>7. CASE RemoveFirst \/ RemoveNext
    <2>1. notCompleted' \in list
      BY <1>7, <1>a DEF RemoveFirst, RemoveNext, TypeOK, list
    <2> QED
      BY <1>0, <1>7, <1>a, <2>1
         DEF TypeOK, arguments, RemoveFirst, RemoveNext, times, printed
  <1>8. CASE Adds
    <2>1. completed' \in list
      BY <1>8, <1>a
         DEF Adds, AddFirst, AddToFront, AddBetween, AddLast, TypeOK, list
    <2>2. next' \in [Job -> Job \cup {NULL}]
      BY <1>8, <1>a, <1>b, <1>c
         DEF Adds, AddFirst, AddToFront, AddBetween, AddLast, TypeOK
    <2> QED
      BY <1>0, <1>8, <1>a, <2>1, <2>2
         DEF TypeOK, arguments, Adds, AddFirst, AddToFront, AddBetween,
             AddLast, Added, times, printed
  <1>9. CASE StartAddAfter \/ MoveOn
    BY <1>0, <1>9, <1>b, <1>c
       DEF TypeOK, arguments, StartAddAfter, MoveOn, times, printed
  <1>10. CASE StartAnalysis \/ Analyze
    <2>1. report' \in Seq(Job) /\ tp' \in Job \cup {NULL}
      <3>1. CASE tp # NULL
        <4>1. tp \in Job /\ report \in Seq(Job) /\ next[tp] \in Job \cup {NULL}
          BY <3>1 DEF TypeOK
        <4>2. Append(report, tp) \in Seq(Job)
          BY <4>1
        <4> QED
          BY <1>10, <3>1, <4>1, <4>2 DEF StartAnalysis, Analyze
      <3>2. CASE tp = NULL
        BY <1>10, <1>c, <3>2 DEF StartAnalysis, Analyze, TypeOK, printed
      <3> QED
        BY <3>1, <3>2
    <2> QED
      BY <1>0, <1>10, <2>1
         DEF TypeOK, arguments, StartAnalysis, Analyze, times, printed
  <1>11. CASE print_averages
    <2>1. tp # NULL => tp \in Ran
      BY <1>11 DEF print_averages, RunningInv, Analyzing
    <2>2. tp # NULL => /\ responseTime[tp] \in Nat /\ turnaroundTime[tp] \in Nat
                       /\ waitTime[tp] \in Nat
      BY <2>1, RanTimes
    <2>3. total' \in totals
      BY <1>11, <2>2 DEF print_averages, TypeOK, totals
    <2> QED
      BY <1>0, <1>11, <2>3 DEF TypeOK, arguments, print_averages, times
  <1>12. CASE UNCHANGED vars
    BY <1>12 DEF TypeOK, vars
  <1> QED
    BY <1>1, <1>2, <1>3, <1>4, <1>5, <1>6, <1>7, <1>8, <1>9, <1>10, <1>11,
       <1>12
    DEF Next, Load, Run, add_job_responseTime_ascending, Analysis, Loads, Adds,
        Dequeues
-----------------------------------------------------------------------------
(* Loading. *)

\* Before the first job runs there is only the loading to do.
LoadingStep == Main \/ StartSeek \/ Seek \/ Loads \/ StartRunning

LEMMA AfterLoading ==
  ASSUME IInv, [Next]_vars, ~LoadingStep
  PROVE  /\ UNCHANGED id
         /\ Loading' => Loading
         /\ Loading => UNCHANGED vars
         /\ UNCHANGED vars \/ (~Loading /\ ~Loading')
  <1> USE DEF IInv
  <1>1. CASE UNCHANGED vars
    BY <1>1 DEF vars, Loading
  <1>2. CASE RunJob \/ Advance \/ NextRound
    BY <1>2 DEF RunJob, Advance, NextRound, Loading
  <1>3. CASE RunSlice \/ RunLastSlice
    BY <1>3 DEF RunSlice, RunLastSlice, Turn, Loading
  <1>4. CASE RemoveFirst \/ RemoveNext
    BY <1>4 DEF RemoveFirst, RemoveNext, Loading
  <1>5. CASE AddFirst \/ AddToFront \/ AddBetween \/ AddLast
    BY <1>5 DEF AddFirst, AddToFront, AddBetween, AddLast, Added, Loading
  <1>6. CASE StartAddAfter \/ MoveOn
    BY <1>6 DEF StartAddAfter, MoveOn, Loading
  <1>7. CASE StartAnalysis \/ Analyze \/ print_averages
    BY <1>7 DEF StartAnalysis, Analyze, print_averages, Loading
  <1> QED
    BY <1>1, <1>2, <1>3, <1>4, <1>5, <1>6, <1>7
       DEF LoadingStep, Next, Load, Run, add_job_responseTime_ascending,
           Analysis, Loads

LEMMA LoadingInvStep ==
  ASSUME IInv, [Next]_vars
  PROVE  LoadingInv'
  <1> USE DEF IInv
  <1>1. /\ Jobs' = Jobs /\ UNCHANGED <<policy, workload>>
        /\ Jobs \subseteq Job /\ workload \in Workloads
    BY SameArguments, SameOrder, JobsAreJobs DEF arguments, TypeOK
  <1>2. CASE UNCHANGED vars
    BY <1>1, <1>2 DEF LoadingInv, vars, Loading, Ran, Loaded
  <1>3. CASE ~Loading /\ ~Loading' /\ UNCHANGED id
    BY <1>1, <1>3 DEF LoadingInv, Loading
  <1>4. CASE StartRunning
    <2>1. pc' = "run" /\ UNCHANGED id /\ id \notin Jobs
      BY <1>4 DEF StartRunning, Jobs
    <2> QED
      BY <1>1, <2>1 DEF LoadingInv, Loading
  <1>5. CASE Main \/ StartSeek \/ Seek \/ Loads
    <2>1. /\ UNCHANGED <<tp, temp, completed, currentTime, hasRun, turnaroundTime>>
          /\ Loading /\ Loading' /\ pc' # "main"
      BY <1>5
         DEF Main, StartSeek, Seek, Loads, add_job_to_back, add_job_to_front,
             add_job_sjf, times, Loading, ReadLine
    <2>2. Ran' = Ran
      BY <2>1 DEF Ran
    <2>3. Chain(next, notCompleted.first, Loaded) /\ Loaded \subseteq Jobs
      BY <2>1, ListsAreChains, QueuedAreJobs
    <2>4. id' - 1 \in Jobs \cup {-1}
      <3>1. CASE Loads
        <4>1. id' = id + 1 /\ id \in Jobs
          BY <3>1, LoadsSets
             DEF Loads, add_job_to_back, add_job_to_front, add_job_sjf, NewJob
        <4> QED
          BY <1>1, <4>1
      <3>2. CASE Main \/ StartSeek \/ Seek
        BY <1>1, <3>2 DEF Main, StartSeek, Seek, LoadingInv
      <3> QED
        BY <1>5, <3>1, <3>2
    <2>5. ASSUME pc' = "add_job_sjf"
          PROVE  /\ policy = "SJF" /\ id \in Jobs /\ UNCHANGED <<id, length>>
                 /\ cursor' \in Loaded
                 /\ length[cursor'] <= workload[id]
      <3>1. CASE StartSeek
        <4>1. /\ policy = "SJF" /\ id \in Jobs /\ UNCHANGED <<id, length>>
              /\ cursor' = notCompleted.first
              /\ cursor' # NULL
              /\ ~(length[cursor'] > workload[id])
          BY <3>1 DEF StartSeek, ReadLine, ShorterThanAll, Jobs
        <4>2. cursor' \in Loaded
          BY <2>3, <4>1 DEF Chain
        <4>3. length[cursor'] \in Int /\ workload[id] \in Int
          <5>1. cursor' \in Job /\ workload \in [Jobs -> Nat]
            BY <1>1, <2>3, <4>2, JobsAreJobs
          <5>2. length[cursor'] \in Nat
            BY <5>1 DEF TypeOK
          <5> QED
            BY <4>1, <5>1, <5>2
        <4> QED
          BY <4>1, <4>2, <4>3
      <3>2. CASE Seek
        <4>1. /\ policy = "SJF" /\ id \in Jobs /\ cursor \in Loaded
              /\ cursor' = next[cursor] /\ next[cursor] # NULL
              /\ length[cursor'] <= workload[id] /\ UNCHANGED <<id, length>>
          BY <3>2 DEF Seek, LoadingInv, NextIsNoLonger
        <4>2. cursor' \in Loaded
          BY <2>3, <4>1 DEF Chain
        <4> QED
          BY <4>1, <4>2
      <3>3. ~Main /\ ~Loads
        BY <2>5 DEF Main, Loads, add_job_to_back, add_job_to_front, add_job_sjf,
                    ReadLine
      <3> QED
        BY <1>5, <3>1, <3>2, <3>3
    <2>6. pc' = "add_job_sjf" => Loaded' = Loaded
      BY <2>5 DEF Loaded
    <2> QED
      BY <1>1, <2>1, <2>2, <2>4, <2>5, <2>6 DEF LoadingInv
  <1> QED
    BY <1>2, <1>3, <1>4, <1>5, AfterLoading DEF LoadingStep
-----------------------------------------------------------------------------
(* Where tp, temp and the cursor are. *)

\* What comes first on a list, and what comes next, is on the list or NULL.
LEMMA OnTheList ==
  ASSUME NEW S, NEW first, NEW nx, Chain(nx, first, S)
  PROVE  /\ first \in S \/ (first = NULL /\ S = {})
         /\ \A k \in S : k = first \/ Precedes(first, k)
         /\ \A j \in S : nx[j] \in S \cup {NULL}
  BY DEF Chain

LEMMA RunningStepTakes ==
  ASSUME IInv, Dequeues \/ Adds \/ Loads
  PROVE  RunningInv'
  <1> USE DEF IInv
  <1>1. /\ Chain(next, notCompleted.first, Queued)
        /\ Chain(next, completed.first, Finished)
    BY ListsAreChains
  <1>2. CASE Loads
    <2>1. pc' = "load"
      BY <1>2 DEF Loads, add_job_to_back, add_job_to_front, add_job_sjf,
                  ReadLine
    <2>2. Ran' \subseteq Loaded' /\ Moving' = {}
      BY <1>2, LoadsSets, QueuedAreJobs
    <2> QED
      BY <2>1, <2>2 DEF RunningInv, Analyzing
  <1>3. CASE Dequeues
    <2>1. pc' = "run" /\ policy' = policy /\ tp' = notCompleted.first
          /\ UNCHANGED arguments
      BY <1>3 DEF Dequeues, StartRunning, Advance, arguments
    <2>2. /\ Ran' \subseteq Loaded' /\ Moving' = {} /\ policy # "RR"
          /\ Loaded' = Loaded /\ Ran' = Ran /\ Queued = Loaded \ Ran
          /\ Queued' = Queued \ {tp'}
      BY <1>3, <2>1, DequeuesSets, QueuedAreJobs
    <2>3. tp' \in Queued \/ (tp' = NULL /\ Queued = {})
      BY <1>1, <2>1, OnTheList
    <2>4. \A k \in Queued' : Precedes(tp', k)
      BY <1>1, <2>1, <2>2, OnTheList
    <2>5. \A k \in Queued' : Precedes(tp, k)'
      BY <2>1, <2>4, SameOrder DEF Precedes, arguments
    <2>6. tp' = NULL => Ran' = Loaded'
      <3>1. NULL \notin Queued
        BY QueuedAreJobs, JobsAreJobs DEF TypeOK
      <3>2. tp' = NULL => Loaded \ Ran = {}
        BY <2>2, <2>3, <3>1
      <3>3. Ran \subseteq Loaded
        BY QueuedAreJobs
      <3> QED
        BY <2>2, <3>2, <3>3
    <2>7. tp' \in (Loaded' \ Ran') \cup {NULL}
      BY <2>2, <2>3
    <2> QED
      BY <2>1, <2>2, <2>5, <2>6, <2>7 DEF RunningInv, Analyzing
  <1>4. CASE Adds
    <2>1. /\ pc \in {"add_completed", "add_after"}
          /\ UNCHANGED arguments
          /\ \/ policy = "RR" /\ pc' = "run" /\ tp' = temp
             \/ policy # "RR" /\ pc' = "advance" /\ tp' = tp
      BY <1>4 DEF Adds, AddFirst, AddToFront, AddBetween, AddLast, Added
    <2>2. /\ Ran' \subseteq Loaded' /\ Moving' = {} /\ Loaded' = Loaded
          /\ Ran' = Ran /\ Queued = Loaded \ Ran /\ tp \in Ran
      BY <1>4, <2>1, AddsSets, QueuedAreJobs DEF RunningInv
    <2>3. policy = "RR" => temp \in Queued \cup {NULL}
      BY <2>1 DEF RunningInv, IsLeast, After
    <2> QED
      BY <2>1, <2>2, <2>3 DEF RunningInv, arguments, Analyzing
  <1> QED
    BY <1>2, <1>3, <1>4

LEMMA RunningStepRuns ==
  ASSUME IInv, Finishes \/ Removes
  PROVE  RunningInv'
  <1> USE DEF IInv
  <1>1. /\ Chain(next, notCompleted.first, Queued)
        /\ workload \in Workloads /\ Queued \subseteq Jobs
    BY ListsAreChains, QueuedAreJobs DEF TypeOK
  <1>2. CASE RunJob
    <2>1. pc' = "add_completed" /\ UNCHANGED arguments /\ policy # "RR"
      BY <1>2 DEF RunJob
    <2>2. Moving' = {tp'} /\ tp' \in Ran' /\ Ran' \subseteq Loaded'
      BY <1>2, FinishesSets, QueuedAreJobs DEF Finishes
    <2> QED
      BY <2>1, <2>2 DEF RunningInv, arguments, Analyzing
  <1>3. CASE RunLastSlice
    <2>1. /\ pc = "run" /\ pc' = "removeFromList" /\ UNCHANGED arguments
          /\ policy = "RR" /\ tp # NULL /\ temp' = next[tp]
          /\ cursor' = notCompleted.first
          /\ UNCHANGED <<tp, notCompleted, next>>
      BY <1>3 DEF RunLastSlice, Turn
    <2>2. /\ Moving' = {tp'} /\ tp' \in Ran' /\ Ran' \subseteq Loaded'
          /\ Queued' = Queued
      BY <1>3, FinishesSets, QueuedAreJobs DEF Finishes
    <2>3. tp \in Queued
      BY <2>1, TurnTime
    <2>4. notCompleted.first # tp =>
            /\ notCompleted.first \in Queued
            /\ notCompleted.first < tp
      <3>1. Queued # {} /\ notCompleted.first \in Queued
        BY <1>1, <2>3, OnTheList
      <3>2. notCompleted.first = tp \/ Precedes(notCompleted.first, tp)
        BY <1>1, <2>3, OnTheList
      <3> QED
        BY <2>1, <3>1, <3>2 DEF Precedes
    <2> QED
      BY <2>1, <2>2, <2>4 DEF RunningInv, arguments, Analyzing
  <1>4. CASE Removes
    <2>1. /\ pc = "removeFromList" /\ pc' = "add_completed"
          /\ UNCHANGED <<arguments, temp, tp>>
      BY <1>4 DEF Removes, RemoveFirst, RemoveNext
    <2>2. /\ Moving' = {tp'} /\ tp' \in Ran' /\ Ran' \subseteq Loaded'
          /\ Queued' = Queued \ {tp} /\ tp \in Queued
          /\ temp = next[tp]
      BY <1>4, <2>1, RemovesSets, QueuedAreJobs DEF RunningInv
    <2>3. IsLeast(temp, After(tp, Queued))
      BY <2>2 DEF ListsInOrder, IsChain
    <2>4. After(tp, Queued \ {tp}) = After(tp, Queued)
      BY <1>1, <2>2, StrictOrder DEF After
    <2>5. IsLeast(temp', After(tp', Queued'))
      BY <2>1, <2>2, <2>3, <2>4
    <2>6. IsLeast(temp, After(tp, Queued))'
      BY <2>1, <2>5, SameOrder DEF IsLeast, After
    <2> QED
      BY <2>1, <2>2, <2>6 DEF RunningInv, arguments, Analyzing
  <1> QED
    BY <1>2, <1>3, <1>4 DEF Finishes

LEMMA RunningStepStays ==
  ASSUME IInv, [Next]_vars, Stays
  PROVE  RunningInv'
  <1> USE DEF IInv
  <1>1. /\ Chain(next, notCompleted.first, Queued)
        /\ Chain(next, completed.first, Finished)
        /\ Ran \subseteq Loaded
    BY ListsAreChains, QueuedAreJobs
  <1>2. /\ Ran' = Ran /\ Loaded' = Loaded /\ Moving' = Moving
        /\ Queued' = Queued /\ Finished' = Finished
        /\ UNCHANGED <<next, notCompleted, completed>>
    BY StaysSets
  <1>3. UNCHANGED <<policy, workload, time_slice>> /\ Jobs' = Jobs
    BY SameArguments, SameOrder DEF arguments
  <1>4. CASE Main \/ StartSeek \/ Seek
    <2>1. pc' \in {"load", "exit", "add_job_sjf"} /\ Moving = {}
      BY <1>4 DEF Main, StartSeek, Seek, ReadLine, Moving
    <2> QED
      BY <1>1, <1>2, <2>1 DEF RunningInv, Analyzing
  <1>5. CASE StartRunning /\ policy = "RR"
    <2>1. pc' = "run" /\ tp' = NULL /\ Moving = {}
      BY <1>5 DEF StartRunning, Moving, LoadingInv, Loading
    <2> QED
      BY <1>1, <1>2, <1>3, <1>5, <2>1 DEF RunningInv, Analyzing
  <1>6. CASE NextRound \/ RunSlice
    <2>1. pc = "run" /\ pc' = "run" /\ policy = "RR"
      BY <1>6 DEF NextRound, RunSlice, Turn
    <2>2. Queued = Loaded \ Ran /\ Moving = {}
      BY <2>1 DEF Queued, Moving, Loaded
    <2>3. tp' \in Queued \cup {NULL}
      <3>1. CASE NextRound
        BY <1>1, <3>1, OnTheList DEF NextRound
      <3>2. CASE RunSlice
        <4>1. tp \in Queued /\ tp' = next[tp]
          BY <3>2, <2>1, TurnTime DEF RunSlice, Turn
        <4> QED
          BY <1>1, <4>1, OnTheList
      <3> QED
        BY <1>6, <3>1, <3>2
    <2> QED
      BY <1>1, <1>2, <1>3, <2>1, <2>2, <2>3 DEF RunningInv, Analyzing
  <1>7. CASE RemoveNext /\ next[cursor] # tp
    <2>1. /\ pc = "removeFromList" /\ pc' = pc /\ UNCHANGED <<tp, temp>>
          /\ notCompleted.first # tp /\ cursor' = next[cursor]
          /\ next[cursor] # tp
      BY <1>7 DEF RemoveNext
    <2>2. /\ cursor \in Queued /\ cursor < tp /\ policy = "RR"
          /\ tp \in Ran /\ Moving = {tp}
      BY <2>1 DEF RunningInv, Moving
    <2>3. tp \in Queued /\ tp \in Jobs
      BY <2>1, <2>2, QueuedAreJobs DEF Queued, Finished, Loaded
    <2>4. Precedes(cursor, tp)
      BY <2>2 DEF Precedes
    <2>5. next[cursor] \in Queued /\ Precedes(next[cursor], tp)
      BY <1>1, <2>1, <2>2, <2>3, <2>4 DEF Chain
    <2>6. cursor' \in Queued /\ cursor' < tp
      BY <2>1, <2>2, <2>5 DEF Precedes
    <2> QED
      BY <1>1, <1>2, <1>3, <2>1, <2>2, <2>6 DEF RunningInv, Analyzing
  <1>8. CASE StartAddAfter \/ MoveOn
    <2>1. /\ pc \in {"add_completed", "add_after"} /\ pc' = "add_after"
          /\ UNCHANGED <<tp, temp, responseTime>>
      BY <1>8 DEF StartAddAfter, MoveOn, times
    <2>2. tp \in Ran /\ Moving = {tp}
      BY <2>1 DEF RunningInv, Moving
    <2>3. cursor' \in Finished /\ ~(responseTime[tp] < responseTime[cursor'])
      <3>1. CASE StartAddAfter
        <4>1. completed.first # NULL /\ cursor' = completed.first
              /\ responseTime[tp] >= responseTime[cursor']
          BY <3>1 DEF StartAddAfter
        <4>2. cursor' \in Finished
          BY <1>1, <4>1, OnTheList
        <4>3. responseTime[tp] \in Nat /\ responseTime[cursor'] \in Nat
          BY <2>2, <4>2, QueuedAreJobs, RanTimes
        <4> QED
          BY <4>1, <4>2, <4>3
      <3>2. CASE MoveOn
        <4>1. next[cursor] # NULL /\ cursor' = next[cursor]
              /\ responseTime[tp] >= responseTime[cursor']
              /\ pc = "add_after"
          BY <3>2 DEF MoveOn
        <4>2. cursor' \in Finished
          BY <1>1, <4>1, OnTheList DEF RunningInv
        <4>3. responseTime[tp] \in Nat /\ responseTime[cursor'] \in Nat
          BY <2>2, <4>2, QueuedAreJobs, RanTimes
        <4> QED
          BY <4>1, <4>2, <4>3
      <3> QED
        BY <1>8, <3>1, <3>2
    <2>4. responseTime[cursor'] <= responseTime[tp]
      <3>1. responseTime[tp] \in Nat /\ responseTime[cursor'] \in Nat
        BY <2>2, <2>3, QueuedAreJobs, RanTimes
      <3> QED
        BY <2>3, <3>1
    <2>5. policy = "RR" => IsLeast(temp, After(tp, Queued))
      BY <2>1 DEF RunningInv
    <2>6. policy = "RR" => IsLeast(temp, After(tp, Queued))'
      BY <1>2, <1>3, <2>1, <2>5 DEF IsLeast, After, Precedes
    <2> QED
      BY <1>1, <1>2, <1>3, <2>1, <2>2, <2>3, <2>4, <2>6
         DEF RunningInv, Analyzing
  <1>9. CASE StartAnalysis
    <2>1. /\ pc = "run" /\ pc' = "analyze" /\ tp = NULL
          /\ policy = "RR" => notCompleted.first = NULL
          /\ tp' = completed.first
      BY <1>9 DEF StartAnalysis
    <2>2. Ran = Loaded
      <3>1. CASE policy # "RR"
        BY <2>1, <3>1 DEF RunningInv
      <3>2. CASE policy = "RR"
        <4>1. Queued = {}
          BY <1>1, <2>1, <3>2, QueuedAreJobs, JobsAreJobs DEF Chain, TypeOK
        <4>2. Queued = Loaded \ Ran
          BY <2>1, <3>2 DEF Queued, Loaded
        <4> QED
          BY <1>1, <4>1, <4>2
      <3> QED
        BY <3>1, <3>2
    <2>3. Loaded = Jobs /\ Moving = {} /\ Finished \subseteq Jobs
      BY <2>1, QueuedAreJobs DEF Loading, Moving
    <2>4. tp' \in Jobs \cup {NULL}
      BY <1>1, <2>1, <2>3, OnTheList
    <2> QED
      BY <1>1, <1>2, <1>3, <2>1, <2>2, <2>3, <2>4 DEF RunningInv, Analyzing
  <1>10. CASE Analyze \/ print_averages
    <2>1. Analyzing /\ Analyzing'
      BY <1>10 DEF Analyze, print_averages, Analyzing
    <2>2. Moving = {} /\ Ran = Jobs /\ tp \in Jobs \cup {NULL}
          /\ Finished = Jobs
      BY <2>1 DEF Moving, RunningInv, Analyzing, Finished
    <2>3. tp' \in Jobs \cup {NULL}
      <3>1. (tp' = next[tp] /\ tp # NULL) \/ tp' = completed.first \/ tp' = tp
        BY <1>10 DEF Analyze, print_averages
      <3> QED
        BY <1>1, <2>2, <3>1, OnTheList
    <2> QED
      BY <1>1, <1>2, <1>3, <2>1, <2>2, <2>3 DEF RunningInv, Analyzing
  <1>11. CASE UNCHANGED vars
    <2>1. UNCHANGED <<pc, tp, temp, cursor, responseTime>>
      BY <1>11 DEF vars
    <2>2. policy = "RR" /\ pc \in {"add_completed", "add_after"} =>
            IsLeast(temp, After(tp, Queued))'
      BY <1>2, <1>3, <2>1 DEF RunningInv, IsLeast, After, Precedes
    <2>3. pc = "run" /\ policy # "RR" /\ tp # NULL =>
            \A k \in Queued : Precedes(tp, k)'
      BY <1>3, <2>1 DEF RunningInv, Precedes
    <2> QED
      BY <1>1, <1>2, <1>3, <2>1, <2>2, <2>3 DEF RunningInv, Analyzing
  <1> QED
    BY <1>4, <1>5, <1>6, <1>7, <1>8, <1>9, <1>10, <1>11 DEF Stays

LEMMA RunningStep ==
  ASSUME IInv, [Next]_vars
  PROVE  RunningInv'
  BY StepKinds, RunningStepTakes, RunningStepRuns, RunningStepStays
-----------------------------------------------------------------------------
(* What a turn of RR does to the times. *)

Turns == RunSlice \/ RunLastSlice

TimeOfTurn == IF length[tp] > time_slice THEN time_slice ELSE length[tp]

LEMMA NotATurn ==
  ASSUME IInv, [Next]_vars, ~Turns, policy = "RR"
  PROVE  /\ UNCHANGED <<currentTime, responseTime, turnaroundTime, waitTime,
                        hasRun, lastTime>>
         /\ Ran' = Ran
         /\ UNCHANGED <<length, id>> \/ Loads
  <1> USE DEF IInv, times
  <1>1. ~RunJob /\ ~Advance
    BY DEF RunJob, Advance, RunningInv
  <1>2. /\ UNCHANGED <<currentTime, responseTime, turnaroundTime, waitTime,
                       hasRun, lastTime>>
        /\ UNCHANGED <<length, id>> \/ Loads
    <2>1. CASE Loads
      BY <2>1 DEF Loads, add_job_to_back, add_job_to_front, add_job_sjf
    <2>2. CASE Main \/ StartSeek \/ Seek \/ StartRunning \/ NextRound
      BY <2>2 DEF Main, StartSeek, Seek, StartRunning, NextRound
    <2>3. CASE RemoveFirst \/ RemoveNext
      BY <2>3 DEF RemoveFirst, RemoveNext
    <2>4. CASE add_job_responseTime_ascending
      BY <2>4 DEF add_job_responseTime_ascending, AddFirst, AddToFront,
                  StartAddAfter, AddBetween, MoveOn, AddLast
    <2>5. CASE Analysis
      BY <2>5 DEF Analysis, StartAnalysis, Analyze, print_averages
    <2>6. CASE UNCHANGED vars
      BY <2>6 DEF vars
    <2> QED
      BY <1>1, <2>1, <2>2, <2>3, <2>4, <2>5, <2>6 DEF Next, Load, Run, Loads, Turns
  <1>3. Ran' = Ran
    BY <1>2 DEF Ran
  <1> QED
    BY <1>2, <1>3

LEMMA TurnEffects ==
  ASSUME IInv, Turns
  PROVE  /\ policy = "RR" /\ pc = "run" /\ NextTurn = tp /\ Moving = {}
         /\ tp \in Job /\ tp \in Jobs \ Ran /\ tp \in Queued /\ tp \in Loaded
         /\ Queued = Loaded \ Ran
         /\ TimeOfTurn \in 0 .. time_slice
         /\ currentTime' = currentTime + TimeOfTurn
         /\ responseTime'[tp] = IF hasRun[tp] = 0 THEN currentTime
                                ELSE responseTime[tp]
         /\ hasRun'[tp] = 1
         /\ waitTime'[tp] = waitTime[tp] + (currentTime - lastTime[tp])
         /\ lastTime'[tp] = currentTime + TimeOfTurn
         /\ \A j \in Job \ {tp} :
              /\ responseTime'[j] = responseTime[j]
              /\ hasRun'[j] = hasRun[j]
              /\ waitTime'[j] = waitTime[j]
              /\ lastTime'[j] = lastTime[j]
              /\ length'[j] = length[j]
              /\ turnaroundTime'[j] = turnaroundTime[j]
         /\ UNCHANGED <<policy, workload, time_slice, id>>
         /\ \/ /\ RunSlice /\ length[tp] > time_slice /\ TimeOfTurn = time_slice
               /\ length'[tp] = length[tp] - time_slice
               /\ Ran' = Ran /\ NextTurn' = next[tp]
            \/ /\ RunLastSlice /\ length[tp] <= time_slice
               /\ TimeOfTurn = length[tp]
               /\ turnaroundTime'[tp] = currentTime + length[tp]
               /\ Ran' = Ran \cup {tp} /\ NextTurn' = next[tp]
  <1> USE DEF IInv
  <1>1. /\ policy = "RR" /\ pc = "run" /\ tp # NULL
        /\ UNCHANGED <<policy, workload, time_slice, id>>
    BY DEF Turns, RunSlice, RunLastSlice, Turn, arguments
  <1>2. tp \in Job /\ tp \in Jobs \ Ran /\ tp \in Queued /\ tp \in Loaded
    BY <1>1, TurnTime, QueuedAreJobs
  <1>3. /\ length[tp] \in Nat /\ time_slice \in Nat /\ currentTime \in Nat
    BY <1>2, SchedulerAssumption DEF TypeOK
  <1>4. \/ RunSlice /\ TimeOfTurn = time_slice /\ length[tp] > time_slice
        \/ RunLastSlice /\ TimeOfTurn = length[tp] /\ length[tp] <= time_slice
    BY <1>3 DEF Turns, RunSlice, RunLastSlice, TimeOfTurn
  <1>5. TimeOfTurn \in 0 .. time_slice
    BY <1>3, <1>4
  <1>6. Turn(TimeOfTurn)
    BY <1>4 DEF RunSlice, RunLastSlice
  <1>7. currentTime' = currentTime + TimeOfTurn
    BY <1>6 DEF Turn
  <1>8. /\ responseTime'[tp] = IF hasRun[tp] = 0 THEN currentTime
                               ELSE responseTime[tp]
        /\ hasRun'[tp] = 1
        /\ waitTime'[tp] = waitTime[tp] + (currentTime - lastTime[tp])
        /\ lastTime'[tp] = currentTime + TimeOfTurn
    BY <1>2, <1>6 DEF Turn, TypeOK
  <1>9. ASSUME NEW j \in Job \ {tp}
        PROVE  /\ responseTime'[j] = responseTime[j]
               /\ hasRun'[j] = hasRun[j]
               /\ waitTime'[j] = waitTime[j]
               /\ lastTime'[j] = lastTime[j]
    BY <1>2, <1>6 DEF Turn, TypeOK
  <1>10. ASSUME NEW j \in Job \ {tp}
         PROVE  length'[j] = length[j] /\ turnaroundTime'[j] = turnaroundTime[j]
    BY <1>2, <1>4 DEF RunSlice, RunLastSlice, TypeOK
  <1>11. Moving = {} /\ NextTurn = tp
    BY <1>1 DEF Moving, NextTurn
  <1>12. Queued = Loaded \ Ran
    BY <1>1 DEF Queued, Loaded
  <1>13. ASSUME RunSlice
         PROVE  /\ length'[tp] = length[tp] - time_slice
                /\ Ran' = Ran /\ NextTurn' = next[tp]
    <2>1. UNCHANGED <<pc, turnaroundTime>> /\ tp' = next[tp]
      BY <1>13 DEF RunSlice
    <2>2. Ran' = Ran /\ Moving' = {}
      BY <1>1, <2>1 DEF Ran, Moving
    <2> QED
      BY <1>2, <1>13, <2>1, <2>2 DEF RunSlice, NextTurn, TypeOK
  <1>14. ASSUME RunLastSlice
         PROVE  /\ turnaroundTime'[tp] = currentTime + length[tp]
                /\ Ran' = Ran \cup {tp} /\ NextTurn' = next[tp]
    <2>1. temp' = next[tp]
      BY <1>14 DEF RunLastSlice
    <2>2. Ran' = Ran \cup {tp} /\ Moving' = {tp}
      BY <1>14, FinishesSets DEF Finishes
    <2> QED
      BY <1>2, <1>14, <2>1, <2>2 DEF RunLastSlice, NextTurn, TypeOK
  <1> QED
    BY <1>1, <1>2, <1>4, <1>5, <1>7, <1>8, <1>9, <1>10, <1>11, <1>12, <1>13,
       <1>14
-----------------------------------------------------------------------------
(* Response times and the sequential policies. *)

LEMMA ResponseStep ==
  ASSUME IInv, [Next]_vars
  PROVE  ResponseOrder'
  <1> USE DEF IInv
  <1>1. /\ UNCHANGED arguments /\ workload \in Workloads
        /\ \A i, j : Precedes(i, j)' <=> Precedes(i, j)
        /\ Jobs \subseteq Job /\ Ran \subseteq Jobs /\ Finished \subseteq Ran
    BY SameArguments, SameOrder, QueuedAreJobs, JobsAreJobs DEF TypeOK
  <1>2. CASE Removes \/ (Stays /\ Moving # {})
    <2>1. /\ UNCHANGED <<responseTime, tp>> \/ UNCHANGED vars
      <3>1. CASE Removes
        BY <3>1 DEF Removes, RemoveFirst, RemoveNext, times
      <3>2. CASE Stays /\ Moving # {}
        BY <3>2 DEF Stays, Moving, Main, StartSeek, Seek, StartRunning,
           NextRound, RunSlice, Turn, RemoveNext, StartAddAfter, MoveOn,
           StartAnalysis, Analyze, print_averages, ReadLine, times
      <3> QED
        BY <1>2, <3>1, <3>2
    <2>2. Finished' = Finished /\ Moving # {}
      BY <1>2, RemovesSets, StaysSets
    <2>3. UNCHANGED <<responseTime, tp>>
      BY <2>1 DEF vars
    <2> QED
      BY <1>1, <2>2, <2>3 DEF ResponseOrder
  <1>3. CASE RunJob
    <2>1. /\ policy # "RR" /\ Finished' = Ran /\ tp' = tp /\ tp \in Jobs \ Ran
      BY <1>3, FinishesSets DEF RunJob, Finishes
    <2>2. ASSUME NEW k \in Ran
          PROVE  /\ ~Precedes(tp, k)
                 /\ responseTime'[k] <= responseTime'[tp]
      <3>1. Precedes(k, tp) /\ responseTime[k] \in 0 .. currentTime
        BY <2>1 DEF SequentialInv
      <3>2. k \in Jobs /\ k \in Job /\ tp \in Job /\ k # tp
        BY <1>1, <2>1
      <3>3. responseTime'[k] = responseTime[k] /\ responseTime'[tp] = currentTime
        BY <1>3, <3>2 DEF RunJob, TypeOK
      <3> QED
        BY <1>1, <2>1, <3>1, <3>2, <3>3, StrictOrder DEF TypeOK
    <2> QED
      BY <1>1, <2>1, <2>2 DEF ResponseOrder
  <1>4. CASE RunLastSlice
    <2>1. /\ policy = "RR" /\ Finished' = Ran /\ tp' = tp
          /\ tp \in Job /\ tp \in Jobs \ Ran
          /\ length[tp] <= time_slice
          /\ responseTime'[tp] = IF hasRun[tp] = 0 THEN currentTime
                                 ELSE responseTime[tp]
          /\ \A j \in Job \ {tp} : responseTime'[j] = responseTime[j]
      BY <1>4, FinishesSets, TurnEffects DEF Finishes, RunLastSlice, Turns
    <2>2. ASSUME NEW k \in Ran
          PROVE  /\ k < tp => responseTime'[k] <= responseTime'[tp]
                 /\ tp < k => responseTime'[tp] < responseTime'[k]
      <3>1. /\ k \in Job /\ k # tp /\ hasRun[k] = 1
            /\ responseTime'[k] = responseTime[k]
        BY <1>1, <2>1, RanTimes
      <3>2. CASE hasRun[tp] = 0
        <4>1. ~(tp < k)
          BY <2>1, <3>1, <3>2 DEF FirstTurnsInv
        <4>2. responseTime[k] <= currentTime
          BY <2>1, <3>1 DEF HasRunInv, HasRunFacts
        <4> QED
          BY <2>1, <3>1, <3>2, <4>1, <4>2
      <3>3. CASE hasRun[tp] # 0
        <4>1. hasRun[tp] = 1 /\ responseTime'[tp] = responseTime[tp]
          BY <2>1, <3>3 DEF TypeOK
        <4>2. k < tp => responseTime[k] <= responseTime[tp]
          BY <2>1, <3>1, <4>1 DEF FirstTurnsInv
        <4>3. tp < k => responseTime[tp] + time_slice <= responseTime[k]
          BY <2>1, <3>1, <4>1 DEF FirstTurnsInv
        <4>4. /\ workload[tp] > time_slice
              /\ time_slice = 0 => length[tp] = workload[tp]
          BY <2>1, <4>1 DEF HasRunInv, HasRunFacts
        <4>5. /\ time_slice \in Nat /\ responseTime[tp] \in Int
              /\ responseTime[k] \in Int
          <5>1. time_slice \in Nat
            BY SchedulerAssumption DEF TypeOK
          <5>2. responseTime[k] \in Int
            BY <3>1 DEF TypeOK
          <5>3. responseTime[tp] \in Int
            BY <2>1 DEF TypeOK
          <5> QED
            BY <5>1, <5>2, <5>3
        <4>6. time_slice > 0
          <5>1. length[tp] \in Nat
            BY <2>1 DEF TypeOK
          <5> QED
            BY <2>1, <4>4, <4>5, <5>1
        <4> QED
          BY <3>1, <4>1, <4>2, <4>3, <4>5, <4>6
      <3> QED
        BY <3>2, <3>3
    <2> QED
      BY <1>1, <2>1, <2>2 DEF ResponseOrder, Precedes, arguments
  <1>5. CASE Loads \/ Dequeues \/ Adds \/ (Stays /\ Moving = {})
    BY <1>5, LoadsSets, DequeuesSets, AddsSets, StaysSets DEF ResponseOrder
  <1> QED
    BY <1>2, <1>3, <1>4, <1>5, StepKinds DEF Finishes

LEMMA SequentialStep ==
  ASSUME IInv, [Next]_vars
  PROVE  SequentialInv'
  <1> USE DEF IInv
  <1>1. /\ UNCHANGED <<policy, workload>> /\ workload \in Workloads
        /\ \A i, j : Precedes(i, j)' <=> Precedes(i, j)
        /\ Jobs' = Jobs
        /\ Jobs \subseteq Job /\ Ran \subseteq Jobs
        /\ Loaded \subseteq Jobs
    BY SameArguments, SameOrder, QueuedAreJobs, JobsAreJobs
       DEF TypeOK, arguments
  <1> SUFFICES ASSUME policy # "RR" PROVE SequentialInv'
    BY <1>1 DEF SequentialInv
  <1>2. CASE Loads
    <2>1. /\ Ran' = {} /\ Loaded' = Loaded \cup {id} /\ id \in Jobs
          /\ id \notin Loaded
      BY <1>2, LoadsSets, QueuedAreJobs DEF LoadingInv
    <2>2. length' = [length EXCEPT ![id] = workload[id]]
      BY <1>2 DEF Loads, add_job_to_back, add_job_to_front, add_job_sjf, NewJob
    <2>3. \A j \in Loaded' : length'[j] = workload[j]
      BY <1>1, <2>1, <2>2 DEF SequentialInv, TypeOK
    <2>4. responseTime' = responseTime /\ Ran = {}
      BY <1>2, <2>1, LoadsSets
         DEF Loads, add_job_to_back, add_job_to_front, add_job_sjf, times
    <2> QED
      BY <1>1, <2>1, <2>3, <2>4 DEF SequentialInv
  <1>3. CASE RunJob
    <2>1. /\ Ran' = Ran \cup {tp} /\ Loaded' = Loaded /\ tp \in Jobs \ Ran
          /\ Queued' = Queued /\ tp \in Loaded
      BY <1>3, FinishesSets DEF Finishes
    <2>2. /\ responseTime' = [responseTime EXCEPT ![tp] = currentTime]
          /\ turnaroundTime' =
               [turnaroundTime EXCEPT ![tp] = currentTime + length[tp]]
          /\ waitTime' = [waitTime EXCEPT ![tp] = currentTime]
          /\ UNCHANGED <<length, currentTime>> /\ pc = "run" /\ tp # NULL
      BY <1>3 DEF RunJob
    <2>3. ASSUME NEW j \in Ran'
          PROVE  /\ responseTime'[j] \in 0 .. currentTime
                 /\ turnaroundTime'[j] = responseTime'[j] + workload[j]
                 /\ waitTime'[j] = responseTime'[j]
      <3>1. CASE j = tp
        <4>1. /\ responseTime'[j] = currentTime /\ waitTime'[j] = currentTime
              /\ turnaroundTime'[j] = currentTime + length[tp]
          BY <1>1, <2>1, <2>2, <3>1 DEF TypeOK
        <4>2. length[tp] = workload[tp] /\ currentTime \in Nat
          BY <2>1 DEF SequentialInv, TypeOK
        <4> QED
          BY <3>1, <4>1, <4>2
      <3>2. CASE j # tp
        <4>1. j \in Ran /\ j \in Job
          BY <1>1, <2>1, <2>3, <3>2
        <4>2. /\ responseTime'[j] = responseTime[j] /\ waitTime'[j] = waitTime[j]
              /\ turnaroundTime'[j] = turnaroundTime[j]
          BY <2>2, <3>2, <4>1 DEF TypeOK
        <4> QED
          BY <4>1, <4>2 DEF SequentialInv
      <3> QED
        BY <3>1, <3>2
    <2>4. ASSUME NEW j \in Ran', NEW k \in Jobs \ Ran'
          PROVE  Precedes(j, k)
      <3>1. CASE j = tp
        <4>1. k \in Loaded
          BY <2>2, <2>4, QueuedAreJobs DEF Loading
        <4>2. k \in Queued
          BY <2>1, <2>2, <2>4, <4>1 DEF Queued, Loaded
        <4> QED
          BY <2>2, <3>1, <4>2 DEF RunningInv
      <3>2. CASE j # tp
        BY <2>1, <2>4, <3>2 DEF SequentialInv
      <3> QED
        BY <3>1, <3>2
    <2>5. \A j \in Job \ Ran' : responseTime'[j] = Unset
      BY <1>1, <2>1, <2>2 DEF SequentialInv, TypeOK
    <2> QED
      BY <1>1, <2>1, <2>2, <2>3, <2>4, <2>5 DEF SequentialInv
  <1>4. CASE Advance
    <2>1. /\ UNCHANGED <<length, responseTime, turnaroundTime, waitTime>>
          /\ Ran' = Ran /\ Loaded' = Loaded
      BY <1>4, DequeuesSets DEF Advance, times, Dequeues
    <2>2. currentTime \in Nat /\ currentTime' \in Nat /\ currentTime <= currentTime'
      <3>1. tp \in Job /\ currentTime' = currentTime + length[tp]
        BY <1>4 DEF Advance, RunningInv, Ran
      <3> QED
        BY <3>1 DEF TypeOK
    <2> QED
      BY <1>1, <2>1, <2>2 DEF SequentialInv
  <1>5. CASE ~Loads /\ ~RunJob /\ ~Advance
    <2>1. ~Turns
      BY DEF Turns, RunSlice, RunLastSlice, Turn
    <2>2. UNCHANGED <<length, responseTime, turnaroundTime, waitTime, currentTime, id>>
      BY <1>5, <2>1
         DEF Next, Load, Run, add_job_responseTime_ascending, Analysis, vars,
             Main, StartSeek, Seek, StartRunning, NextRound, RemoveFirst,
             RemoveNext, AddFirst, AddToFront, StartAddAfter, AddBetween,
             MoveOn, AddLast, StartAnalysis, Analyze, print_averages, times,
             Turns, Loads
    <2>3. Ran' = Ran /\ Loaded' = Loaded
      BY <2>2 DEF Ran, Loaded
    <2> QED
      BY <1>1, <2>2, <2>3 DEF SequentialInv
  <1> QED
    BY <1>2, <1>3, <1>4, <1>5
-----------------------------------------------------------------------------
(* The turns of RR. *)

LEMMA NotRunStep ==
  ASSUME IInv, [Next]_vars
  PROVE  NotRunInv'
  <1> USE DEF IInv
  <1> SUFFICES ASSUME policy = "RR", NEW j \in Job, hasRun'[j] = 0
      PROVE  /\ j \notin Ran'
             /\ responseTime'[j] = Unset
             /\ waitTime'[j] = 0
             /\ lastTime'[j] = 0
             /\ j \in Loaded' => length'[j] = workload'[j]
    BY SameArguments DEF NotRunInv, arguments
  <1>0. workload' = workload
    BY SameArguments DEF arguments
  <1>1. CASE Turns
    <2>1. j # tp /\ hasRun[j] = 0
      BY <1>1, TurnEffects
    <2>2. /\ waitTime'[j] = waitTime[j] /\ lastTime'[j] = lastTime[j]
          /\ responseTime'[j] = responseTime[j]
          /\ length'[j] = length[j] /\ id' = id
      BY <1>1, <2>1, TurnEffects
    <2>3. j \notin Ran'
      BY <1>1, <2>1, TurnEffects DEF NotRunInv
    <2>4. Loaded' = Loaded
      BY <2>2 DEF Loaded
    <2> QED
      BY <1>0, <2>1, <2>2, <2>3, <2>4 DEF NotRunInv
  <1>2. CASE ~Turns
    <2>1. /\ hasRun[j] = 0 /\ Ran' = Ran /\ waitTime' = waitTime
          /\ lastTime' = lastTime /\ responseTime' = responseTime
          /\ UNCHANGED <<length, id>> \/ Loads
      BY <1>2, NotATurn
    <2>2. j \in Loaded' => length'[j] = workload[j]
      <3>1. CASE UNCHANGED <<length, id>>
        BY <2>1, <3>1 DEF NotRunInv, Loaded
      <3>2. CASE Loads
        <4>1. length' = [length EXCEPT ![id] = workload[id]]
          BY <3>2 DEF Loads, add_job_to_back, add_job_to_front, add_job_sjf,
                      NewJob
        <4>2. Loaded' = Loaded \cup {id}
          BY <3>2, LoadsSets
        <4> QED
          BY <2>1, <4>1, <4>2 DEF NotRunInv, TypeOK
      <3> QED
        BY <2>1, <3>1, <3>2
    <2> QED
      BY <1>0, <2>1, <2>2 DEF NotRunInv
  <1> QED
    BY <1>1, <1>2

\* The first turn of a job comes within a slice of each job before it.
LEMMA FirstTurn ==
  ASSUME IInv, Turns, hasRun[tp] = 0
  PROVE  /\ currentTime <= tp * time_slice
         /\ \A j \in Loaded : hasRun[j] = 1 <=> j < tp
  <1>1. NextTurn = tp /\ tp \in Loaded /\ tp # NULL /\ policy = "RR" /\ pc = "run"
    BY TurnEffects DEF Turns, RunSlice, RunLastSlice, Turn
  <1>2. hasRun[tp] # 1 /\ ~Analyzing
    BY <1>1 DEF Analyzing
  <1> QED
    BY <1>1, <1>2 DEF IInv, RoundInv

LEMMA HasRunTurn ==
  ASSUME IInv, Turns, NEW j, j = tp
  PROVE  HasRunFacts(j)'
  <1> USE DEF IInv
  <1>1. /\ j \in Job /\ j \in Jobs /\ j \notin Ran /\ j \in Loaded
        /\ policy = "RR" /\ UNCHANGED <<workload, time_slice, id>>
        /\ currentTime' = currentTime + TimeOfTurn
        /\ lastTime'[j] = currentTime + TimeOfTurn
        /\ TimeOfTurn \in 0 .. time_slice
        /\ waitTime'[j] = waitTime[j] + (currentTime - lastTime[j])
        /\ responseTime'[j] = IF hasRun[j] = 0 THEN currentTime
                              ELSE responseTime[j]
        /\ \/ /\ length[j] > time_slice /\ TimeOfTurn = time_slice
              /\ length'[j] = length[j] - time_slice /\ Ran' = Ran
           \/ /\ length[j] <= time_slice /\ TimeOfTurn = length[j]
              /\ turnaroundTime'[j] = currentTime + length[j]
              /\ Ran' = Ran \cup {j}
    BY TurnEffects
  <1>2. Loaded' = Loaded
    BY <1>1 DEF Loaded
  <1>3. /\ currentTime \in Nat /\ time_slice \in Nat /\ length[j] \in Nat
        /\ workload[j] \in Nat /\ waitTime[j] \in Nat /\ lastTime[j] \in Nat
        /\ responseTime[j] \in Int /\ hasRun[j] \in {0, 1}
    <2>1. time_slice \in Nat /\ currentTime \in Nat
      BY SchedulerAssumption DEF TypeOK
    <2>2. /\ length[j] \in Nat /\ waitTime[j] \in Nat /\ lastTime[j] \in Nat
          /\ hasRun[j] \in {0, 1}
      BY <1>1 DEF TypeOK
    <2>3. responseTime[j] \in Int
      BY <1>1 DEF TypeOK
    <2>4. workload[j] \in Nat
      BY <1>1, JobsAreJobs DEF TypeOK
    <2> QED
      BY <2>1, <2>2, <2>3, <2>4
  <1>4. /\ waitTime'[j] = currentTime - (workload[j] - length[j])
        /\ responseTime'[j] \in 0 .. waitTime'[j]
        /\ responseTime'[j] <= j * time_slice
        /\ responseTime'[j] <= currentTime
        /\ length[j] <= workload[j]
        /\ time_slice = 0 => length[j] = workload[j]
        /\ length[j] > time_slice => workload[j] > time_slice
    <2>1. CASE hasRun[j] = 0
      <3>1. waitTime[j] = 0 /\ lastTime[j] = 0 /\ length[j] = workload[j]
        BY <1>1, <2>1 DEF NotRunInv
      <3>2. responseTime'[j] = currentTime /\ waitTime'[j] = currentTime
        BY <1>1, <1>3, <2>1, <3>1
      <3>3. currentTime <= j * time_slice
        BY <2>1, FirstTurn
      <3> QED
        BY <1>3, <3>1, <3>2, <3>3
    <2>2. CASE hasRun[j] = 1
      <3>1. /\ responseTime[j] \in 0 .. waitTime[j]
            /\ responseTime[j] <= j * time_slice
            /\ responseTime[j] <= currentTime
            /\ lastTime[j] <= currentTime
            /\ waitTime[j] = lastTime[j] - (workload[j] - length[j])
            /\ length[j] <= workload[j] /\ workload[j] > time_slice
            /\ time_slice = 0 => length[j] = workload[j]
        BY <1>1, <2>2 DEF HasRunInv, HasRunFacts
      <3>2. responseTime'[j] = responseTime[j]
        BY <1>1, <2>2
      <3>3. waitTime'[j] = currentTime - (workload[j] - length[j])
        BY <1>1, <1>3, <3>1
      <3>4. responseTime'[j] \in 0 .. waitTime'[j]
        BY <1>1, <1>3, <3>1, <3>2
      <3> QED
        BY <3>1, <3>2, <3>3, <3>4
    <2> QED
      BY <1>3, <2>1, <2>2
  <1>5. /\ responseTime'[j] <= currentTime' /\ responseTime'[j] \in Nat
        /\ waitTime'[j] \in Nat
    BY <1>1, <1>3, <1>4
  <1>6. CASE /\ length[j] > time_slice /\ TimeOfTurn = time_slice
             /\ length'[j] = length[j] - time_slice /\ Ran' = Ran
    <2>1. /\ lastTime'[j] <= currentTime'
          /\ waitTime'[j] = lastTime'[j] - (workload[j] - length'[j])
          /\ length'[j] <= workload[j] /\ workload[j] > time_slice
          /\ time_slice = 0 => length'[j] = workload[j]
          /\ responseTime'[j] + time_slice <= currentTime'
      BY <1>1, <1>3, <1>4, <1>5, <1>6
    <2>2. j \notin Ran'
      BY <1>1, <1>6
    <2> QED
      BY <1>1, <1>2, <1>4, <1>5, <2>1, <2>2 DEF HasRunFacts
  <1>7. CASE /\ length[j] <= time_slice /\ TimeOfTurn = length[j]
             /\ turnaroundTime'[j] = currentTime + length[j]
             /\ Ran' = Ran \cup {j}
    <2>1. /\ waitTime'[j] = turnaroundTime'[j] - workload[j]
          /\ time_slice = 0 => workload[j] = 0
      BY <1>3, <1>4, <1>7
    <2>2. j \in Ran'
      BY <1>7
    <2> QED
      BY <1>1, <1>2, <1>4, <1>5, <2>1, <2>2 DEF HasRunFacts
  <1> QED
    BY <1>1, <1>6, <1>7

LEMMA HasRunStep ==
  ASSUME IInv, [Next]_vars
  PROVE  HasRunInv'
  <1> USE DEF IInv
  <1> SUFFICES ASSUME policy = "RR", NEW j \in Job, hasRun'[j] = 1
      PROVE  HasRunFacts(j)'
    BY SameArguments DEF HasRunInv, HasRunFacts, arguments
  <1>0. UNCHANGED <<workload, time_slice>>
    BY SameArguments DEF arguments
  <1>1. ASSUME hasRun[j] = 1 PROVE HasRunFacts(j)
    BY <1>1 DEF HasRunInv, HasRunFacts
  <1>2. CASE Turns /\ j # tp
    <2>1. /\ hasRun[j] = 1 /\ id' = id
          /\ currentTime' = currentTime + TimeOfTurn
          /\ TimeOfTurn \in 0 .. time_slice
          /\ responseTime'[j] = responseTime[j] /\ waitTime'[j] = waitTime[j]
          /\ lastTime'[j] = lastTime[j] /\ length'[j] = length[j]
          /\ turnaroundTime'[j] = turnaroundTime[j]
          /\ j \in Ran' <=> j \in Ran
      BY <1>2, TurnEffects
    <2>2. currentTime \in Nat /\ time_slice \in Nat /\ TimeOfTurn \in Nat
      BY <2>1, SchedulerAssumption DEF TypeOK
    <2>3. /\ responseTime[j] \in Int /\ lastTime[j] \in Int
      BY DEF TypeOK
    <2>4. HasRunFacts(j) /\ Loaded' = Loaded
      BY <1>1, <2>1 DEF Loaded
    <2> QED
      BY <1>0, <2>1, <2>2, <2>3, <2>4 DEF HasRunFacts
  <1>3. CASE Turns /\ j = tp
    BY <1>3, HasRunTurn
  <1>4. CASE ~Turns
    <2>1. /\ hasRun[j] = 1 /\ Ran' = Ran
          /\ UNCHANGED <<currentTime, responseTime, turnaroundTime, waitTime,
                         lastTime>>
          /\ UNCHANGED <<length, id>> \/ Loads
      BY <1>4, NotATurn
    <2>2. ~Loads
      BY <2>1, LoadsSets DEF LoadingInv
    <2>3. UNCHANGED length /\ Loaded' = Loaded
      BY <2>1, <2>2 DEF Loaded
    <2> QED
      BY <1>0, <1>1, <2>1, <2>3 DEF HasRunFacts
  <1> QED
    BY <1>2, <1>3, <1>4

LEMMA FirstTurnsStep ==
  ASSUME IInv, [Next]_vars
  PROVE  FirstTurnsInv'
  <1> USE DEF IInv
  <1> SUFFICES ASSUME policy = "RR", NEW i \in Job, NEW j \in Job, i < j,
                      hasRun'[j] = 1
      PROVE  /\ hasRun'[i] = 1
             /\ responseTime'[i] <= responseTime'[j]
             /\ i \notin Ran' => responseTime'[i] + time_slice' <= responseTime'[j]
    BY SameArguments DEF FirstTurnsInv, arguments
  <1>0. time_slice' = time_slice
    BY SameArguments DEF arguments
  <1>1. CASE ~Turns
    BY <1>0, <1>1, NotATurn DEF FirstTurnsInv
  <1>2. CASE Turns /\ hasRun[j] = 1
    <2>1. /\ hasRun[i] = 1
          /\ responseTime[i] <= responseTime[j]
          /\ i \notin Ran => responseTime[i] + time_slice <= responseTime[j]
      BY <1>2 DEF FirstTurnsInv
    <2>2. ASSUME NEW k \in {i, j}
          PROVE  responseTime'[k] = responseTime[k] /\ hasRun'[k] = 1
      BY <1>2, <2>1, TurnEffects
    <2>3. i \notin Ran' => i \notin Ran
      BY <1>2, TurnEffects
    <2> QED
      BY <1>0, <2>1, <2>2, <2>3
  <1>3. CASE Turns /\ hasRun[j] # 1
    <2>1. j = tp /\ hasRun[tp] = 0
      BY <1>3, TurnEffects DEF TypeOK
    <2>2. responseTime'[j] = currentTime
      BY <1>3, <2>1, TurnEffects
    <2>3. i \in Loaded
      <3>1. j \in Loaded
        BY <1>3, <2>1, TurnEffects
      <3> QED
        BY <3>1 DEF Loaded, TypeOK
    <2>4. hasRun[i] = 1
      BY <1>3, <2>1, <2>3, FirstTurn
    <2>5. /\ responseTime[i] <= currentTime
          /\ i \notin Ran => responseTime[i] + time_slice <= currentTime
      BY <2>4 DEF HasRunInv, HasRunFacts
    <2>6. /\ responseTime'[i] = responseTime[i] /\ hasRun'[i] = 1
          /\ i \notin Ran' => i \notin Ran
      BY <1>3, <2>1, <2>4, TurnEffects
    <2> QED
      BY <1>0, <2>2, <2>5, <2>6
  <1> QED
    BY <1>1, <1>2, <1>3

LEMMA SliceAfterSlice ==
  ASSUME NEW a \in Nat, NEW b \in Nat, NEW s \in Nat, a < b
  PROVE  a * s + s <= b * s
  <1>1. PICK d \in Nat : b = a + 1 + d
    <2>1. b - a - 1 \in Nat /\ b = a + 1 + (b - a - 1)
      OBVIOUS
    <2> QED
      BY <2>1
  <1>2. d * s \in Nat /\ a * s \in Nat
    OBVIOUS
  <1>3. b * s = a * s + s + d * s
    BY <1>1
  <1> QED
    BY <1>2, <1>3

LEMMA RoundTurn ==
  ASSUME IInv, Turns
  PROVE  RoundInv'
  <1> USE DEF IInv
  <1>1. /\ Chain(next, notCompleted.first, Queued)
        /\ Jobs \subseteq Job /\ Loaded \subseteq Jobs
    BY ListsAreChains, QueuedAreJobs, JobsAreJobs DEF TypeOK
  <1>2. /\ policy = "RR" /\ pc = "run" /\ NextTurn = tp /\ NextTurn' = next[tp]
        /\ tp \in Job /\ tp \in Loaded /\ tp \in Queued
        /\ Queued = Loaded \ Ran /\ id' = id
        /\ UNCHANGED <<policy, time_slice>>
        /\ currentTime' = currentTime + TimeOfTurn
        /\ TimeOfTurn \in 0 .. time_slice
        /\ hasRun'[tp] = 1
        /\ \A j \in Job \ {tp} : hasRun'[j] = hasRun[j]
    BY TurnEffects
  <1>3. Loaded' = Loaded
    BY <1>2 DEF Loaded
  <1>4. CASE \A j \in Loaded : hasRun[j] = 1
    <2>1. \A j \in Loaded : hasRun'[j] = 1
      BY <1>1, <1>2, <1>4
    <2> QED
      BY <1>3, <2>1 DEF RoundInv
  <1>5. CASE ~ \A j \in Loaded : hasRun[j] = 1
    <2>1. /\ currentTime <= tp * time_slice
          /\ \A j \in Loaded : hasRun[j] = 1 <=> j < tp
      <3>1. ~Analyzing /\ tp # NULL
        BY <1>2 DEF Analyzing
      <3> QED
        BY <1>2, <1>5, <3>1 DEF RoundInv
    <2>2. \A j \in Loaded : ~(j < tp) => j \in Queued
      BY <1>1, <1>2, <2>1, RanTimes
    <2>3. \A j \in Loaded : hasRun'[j] = 1 <=> j <= tp
      <3> SUFFICES ASSUME NEW j \in Loaded
          PROVE  hasRun'[j] = 1 <=> j <= tp
        OBVIOUS
      <3>1. j \in Int /\ tp \in Int /\ j \in Job
        BY <1>1, <1>2
      <3>2. CASE j = tp
        BY <1>2, <3>1, <3>2
      <3>3. CASE j # tp
        BY <1>2, <2>1, <3>1, <3>3
      <3> QED
        BY <3>2, <3>3
    <2>4. CASE next[tp] = NULL
      <3>1. \A k \in Queued : ~(tp < k)
        BY <1>1, <1>2, <2>4, JobsAreJobs DEF Chain, Precedes, TypeOK
      <3>2. \A j \in Loaded : j <= tp
        <4> SUFFICES ASSUME NEW j \in Loaded PROVE j <= tp
          OBVIOUS
        <4>1. j \in Int /\ tp \in Int
          BY <1>1, <1>2
        <4> QED
          BY <2>2, <3>1, <4>1
      <3> QED
        BY <1>3, <2>3, <3>2 DEF RoundInv
    <2>5. CASE next[tp] # NULL
      <3> DEFINE n == next[tp]
      <3>1. /\ n \in Queued /\ tp < n
            /\ \A k \in Queued : tp < k => k = n \/ n < k
        BY <1>1, <1>2, <2>5 DEF Chain, Precedes
      <3>2. n \in Nat /\ tp \in Nat /\ n \in Loaded
        <4>1. n \in Loaded
          BY <1>2, <3>1
        <4>2. \A j \in Loaded : j \in Nat
          BY DEF Loaded
        <4> QED
          BY <1>2, <4>1, <4>2
      <3>3. \A j \in Loaded : j <= tp <=> j < n
        <4> SUFFICES ASSUME NEW j \in Loaded PROVE j <= tp <=> j < n
          OBVIOUS
        <4>1. j \in Nat
          BY <1>1
        <4>2. tp < j => j = n \/ n < j
          BY <1>1, <1>2, <2>2, <3>1, <4>1
        <4> QED
          BY <3>1, <3>2, <4>1, <4>2
      <3>4. currentTime' <= n * time_slice
        <4>1. /\ time_slice \in Nat /\ currentTime \in Nat
              /\ TimeOfTurn \in Nat /\ TimeOfTurn <= time_slice
          BY <1>2, SchedulerAssumption DEF TypeOK
        <4>2. tp * time_slice + time_slice <= n * time_slice
          BY <3>1, <3>2, <4>1, SliceAfterSlice
        <4>3. tp * time_slice \in Nat /\ n * time_slice \in Nat
          BY <3>2, <4>1
        <4> QED
          BY <1>2, <2>1, <4>1, <4>2, <4>3
      <3>5. \A j \in Loaded : hasRun'[j] = 1 <=> j < n
        BY <2>3, <3>3
      <3> QED
        BY <1>2, <1>3, <2>5, <3>4, <3>5 DEF RoundInv
    <2> QED
      BY <2>4, <2>5
  <1> QED
    BY <1>4, <1>5

\* The other steps leave the turn where it is.
LEMMA SameTurn ==
  ASSUME IInv, [Next]_vars, ~Turns, ~NextRound, ~Analyzing', policy = "RR"
  PROVE  NextTurn' = NextTurn
  <1> USE DEF IInv
  <1>1. CASE UNCHANGED vars
    BY <1>1 DEF vars, NextTurn, Moving
  <1>2. CASE RemoveFirst \/ RemoveNext \/ StartAddAfter \/ MoveOn
    <2>1. /\ pc \in {"removeFromList", "add_completed", "add_after"}
          /\ pc' \in {"removeFromList", "add_completed", "add_after"}
          /\ UNCHANGED <<tp, temp>>
      BY <1>2 DEF RemoveFirst, RemoveNext, StartAddAfter, MoveOn
    <2> QED
      BY <2>1 DEF NextTurn, Moving
  <1>3. CASE Adds
    <2>1. pc \in {"add_completed", "add_after"} /\ pc' = "run" /\ tp' = temp
      BY <1>3 DEF Adds, AddFirst, AddToFront, AddBetween, AddLast, Added
    <2> QED
      BY <2>1 DEF NextTurn, Moving
  <1>4. CASE LoadingStep
    <2>1. Loading /\ NextTurn = NULL
      BY <1>4 DEF LoadingStep, Main, StartSeek, Seek, Loads, add_job_to_back,
        add_job_to_front, add_job_sjf, StartRunning, ReadLine, Loading,
        LoadingInv, NextTurn, Moving
    <2>2. pc' \in {"load", "exit", "add_job_sjf", "run"} /\ tp' = tp
      BY <1>4 DEF LoadingStep, Main, StartSeek, Seek, Loads, add_job_to_back,
        add_job_to_front, add_job_sjf, StartRunning, ReadLine
    <2> QED
      BY <2>1, <2>2 DEF NextTurn, Moving, LoadingInv
  <1>5. ~RunJob /\ ~Advance /\ ~StartAnalysis /\ ~Analyze /\ ~print_averages
    BY DEF RunJob, Advance, RunningInv, StartAnalysis, Analyze, print_averages,
           Analyzing
  <1> QED
    BY <1>1, <1>2, <1>3, <1>4, <1>5
       DEF Next, Load, Run, add_job_responseTime_ascending, Analysis,
           LoadingStep, Turns, Loads, Adds

LEMMA RoundStep ==
  ASSUME IInv, [Next]_vars
  PROVE  RoundInv'
  <1> USE DEF IInv
  <1>0. UNCHANGED <<policy, workload, time_slice>>
    BY SameArguments DEF arguments
  <1> SUFFICES ASSUME policy = "RR", ~Analyzing' PROVE RoundInv'
    BY <1>0 DEF RoundInv
  <1>1. CASE Turns
    BY <1>1, RoundTurn
  <1>2. CASE NextRound
    <2>1. /\ pc = "run" /\ pc' = "run" /\ tp = NULL
          /\ notCompleted.first # NULL /\ tp' = notCompleted.first
          /\ UNCHANGED <<id, hasRun, currentTime>>
      BY <1>2 DEF NextRound, times
    <2>2. NextTurn = NULL /\ NextTurn' = tp' /\ Loaded' = Loaded
      BY <2>1 DEF NextTurn, Moving, Loaded
    <2>3. CASE \A j \in Loaded : hasRun[j] = 1
      BY <2>1, <2>2, <2>3 DEF RoundInv
    <2>4. CASE ~ \A j \in Loaded : hasRun[j] = 1
      <3>1. currentTime = 0 /\ \A j \in Loaded : hasRun[j] = 0
        BY <2>1, <2>2, <2>4 DEF RoundInv, Analyzing
      <3>2. Loaded \subseteq Jobs /\ Jobs \subseteq Job
        BY QueuedAreJobs, JobsAreJobs DEF TypeOK
      <3>3. \A j \in Loaded : j \notin Ran
        BY <3>1, <3>2 DEF NotRunInv
      <3>4. Queued = Loaded
        BY <2>1, <3>3 DEF Queued, Loaded
      <3>5. /\ tp' \in Loaded
            /\ \A k \in Loaded : k = tp' \/ tp' < k
        BY <2>1, <3>4, ListsAreChains DEF Chain, Precedes
      <3>6. \A j \in Loaded : ~(j < tp')
        <4> SUFFICES ASSUME NEW j \in Loaded PROVE ~(j < tp')
          OBVIOUS
        <4>1. j \in Int /\ tp' \in Int
          BY <3>2, <3>5
        <4> QED
          BY <3>5, <4>1
      <3>7. tp' \in Nat /\ time_slice \in Nat
        BY <3>2, <3>5, SchedulerAssumption DEF TypeOK
      <3>8. currentTime' <= tp' * time_slice
        BY <2>1, <3>1, <3>7
      <3>9. \A j \in Loaded : hasRun'[j] = 1 <=> j < tp'
        BY <2>1, <3>1, <3>6
      <3> QED
        BY <1>0, <2>1, <2>2, <3>8, <3>9 DEF RoundInv
    <2> QED
      BY <2>3, <2>4
  <1>3. CASE ~Turns /\ ~NextRound
    <2>1. UNCHANGED <<currentTime, hasRun>>
      BY <1>3, NotATurn
    <2>2. NextTurn' = NextTurn
      BY <1>3, SameTurn
    <2>3. CASE Loading
      <3>1. NextTurn = NULL
        BY <2>3 DEF NextTurn, Moving, LoadingInv, Loading
      <3>2. \A j \in Loaded' : j \in Job
        <4>1. TypeOK'
          BY TypeStep
        <4>2. id' \in 0 .. MaxJobs
          BY <4>1 DEF TypeOK
        <4>3. ASSUME NEW m \in 0 .. MaxJobs, NEW j \in 0 .. m - 1
              PROVE  j \in Job
          BY <4>3, SchedulerAssumption
        <4> QED
          BY <4>2, <4>3 DEF Loaded
      <3> QED
        BY <2>1, <2>2, <2>3, <3>1, <3>2 DEF RoundInv, LoadingInv
    <2>4. CASE ~Loading
      <3>1. Loaded' = Loaded /\ ~Analyzing
        <4>1. id' = id
          BY <1>3, <2>4, NotATurn, LoadsSets
        <4>2. ~Analyzing
          BY DEF Next, Load, Run, add_job_responseTime_ascending, Analysis,
            Analyzing, Main, add_job_to_back, add_job_to_front, StartSeek,
            Seek, add_job_sjf, StartRunning, RemoveFirst, RemoveNext, RunJob,
            Advance, NextRound, RunSlice, RunLastSlice, Turn, AddFirst,
            AddToFront, StartAddAfter, AddBetween, MoveOn, AddLast,
            StartAnalysis, Analyze, print_averages, vars, ReadLine
        <4> QED
          BY <4>1, <4>2 DEF Loaded
      <3> QED
        BY <1>0, <2>1, <2>2, <3>1 DEF RoundInv
    <2> QED
      BY <2>3, <2>4
  <1> QED
    BY <1>1, <1>2, <1>3
-----------------------------------------------------------------------------
(* The analysis. *)

LEMMA ReportStep ==
  ASSUME IInv, [Next]_vars
  PROVE  ReportInv'
  <1> USE DEF IInv
  <1>1. /\ Jobs' = Jobs /\ \A i, j : Precedes(i, j)' <=> Precedes(i, j)
        /\ workload \in Workloads /\ report \in Seq(Job)
    BY SameArguments, SameOrder DEF TypeOK
  <1>2. CASE ~Analyzing
    <2>1. report = <<>> /\ UNCHANGED report
      <3>1. report = <<>>
        BY <1>2 DEF ReportInv, Analyzing
      <3>2. UNCHANGED report
        BY <1>2 DEF Next, Load, Run, add_job_responseTime_ascending, Analysis,
          vars, Main, add_job_to_back, add_job_to_front, StartSeek, Seek,
          add_job_sjf, StartRunning, RunJob, Advance, NextRound, RunSlice,
          RunLastSlice, RemoveFirst, RemoveNext, AddFirst, AddToFront,
          StartAddAfter, AddBetween, MoveOn, AddLast, StartAnalysis, Analyze,
          print_averages, printed, Analyzing
      <3> QED
        BY <3>1, <3>2
    <2>2. ASSUME Analyzing'
          PROVE  pc' = "analyze" /\ StartAnalysis
      BY <1>2, <2>2 DEF Next, Load, Run, add_job_responseTime_ascending,
        Analysis, vars, Main, add_job_to_back, add_job_to_front, StartSeek,
        Seek, add_job_sjf, StartRunning, RunJob, Advance, NextRound, RunSlice,
        RunLastSlice, Turn, RemoveFirst, RemoveNext, AddFirst, AddToFront,
        StartAddAfter, AddBetween, MoveOn, AddLast, Added, StartAnalysis,
        Analyze, print_averages, ReadLine, Analyzing
    <2>3. ASSUME Analyzing', NEW j \in Jobs
          PROVE  tp' # NULL /\ ~Precedes(j, tp')
      <3>1. RunningInv' /\ tp' = completed.first /\ pc = "run"
        BY <2>2, <2>3, RunningStep DEF StartAnalysis
      <3>2. Ran' = Jobs /\ StartAnalysis
        BY <1>1, <2>2, <2>3, <3>1 DEF RunningInv
      <3>3. Finished = Jobs
        <4>1. Ran' = Ran
          BY <3>2, StaysSets DEF Stays
        <4> QED
          BY <3>1, <3>2, <4>1 DEF Finished, Moving
      <3>4. /\ tp' \in Jobs
            /\ \A k \in Jobs : k = tp' \/ Precedes(tp', k)
        BY <2>3, <3>1, <3>3, ListsAreChains, OnTheList
      <3> QED
        BY <1>1, <2>3, <3>4, StrictOrder, JobsAreJobs
    <2> QED
      BY <1>1, <2>1, <2>2, <2>3 DEF ReportInv, Analyzing
  <1>3. CASE UNCHANGED <<report, tp, pc>> \/ print_averages
    <2>1. UNCHANGED report /\ (UNCHANGED <<tp, pc>> \/
             {pc, pc'} \subseteq {"print_averages", "done"})
      BY <1>3 DEF print_averages
    <2> QED
      BY <1>1, <2>1 DEF ReportInv
  <1>4. CASE Analyze /\ tp = NULL
    <2>1. pc' = "print_averages" /\ pc = "analyze" /\ UNCHANGED report
      BY <1>4 DEF Analyze
    <2>2. \A j \in Jobs : \E i \in DOMAIN report : report[i] = j
      BY <1>4, <2>1 DEF ReportInv
    <2> QED
      BY <1>1, <2>1, <2>2 DEF ReportInv
  <1>5. CASE Analyze /\ tp # NULL
    <2>1. /\ pc' = "analyze" /\ pc = "analyze" /\ report' = Append(report, tp)
          /\ tp' = next[tp] /\ tp # NULL
      BY <1>5 DEF Analyze
    <2>2. tp \in Jobs /\ Jobs = Finished /\ Jobs \subseteq Job
      BY <2>1, JobsAreJobs DEF RunningInv, Analyzing, Finished, Moving, TypeOK
    <2>3. \/ tp' = NULL /\ \A k \in Jobs : ~Precedes(tp, k)
          \/ /\ tp' \in Jobs /\ Precedes(tp, tp')
             /\ \A k \in Jobs : Precedes(tp, k) => k = tp' \/ Precedes(tp', k)
      BY <2>1, <2>2, ListsAreChains DEF Chain
    <2> DEFINE n == Len(report)
    <2>4. /\ n \in Nat /\ DOMAIN report = 1 .. n /\ DOMAIN report' = 1 .. n + 1
          /\ report'[n + 1] = tp
          /\ \A i \in 1 .. n : report'[i] = report[i]
      BY <1>1, <2>1, <2>2
    <2>5. \A i \in 1 .. n : report[i] \in Jobs /\ Precedes(report[i], tp)
      BY <2>1, <2>4 DEF ReportInv
    <2>6. \A i, k \in 1 .. n + 1 : i < k => Precedes(report'[i], report'[k])
      <3> HIDE DEF n
      <3> SUFFICES ASSUME NEW i \in 1 .. n + 1, NEW k \in 1 .. n + 1, i < k
          PROVE  Precedes(report'[i], report'[k])
        OBVIOUS
      <3>1. i \in 1 .. n
        BY <2>4
      <3>2. CASE k = n + 1
        BY <2>4, <2>5, <3>1, <3>2
      <3>3. CASE k # n + 1
        <4>1. k \in 1 .. n
          BY <2>4, <3>3
        <4> QED
          BY <2>4, <3>1, <4>1 DEF ReportInv
      <3> QED
        BY <3>2, <3>3
    <2>7. \A i \in 1 .. n + 1 : report'[i] \in Jobs
      <3> HIDE DEF n
      <3> SUFFICES ASSUME NEW i \in 1 .. n + 1 PROVE report'[i] \in Jobs
        OBVIOUS
      <3>1. i = n + 1 \/ i \in 1 .. n
        BY <2>4
      <3> QED
        BY <2>2, <2>4, <2>5, <3>1
    <2>8. tp' # NULL => \A i \in 1 .. n + 1 : Precedes(report'[i], tp')
      <3> HIDE DEF n
      <3> SUFFICES ASSUME tp' # NULL, NEW i \in 1 .. n + 1
          PROVE  Precedes(report'[i], tp')
        OBVIOUS
      <3>1. i = n + 1 \/ i \in 1 .. n
        BY <2>4
      <3>2. Precedes(tp, tp') /\ tp' \in Jobs
        BY <2>3
      <3>3. CASE i = n + 1
        BY <2>4, <3>2, <3>3
      <3>4. CASE i \in 1 .. n
        <4>1. /\ report'[i] = report[i] /\ report[i] \in Jobs
              /\ Precedes(report[i], tp)
          BY <2>4, <2>5, <3>4
        <4>2. Precedes(report[i], tp')
          BY <1>1, <2>2, <3>2, <4>1, StrictOrder
        <4> QED
          BY <4>1, <4>2
      <3> QED
        BY <3>1, <3>3, <3>4
    <2>9. \A j \in Jobs : tp' = NULL \/ Precedes(j, tp') =>
            \E i \in 1 .. n + 1 : report'[i] = j
      <3> SUFFICES ASSUME NEW j \in Jobs, tp' = NULL \/ Precedes(j, tp')
          PROVE  \E i \in 1 .. n + 1 : report'[i] = j
        OBVIOUS
      <3>1. ~Precedes(tp, j)
        <4>1. CASE tp' = NULL
          <5>1. NULL \notin Jobs
            BY <2>2
          <5> QED
            BY <2>3, <4>1, <5>1
        <4>2. CASE tp' # NULL
          <5>1. /\ tp' \in Jobs /\ Precedes(j, tp')
                /\ Precedes(tp, j) => j = tp' \/ Precedes(tp', j)
            BY <2>3, <4>2
          <5>2. ~Precedes(tp', tp') /\ (Precedes(tp', j) => Precedes(tp', tp'))
            BY <1>1, <5>1, StrictOrder
          <5> QED
            BY <5>1, <5>2
        <4> QED
          BY <4>1, <4>2
      <3>2. j = tp \/ Precedes(j, tp)
        BY <1>1, <2>2, <3>1, StrictOrder
      <3>3. CASE j = tp
        BY <2>4, <3>3
      <3>4. CASE Precedes(j, tp)
        <4>1. PICK i \in 1 .. n : report[i] = j
          BY <2>1, <2>4, <3>4 DEF ReportInv
        <4>2. i \in 1 .. n + 1
          BY <2>4
        <4> QED
          BY <2>4, <4>1, <4>2
      <3> QED
        BY <3>2, <3>3, <3>4
    <2> HIDE DEF n
    <2> QED
      BY <1>1, <2>1, <2>4, <2>6, <2>7, <2>8, <2>9 DEF ReportInv
  <1>6. Analyzing => Analyze \/ print_averages \/ UNCHANGED <<report, tp, pc>>
    BY DEF Next, Load, Run, add_job_responseTime_ascending,
        Analysis, vars, Main, add_job_to_back, add_job_to_front, StartSeek,
        Seek, add_job_sjf, StartRunning, RunJob, Advance, NextRound, RunSlice,
        RunLastSlice, Turn, RemoveFirst, RemoveNext, AddFirst, AddToFront,
        StartAddAfter, AddBetween, MoveOn, AddLast, StartAnalysis, ReadLine,
        Analyzing
  <1> QED
    BY <1>2, <1>3, <1>4, <1>5, <1>6
-----------------------------------------------------------------------------
(* The invariant. *)

LEMMA InitInv ==
  ASSUME Init
  PROVE  IInv
  <1> USE DEF Init
  <1>1. TypeOK
    <2>1. total \in totals /\ notCompleted \in list /\ completed \in list
      BY DEF totals, list, EmptyList
    <2>2. report \in Seq(Job)
      OBVIOUS
    <2>3. id \in 0 .. MaxJobs
      BY SchedulerAssumption
    <2> QED
      BY <2>1, <2>2, <2>3 DEF TypeOK
  <1>2. Ran = {} /\ Loaded = {} /\ Moving = {} /\ Finished = {} /\ Queued = {}
    BY DEF Ran, Loaded, Moving, Finished, Queued
  <1>3. LoadingInv /\ RunningInv
    BY <1>2 DEF LoadingInv, RunningInv, Loading, Analyzing
  <1>4. ListsInOrder /\ LastIsBack
    BY <1>2 DEF ListsInOrder, LastIsBack, IsChain, IsLeast, IsBack, EmptyList
  <1>5. ResponseOrder /\ SequentialInv /\ NotRunInv /\ HasRunInv /\ FirstTurnsInv
    BY <1>2 DEF ResponseOrder, SequentialInv, NotRunInv, HasRunInv, FirstTurnsInv
  <1>6. RoundInv /\ ReportInv
    BY <1>2 DEF RoundInv, ReportInv
  <1> QED
    BY <1>1, <1>3, <1>4, <1>5, <1>6 DEF IInv

LEMMA StepInv ==
  ASSUME IInv, [Next]_vars
  PROVE  IInv'
  BY TypeStep, LoadingInvStep, RunningStep, ListsStep, LastStep, ResponseStep,
     SequentialStep, NotRunStep, HasRunStep, FirstTurnsStep, RoundStep,
     ReportStep
  DEF IInv

LEMMA SpecInv == Spec => []IInv
  BY InitInv, StepInv, PTL DEF Spec
-----------------------------------------------------------------------------
(* The properties, for every workload and every time slice. *)

\* Every variable keeps its type: no walk of a list leaves it, and no time or
\* remaining length of scheduler.c becomes negative.
THEOREM Types == Spec => []TypeOK
  BY SpecInv, PTL DEF IInv

\* Both lists of linkedlist.c hold the jobs they should, in the order of the
\* policy, whatever order the jobs are loaded, preempted and finished in.
THEOREM ListsStayInOrder == Spec => []ListsInOrder
  BY SpecInv, PTL DEF IInv

\* add_job_to_back and add_job_responseTime_ascending find the back of their
\* list in its last pointer.
THEOREM BackIsLast == Spec => []LastIsBack
  BY SpecInv, PTL DEF IInv

\* Every finished job's wait, turnaround and length fit together.
THEOREM WaitsAddUp == Spec => []WaitAccounted
  <1>1. ASSUME IInv PROVE WaitAccounted
    <2> SUFFICES ASSUME NEW j \in Ran
        PROVE  /\ waitTime[j] = turnaroundTime[j] - workload[j]
               /\ responseTime[j] \in 0 .. waitTime[j]
      BY DEF WaitAccounted
    <2>1. j \in Job /\ j \in Jobs
      BY <1>1, QueuedAreJobs DEF IInv, Ran
    <2>2. CASE policy = "RR"
      <3>1. hasRun[j] = 1
        BY <1>1, <2>2, RanTimes
      <3> QED
        BY <1>1, <2>1, <2>2, <3>1 DEF IInv, HasRunInv, HasRunFacts
    <2>3. CASE policy # "RR"
      <3>1. /\ responseTime[j] \in 0 .. currentTime /\ waitTime[j] = responseTime[j]
            /\ turnaroundTime[j] = responseTime[j] + workload[j]
        BY <1>1, <2>3 DEF IInv, SequentialInv
      <3>2. workload[j] \in Nat
        BY <1>1, <2>1, JobsAreJobs DEF IInv, TypeOK
      <3>3. responseTime[j] \in Nat
        BY <1>1, RanTimes
      <3> QED
        BY <3>1, <3>2, <3>3
    <2> QED
      BY <2>2, <2>3
  <1> QED
    BY <1>1, SpecInv, PTL

\* Under RR no job waits for its first turn longer than a slice of each job
\* before it.
THEOREM ResponsesWithinSlices == Spec => []ResponseWithinSlices
  <1>1. ASSUME IInv PROVE ResponseWithinSlices
    BY <1>1 DEF IInv, HasRunInv, HasRunFacts, ResponseWithinSlices
  <1> QED
    BY <1>1, SpecInv, PTL

\* The analysis prints every job once, in the order of the policy.
THEOREM ReportsInOrder == Spec => []ReportInOrder
  <1>1. ASSUME IInv PROVE ReportInOrder
    BY <1>1 DEF IInv, ReportInv, ReportInOrder
  <1> QED
    BY <1>1, SpecInv, PTL

\* RR with a time slice of 0 does not come to its analysis while a job has a
\* length: the loop of scheduler.c:188 turns without progress.
THEOREM NoEndWithoutProgress == Spec => []EndsOnlyWithProgress
  <1>1. ASSUME IInv PROVE EndsOnlyWithProgress
    <2> SUFFICES ASSUME Analyzing, policy = "RR", time_slice = 0, NEW j \in Jobs
        PROVE  workload[j] = 0
      BY DEF EndsOnlyWithProgress, CanEnd, Analyzing
    <2>1. j \in Ran /\ j \in Job
      BY <1>1 DEF IInv, RunningInv, Ran
    <2>2. hasRun[j] = 1
      BY <1>1, <2>1, RanTimes
    <2> QED
      BY <1>1, <2>1, <2>2 DEF IInv, HasRunInv, HasRunFacts
  <1> QED
    BY <1>1, SpecInv, PTL
-----------------------------------------------------------------------------
(* The scheduler implements Dispatch. *)

dispatchVars == <<policy, workload, time_slice, Clock, Left, Unfinished, Round,
                  Response, Turnaround>>

LEMMA DispatchOrder ==
  \A i, j : dispatch!Precedes(i, j) <=> Precedes(i, j)
  BY DEF dispatch!Precedes, Precedes

LEMMA DispatchInit ==
  ASSUME Init
  PROVE  dispatch!Init
  <1> USE DEF Init
  <1>1. Ran = {} /\ Moving = {} /\ NextTurn = NULL
    BY DEF Ran, Moving, NextTurn
  <1>2. Unfinished = Jobs /\ Round = Jobs /\ Clock = 0
    BY <1>1 DEF Unfinished, Round, Clock
  <1>3. Left = workload
    <2>1. workload \in [Jobs -> Nat] /\ Jobs \subseteq Job
      BY JobsAreJobs
    <2>2. \A j \in Jobs : Left[j] = workload[j]
      BY <1>1, <2>1 DEF Left
    <2>3. Left = [j \in Jobs |-> Left[j]] /\ workload = [j \in Jobs |-> workload[j]]
      BY <2>1 DEF Left
    <2> QED
      BY <2>2, <2>3
  <1>4. /\ Response = [j \in Jobs |-> Unset]
        /\ Turnaround = [j \in Jobs |-> Unset]
    <2>1. \A j \in Jobs : responseTime[j] = Unset /\ turnaroundTime[j] = Unset
      BY JobsAreJobs
    <2> QED
      BY <2>1 DEF Response, Turnaround
  <1>5. workload \in dispatch!Workloads
    BY DEF Workloads, dispatch!Workloads
  <1> QED
    BY <1>2, <1>3, <1>4, <1>5 DEF dispatch!Init, dispatch!Jobs, Jobs

\* A step that ends no job and is no turn keeps what Dispatch sees.
LEMMA KeepsTimes ==
  ASSUME IInv, [Next]_vars, ~Turns, ~RunJob
  PROVE  UNCHANGED <<policy, workload, time_slice, Clock, Left, Unfinished,
                     Response, Turnaround>>
  <1> USE DEF IInv
  <1>1. UNCHANGED <<policy, workload, time_slice>> /\ Jobs' = Jobs
    BY SameArguments, SameOrder DEF arguments
  <1>2. /\ UNCHANGED <<responseTime, turnaroundTime>>
        /\ UNCHANGED <<length, id>> \/ Loads
    <2>1. CASE Loads
      BY <2>1 DEF Loads, add_job_to_back, add_job_to_front, add_job_sjf, times
    <2>2. CASE ~Loads
      BY <2>2 DEF Next, Load, Run, add_job_responseTime_ascending, Analysis,
        vars, Main, StartSeek, Seek, StartRunning, Advance, NextRound, Turns,
        RemoveFirst, RemoveNext, AddFirst, AddToFront, StartAddAfter,
        AddBetween, MoveOn, AddLast, StartAnalysis, Analyze, print_averages,
        times, Loads
    <2> QED
      BY <2>1, <2>2
  <1>3. Ran' = Ran
    BY <1>2 DEF Ran
  <1>4. Unfinished' = Unfinished /\ Response' = Response /\ Turnaround' = Turnaround
    BY <1>1, <1>2, <1>3 DEF Unfinished, Response, Turnaround
  <1>5. Left' = Left
    <2>1. CASE UNCHANGED <<length, id>>
      BY <1>1, <1>3, <2>1 DEF Left
    <2>2. CASE Loads
      <3>1. /\ length' = [length EXCEPT ![id] = workload[id]] /\ id' = id + 1
        BY <2>2 DEF Loads, add_job_to_back, add_job_to_front, add_job_sjf, NewJob
      <3>2. /\ id \in Jobs /\ Jobs \subseteq Job
        BY <2>2, LoadsSets, JobsAreJobs DEF TypeOK
      <3>3. ASSUME NEW j \in Jobs
            PROVE  (IF j < id' THEN length'[j] ELSE workload[j])
                     = (IF j < id THEN length[j] ELSE workload[j])
        BY <3>1, <3>2 DEF TypeOK
      <3> QED
        BY <1>1, <1>3, <3>3 DEF Left
    <2> QED
      BY <1>2, <2>1, <2>2
  <1>6. Clock' = Clock
    <2>1. CASE policy = "RR"
      BY <1>1, <2>1, NotATurn DEF Clock
    <2>2. CASE policy # "RR" /\ Advance
      BY <1>1, <2>2 DEF Clock, Advance
    <2>3. CASE policy # "RR" /\ ~Advance
      <3>1. currentTime' = currentTime
        BY <2>3 DEF Next, Load, Run, add_job_responseTime_ascending, Analysis,
          vars, Main, add_job_to_back, add_job_to_front, StartSeek, Seek,
          add_job_sjf, StartRunning, NextRound, Turns, RemoveFirst, RemoveNext,
          AddFirst, AddToFront, StartAddAfter, AddBetween, MoveOn, AddLast,
          StartAnalysis, Analyze, print_averages
      <3> DEFINE adding == {"add_completed", "add_after", "advance"}
      <3>2. \/ pc \notin adding /\ pc' \notin adding
            \/ pc \in adding /\ pc' \in adding /\ UNCHANGED <<tp, length>>
        BY <2>3 DEF Next, Load, Run, add_job_responseTime_ascending, Analysis,
          vars, Main, add_job_to_back, add_job_to_front, StartSeek, Seek,
          add_job_sjf, StartRunning, NextRound, Turns, RemoveFirst, RemoveNext,
          AddFirst, AddToFront, StartAddAfter, AddBetween, MoveOn, AddLast,
          StartAnalysis, Analyze, print_averages, Added, ReadLine, RunningInv
      <3> QED
        BY <1>1, <3>1, <3>2 DEF Clock
    <2> QED
      BY <2>1, <2>2, <2>3
  <1> QED
    BY <1>1, <1>4, <1>5, <1>6

LEMMA KeepsRound ==
  ASSUME IInv, [Next]_vars, ~Turns, ~RunJob
  PROVE  Round' = Round
  <1> USE DEF IInv
  <1>1. UNCHANGED policy /\ Unfinished' = Unfinished
    BY KeepsTimes
  <1>2. CASE policy # "RR"
    BY <1>1, <1>2 DEF Round
  <1>3. CASE policy = "RR" /\ NextTurn' = NextTurn
    BY <1>1, <1>3 DEF Round
  <1>4. CASE policy = "RR" /\ NextRound
    <2>1. /\ NextTurn = NULL /\ NextTurn' = notCompleted.first
          /\ pc = "run" /\ notCompleted.first # NULL
      BY <1>4 DEF NextRound, NextTurn, Moving
    <2>2. Queued = Loaded \ Ran /\ Loaded = Jobs /\ Jobs \subseteq Job
      BY <1>4, <2>1, QueuedAreJobs, JobsAreJobs DEF Queued, Loaded, Loading, TypeOK
    <2>3. Queued = Unfinished
      BY <2>2 DEF Unfinished
    <2>4. ASSUME NEW j \in Unfinished PROVE j >= notCompleted.first
      <3>1. /\ notCompleted.first \in Queued
            /\ j = notCompleted.first \/ Precedes(notCompleted.first, j)
        BY <2>1, <2>3, ListsAreChains, OnTheList
      <3>2. j \in Int /\ notCompleted.first \in Int
        <4>1. \A k \in Queued : k \in Int
          BY <2>2
        <4> QED
          BY <2>3, <3>1, <4>1
      <3> QED
        BY <1>4, <3>1, <3>2 DEF Precedes
    <2> QED
      BY <1>1, <1>4, <2>1, <2>4 DEF Round
  <1>5. CASE policy = "RR" /\ Analyzing'
    <2>1. Unfinished' = {}
      <3>1. RunningInv'
        BY RunningStep
      <3> QED
        BY <1>5, <3>1 DEF RunningInv, Unfinished
    <2> QED
      BY <1>1, <2>1 DEF Round
  <1>6. CASE policy = "RR" /\ ~NextRound /\ ~Analyzing'
    <2>1. NextTurn' = NextTurn
      BY <1>6, SameTurn
    <2> QED
      BY <1>3, <1>6, <2>1
  <1> QED
    BY <1>2, <1>4, <1>5, <1>6

LEMMA DispatchRunJob ==
  ASSUME IInv, RunJob
  PROVE  dispatch!RunToEnd(tp)
  <1> USE DEF IInv
  <1>1. /\ Ran' = Ran \cup {tp} /\ tp \in Jobs \ Ran /\ Loaded = Jobs
        /\ tp \in Job /\ Jobs \subseteq Job
    BY FinishesSets, JobsAreJobs DEF Finishes, TypeOK
  <1>2. /\ policy # "RR" /\ pc = "run" /\ pc' = "add_completed" /\ tp # NULL
        /\ UNCHANGED <<policy, workload, time_slice, id, currentTime, tp, length>>
        /\ responseTime' = [responseTime EXCEPT ![tp] = currentTime]
        /\ turnaroundTime' = [turnaroundTime EXCEPT ![tp] = currentTime + length[tp]]
    BY DEF RunJob, arguments
  <1>3. Jobs' = Jobs
    BY <1>2 DEF Jobs
  <1>4. /\ Round = Unfinished /\ Round' = Unfinished'
        /\ Unfinished' = Unfinished \ {tp} /\ tp \in Unfinished
    BY <1>1, <1>2, <1>3 DEF Round, Unfinished
  <1>5. \A k \in Round \ {tp} : dispatch!Precedes(tp, k)
    <2>1. Queued = Jobs \ (Ran \cup {tp})
      BY <1>1, <1>2 DEF Queued, Loaded
    <2>2. \A k \in Queued : Precedes(tp, k)
      BY <1>2 DEF RunningInv
    <2> QED
      BY <1>4, <2>1, <2>2, DispatchOrder DEF Unfinished
  <1>6. Clock = currentTime /\ Clock' = currentTime + length[tp]
    BY <1>2 DEF Clock
  <1>7. Left[tp] = length[tp] /\ Left' = [Left EXCEPT ![tp] = 0]
    <2>1. tp < id
      BY <1>1 DEF Loaded, TypeOK
    <2> QED
      BY <1>1, <1>2, <1>3, <2>1 DEF Left
  <1>8. responseTime[tp] = Unset
    BY <1>1, <1>2 DEF SequentialInv
  <1>9. Response' = [Response EXCEPT ![tp] = IF @ = Unset THEN Clock ELSE @]
    <2>1. \A j \in Jobs : responseTime'[j] =
                            IF j = tp THEN currentTime ELSE responseTime[j]
      BY <1>1, <1>2 DEF TypeOK
    <2> QED
      BY <1>1, <1>3, <1>6, <1>8, <2>1 DEF Response
  <1>10. Turnaround' = [Turnaround EXCEPT ![tp] = Clock']
    <2>1. \A j \in Jobs : turnaroundTime'[j] =
            IF j = tp THEN currentTime + length[tp] ELSE turnaroundTime[j]
      BY <1>1, <1>2 DEF TypeOK
    <2> QED
      BY <1>1, <1>3, <1>6, <2>1 DEF Turnaround
  <1>11. dispatch!IsNext(tp)
    BY <1>4, <1>5 DEF dispatch!IsNext
  <1>12. dispatch!Start(tp)
    BY <1>9 DEF dispatch!Start
  <1>13. Round' = IF Round = {tp} THEN Unfinished' ELSE Round \ {tp}
    BY <1>4
  <1> QED
    BY <1>2, <1>4, <1>6, <1>7, <1>10, <1>11, <1>12, <1>13
       DEF dispatch!RunToEnd

\* A turn of RR, and what it leaves of the round.
LEMMA DispatchTurn ==
  ASSUME IInv, Turns, NEW j, j = tp
  PROVE  /\ dispatch!IsNext(j) /\ dispatch!Start(j)
         /\ Clock' = Clock + TimeOfTurn /\ Left[j] = length[j]
         /\ Round' = IF Round = {j} THEN Unfinished' ELSE Round \ {j}
         /\ \A k \in Jobs \ {j} : Left'[k] = Left[k] /\ Turnaround'[k] = Turnaround[k]
         /\ Jobs' = Jobs /\ j \in Jobs
  <1> USE DEF IInv
  <1>1. /\ policy = "RR" /\ pc = "run" /\ NextTurn = j /\ NextTurn' = next[j]
        /\ j \in Job /\ j \in Jobs \ Ran /\ j \in Loaded /\ j \in Queued
        /\ Queued = Loaded \ Ran
        /\ UNCHANGED <<policy, workload, time_slice, id>>
        /\ currentTime' = currentTime + TimeOfTurn
        /\ Ran' = Ran \/ Ran' = Ran \cup {j}
    BY TurnEffects
  <1>2. /\ responseTime'[j] = IF hasRun[j] = 0 THEN currentTime ELSE responseTime[j]
        /\ \A k \in Job \ {j} :
             /\ responseTime'[k] = responseTime[k]
             /\ length'[k] = length[k]
             /\ turnaroundTime'[k] = turnaroundTime[k]
    BY TurnEffects
  <1>3. /\ Jobs' = Jobs /\ Jobs \subseteq Job /\ Loaded = Jobs
        /\ Unfinished = Queued
        /\ Unfinished' = Unfinished \/ Unfinished' = Unfinished \ {j}
    BY <1>1, QueuedAreJobs, JobsAreJobs
       DEF Jobs, Unfinished, Loading, TypeOK
  <1>4. Clock = currentTime /\ Clock' = currentTime'
    BY <1>1 DEF Clock
  <1>5. /\ Left[j] = length[j]
        /\ \A k \in Jobs \ {j} : Left'[k] = Left[k] /\ Turnaround'[k] = Turnaround[k]
    <2>1. j < id
      BY <1>1 DEF Loaded, TypeOK
    <2> QED
      BY <1>1, <1>2, <1>3, <2>1 DEF Left, Turnaround
  <1>6. Round = {k \in Queued : k >= j} /\ j # NULL
    BY <1>1, <1>3 DEF Round
  <1>7. dispatch!IsNext(j)
    <2>1. ASSUME NEW k \in Round \ {j} PROVE Precedes(j, k)
      <3>1. k \in Int /\ j \in Int /\ k >= j /\ k # j
        BY <1>1, <1>3, <1>6
      <3> QED
        BY <1>1, <3>1 DEF Precedes
    <2>2. j \in Round
      BY <1>1, <1>6
    <2> QED
      BY <2>1, <2>2, DispatchOrder DEF dispatch!IsNext
  <1>8. dispatch!Start(j)
    <2>1. hasRun[j] = 0 <=> responseTime[j] = Unset
      <3>1. hasRun[j] = 0 => responseTime[j] = Unset
        BY <1>1 DEF NotRunInv
      <3>2. hasRun[j] # 0 => responseTime[j] # Unset
        BY <1>1 DEF HasRunInv, HasRunFacts, TypeOK
      <3> QED
        BY <3>1, <3>2
    <2>2. \A k \in Jobs : responseTime'[k] =
            IF k = j THEN (IF responseTime[j] = Unset THEN currentTime
                           ELSE responseTime[j])
                     ELSE responseTime[k]
      BY <1>2, <1>3, <2>1
    <2>3. Response' = [Response EXCEPT ![j] = IF @ = Unset THEN Clock ELSE @]
      BY <1>1, <1>3, <1>4, <2>2 DEF Response
    <2> QED
      BY <2>3 DEF dispatch!Start
  <1>9. Round' = IF Round = {j} THEN Unfinished' ELSE Round \ {j}
    <2>1. Chain(next, notCompleted.first, Queued)
      BY ListsAreChains
    <2>2. CASE next[j] = NULL
      <3>1. Round' = Unfinished'
        BY <1>1, <2>2 DEF Round
      <3>2. \A k \in Queued : ~(j < k)
        BY <1>1, <1>3, <2>1, <2>2 DEF Chain, Precedes
      <3>3. Round = {j}
        <4>1. ASSUME NEW k \in Round PROVE k = j
          <5>1. k \in Int /\ j \in Int /\ k >= j /\ ~(j < k)
            BY <1>1, <1>3, <1>6, <3>2
          <5> QED
            BY <5>1
        <4>2. j \in Round
          BY <1>7 DEF dispatch!IsNext
        <4> QED
          BY <4>1, <4>2
      <3> QED
        BY <3>1, <3>3
    <2>3. CASE next[j] # NULL
      <3>1. /\ next[j] \in Queued /\ j < next[j]
            /\ \A k \in Queued : j < k => k = next[j] \/ next[j] < k
        BY <1>1, <2>1, <2>3 DEF Chain, Precedes
      <3>2. \A k \in Queued : k \in Int
        BY <1>1, <1>3
      <3>3. ASSUME NEW k \in Queued
            PROVE  k >= next[j] <=> k >= j /\ k # j
        <4>1. k \in Int /\ j \in Int /\ next[j] \in Int
          BY <1>1, <3>1, <3>2
        <4>2. j < next[j] /\ (j < k => k = next[j] \/ next[j] < k)
          BY <3>1
        <4> QED
          BY <4>1, <4>2
      <3>4. Round' = {k \in Unfinished' : k >= next[j]}
        BY <1>1, <2>3 DEF Round
      <3>5. Round' = Round \ {j}
        BY <1>3, <1>6, <3>3, <3>4
      <3>6. next[j] \in Round \ {j}
        BY <1>6, <3>1, <3>2, <3>3
      <3> QED
        BY <3>5, <3>6
    <2> QED
      BY <2>2, <2>3
  <1> QED
    BY <1>1, <1>3, <1>4, <1>5, <1>7, <1>8, <1>9

LEMMA DispatchTurns ==
  ASSUME IInv, Turns, NEW j, j = tp
  PROVE  dispatch!RunSlice(j) \/ dispatch!RunToEnd(j)
  <1> USE DEF IInv
  <1>1. /\ policy = "RR" /\ j \in Job /\ j \in Jobs \ Ran /\ j \in Loaded
        /\ UNCHANGED <<policy, workload, time_slice, id>>
        /\ \/ /\ length[j] > time_slice /\ TimeOfTurn = time_slice
              /\ length'[j] = length[j] - time_slice /\ Ran' = Ran /\ RunSlice
           \/ /\ length[j] <= time_slice /\ TimeOfTurn = length[j]
              /\ turnaroundTime'[j] = currentTime + length[j]
              /\ Ran' = Ran \cup {j}
    BY TurnEffects
  <1>2. /\ dispatch!IsNext(j) /\ dispatch!Start(j)
        /\ Clock' = Clock + TimeOfTurn /\ Left[j] = length[j]
        /\ Round' = IF Round = {j} THEN Unfinished' ELSE Round \ {j}
        /\ \A k \in Jobs \ {j} : Left'[k] = Left[k] /\ Turnaround'[k] = Turnaround[k]
        /\ Jobs' = Jobs /\ j \in Jobs
    BY DispatchTurn
  <1>3. j < id
    BY <1>1 DEF Loaded, TypeOK
  <1>4. CASE RunSlice /\ length[j] > time_slice /\ TimeOfTurn = time_slice
             /\ length'[j] = length[j] - time_slice /\ Ran' = Ran
    <2>1. Left' = [Left EXCEPT ![j] = @ - time_slice]
      <3>1. Left'[j] = length[j] - time_slice
        BY <1>1, <1>2, <1>3, <1>4 DEF Left
      <3>2. \A k \in Jobs : Left'[k] =
              IF k = j THEN Left[j] - time_slice ELSE Left[k]
        BY <1>2, <3>1
      <3>3. Left' = [k \in Jobs |-> Left'[k]] /\ Left = [k \in Jobs |-> Left[k]]
        BY <1>2 DEF Left
      <3> QED
        BY <3>2, <3>3
    <2>2. Unfinished' = Unfinished
      BY <1>2, <1>4 DEF Unfinished
    <2>3. Turnaround' = Turnaround
      BY <1>2, <1>4 DEF Turnaround, RunSlice
    <2>4. Round' = IF Round = {j} THEN Unfinished ELSE Round \ {j}
      BY <1>2, <2>2
    <2> QED
      BY <1>1, <1>2, <1>4, <2>1, <2>2, <2>3, <2>4 DEF dispatch!RunSlice
  <1>5. CASE /\ length[j] <= time_slice /\ TimeOfTurn = length[j]
             /\ turnaroundTime'[j] = currentTime + length[j]
             /\ Ran' = Ran \cup {j}
    <2>1. Left' = [Left EXCEPT ![j] = 0]
      <3>1. Left'[j] = 0
        BY <1>2, <1>5 DEF Left
      <3>2. \A k \in Jobs : Left'[k] = IF k = j THEN 0 ELSE Left[k]
        BY <1>2, <3>1
      <3>3. Left' = [k \in Jobs |-> Left'[k]] /\ Left = [k \in Jobs |-> Left[k]]
        BY <1>2 DEF Left
      <3> QED
        BY <3>2, <3>3
    <2>2. Unfinished' = Unfinished \ {j}
      BY <1>2, <1>5 DEF Unfinished
    <2>3. Turnaround' = [Turnaround EXCEPT ![j] = Clock']
      <3>1. Turnaround'[j] = Clock'
        <4>1. Turnaround'[j] = turnaroundTime'[j]
          BY <1>2 DEF Turnaround
        <4>2. Clock = currentTime
          BY <1>1 DEF Clock
        <4> QED
          BY <1>2, <1>5, <4>1, <4>2
      <3>2. \A k \in Jobs : Turnaround'[k] = IF k = j THEN Clock' ELSE Turnaround[k]
        BY <1>2, <3>1
      <3>3. /\ Turnaround' = [k \in Jobs |-> Turnaround'[k]]
            /\ Turnaround = [k \in Jobs |-> Turnaround[k]]
        BY <1>2 DEF Turnaround
      <3> QED
        BY <3>2, <3>3
    <2> QED
      BY <1>1, <1>2, <1>5, <2>1, <2>2, <2>3 DEF dispatch!RunToEnd
  <1> QED
    BY <1>1, <1>4, <1>5

LEMMA DispatchStep ==
  ASSUME IInv, [Next]_vars
  PROVE  [dispatch!Next]_dispatchVars
  <1>1. CASE RunJob
    <2>1. tp \in Jobs
      BY <1>1, FinishesSets DEF IInv, Finishes
    <2> QED
      BY <1>1, <2>1, DispatchRunJob DEF dispatch!Next, dispatch!Jobs, Jobs
  <1>2. CASE Turns
    <2>1. PICK j : j = tp
      OBVIOUS
    <2>2. j \in Jobs
      BY <1>2, <2>1, TurnEffects
    <2> QED
      BY <1>2, <2>1, <2>2, DispatchTurns DEF dispatch!Next, dispatch!Jobs, Jobs
  <1>3. CASE ~RunJob /\ ~Turns
    BY <1>3, KeepsTimes, KeepsRound DEF dispatchVars
  <1> QED
    BY <1>1, <1>2, <1>3

\* Whatever the lists do, the scheduler runs the jobs as its policy says.
THEOREM SchedulerImplementsDispatch == Spec => ImplementsDispatch
  <1>1. ASSUME IInv, [Next]_vars PROVE [dispatch!Next]_(dispatch!vars)
    BY <1>1, DispatchStep DEF dispatchVars, dispatch!vars
  <1> QED
    BY <1>1, DispatchInit, SpecInv, PTL DEF Spec, dispatch!Spec, ImplementsDispatch
=============================================================================
