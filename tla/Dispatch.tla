------------------------------ MODULE Dispatch ------------------------------
(***************************************************************************)
(* What the scheduling policies of Project 4 promise, with no lists: one   *)
(* processor runs the jobs of a workload in rounds.  In a round every      *)
(* unfinished job runs once, in the order of the policy: to its end under  *)
(* FIFO and SJF, for at most a time slice under RR.                        *)
(* Source: Project 4/README.txt, as scheduler.c carries it out.            *)
(***************************************************************************)
EXTENDS Integers

CONSTANTS
  MaxJobs,           \* the most jobs a workload has
  Lengths,           \* the lengths a job may have
  Slices,            \* the time slices RR may be given
  Unset              \* a time that has not been measured yet, no number

Workloads == UNION {[0 .. n - 1 -> Lengths] : n \in 0 .. MaxJobs}

VARIABLES
  policy, workload, time_slice,
  clock,
  left,              \* what is left to run of each job
  unfinished,        \* the jobs that have not run to completion
  round,             \* the unfinished jobs still to run in this round
  response,          \* when each job ran first
  turnaround         \* when each job finished

vars == <<policy, workload, time_slice,
          clock, left, unfinished, round, response, turnaround>>

Jobs == DOMAIN workload

\* The order of the policy: shortest first under SJF, and by arrival otherwise
\* and among jobs of one length.
Precedes(i, j) ==
  IF policy = "SJF" /\ workload[i] # workload[j]
  THEN workload[i] < workload[j]
  ELSE i < j

Init ==
  /\ policy \in {"FIFO", "SJF", "RR"}
  /\ workload \in Workloads
  /\ time_slice \in Slices
  /\ clock = 0
  /\ left = workload
  /\ unfinished = Jobs
  /\ round = Jobs
  /\ response = [j \in Jobs |-> Unset]
  /\ turnaround = [j \in Jobs |-> Unset]

\* j is the job whose turn it is.
IsNext(j) == j \in round /\ \A k \in round \ {j} : Precedes(j, k)

Start(j) ==
  response' = [response EXCEPT ![j] = IF @ = Unset THEN clock ELSE @]

\* j runs for a time slice, and has to wait for the next round.
RunSlice(j) ==
  /\ IsNext(j)
  /\ policy = "RR"
  /\ left[j] > time_slice
  /\ Start(j)
  /\ clock' = clock + time_slice
  /\ left' = [left EXCEPT ![j] = @ - time_slice]
  /\ round' = IF round = {j} THEN unfinished ELSE round \ {j}
  /\ UNCHANGED <<policy, workload, time_slice, unfinished, turnaround>>

\* j runs for all that is left of it.
RunToEnd(j) ==
  /\ IsNext(j)
  /\ policy = "RR" => left[j] <= time_slice
  /\ Start(j)
  /\ clock' = clock + left[j]
  /\ left' = [left EXCEPT ![j] = 0]
  /\ turnaround' = [turnaround EXCEPT ![j] = clock']
  /\ unfinished' = unfinished \ {j}
  /\ round' = IF round = {j} THEN unfinished' ELSE round \ {j}
  /\ UNCHANGED <<policy, workload, time_slice>>

Next == \E j \in Jobs : RunSlice(j) \/ RunToEnd(j)

Spec == Init /\ [][Next]_vars
=============================================================================
