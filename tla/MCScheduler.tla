----------------------------- MODULE MCScheduler ----------------------------
(***************************************************************************)
(* Scheduler with what its averages are compared with: sums over the jobs  *)
(* and over every order the jobs could have run in.                        *)
(***************************************************************************)
EXTENDS Scheduler, FiniteSetsExt

TotalLength == MapThenSumSet(LAMBDA j : workload[j], Jobs)

Orders == {order \in [Jobs -> Jobs] : \A i, j \in Jobs : i # j => order[i] # order[j]}

\* The turnaround times added up when the jobs run one after the other.
TurnaroundOf(order) ==
  MapThenSumSet(LAMBDA i : workload[order[i]] * (Cardinality(Jobs) - i), Jobs)

\* The averages are over all jobs, and fit together: a job's turnaround is its
\* length and its wait, and only RR makes a job wait after its first turn.
AveragesAddUp ==
  pc = "done" =>
    /\ total.numJobs = Cardinality(Jobs)
    /\ total.turnaround = total.wait + TotalLength
    /\ total.response <= total.wait
    /\ policy # "RR" => total.response = total.wait

\* No order of the jobs has a smaller average turnaround time than SJF's.
ShortestFirstIsBest ==
  pc = "done" /\ policy = "SJF" =>
    \A order \in Orders : total.turnaround <= TurnaroundOf(order)
=============================================================================
