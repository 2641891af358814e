------------------------------ MODULE Scheduler -----------------------------
(***************************************************************************)
(* The scheduling simulator of Project 4: scheduler.c loads a workload     *)
(* into a linked list of jobs (linkedlist.c), runs the jobs by one of      *)
(* three policies, moves each finished job to a second list, and prints    *)
(* what it measured.                                                       *)
(*                                                                         *)
(* A node of a list is known by the id of its job, and each field of the   *)
(* node is a function of it.  Each turn of a loop is a step, so that a     *)
(* walk of a list is seen at each node it visits; what lies between two    *)
(* loops is one step.                                                      *)
(***************************************************************************)
EXTENDS Integers, Sequences

CONSTANTS
  MaxJobs,           \* the most lines a workload file has
  Lengths,           \* the lengths its lines may hold
  Slices             \* the time slices the program is started with

ASSUME SchedulerAssumption ==
  /\ MaxJobs \in Nat
  /\ Lengths \subseteq Nat
  /\ Slices \subseteq Nat

Job == 0 .. MaxJobs - 1

NULL == -1

\* What a field holds before the program first sets it.
Unset == -1

Policies == {"FIFO", "SJF", "RR"}

\* A workload file: the length on each of its lines.
Workloads == UNION {[0 .. n - 1 -> Lengths] : n \in 0 .. MaxJobs}

VARIABLES
  policy, workload, time_slice,             \* the arguments
  pc, id, currentTime, tp, temp,            \* the policy's function
  cursor,                                   \* where a function walks a list
  notCompleted, completed,                  \* the lists
  length, responseTime, turnaroundTime, waitTime, hasRun, lastTime, next,
  report,                                   \* the jobs printed, in order
  total                                     \* of print_averages

arguments == <<policy, workload, time_slice>>
times     == <<responseTime, turnaroundTime, waitTime, hasRun, lastTime>>
printed   == <<report, total>>

vars == <<policy, workload, time_slice, pc, id, currentTime, tp, temp, cursor,
          notCompleted, completed, length, responseTime, turnaroundTime,
          waitTime, hasRun, lastTime, next, report, total>>

list == [first : Job \cup {NULL}, last : Job \cup {NULL}]

totals == [response : Nat, turnaround : Nat, wait : Nat, numJobs : Nat]

TypeOK ==
  /\ policy \in Policies
  /\ workload \in Workloads
  /\ time_slice \in Slices
  /\ pc \in {"main", "load", "add_job_sjf", "run", "removeFromList",
             "add_completed", "add_after", "advance", "analyze",
             "print_averages", "done", "exit"}
  /\ id \in 0 .. MaxJobs
  /\ currentTime \in Nat
  /\ tp \in Job \cup {NULL}
  /\ temp \in Job \cup {NULL}
  /\ cursor \in Job \cup {NULL}
  /\ notCompleted \in list
  /\ completed \in list
  /\ length \in [Job -> Nat]
  /\ responseTime \in [Job -> Nat \cup {Unset}]
  /\ turnaroundTime \in [Job -> Nat \cup {Unset}]
  /\ waitTime \in [Job -> Nat]
  /\ hasRun \in [Job -> {0, 1}]
  /\ lastTime \in [Job -> Nat]
  /\ next \in [Job -> Job \cup {NULL}]
  /\ report \in Seq(Job)
  /\ total \in totals

EmptyList == [first |-> NULL, last |-> NULL]

\* init_list and the arguments.  init_list clears the first pointer of a list;
\* its last pointer is NULL because the two lists are the first memory the
\* program takes from its heap.  The times of a node are 0 or whatever malloc
\* left there; those that are read before they are set are the ones that
\* add_job_to_back zeroes.
Init ==
  /\ policy \in Policies
  /\ workload \in Workloads
  /\ time_slice \in Slices
  /\ pc = "main"
  /\ id = 0
  /\ currentTime = 0
  /\ tp = NULL
  /\ temp = NULL
  /\ cursor = NULL
  /\ notCompleted = EmptyList
  /\ completed = EmptyList
  /\ length = [j \in Job |-> 0]
  /\ responseTime = [j \in Job |-> Unset]
  /\ turnaroundTime = [j \in Job |-> Unset]
  /\ waitTime = [j \in Job |-> 0]
  /\ hasRun = [j \in Job |-> 0]
  /\ lastTime = [j \in Job |-> 0]
  /\ next = [j \in Job |-> NULL]
  /\ report = <<>>
  /\ total = [response |-> 0, turnaround |-> 0, wait |-> 0, numJobs |-> 0]
-----------------------------------------------------------------------------
(* The command line. *)

\* Open the workload file, or leave: an argument is missing, the policy has
\* no such name, or there is no such file.
Main ==
  /\ pc = "main"
  /\ pc' \in {"load", "exit"}
  /\ UNCHANGED <<arguments, id, currentTime, tp, temp, cursor, notCompleted,
                 completed, length, times, next, printed>>
-----------------------------------------------------------------------------
(* Loading the jobs: one step for each line of the file. *)

ReadLine ==
  /\ pc = "load"
  /\ id \in DOMAIN workload

\* The node of the line that was read.
NewJob ==
  /\ length' = [length EXCEPT ![id] = workload[id]]
  /\ id' = id + 1

\* Mutant: line 58 dropped, last stays at the job before.
add_job_to_backLastKept ==
  /\ ReadLine
  /\ policy # "SJF"
  /\ NewJob
  /\ IF notCompleted.last = NULL
     THEN /\ notCompleted' = [first |-> id, last |-> id]
          /\ next' = [next EXCEPT ![id] = NULL]
     ELSE /\ next' = [next EXCEPT ![id] = NULL, ![notCompleted.last] = id]
          /\ UNCHANGED notCompleted
  /\ UNCHANGED <<arguments, pc, currentTime, tp, temp, cursor, completed,
                 times, printed>>

add_job_to_back ==
  /\ ReadLine
  /\ policy # "SJF"
  /\ NewJob
  /\ IF notCompleted.last = NULL
     THEN /\ notCompleted' = [first |-> id, last |-> id]
          /\ next' = [next EXCEPT ![id] = NULL]
     ELSE /\ notCompleted' = [notCompleted EXCEPT !.last = id]
          /\ next' = [next EXCEPT ![id] = NULL, ![notCompleted.last] = id]
  /\ UNCHANGED <<arguments, pc, currentTime, tp, temp, cursor, completed,
                 times, printed>>

\* Mutant: the lengths compared the other way round.
ShorterThanAllSwapped ==
  notCompleted.first # NULL => length[notCompleted.first] < workload[id]

ShorterThanAll ==
  notCompleted.first # NULL => length[notCompleted.first] > workload[id]

add_job_to_front ==
  /\ ReadLine
  /\ policy = "SJF"
  /\ ShorterThanAll
  /\ NewJob
  /\ next' = [next EXCEPT ![id] = notCompleted.first]
  /\ notCompleted' = [first |-> id,
                      last |-> IF notCompleted.first = NULL
                               THEN id ELSE notCompleted.last]
  /\ UNCHANGED <<arguments, pc, currentTime, tp, temp, cursor, completed,
                 times, printed>>

\* add_job_sjf: walk to the last job that is no longer than the new one ...
StartSeek ==
  /\ ReadLine
  /\ policy = "SJF"
  /\ ~ShorterThanAll
  /\ cursor' = notCompleted.first
  /\ pc' = "add_job_sjf"
  /\ UNCHANGED <<arguments, id, currentTime, tp, temp, notCompleted,
                 completed, length, times, next, printed>>

\* Mutant: strictly shorter jobs only, which puts a job before its equals.
NextIsShorter ==
  next[cursor] # NULL /\ length[next[cursor]] < workload[id]

NextIsNoLonger ==
  next[cursor] # NULL /\ length[next[cursor]] <= workload[id]

Seek ==
  /\ pc = "add_job_sjf"
  /\ NextIsNoLonger
  /\ cursor' = next[cursor]
  /\ UNCHANGED <<arguments, pc, id, currentTime, tp, temp, notCompleted,
                 completed, length, times, next, printed>>

\* ... and insert it there.
add_job_sjf ==
  /\ pc = "add_job_sjf"
  /\ ~NextIsNoLonger
  /\ NewJob
  /\ next' = [next EXCEPT ![cursor] = id, ![id] = next[cursor]]
  /\ pc' = "load"
  /\ UNCHANGED <<arguments, currentTime, tp, temp, cursor, notCompleted,
                 completed, times, printed>>
-----------------------------------------------------------------------------
(* Running the jobs. *)

\* dequeue: the list without its first job; its last pointer stays.
Dequeued(l) ==
  IF l.first = NULL THEN l ELSE [l EXCEPT !.first = next[l.first]]

\* The end of the file.
StartRunning ==
  /\ pc = "load"
  /\ id \notin DOMAIN workload
  /\ pc' = "run"
  /\ IF policy = "RR"
     THEN UNCHANGED <<tp, notCompleted>>
     ELSE /\ tp' = notCompleted.first
          /\ notCompleted' = Dequeued(notCompleted)
  /\ UNCHANGED <<arguments, id, currentTime, temp, cursor, completed, length,
                 times, next, printed>>

\* FIFO and SJF: the job runs to its end.
RunJob ==
  /\ pc = "run"
  /\ policy # "RR"
  /\ tp # NULL
  /\ responseTime' = [responseTime EXCEPT ![tp] = currentTime]
  /\ turnaroundTime' = [turnaroundTime EXCEPT ![tp] = currentTime + length[tp]]
  /\ waitTime' = [waitTime EXCEPT ![tp] = currentTime]
  /\ pc' = "add_completed"
  /\ UNCHANGED <<arguments, id, currentTime, tp, temp, cursor, notCompleted,
                 completed, length, hasRun, lastTime, next, printed>>

\* The clock advances once the job is in the list of completed jobs.
Advance ==
  /\ pc = "advance"
  /\ currentTime' = currentTime + length[tp]
  /\ tp' = notCompleted.first
  /\ notCompleted' = Dequeued(notCompleted)
  /\ pc' = "run"
  /\ UNCHANGED <<arguments, id, temp, cursor, completed, length, times, next,
                 printed>>

\* RR: a round begins at the first job that is left.
NextRound ==
  /\ pc = "run"
  /\ policy = "RR"
  /\ tp = NULL
  /\ notCompleted.first # NULL
  /\ tp' = notCompleted.first
  /\ UNCHANGED <<arguments, pc, id, currentTime, temp, cursor, notCompleted,
                 completed, length, times, next, printed>>

\* Mutant: lastTime is the start of the turn, so that running counts as waiting.
TurnSinceItsStart(time) ==
  /\ pc = "run"
  /\ policy = "RR"
  /\ tp # NULL
  /\ responseTime' = [responseTime EXCEPT
                        ![tp] = IF hasRun[tp] = 0 THEN currentTime ELSE @]
  /\ hasRun' = [hasRun EXCEPT ![tp] = 1]
  /\ waitTime' = [waitTime EXCEPT ![tp] = @ + (currentTime - lastTime[tp])]
  /\ currentTime' = currentTime + time
  /\ lastTime' = [lastTime EXCEPT ![tp] = currentTime]

\* Mutant: line 197 runs before the test of line 192, and resets it: every
\* turn is taken for the first.
TurnForgetsHasRun(time) ==
  /\ pc = "run"
  /\ policy = "RR"
  /\ tp # NULL
  /\ responseTime' = [responseTime EXCEPT ![tp] = currentTime]
  /\ hasRun' = [hasRun EXCEPT ![tp] = 1]
  /\ waitTime' = [waitTime EXCEPT ![tp] = @ + (currentTime - lastTime[tp])]
  /\ currentTime' = currentTime + time
  /\ lastTime' = [lastTime EXCEPT ![tp] = currentTime + time]

\* The job in hand has waited since it last ran, and now runs for a time.
Turn(time) ==
  /\ pc = "run"
  /\ policy = "RR"
  /\ tp # NULL
  /\ responseTime' = [responseTime EXCEPT
                        ![tp] = IF hasRun[tp] = 0 THEN currentTime ELSE @]
  /\ hasRun' = [hasRun EXCEPT ![tp] = 1]
  /\ waitTime' = [waitTime EXCEPT ![tp] = @ + (currentTime - lastTime[tp])]
  /\ currentTime' = currentTime + time
  /\ lastTime' = [lastTime EXCEPT ![tp] = currentTime + time]

\* Mutant: line 200 compares with 0, so that a slice may be longer than the job.
RunSliceOfAnyJob ==
  /\ Turn(time_slice)
  /\ length[tp] > 0
  /\ length' = [length EXCEPT ![tp] = @ - time_slice]
  /\ tp' = next[tp]
  /\ UNCHANGED <<arguments, pc, id, temp, cursor, notCompleted, completed,
                 turnaroundTime, next, printed>>

\* Mutant: a preempted job makes the round begin again.
RunSliceFromTheFirst ==
  /\ Turn(time_slice)
  /\ length[tp] > time_slice
  /\ length' = [length EXCEPT ![tp] = @ - time_slice]
  /\ tp' = notCompleted.first
  /\ UNCHANGED <<arguments, pc, id, temp, cursor, notCompleted, completed,
                 turnaroundTime, next, printed>>

RunSlice ==
  /\ Turn(time_slice)
  /\ length[tp] > time_slice
  /\ length' = [length EXCEPT ![tp] = @ - time_slice]
  /\ tp' = next[tp]
  /\ UNCHANGED <<arguments, pc, id, temp, cursor, notCompleted, completed,
                 turnaroundTime, next, printed>>

\* Mutant: a job that has run for a slice is taken for finished.
RunLastSliceOfAnyJob ==
  /\ Turn(length[tp])
  /\ length[tp] <= time_slice \/ hasRun[tp] = 1
  /\ turnaroundTime' = [turnaroundTime EXCEPT ![tp] = currentTime + length[tp]]
  /\ temp' = next[tp]
  /\ cursor' = notCompleted.first
  /\ pc' = "removeFromList"
  /\ UNCHANGED <<arguments, id, tp, notCompleted, completed, length, next,
                 printed>>

\* Mutant: the slice of a job that is no longer than it is left out of the clock.
RunLastSliceUntimed ==
  /\ Turn(0)
  /\ length[tp] <= time_slice
  /\ turnaroundTime' = [turnaroundTime EXCEPT ![tp] = currentTime + length[tp]]
  /\ temp' = next[tp]
  /\ cursor' = notCompleted.first
  /\ pc' = "removeFromList"
  /\ UNCHANGED <<arguments, id, tp, notCompleted, completed, length, next,
                 printed>>

RunLastSlice ==
  /\ Turn(length[tp])
  /\ length[tp] <= time_slice
  /\ turnaroundTime' = [turnaroundTime EXCEPT ![tp] = currentTime + length[tp]]
  /\ temp' = next[tp]
  /\ cursor' = notCompleted.first
  /\ pc' = "removeFromList"
  /\ UNCHANGED <<arguments, id, tp, notCompleted, completed, length, next,
                 printed>>

\* removeFromList: the job is the first ...
RemoveFirst ==
  /\ pc = "removeFromList"
  /\ notCompleted.first = tp
  /\ notCompleted' = [first |-> next[tp],
                      last |-> IF next[tp] = NULL
                               THEN NULL ELSE notCompleted.last]
  /\ pc' = "add_completed"
  /\ UNCHANGED <<arguments, id, currentTime, tp, temp, cursor, completed,
                 length, times, next, printed>>

\* ... or the one after the cursor.
RemoveNext ==
  /\ pc = "removeFromList"
  /\ notCompleted.first # tp
  /\ cursor # NULL
  /\ IF next[cursor] = tp
     THEN /\ next' = [next EXCEPT ![cursor] = next[tp], ![tp] = NULL]
          /\ pc' = "add_completed"
          /\ UNCHANGED cursor
     ELSE /\ cursor' = next[cursor]
          /\ UNCHANGED <<next, pc>>
  /\ UNCHANGED <<arguments, id, currentTime, tp, temp, notCompleted,
                 completed, length, times, printed>>
-----------------------------------------------------------------------------
(* add_job_responseTime_ascending: tp joins the completed jobs. *)

\* What the policy does next: RR goes on with the job it put in temp.
Added ==
  IF policy = "RR"
  THEN pc' = "run" /\ tp' = temp
  ELSE pc' = "advance" /\ UNCHANGED tp

\* Mutant: line 91 dropped, the job stays linked to the one it was queued with.
AddFirstStillLinked ==
  /\ pc = "add_completed"
  /\ completed.first = NULL
  /\ completed' = [first |-> tp, last |-> tp]
  /\ Added
  /\ UNCHANGED <<arguments, id, currentTime, temp, cursor, notCompleted,
                 length, times, next, printed>>

AddFirst ==
  /\ pc = "add_completed"
  /\ completed.first = NULL
  /\ completed' = [first |-> tp, last |-> tp]
  /\ next' = [next EXCEPT ![tp] = NULL]
  /\ Added
  /\ UNCHANGED <<arguments, id, currentTime, temp, cursor, notCompleted,
                 length, times, printed>>

AddToFront ==
  /\ pc = "add_completed"
  /\ completed.first # NULL
  /\ responseTime[tp] < responseTime[completed.first]
  /\ completed' = [completed EXCEPT !.first = tp]
  /\ next' = [next EXCEPT ![tp] = completed.first]
  /\ Added
  /\ UNCHANGED <<arguments, id, currentTime, temp, cursor, notCompleted,
                 length, times, printed>>

\* Mutant: the test of line 67 dropped, no job is added before the first.
StartAddAfterAlways ==
  /\ pc = "add_completed"
  /\ completed.first # NULL
  /\ cursor' = completed.first
  /\ pc' = "add_after"
  /\ UNCHANGED <<arguments, id, currentTime, tp, temp, notCompleted, completed,
                 length, times, next, printed>>

StartAddAfter ==
  /\ pc = "add_completed"
  /\ completed.first # NULL
  /\ responseTime[tp] >= responseTime[completed.first]
  /\ cursor' = completed.first
  /\ pc' = "add_after"
  /\ UNCHANGED <<arguments, id, currentTime, tp, temp, notCompleted, completed,
                 length, times, next, printed>>

\* The cursor is prev, and next[cursor] is temp.
AddBetween ==
  /\ pc = "add_after"
  /\ next[cursor] # NULL
  /\ responseTime[tp] < responseTime[next[cursor]]
  /\ next' = [next EXCEPT ![cursor] = tp, ![tp] = next[cursor]]
  /\ Added
  /\ UNCHANGED <<arguments, id, currentTime, temp, cursor, notCompleted,
                 completed, length, times, printed>>

MoveOn ==
  /\ pc = "add_after"
  /\ next[cursor] # NULL
  /\ responseTime[tp] >= responseTime[next[cursor]]
  /\ cursor' = next[cursor]
  /\ UNCHANGED <<arguments, pc, id, currentTime, tp, temp, notCompleted,
                 completed, length, times, next, printed>>

AddLast ==
  /\ pc = "add_after"
  /\ next[cursor] = NULL
  /\ next' = [next EXCEPT ![cursor] = tp, ![tp] = NULL]
  /\ completed' = [completed EXCEPT !.last = tp]
  /\ Added
  /\ UNCHANGED <<arguments, id, currentTime, temp, cursor, notCompleted,
                 length, times, printed>>
-----------------------------------------------------------------------------
(* The analysis. *)

StartAnalysis ==
  /\ pc = "run"
  /\ tp = NULL
  /\ policy = "RR" => notCompleted.first = NULL
  /\ tp' = completed.first
  /\ pc' = "analyze"
  /\ UNCHANGED <<arguments, id, currentTime, temp, cursor, notCompleted,
                 completed, length, times, next, printed>>

\* Mutant: print_averages starts at the job the analysis stopped at, which is
\* none.
AnalyzeToTheEnd ==
  /\ pc = "analyze"
  /\ IF tp # NULL
     THEN /\ report' = Append(report, tp)
          /\ tp' = next[tp]
          /\ UNCHANGED pc
     ELSE /\ pc' = "print_averages"
          /\ UNCHANGED <<report, tp>>
  /\ UNCHANGED <<arguments, id, currentTime, temp, cursor, notCompleted,
                 completed, length, times, next, total>>

\* Print a job, or go on to the averages after the last one.
Analyze ==
  /\ pc = "analyze"
  /\ IF tp # NULL
     THEN /\ report' = Append(report, tp)
          /\ tp' = next[tp]
          /\ UNCHANGED pc
     ELSE /\ tp' = completed.first
          /\ pc' = "print_averages"
          /\ UNCHANGED report
  /\ UNCHANGED <<arguments, id, currentTime, temp, cursor, notCompleted,
                 completed, length, times, next, total>>

print_averages ==
  /\ pc = "print_averages"
  /\ IF tp # NULL
     THEN /\ total' = [response   |-> total.response + responseTime[tp],
                       turnaround |-> total.turnaround + turnaroundTime[tp],
                       wait       |-> total.wait + waitTime[tp],
                       numJobs    |-> total.numJobs + 1]
          /\ tp' = next[tp]
          /\ UNCHANGED pc
     ELSE /\ pc' = "done"
          /\ UNCHANGED <<total, tp>>
  /\ UNCHANGED <<arguments, id, currentTime, temp, cursor, notCompleted,
                 completed, length, times, next, report>>
-----------------------------------------------------------------------------
Load == add_job_to_back \/ add_job_to_front \/ StartSeek \/ Seek \/ add_job_sjf

Run ==
  \/ StartRunning \/ RunJob \/ Advance
  \/ NextRound \/ RunSlice \/ RunLastSlice
  \/ RemoveFirst \/ RemoveNext

add_job_responseTime_ascending ==
  \/ AddFirst \/ AddToFront \/ StartAddAfter
  \/ AddBetween \/ MoveOn \/ AddLast

Analysis == StartAnalysis \/ Analyze \/ print_averages

Next == Main \/ Load \/ Run \/ add_job_responseTime_ascending \/ Analysis

Spec == Init /\ [][Next]_vars

\* The program is one thread, and keeps running while it can take a step.
FairSpec == Spec /\ WF_vars(Next)
-----------------------------------------------------------------------------
(* What the lists stand for. *)

Jobs == DOMAIN workload

\* The order of the policy: shortest first under SJF, and by arrival otherwise
\* and among jobs of one length.
Precedes(i, j) ==
  IF policy = "SJF" /\ workload[i] # workload[j]
  THEN workload[i] < workload[j]
  ELSE i < j

\* The jobs that ran to completion: turnaroundTime is set when they do.
Ran == {j \in Job : turnaroundTime[j] # Unset}

\* The job that is between the lists, or about to leave the first one.
Moving ==
  IF pc \in {"removeFromList", "add_completed", "add_after"} THEN {tp} ELSE {}

\* The jobs on the completed list ...
Finished == Ran \ Moving

\* ... and those on the notCompleted list.
Queued ==
  LET removed   == IF pc = "removeFromList" THEN Finished ELSE Ran
      dequeued  == IF pc = "run" /\ policy # "RR" THEN {tp} ELSE {}
  IN  (0 .. id - 1) \ (removed \cup dequeued)

IsLeast(j, S) ==
  IF S = {} THEN j = NULL ELSE j \in S /\ \A k \in S \ {j} : Precedes(j, k)

\* The jobs of S that come after j.
After(j, S) == {k \in S : Precedes(j, k)}

\* From first, the next pointers lead through the jobs of S in order.
IsChain(first, S) ==
  /\ IsLeast(first, S)
  /\ \A j \in S : IsLeast(next[j], After(j, S))

\* Every job that was read is on the list it should be on, and only there; both
\* lists are in the order of the policy, whatever order the jobs were loaded,
\* preempted and finished in.
ListsInOrder ==
  /\ IsChain(notCompleted.first, Queued)
  /\ IsChain(completed.first, Finished)

IsBack(j, S) == IF S = {} THEN j = NULL ELSE j \in S /\ next[j] = NULL

\* The last pointer is the back of the list as long as add_job_to_back relies
\* on it, and always on the completed list.  (Elsewhere it goes stale:
\* add_job_sjf, dequeue and removeFromList leave it behind.)
LastIsBack ==
  /\ pc = "load" /\ policy # "SJF" => IsBack(notCompleted.last, Queued)
  /\ IsBack(completed.last, Finished)

\* The wait RR adds up turn by turn is the time since the start of the
\* simulation that a job did not run; no job waits less than until it first
\* runs.
WaitAccounted ==
  \A j \in Ran :
    /\ waitTime[j] = turnaroundTime[j] - workload[j]
    /\ responseTime[j] \in 0 .. waitTime[j]

\* Under RR a job gets its first turn after at most one slice of each job that
\* came before it, however long those are.
ResponseWithinSlices ==
  policy = "RR" =>
    \A j \in Job : hasRun[j] = 1 => responseTime[j] <= j * time_slice

\* Each job is analysed once, in the order of the policy: RR sorts the jobs,
\* which finish in another order, by their response times.
ReportInOrder ==
  pc \in {"print_averages", "done"} =>
    /\ \A j \in Jobs : \E i \in DOMAIN report : report[i] = j
    /\ \A i, k \in DOMAIN report : i < k => Precedes(report[i], report[k])

CanEnd == policy = "RR" /\ time_slice = 0 => \A j \in Jobs : workload[j] = 0

\* A time slice of 0 makes no progress: then RR does not come to its analysis,
\* unless every job has length 0.
EndsOnlyWithProgress ==
  pc \in {"analyze", "print_averages", "done"} => CanEnd

\* Every other simulation ends: no loop runs on for ever, no list is cyclic,
\* and removeFromList finds its job.
Terminates == CanEnd => <>(pc \in {"done", "exit"})

\* README.txt:65 on workload_1.in: under RR, every job's wait time is its
\* response time exactly when all jobs but the last fit in a time slice (or
\* only jobs of length 0 come after them).
WaitIsResponse == \A j \in Jobs : waitTime[j] = responseTime[j]

FitsInSlice(j) == workload[j] <= time_slice

EqualTimesWorkload ==
  policy = "RR" /\ pc = "done" =>
    (WaitIsResponse <=>
       \A j \in Jobs : FitsInSlice(j) \/ \A k \in Jobs : k > j => workload[k] = 0)

\* README.txt:85 on workload_3.in: when the jobs arrive from the shortest to
\* the longest and fit in a time slice, each policy runs them as FIFO does,
\* every job at once when the one before it has finished.
RunsBackToBack(j) ==
  /\ responseTime[j] = IF j = 0 THEN 0 ELSE turnaroundTime[j - 1]
  /\ turnaroundTime[j] = responseTime[j] + workload[j]
  /\ waitTime[j] = responseTime[j]

SamePoliciesWorkload ==
  /\ policy = "SJF" => \A i, j \in Jobs : i < j => workload[i] <= workload[j]
  /\ policy = "RR" => \A j \in Jobs : FitsInSlice(j)

PoliciesAgree == SamePoliciesWorkload => \A j \in Ran : RunsBackToBack(j)
-----------------------------------------------------------------------------
(* The scheduler carries out the policies as Dispatch states them. *)

\* The job whose turn RR has in mind: temp while tp moves to the other list.
NextTurn == IF Moving = {} THEN tp ELSE temp

Unfinished == Jobs \ Ran

\* FIFO and SJF set the clock when the job is on the other list.
Clock ==
  IF policy # "RR" /\ pc \in {"add_completed", "add_after", "advance"}
  THEN currentTime + length[tp] ELSE currentTime

Left ==
  [j \in Jobs |-> IF j \in Ran THEN 0
                  ELSE IF j < id THEN length[j] ELSE workload[j]]

Round ==
  IF policy = "RR" /\ NextTurn # NULL
  THEN {j \in Unfinished : j >= NextTurn} ELSE Unfinished

Response   == [j \in Jobs |-> responseTime[j]]
Turnaround == [j \in Jobs |-> turnaroundTime[j]]

dispatch == INSTANCE Dispatch WITH
  clock <- Clock, left <- Left, unfinished <- Unfinished, round <- Round,
  response <- Response, turnaround <- Turnaround

\* Every run of the program is one Dispatch allows: each step of the lists'
\* bookkeeping changes nothing, and each turn is the turn of the right job.
ImplementsDispatch == dispatch!Spec
=============================================================================
