# A TLA+ model of the CS-3013 projects

The repository holds the four C projects of an operating-systems course. They are
separate programs. This directory models the ones whose logic is more than a few
system calls: what their threads may do in any interleaving, what their data
structures keep, and where the code does not do what its own comments and
explanations say.

| Project | Program | Modules | Status |
|---|---|---|---|
| 2, Question 1 | `performance.c`, `spectacular.c`: performers share a stage | `CircusShow`, `Spectacular`, `SpectacularProofs` | modelled, checked, safety and refinement proved |
| 2, Question 2 | `teamMember.c`, `fedOops.c`, `queue.c`: teams share a packet line | `Shipping`, `FedOops`, `MCFedOops`, `FedOopsProofs` | modelled, checked, safety and refinement proved |
| 3 | `goatmalloc.c`: an allocator | `GoatMalloc`, `GoatMallocProofs` | modelled, checked, safety proved for calls that split no chunk in the middle of the list |
| 4 | `scheduler.c`, `linkedlist.c`: FIFO, SJF and round robin | `Dispatch`, `Scheduler`, `MCScheduler`, `SchedulerProofs`, `WorkloadProofs`, `SumProofs`, `SchedulerTermination` | modelled, checked, safety and refinement proved |
| 1 | `slugrace.c`, `generation.c`, `prolific.c`, `explorer.c`: processes | `Processes`, `SlugRace`, `Generation`, `Prolific`, `Families`, `MCFamilies`, `FamiliesProofs` | modelled, checked, safety proved |

## 1. Inventory

### The stage (Project 2, Question 1)

*State.* The struct `stage`: the `spots`, the type of the act
(`currentTypeOfPerformance`), how many performances of that type there have been in a
row (`samePerformersInARow`) and in the whole show (`performancesSoFar`). One mutex,
`stageLock`; one condition variable per performer type, `canGoOnStageC[0..2]`. Each
thread keeps a pointer to its spot in a local variable across its sleep.

*Operations.* `startPerformance` is the whole life of a thread: under the mutex,
return if the show is over; `makeDecision` waits until the performer may open an empty
stage or join an act of its type; the performance is a sleep outside the mutex; the
departure frees the spot, signals one member of the own type, broadcasts to the other
two types if the stage is now empty, and waits. `main` starts and joins the threads.

*Hard.* One signal per departure must be enough to fill the stage; a woken thread may
find its reason gone; whoever can open the stage must be awake when it is empty; the
last threads must not be left waiting. POSIX also allows spurious wakeups.

*Correct when.* Types never mix and soloists are alone; the stage fills up as long as
the act lasts; no type holds the stage twice in a row; the show reaches its last
performance; every thread returns.

### The packet line (Project 2, Question 2)

*State.* The queue of packets; the stations and the packet at each; the instruction
list of every packet; one semaphore per member (the team's tag passes around them),
one per team (`new_available_station`), `conveyor_lock` and `blockedTeamSemaphore`;
the fairness variables `blockedTeam`, `waitingTeams` and each thread's `blockedTimes`.

*Operations.* A member waits for the tag, takes the first packet, and loops until
`reserveStations` takes all the stations of the list at once. A failure counts the
team as waiting, perhaps makes it the blocked team, signals other teams that have no
signal pending (unless all wait), and sleeps. A success resets the fairness variables.
`process` visits the stations in order, `leaveStation` frees one and signals the
blocked team, or all other teams when there is none. Then the tag passes on.

*Hard.* `waitingTeams` is read with no lock; `sem_getvalue`, that read and `sem_post`
are three steps; four kinds of semaphores are nested; a signal can be sent on a stale
value; the blocked team can be the wrong one by the time it is signalled.

*Correct when.* No two packets at one station; each packet shipped exactly once, taken
in the queue's order; one tag per team; no set of teams asleep in front of a free
line; no busy waiting; every package shipped and every member home; the blocked team
goes first.

### The allocator (Project 3)

*State.* `_arena_start`, `totalAllocatedSize`, `statusno`, and a doubly linked list of
`node_t` headers inside the arena.

*Operations.* `init` maps whole pages and makes one free chunk. `walloc` is first fit
and splits the chunk when the rest has room for a header and a byte. `wfree` marks the
chunk free and merges it with free neighbours, in four cases. `destroy` unmaps.

*Hard.* Long legal sequences of calls: `wfree` trusts `fwd` and `bwd` wherever they
came from.

*Correct when.* The list tiles the arena, in address order, the same in both
directions; what the client holds is exactly what is marked taken and overlaps
nothing; two free chunks are never adjacent; `walloc` takes the first chunk that fits,
fails only when there is none, and always returns.

### The scheduler (Project 4)

*State.* The clock `currentTime`; two singly linked lists of jobs, `notCompleted` and
`completed`, each with a `first` and a `last` pointer; in each job its `length`,
`responseTime`, `turnaroundTime`, `waitTime`, `hasRun`, `lastTime` and `next`.

*Operations.* `main` chooses a policy. Each policy loads the workload file into
`notCompleted` (`add_job_to_back`, or sorted by length with `add_job_sjf`), runs the
jobs, and moves each one that finishes to `completed`, sorted by response time
(`add_job_responseTime_ascending`). `fifo` and `sjf` `dequeue` a job and run it to its
end; `rr` walks the list in rounds, one time slice per job, and takes a job out in the
middle of the walk (`removeFromList`). Then every job and the averages are printed.

*Hard.* A job's `next` pointer belongs to the list it is on, and changes list in the
middle of the walk that uses it; the `last` pointer goes stale; jobs finish in one order
and are printed in another, with ties in response time; waits are added up turn by
turn; a slice of 0 runs for ever.

*Correct when.* No job is lost or printed twice; the times are those of the policy; the
simulation ends; SJF is optimal; the statements of `README.txt` about its workloads
hold.

### Processes (Project 1)

*State.* The process table, and in each process a copy of the memory of the one that
forked it: a loop counter or `lifeSpanCount`, the number drawn last, the child's process
id and the status read last; in `slugrace`, `childPID` and `numOfActiveChildren`.

*Operations.* `slugrace.c` forks four children that become `slug`, polls
`waitpid(-1, WNOHANG)`, sleeps for 250 ms when nobody has finished, and counts down.
In `generation.c` each process forks one child, which goes round the same loop with a
count less one, waits for it and returns its own count. `prolific.c` and `explorer.c`
fork their children one after the other, waiting for each.

*Hard.* Children end at any time and in any order; forks fail; exits of parents and
children meet; process ids are used again.

*Correct when.* Every slug is counted once; every other child is waited for by its
parent, which reads that child's status; all processes end and none is left behind.

### Support code

`get_random_number.c` and `read_seed.c` occur in every project: a draw from a range is
a choice in the models, and reading a seed is plain I/O.

## 2. Plan

Modules, most important first. Each component has an abstract specification where
there is one worth stating, a detailed one that implements it, and a module of proofs.

1. `CircusShow` and `Spectacular` (done), with `SpectacularProofs` (done: type
   correctness, five safety properties, the refinement).
2. `Shipping` and `FedOops` (done), with `FedOopsProofs` (done: type correctness, four
   safety properties, the refinement).
3. `GoatMalloc` (done), with `GoatMallocProofs` (done: type correctness, the tiling
   of the arena, the client's chunks, complete coalescing, first fit, the progress of the search).
4. `Dispatch` and `Scheduler` (done), with `SchedulerProofs` (done: type correctness,
   six safety properties, the refinement), on the sums of `SumProofs`,
   `WorkloadProofs` (done: the two statements of `README.txt` about its workloads, the
   averages, and that SJF is optimal) and `SchedulerTermination` (done: the measure that
   every turn of a loop makes smaller, and that no NULL pointer is followed).
5. `Processes`, `SlugRace`, `Generation` and `Prolific`, composed by `Families` (done),
   with `FamiliesProofs` (done: type correctness, four safety properties, and that
   families of one process at a time come to an end).

What could be added is little: the linked list of `queue.c`, which no thread changes in
a way that differs from a sequence, and the correctness of the allocator's calls that
split in the middle, which needs the fourth finding repaired first.

## 3. How the modules correspond to the code

### `Spectacular`

Every access to `stage` and every call on a condition variable is made with
`stageLock` held, so a critical section is one action: from the moment a thread gets
the mutex (first entry, or return from `pthread_cond_wait`) to the unlock or the next
wait.

| Code | Model |
|---|---|
| `stage.performancesSoFar`, `currentTypeOfPerformance`, `samePerformersInARow`, `spots` | the variables of the same names; `spots[i]` is the performer, `Nobody` for index -1 |
| the local pointer to the spot (line 68) | `spot[p]` |
| where the thread is | `state[p]`: contending, napping, onstage, resting, returned |
| loop exit, lines 48-54 | `Return` |
| `makeDecision`, its two `canGo` branches, then taking the spot | `OpenStage`, `JoinStage` |
| `makeDecision`, all other branches | `Nap` |
| after the sleep: free, signal, broadcast, wait | `LeaveStage` |
| joins in `main` | `MainReturns` |
| return of `pthread_cond_wait` without a signal, which POSIX allows | `WakeSpuriously` |

`CircusShow` is the abstract show: acts of one type, their length, the length of the
show, with no threads. `Spectacular` implements it with `cast` being whoever is on
stage.

### `FedOops`

`pc[m]` is the place of a member thread in `processPacket`; the comment above
`Locations` names the line of each. A section under a lock is one action when nothing
in it can wait. `leaveStation` waits for `blockedTeamSemaphore` while it holds
`conveyor_lock`: it is `LeaveStation`, then `AlertBlockedTeam`, or `AlertAll` and one
`Announce` per signal. The loop of lines 108-114 holds no lock: it is split at
`sem_getvalue` (`Peek`), at the read of `waitingTeams` (`Weigh`) and at `sem_post`
(`SignalOther`). A station's `taken`, `packetNum`, `teamCol` and `teamInd` are always
written together and are one value: the packet or `NoPacket`. Instructions that
`fetchNextInstruction` has set to NULL are counted in `cleared`.

`Shipping` is the abstract handling: teams pick packages up in order, reserve all the
stations of a list at once, process at each in order, leave it before the next one, and
ship. A team in `Shipping` is the member of it that is active in `FedOops`.

### `GoatMalloc`

An address is an offset in the arena. `node` is the partial function from the addresses
where a header is now to that header (`size`, `is_free`, `fwd`, `bwd`). `walloc` is
`WallocCall`, then one `WallocNext` per turn of its loop, then `WallocWhole`,
`WallocSplit` or `WallocFails`. `wfree` is `WfreeBoth`, `WfreeBwd`, `WfreeFwd` or
`WfreeAlone`, its four cases. The client is single-threaded, as in the tests: it calls
`init` when there is no arena, frees only what it holds, and may `destroy` while it
holds chunks. `MiddleSplits` says whether its calls may make `walloc` split a chunk
that has a `fwd`; see the finding below.

### `Scheduler`

The simulator is one thread. A node is known by the id of its job, and each field of the
struct is a function of it, so that `next` holds the links of both lists, as in memory.
Every turn of a loop is an action, and so is what lies between two loops: a walk of a
list is seen at each node it visits, with `cursor` where the function is. `tp` and `temp`
are those of the code. `Unset` stands for a time that the code has not set.

| Code | Model |
|---|---|
| `main`, and the `fopen` of each policy | `Main` |
| a line read; `add_job_to_back`; `add_job_sjf` with `add_job_to_front` | `ReadLine`, `NewJob`; `add_job_to_back`; `StartSeek`, `Seek`, `add_job_sjf`, `add_job_to_front` |
| the loops of `fifo` and `sjf`; `dequeue` | `StartRunning`, `RunJob`, `Advance`; `Dequeued` |
| the two loops of `rr`: a round, a slice, the last slice | `NextRound`, `RunSlice`, `RunLastSlice` (both a `Turn`) |
| `removeFromList` | `RemoveFirst`, `RemoveNext` |
| `add_job_responseTime_ascending` | `AddFirst`, `AddToFront`, `StartAddAfter`, `MoveOn`, `AddBetween`, `AddLast` |
| the printing loop and `print_averages` | `StartAnalysis`, `Analyze`, `print_averages` |

`Dispatch` states the policies with no lists: rounds in which every unfinished job runs
once in the order of the policy. Under the mapping in `Scheduler`, a turn is a step of
`Dispatch` and all the work on the lists is a stutter.

### `Families`

A behavior of `Families` is a run of one of the four programs with all its processes.
`Processes` is the part of the kernel they see (it is no part of the repository, and is
marked external): `ForkTable` takes any free process id, `Exit` keeps a status for the
parent and hands orphans over, `Reap` is `waitpid`. `count[p]` is the loop counter or
`lifeSpanCount` of process `p`, `number` and `rc` the locals of that meaning, `code`
what `WEXITSTATUS` gave it. `SlugRace`, `Generation` and `Prolific` have the programs'
own steps, one between any two system calls that another process can notice. `fork` may
always fail. `execvp` may fail where the code handles it; a slug, and what an explorer
becomes, end at any time with any status those commands have.

## 4. The runs

| Run | Instance | Asks |
|---|---|---|
| `spectacular_show` | 3 dancers, 1 juggler, 2 soloists, 2 spots, 3 in a row, a show of 5, spurious wakeups | `TypeOK`, `SpotOwnership`, `PerformanceSafety`, `OpenersAwake`, `MaximumParallelism`, `ImplementsShow`, `ShowCompletes` |
| `spectacular_termination` | 2, 1, 1 performers, 2 spots, a show of 3 | violation of `ReturnWakesEveryone` |
| `spectacular_lostwakeup` | the same | violation of `DancersAndSoloistsReturn` |
| `fedoops_safety` | 3 teams of one member, 3 packets on the same two stations, limit 1 | `TypeOK`, `StationExclusion`, `BlockedTeamIsBlocked`, `NoTeamForgotten` |
| `fedoops_shipping` | 2 teams of two members, 3 packets, every list over two stations, limit 2 | `OneTagPerTeam`, `ImplementsShipping` |
| `fedoops_liveness` | 3 teams of one member, 3 packets at one station, limit 1 | `AllPackagesShipped` |
| `fedoops_busywait` | the same, with no fairness at all | `NoBusyWaiting` |
| `fedoops_priority` | 3 teams, two lists that share a station | violation of `BlockedTeamGoesFirst` |
| `goatmalloc_safety` | pages of 8 bytes, headers of 2, arenas of 8 or 16, requests of 0 to 5 bytes, no middle split | `TypeOK`, `ArenaTiled`, `LiveChunksKept`, `Coalesced`, `FirstFit`, `SearchEnds` |
| `goatmalloc_overlap` | the same with middle splits | violation of `FreeBytesAvailable` |
| `scheduler_policies` | every workload of 0 to 4 jobs of length 0 to 3, slices of 0, 1 and 2, all policies | `TypeOK`, `ListsInOrder`, `LastIsBack`, `WaitAccounted`, `ResponseWithinSlices`, `ReportInOrder`, `EndsOnlyWithProgress`, `EqualTimesWorkload`, `PoliciesAgree`, `AveragesAddUp`, `ShortestFirstIsBest`, `Terminates`, `ImplementsDispatch` |
| `families_end` | 5 process ids; 4 slugs, generations of 3 and of 7, 10 prolific children, 5 selections; three numbers to draw | `TypeOK`, `RaceTable`, `OneAtATime`, `LeavesNoProcess`, `CodesRead`, `Ends` |

*Why the bounds are enough to be of use.* On stage, three dancers at two spots leave
one to wait within an act, three in a row end an act before the dancers run out of
turns, and a show of five has between one and four changes of act, some of them with
performers of both other types waiting. On the line, three teams are the least for which a signal can go to the
wrong one of two others; with a limit of 1 or 2 there is a blocked team in most runs;
two members per team are enough for the tag to go round. In the arena, 16 bytes hold
up to seven chunks, the requests include 0, exact fits, and rests one byte below, at and
above a header, and every coalescing case occurs with other chunks on both sides.
Four jobs and lengths up to 3 have every insertion (at the front, between, at the back,
with ties), jobs that need one, two and three slices or end exactly with one, and 24
orders to compare SJF with. Five process ids are just enough for the race, too few for
a generation of 7, whose last descendant cannot fork, and all used again several times by
the ten prolific children; the race, the prolific parent and the explorer have the numbers of
the code.
There is no state constraint. The only counters that are cut are those that the code
only compares with a limit: `blockedTimes` stops at `BLOCKED_LIMIT` and `waitingTeams`
at `NUM_TEAMS`. What holds for the safety properties at these sizes is proved for all
sizes (section 6).

*Deadlock.* It is checked in all runs but those of `Spectacular`: there the program may
stop with threads waiting for ever, which is what two of the findings are about, and
`MainReturns` has no successor. In `FedOops` the final state has the step `Stopped`, so
that TLC's deadlock check stands for "no set of semaphores is ever waited for by
everyone". `GoatMalloc` can always be called again. `Scheduler` and `Families` have programs that
end, so deadlock is not checked; `Terminates` and `Ends` say where they may stop.

*Fairness.* `Spectacular`: weak fairness of `Step(p)` for each thread. A thread that
can run is scheduled, a `pthread_mutex_lock` that stays possible succeeds, a sleep ends;
spurious wakeups get no fairness. `FedOops`: weak fairness of `Step(m)` for each thread;
a critical section is short, so a lock is free again and again, and the properties need
no more than that a thread which could always go on does. `NoBusyWaiting` is checked
with none. `GoatMalloc`: weak fairness of the loop of `walloc`, which is sequential code.
`Scheduler`: weak fairness of `Next`, for the same reason. `Families`: weak fairness of
`Step(p)` for each process: the system runs every process that can run, sleeps end, and
so does the command a child has become. No fairness says that `fork` succeeds.

## 5. Where the code and its comments disagree

1. `ReturnWakesEveryone`: the exit of `startPerformance` broadcasts
   `canGoOnStageC[1]` twice and `[0]`, the jugglers', never (`performance.c:50-52`),
   although the comment says "wake up all the other threads". A waiting juggler never
   returns and `main` never joins it.
2. `DancersAndSoloistsReturn`: also for the other types the comment fails. A thread
   waits after its performance without looking at `performancesSoFar` (`:124`); the one
   that gave the last performance, with everyone else returned, is never woken.
3. `BlockedTeamGoesFirst`: `problem2_explanation.txt:4` promises the blocked team
   priority; `reserveStations` never looks at `blockedTeam`, so a team that has just
   taken a packet overtakes it.
4. `FreeBytesAvailable`: when `walloc` splits a chunk that has a successor, the
   successor's `bwd` is not updated (`goatmalloc.c:208`). A later `wfree` of the
   successor merges it with a chunk that is not its neighbour, and a free chunk then
   covers bytes that the client holds.

A difference that no run states: `README.txt:56` of Project 4 has the clock advance by the
time slice when a job finishes; `scheduler.c:210` adds what was left of the job, which
is what `README.txt:85` needs (`PoliciesAgree` compares each start with the end before it).

## 6. What is proved

`tlapm` checks every proof, with the assumptions on the constants that the modules
state (`StageAssumption`, `PerformersAssumption`, `FinitelyManyPerformers`, `SizesAssumption`,
`RoutesAssumption`, `SchedulerAssumption`, `ProcessesAssumption`, `ProlificAssumption`,
`FamiliesAssumption`) and nothing else.

**`SpectacularProofs`**, for all finite sets of performers, stage sizes and lengths:
`TypeOK`, `SpotOwnership`, `PerformanceSafety`, `OpenersAwake`, `MaximumParallelism` and
the refinement `ImplementsShow`. The invariant adds to them that everyone on stage has
the type of the act (who may join is decided from `currentTypeOfPerformance`, not from
those on stage) and that nobody returns before the show is over. `MaximumParallelism`
is inductive with these. It does not say that nobody naps beside a free spot: of two
that nap, a departure wakes one, and the other sleeps on until the next. It says that
then enough are awake who could join. A departure makes room for one more and its signal wakes one
more; joining uses up one of each; and a performer naps only when it could not join,
which it learns with the mutex held. Whether the show is over matters: then an awake
juggler returns, and the broadcasts of its exit do not reach the other jugglers (the
first finding), so that jugglers may nap beside a stage with a free spot. It takes four
jugglers to see it: with a stage of 2, acts of at most 4 and a show of 3, two perform,
one more gives the last performance, and the fourth naps. The property is therefore about the show while
it lasts. The proof is what showed the case, which the run's one juggler cannot reach.

**`FedOopsProofs`**, for all numbers of teams (at least two), members, packets,
stations and lists: `TypeOK`, `OneTagPerTeam`, `StationExclusion`,
`BlockedTeamIsBlocked`, `NoTeamForgotten` and the refinement `ImplementsShipping`. The
hard one is `NoTeamForgotten`. Suppose all stations have just become free. The last
`leaveStation` either signalled the blocked team, which by `BlockedTeamIsBlocked` has a
member in the loop or at `claim`, and the latter holds a station (`ClaimKeeps`), so it
is in the loop and will try; or it signalled every other team, one after the other,
with the conveyor locked, and by `AnnouncedWillTry` a team that was signalled early has
not used its signal up on a failed try. So the invariant also says who holds the two
locks (`LocksHeld`), that a loop over the teams starts at its first turn (`LoopsBegin`),
that a waiting member is the only one of its team who can take the team's signal
(`OneTagPerTeam`), and, for the stations, who has which packet and how much of its list
is done (`PacketInHand`, `PacketsOnce`, `ListProgress`).

**`GoatMallocProofs`**, for all page, header and request sizes, assuming
`~MiddleSplits`: `TypeOK`, `ArenaTiled`, `LiveChunksKept`, `Coalesced` and `FirstFit`.
The assumption is needed: with it false, the fourth finding breaks the invariants. The
invariant adds that every chunk ends inside the arena, that an arena exists exactly
when the allocator is initialised, and how far the search of `walloc` has got
(`SearchedInOrder`). From it also follows what is behind the liveness property
`SearchEnds`: no other call runs while `walloc` searches, and every turn of its loop
ends it or moves it to a higher address inside the arena (`SearchMovesOn`).

**`SchedulerProofs`**, for every number of jobs, every workload of natural numbers and
every slice: `TypeOK`, `ListsInOrder`, `LastIsBack`, `WaitAccounted`,
`ResponseWithinSlices`, `ReportInOrder`, `EndsOnlyWithProgress` and the refinement
`ImplementsDispatch`. A list is not described by reachability, which would need
induction, but locally: `first` is the least job of the set that is on the list now, and
the `next` of each job is the least of those after it (`IsChain`). Then each relinking
is a statement about least elements. The invariant adds where `tp`, `temp` and the
cursor are during each walk (`LoadingInv`, `RunningInv`), how the response times of the
completed jobs relate to the one that joins them (`ResponseOrder`), without which the
sorted insertion would not be an insertion in the order of the policy, and the account
of each job's time so far, from which the waits follow.

**`WorkloadProofs`**: `PoliciesAgree` and `EqualTimesWorkload`, with two invariants
relative to that of `SchedulerProofs`. `AgreeInv`: on a workload of that kind the jobs
that have run are the first ones, and the clock is where the last of them ended.
`EqualTimesInv` has one part for each direction. A job that needs a second slice has
waited, or time has passed since its last turn, as soon as a later job of some length
has had its first turn (`DelayedInv`), which it has before the first one finishes
(`FirstRoundInv`); and when no such job is followed by one of some length, no time
passes between the turns of any job (`UndelayedInv`).

**`SumProofs`** has what these modules need of sums: `MapThenSumSet`, of the
community modules, adds up a function over a finite set in an order that it chooses,
and its result is shown to be independent of that order (`SumRemove`), additive
(`SumOfSums`) and monotonic (`SumAtMost`). The induction theorems of the library take a
predicate as a parameter, which the provers cannot instantiate. `SetInduction` takes a
set of sets instead, and rests on the library's theorem that the subsets of a finite set
are well-founded. So the recursive function in `MapThenSumSet` is shown to exist
(`AddsUpExists`) and to be unique (`AddsUpOnce`).

Of the averages `WorkloadProofs` proves `AveragesAddUp` and `ShortestFirstIsBest`. The totals of
`print_averages` are the sums over the jobs it has come to (`TotalsInv`), and under FIFO
and SJF a job finishes after the lengths of all that precede it, without a pause
(`NoPauseInv`). The rest is about orders. `Cost` adds up the turnaround times of the jobs
of a set that run in an order; one job more adds its own length and, for each of the others, the
length of the one that runs first of the two (`CostAdd`); this is least when it is the shorter one (`ShortestCostsLeast`), which is how
`add_job_sjf` sorts. `TurnaroundIsCost` shows that an order given by positions, as
`TurnaroundOf` adds it up, costs the same.

**`SchedulerTermination`** has what is behind the liveness property `Terminates`. A
`Countdown` is five numbers: the parts of the program that are left, the jobs the part
has yet to load or to finish, the stages of moving the job in hand, the total length of
the jobs that have not finished, and the nodes the current walk has yet to pass. Every
step makes it smaller in the order of dictionaries (`EveryStepCountsDown`), under the
same condition as `Terminates`: with a slice of 0 a turn takes nothing off a length. The
order has no endless descent (`CountdownsEnd`, from the library's theorem on
lexicographic orders), so under that condition the program takes finitely many steps; that it does not stop
early is for TLC to see, in the run `scheduler_policies`. `NoNullFollowed` is the other
half of a correct walk: every pointer that the three walks follow without a test leads
to a job.

**`FamiliesProofs`**, for all process ids, counts up to 255 and numbers drawn: `TypeOK`,
`RaceTable`, `OneAtATime`, `LeavesNoProcess` and `CodesRead`. `CodesRead` allows a
parent of a generation to read 1 of a failed fork only if its child had a fork to make
(`Outcomes`), and leaves out `explorer`, whose commands end with any of their statuses;
that an explorer waits for its own child is part of `OneAtATime`. The process table itself
has an invariant (`Table`): a parent runs as long as it is one, and a zombie is waited
for. For a generation, that nobody is left when the root ends seems to need an induction
along the chain of waiting parents; `Chain` avoids it with ranks. The rank of a process
is its count, or for a zombie the count it was handed; ranks tell processes apart, and
the one process that does not wait has the lowest. The root's rank is the highest there
is, so when the root does not wait it is alone. For the race, `Entries` counts the
children in the table from the first fork on. Behind the liveness property `Ends` are two
more theorems. The processes of a family never all wait (`NotAllWait`), and the count
and the place of the one that does not wait (`Active`) say how many steps are left, a
number that every step makes smaller (`FamiliesEnd`): at most 5n + 3 for a generation,
3n + 1 for a prolific parent or an explorer. The parent of a race polls for as long as
its slugs take, so it has no such number.

*Only model-checked.* Every invariant and both kinds of refinement that the passing
runs check are proved. What stays with TLC needs fairness or speaks of infinite
behaviour, which is beyond the provers: `ShowCompletes`, `AllPackagesShipped`,
`NoBusyWaiting`, `SearchEnds`, `Terminates`, `Ends`. Of `SearchEnds`, `Terminates`
and, but for the race, `Ends` the part that is not about fairness is proved: what the
loops do cannot go on for ever.

## 7. What is not modelled

- Whatever only prints, and the content of names, colours and bytes.
- The length of sleeps: a sleep is a place where other threads may run.
- `generatePacket`: the lists are chosen in `Init` among `Routes`, any non-empty lists
  without repetitions. A list of four stations fills the block `malloc` gives it; the
  code then reads the next eight bytes and the model takes them to be zero, as they are
  in a fresh heap.
- The linked list of `queue.c`: a sequence, filled before the threads start.
- In Project 3, `init(0)`, a second `init` without `destroy`, freeing what is not held,
  and failures of `mmap`, which `init` retries.
- In Project 4, lengths and slices that are negative (`atoi` may return one) or so large
  that the times overflow; the value of the lists' `last` pointer before it is set, which
  is NULL on a fresh heap (`init_list` clears only `first`); the averages of no jobs.
- In Project 1, the contents of what `fork` copies of the output buffers, signals (so
  `waitpid` is never interrupted), and the directory an explorer is in.
- Seeds and random numbers (`read_seed.c`, `get_random_number.c`) and the test script:
  plain input and output. A program that cannot read its seed leaves before its model
  begins.
