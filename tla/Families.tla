------------------------------ MODULE Families ------------------------------
(***************************************************************************)
(* The programs of Project 1 that fork: slugrace, generation, prolific and *)
(* explorer.  A behavior is a run of one of them, with everything its      *)
(* processes do, until all of them have ended.                             *)
(***************************************************************************)
EXTENDS SlugRace, Generation, Prolific

CONSTANT Sizes       \* how many children a program may be to have

Programs == {"slugrace", "generation", "prolific", "explorer"}

ASSUME FamiliesAssumption == Sizes \in [Programs -> SUBSET Statuses]

vars == <<program, n, state, parent, status, pc, count, number, rc, code,
          childPID, numOfActiveChildren>>

Places == {"fork", "wait", "return", "poll", "usleep", "child", "slug", "exec",
           "ended"}

TypeOK ==
  /\ program \in Programs
  /\ n \in Statuses
  /\ state \in [Pids -> {"free", "running", "zombie"}]
  /\ parent \in [Pids -> Pids \cup {Outside}]
  /\ status \in [Pids -> Statuses]
  /\ pc \in [Pids -> Places]
  /\ count \in [Pids -> 0 .. n]
  /\ number \in [Pids -> Numbers \cup {0}]
  /\ rc \in [Pids -> Pids \cup {0}]
  /\ code \in [Pids -> Statuses \cup {Unread}]
  /\ childPID \in [Slugs -> Pids \cup {0, -1}]
  /\ numOfActiveChildren \in 0 .. n

Init ==
  /\ program \in Programs
  /\ n \in Sizes[program]
  /\ state = [p \in Pids |-> IF p = Root THEN "running" ELSE "free"]
  /\ parent = [p \in Pids |-> Outside]
  /\ status = [p \in Pids |-> 0]
  /\ pc = [p \in Pids |-> IF p = Root THEN "fork" ELSE "ended"]
  /\ count = [p \in Pids |-> IF p = Root /\ program = "generation" THEN n ELSE 0]
  /\ number = [p \in Pids |-> 0]
  /\ rc = [p \in Pids |-> 0]
  /\ code = [p \in Pids |-> Unread]
  /\ InitRace

Step(p) ==
  \/ SlugRaceStep(p)
  \/ (GenerationStep(p) \/ ProlificStep(p) \/ ExplorerStep(p)) /\ UNCHANGED race

Next == \E p \in Pids : Step(p)

Spec == Init /\ [][Next]_vars

\* The system runs every process that is not asleep, and every sleep ends.
FairSpec == Spec /\ \A p \in Pids : WF_vars(Step(p))
-----------------------------------------------------------------------------
\* generation.c, prolific.c and explorer.c are families of one process at a
\* time: whoever was forked and is still in the process table has a parent that
\* has not moved since, and waits for just this child.
OneAtATime ==
  program # "slugrace" =>
    \A p \in Pids \ {Root} : state[p] # "free" =>
      /\ parent[p] \in Pids
      /\ Running(program, parent[p], "wait") /\ rc[parent[p]] = p

\* A program that has ended leaves no process behind, the failures of fork in a
\* generation included; only a slugrace that could not fork leaves its slugs.
LeavesNoProcess ==
  state[Root] = "zombie" /\ ~ (program = "slugrace" /\ status[Root] = 1) =>
    \A p \in Pids \ {Root} : state[p] = "free"

\* What a process of a generation may pass on if it was handed k: k itself, or 1
\* when it had a fork to make, which may fail.
Outcomes(k) == IF k > 0 THEN {k, 1} ELSE {k}

\* A parent of a generation reads the count it handed down, or the 1 of a child
\* whose own fork failed; the last descendant forks nobody, so its parent never
\* reads a failure.  The prolific parent reads the code of its last draw.  (The
\* status an explorer reads is that of its command, any of ls's.)
CodesRead ==
  \A p \in Pids : code[p] # Unread /\ pc[p] # "wait" =>
    /\ program = "generation" => code[p] \in Outcomes(lifeSpanCount[p] - 1)
    /\ program = "prolific" /\ pc[p] = "fork" => code[p] = exitCode(p)

\* Whatever order the processes run and finish in, in the end the program has
\* returned, and none of its processes runs or stays a zombie.
Ends ==
  <>[](\A p \in Pids : state[p] = IF p = Root THEN "zombie" ELSE "free")
=============================================================================
