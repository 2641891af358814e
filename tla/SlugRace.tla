------------------------------ MODULE SlugRace ------------------------------
(***************************************************************************)
(* slugrace.c: the parent forks the slugs, which run slug.c, and polls     *)
(* waitpid until each of them has finished.                                *)
(***************************************************************************)
EXTENDS Processes, FiniteSets

VARIABLES
  childPID,             \* the slugs' process ids, -1 for those that finished
  numOfActiveChildren

race == <<childPID, numOfActiveChildren>>

Slugs == 0 .. n - 1

\* The table has no slug yet; nobody looks at the counter before the polling
\* starts, when it is n.
InitRace ==
  /\ childPID = [j \in Slugs |-> 0]
  /\ numOfActiveChildren = n

\* Fork a slug; it goes on to execvp with the counter it was forked at.
SlugRaceFork ==
  /\ Running("slugrace", Root, "fork")
  /\ count[Root] < n
  /\ \E c \in Pids :
       /\ ForkTable(Root, c)
       /\ childPID' = [childPID EXCEPT ![count[Root]] = c]
       /\ count' = [count EXCEPT ![c] = count[Root], ![Root] = @ + 1]
       /\ pc' = [pc EXCEPT ![c] = "child"]
  /\ UNCHANGED <<program, n, number, rc, code, numOfActiveChildren>>

\* fork fails: the parent leaves, and does not wait for the slugs it has.
SlugRaceForkFails ==
  /\ Running("slugrace", Root, "fork")
  /\ count[Root] < n
  /\ Exit(Root, 1)
  /\ UNCHANGED <<program, n, race>>

StartPolling ==
  /\ Running("slugrace", Root, "fork")
  /\ count[Root] = n
  /\ pc' = [pc EXCEPT ![Root] = "poll"]
  /\ UNCHANGED <<program, n, table, memory, race>>

ExecSlug(p) ==
  /\ Running("slugrace", p, "child")
  /\ pc' = [pc EXCEPT ![p] = "slug"]
  /\ UNCHANGED <<program, n, table, memory, race>>

\* execvp returns only when it fails.
ExecSlugFails(p) ==
  /\ Running("slugrace", p, "child")
  /\ Exit(p, 1)
  /\ UNCHANGED <<program, n, race>>

\* slug.c sleeps, and becomes a command; whatever it runs ends some time later.
Slug(p) ==
  /\ Running("slugrace", p, "slug")
  /\ \E s \in {0, 1} : Exit(p, s)
  /\ UNCHANGED <<program, n, race>>

\* Mutant: the loop of line 61 ends before the last slug.
IsEntryButLast(j, c) == childPID[j] = c /\ j < n - 1

\* The entry of the slug that finished.
IsEntryOf(j, c) == childPID[j] = c /\ \A k \in 0 .. j - 1 : childPID[k] # c

\* waitpid returns one of the slugs that have finished.
PollFinds ==
  /\ Running("slugrace", Root, "poll")
  /\ numOfActiveChildren > 0
  /\ \E c \in Pids :
       /\ Reap(Root, c)
       /\ childPID' = [j \in Slugs |-> IF IsEntryOf(j, c) THEN -1 ELSE childPID[j]]
  /\ numOfActiveChildren' = numOfActiveChildren - 1
  /\ UNCHANGED <<program, n, pc, memory>>

\* Mutant: the slug that waitpid returned after the nap is forgotten.
PollSleepsAndReaps ==
  /\ Running("slugrace", Root, "poll")
  /\ numOfActiveChildren > 0
  /\ \E c \in Pids : Reap(Root, c)
  /\ pc' = [pc EXCEPT ![Root] = "usleep"]
  /\ UNCHANGED <<program, n, memory, race>>

\* None has: sleep, and print the entries that are left.
PollSleeps ==
  /\ Running("slugrace", Root, "poll")
  /\ numOfActiveChildren > 0
  /\ Zombies(Root) = {}
  /\ pc' = [pc EXCEPT ![Root] = "usleep"]
  /\ UNCHANGED <<program, n, table, memory, race>>

PrintRacing ==
  /\ Running("slugrace", Root, "usleep")
  /\ pc' = [pc EXCEPT ![Root] = "poll"]
  /\ UNCHANGED <<program, n, table, memory, race>>

\* Mutant: the race is over when one slug is left.
RaceOverAtOne ==
  /\ Running("slugrace", Root, "poll")
  /\ numOfActiveChildren = 1
  /\ Exit(Root, 0)
  /\ UNCHANGED <<program, n, race>>

RaceOver ==
  /\ Running("slugrace", Root, "poll")
  /\ numOfActiveChildren = 0
  /\ Exit(Root, 0)
  /\ UNCHANGED <<program, n, race>>

\* What process p does.
SlugRaceStep(p) ==
  \/ /\ p = Root
     /\ \/ SlugRaceFork \/ SlugRaceForkFails \/ StartPolling
        \/ PollFinds \/ PollSleeps \/ PrintRacing \/ RaceOver
  \/ ExecSlug(p) \/ ExecSlugFails(p) \/ Slug(p)
-----------------------------------------------------------------------------
\* Slugs finish in any order, during the naps of the parent too; the entries
\* above 0 are always the slugs that were not reaped, each once and at the place
\* it was forked for, and their number is what the loop counts down.
RaceTable ==
  Running("slugrace", Root, "poll") \/ Running("slugrace", Root, "usleep") =>
    /\ \A j \in Slugs : childPID[j] = -1 \/ childPID[j] \in Children(Root)
    /\ \A c \in Children(Root) : \E j \in Slugs :
         /\ \A k \in Slugs : childPID[k] = c <=> k = j
         /\ state[c] = "running" => count[c] = j
    /\ numOfActiveChildren = Cardinality(Children(Root))
=============================================================================
