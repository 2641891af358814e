------------------------------ MODULE Processes -----------------------------
(***************************************************************************)
(* The processes of Project 1 as its programs see them: what fork, exit    *)
(* and waitpid do to the process table, and the memory that fork copies.   *)
(* The kernel is not part of the repository; a process id is free again    *)
(* once its process is reaped, and fork may take it at once.               *)
(***************************************************************************)
EXTENDS Integers

CONSTANTS
  Pids,              \* the process ids
  Root               \* the process id of the program the shell started

ASSUME ProcessesAssumption ==
  /\ Pids \subseteq Nat \ {0}
  /\ Root \in Pids

\* The parent of Root, and of a process whose parent is gone.
Outside == 0

VARIABLES
  program,           \* the program that was started
  n,                 \* the number it draws first, or that its code holds
  state, parent,     \* the process table
  status,            \* what a process passed to exit
  pc,
  count,             \* its loop counter
  number,            \* the number it drew last
  rc,                \* the child it waits for
  code               \* the status it read last, or Unread

table  == <<state, parent, status>>
memory == <<count, number, rc, code>>

Unread == -1

\* exit passes on eight bits.
Statuses == 0 .. 255

Children(p) == {c \in Pids : parent[c] = p /\ state[c] # "free"}

Zombies(p) == {c \in Children(p) : state[c] = "zombie"}

\* fork succeeds: c is a child of p, and goes on with a copy of p's memory.
ForkTable(p, c) ==
  /\ state[c] = "free"
  /\ state' = [state EXCEPT ![c] = "running"]
  /\ parent' = [parent EXCEPT ![c] = p]
  /\ UNCHANGED status

\* The processes whose exit nobody waits for any more once p has exited: the
\* children it did not reap, and p itself if its parent is gone.  The shell
\* reads the status of Root.
Unawaited(p) == Zombies(p) \cup {q \in {p} \ {Root} : parent[q] = Outside}

\* p exits: its memory is gone, and what is left is a status for its parent.
Exit(p, s) ==
  /\ state' = [q \in Pids |-> IF q \in Unawaited(p) THEN "free"
                              ELSE IF q = p THEN "zombie" ELSE state[q]]
  /\ status' = [q \in Pids |-> IF q \in Unawaited(p) THEN 0
                               ELSE IF q = p THEN s % 256 ELSE status[q]]
  /\ parent' = [q \in Pids |-> IF q \in Children(p) THEN Outside ELSE parent[q]]
  /\ pc' = [pc EXCEPT ![p] = "ended"]
  /\ count' = [count EXCEPT ![p] = 0]
  /\ number' = [number EXCEPT ![p] = 0]
  /\ rc' = [rc EXCEPT ![p] = 0]
  /\ code' = [code EXCEPT ![p] = Unread]

\* waitpid returns c.
Reap(p, c) ==
  /\ c \in Zombies(p)
  /\ state' = [state EXCEPT ![c] = "free"]
  /\ parent' = [parent EXCEPT ![c] = Outside]
  /\ status' = [status EXCEPT ![c] = 0]

Running(prog, p, loc) ==
  program = prog /\ state[p] = "running" /\ pc[p] = loc
=============================================================================
