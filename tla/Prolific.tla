------------------------------ MODULE Prolific ------------------------------
(***************************************************************************)
(* prolific.c and explorer.c: a parent that forks one child after the      *)
(* other, and waits for each before it forks the next.  A child of         *)
(* prolific.c returns a code made of the number drawn for it; one of       *)
(* explorer.c becomes a command, and ends with a status of that.           *)
(***************************************************************************)
EXTENDS Processes

CONSTANT Numbers     \* what rand() returns

ASSUME ProlificAssumption == Numbers \subseteq Nat

exitCode(p) == (number[p] % 50) + 1

\* Mutant: the number is drawn after the fork.
ForkNextThenDraw(p, c, place) ==
  /\ ForkTable(p, c)
  /\ \E r \in Numbers : number' = [number EXCEPT ![p] = r, ![c] = number[p]]
  /\ rc' = [rc EXCEPT ![p] = c, ![c] = 0]
  /\ count' = [count EXCEPT ![c] = count[p]]
  /\ code' = [code EXCEPT ![c] = code[p]]
  /\ pc' = [pc EXCEPT ![p] = "wait", ![c] = place]
  /\ UNCHANGED <<program, n>>

\* Draw a number and fork the next child with it.
ForkNext(p, c, place) ==
  /\ ForkTable(p, c)
  /\ \E r \in Numbers : number' = [number EXCEPT ![p] = r, ![c] = r]
  /\ rc' = [rc EXCEPT ![p] = c, ![c] = 0]
  /\ count' = [count EXCEPT ![c] = count[p]]
  /\ code' = [code EXCEPT ![c] = code[p]]
  /\ pc' = [pc EXCEPT ![p] = "wait", ![c] = place]
  /\ UNCHANGED <<program, n>>

ForkNextFails(p) == Exit(p, 1) /\ UNCHANGED <<program, n>>

\* The child has ended: on to the next one.
WaitForIt(p) ==
  /\ Reap(p, rc[p])
  /\ code' = [code EXCEPT ![p] = status[rc[p]]]
  /\ count' = [count EXCEPT ![p] = @ + 1]
  /\ pc' = [pc EXCEPT ![p] = "fork"]
  /\ UNCHANGED <<program, n, number, rc>>

ProlificFork ==
  /\ Running("prolific", Root, "fork")
  /\ count[Root] < n
  /\ (\E c \in Pids : ForkNext(Root, c, "child")) \/ ForkNextFails(Root)

ProlificChild(p) ==
  /\ Running("prolific", p, "child")
  /\ Exit(p, exitCode(p))
  /\ UNCHANGED <<program, n>>

ProlificWait == Running("prolific", Root, "wait") /\ WaitForIt(Root)

ProlificReturn ==
  /\ Running("prolific", Root, "fork")
  /\ count[Root] = n
  /\ Exit(Root, 0)
  /\ UNCHANGED <<program, n>>

ProlificStep(p) ==
  \/ p = Root /\ (ProlificFork \/ ProlificWait \/ ProlificReturn)
  \/ ProlificChild(p)

\* The number drawn is the directory; the child lists it.
ExplorerFork ==
  /\ Running("explorer", Root, "fork")
  /\ count[Root] < n
  /\ (\E c \in Pids : ForkNext(Root, c, "exec")) \/ ForkNextFails(Root)

\* ls ends with one of its statuses; when execvp fails the child returns 0.
ExplorerChild(p) ==
  /\ Running("explorer", p, "exec")
  /\ \E s \in {0, 1, 2} : Exit(p, s)
  /\ UNCHANGED <<program, n>>

ExplorerWait == Running("explorer", Root, "wait") /\ WaitForIt(Root)

ExplorerReturn ==
  /\ Running("explorer", Root, "fork")
  /\ count[Root] = n
  /\ Exit(Root, 0)
  /\ UNCHANGED <<program, n>>

ExplorerStep(p) ==
  \/ p = Root /\ (ExplorerFork \/ ExplorerWait \/ ExplorerReturn)
  \/ ExplorerChild(p)
=============================================================================
