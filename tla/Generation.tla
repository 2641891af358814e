----------------------------- MODULE Generation -----------------------------
(***************************************************************************)
(* generation.c: each process forks one child, hands down its              *)
(* lifeSpanCount less one, waits for the child and returns its own count.  *)
(***************************************************************************)
EXTENDS Processes

lifeSpanCount == count

\* Mutant: the last descendant forks too.
GenerationForkPastZero(p) ==
  /\ Running("generation", p, "fork")
  /\ lifeSpanCount[p] >= 0
  /\ \E c \in Pids :
       /\ ForkTable(p, c)
       /\ count' = [count EXCEPT ![c] = lifeSpanCount[p] - 1]
       /\ rc' = [rc EXCEPT ![p] = c, ![c] = 0]
       /\ code' = [code EXCEPT ![c] = Unread]
       /\ pc' = [pc EXCEPT ![p] = "wait", ![c] = "fork"]
  /\ UNCHANGED <<program, n, number>>

\* fork: the child goes on in the same loop.
GenerationFork(p) ==
  /\ Running("generation", p, "fork")
  /\ lifeSpanCount[p] > 0
  /\ \E c \in Pids :
       /\ ForkTable(p, c)
       /\ count' = [count EXCEPT ![c] = lifeSpanCount[p] - 1]
       /\ rc' = [rc EXCEPT ![p] = c, ![c] = 0]
       /\ code' = [code EXCEPT ![c] = Unread]
       /\ pc' = [pc EXCEPT ![p] = "wait", ![c] = "fork"]
  /\ UNCHANGED <<program, n, number>>

GenerationForkFails(p) ==
  /\ Running("generation", p, "fork")
  /\ lifeSpanCount[p] > 0
  /\ Exit(p, 1)
  /\ UNCHANGED <<program, n>>

GenerationWait(p) ==
  /\ Running("generation", p, "wait")
  /\ Reap(p, rc[p])
  /\ code' = [code EXCEPT ![p] = status[rc[p]]]
  /\ pc' = [pc EXCEPT ![p] = "return"]
  /\ UNCHANGED <<program, n, count, number, rc>>

\* Mutant: a process returns without waiting for its child.
GenerationReturnEarly(p) ==
  /\ \/ Running("generation", p, "return") \/ Running("generation", p, "wait")
     \/ Running("generation", p, "fork") /\ lifeSpanCount[p] <= 0
  /\ Exit(p, lifeSpanCount[p])
  /\ UNCHANGED <<program, n>>

GenerationReturn(p) ==
  /\ \/ Running("generation", p, "return")
     \/ Running("generation", p, "fork") /\ lifeSpanCount[p] <= 0
  /\ Exit(p, lifeSpanCount[p])
  /\ UNCHANGED <<program, n>>

GenerationStep(p) ==
  \/ GenerationFork(p) \/ GenerationForkFails(p)
  \/ GenerationWait(p) \/ GenerationReturn(p)
=============================================================================
