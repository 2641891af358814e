---------------------------- MODULE FamiliesProofs --------------------------
(***************************************************************************)
(* Proofs about Families, for any process ids, any number of children of   *)
(* each program and anything rand() returns: what the process table holds, *)
(* which process waits for which, what the parents read, and that families *)
(* of one process at a time come to an end.                                *)
(***************************************************************************)
EXTENDS Families, FiniteSetTheorems, TLAPS
-----------------------------------------------------------------------------
(* The inductive invariant. *)

\* The process table, whatever the program: a process has a parent as long as
\* that one runs, and a zombie is waited for by someone.
Table ==
  /\ state[Root] # "free"
  /\ parent[Root] = Outside
  /\ \A p \in Pids :
       /\ state[p] = "free" => parent[p] = Outside
       /\ parent[p] # Outside => state[parent[p]] = "running" /\ parent[p] # p
       /\ state[p] = "zombie" /\ p # Root => parent[p] # Outside
       /\ state[p] = "running" <=> pc[p] # "ended"

Descendants == {p \in Pids \ {Root} : state[p] # "free"}

\* The count a process of a generation has or, as a zombie, was handed.
Rank(p) == IF p = Root THEN n
           ELSE IF state[p] = "zombie" THEN count[parent[p]] - 1 ELSE count[p]

\* A generation: the process that does not wait is the youngest, and the ranks
\* tell the processes apart.
Chain ==
  /\ state[Root] = "running" => count[Root] = n
  /\ \A p \in Descendants :
       /\ parent[p] # Outside
       /\ pc[parent[p]] = "wait" /\ rc[parent[p]] = p
       /\ state[p] = "running" => count[p] = count[parent[p]] - 1
       /\ state[p] = "zombie" => status[p] \in Outcomes(count[parent[p]] - 1)
  /\ \A p, q \in Descendants \cup {Root} :
       /\ Rank(p) = Rank(q) => p = q
       /\ p # q /\ pc[p] # "wait" => Rank(q) > Rank(p)
  /\ \A p \in Pids :
       /\ pc[p] \in {"fork", "wait", "return", "ended"}
       /\ pc[p] # "return" => code[p] = Unread
       /\ pc[p] = "return" => code[p] \in Outcomes(count[p] - 1)

\* prolific and explorer: one child at a time.
OneChild ==
  /\ pc[Root] \in {"fork", "wait", "ended"}
  /\ pc[Root] = "wait" => count[Root] < n
  /\ \A p \in Pids \ {Root} : pc[p] \in {"child", "exec", "ended"}
  /\ \A p \in Descendants :
       /\ parent[p] = Root /\ pc[Root] = "wait" /\ rc[Root] = p
       /\ program = "prolific" =>
            /\ state[p] = "running" => number[p] = number[Root]
            /\ state[p] = "zombie" => status[p] = exitCode(Root)
  /\ program = "prolific" /\ pc[Root] = "fork" =>
       code[Root] \in {Unread, exitCode(Root)}

Forked == 0 .. count[Root] - 1

\* The slugs that were forked and not reaped, while the parent runs.
Entries ==
  /\ \A p \in Descendants : parent[p] = Root
  /\ \A j \in Forked : childPID[j] = -1 \/ childPID[j] \in Children(Root)
  /\ \A j \in Slugs \ Forked : childPID[j] = 0
  /\ \A c \in Children(Root) : \E j \in Forked :
       /\ \A k \in Slugs : childPID[k] = c <=> k = j
       /\ state[c] = "running" => count[c] = j
  /\ IsFiniteSet(Children(Root))
  /\ Cardinality(Children(Root)) = numOfActiveChildren - (n - count[Root])

Racing ==
  /\ pc[Root] \in {"fork", "poll", "usleep", "ended"}
  /\ pc[Root] \in {"poll", "usleep"} => count[Root] = n
  /\ \A p \in Pids \ {Root} : pc[p] \in {"child", "slug", "ended"}
  /\ \A p \in Pids : code[p] = Unread
  /\ state[Root] = "running" => Entries
  /\ state[Root] = "zombie" /\ status[Root] # 1 => Descendants = {}

IInv ==
  /\ TypeOK
  /\ Table
  /\ program = "generation" => Chain
  /\ program \in {"prolific", "explorer"} => OneChild
  /\ program = "slugrace" => Racing
-----------------------------------------------------------------------------
(* What the kernel does keeps the process table in order. *)

LEMMA ForkKeepsTable ==
  ASSUME NEW p \in Pids, NEW c \in Pids, TypeOK, Table,
         state[p] = "running", ForkTable(p, c),
         \A q \in Pids : pc'[q] = "ended" <=> q # c /\ pc[q] = "ended"
  PROVE  Table' /\ c # Root /\ c # p
<1> USE ProcessesAssumption DEF Outside
<1>1. /\ c # Root /\ c # p
      /\ state' = [state EXCEPT ![c] = "running"]
      /\ parent' = [parent EXCEPT ![c] = p]
  BY DEF Table, ForkTable
<1>2. /\ state \in [Pids -> {"free", "running", "zombie"}]
      /\ parent \in [Pids -> Pids \cup {Outside}]
  BY DEF TypeOK
<1>3. state'[Root] # "free" /\ parent'[Root] = Outside
  BY <1>1, <1>2 DEF Table
<1>4. ASSUME NEW q \in Pids
      PROVE  /\ state'[q] = "free" => parent'[q] = Outside
             /\ parent'[q] # Outside =>
                  state'[parent'[q]] = "running" /\ parent'[q] # q
             /\ state'[q] = "zombie" /\ q # Root => parent'[q] # Outside
             /\ state'[q] = "running" <=> pc'[q] # "ended"
  <2>1. CASE q = c
    BY <1>1, <1>2, <2>1 DEF Table
  <2>2. CASE q # c
    <3>1. parent'[q] = parent[q] /\ state'[q] = state[q]
      BY <1>1, <1>2, <2>2
    <3>2. pc'[q] = "ended" <=> pc[q] = "ended"
      BY <2>2
    <3>3. parent[q] # Outside => state'[parent[q]] = "running"
      BY <1>1, <1>2 DEF Table
    <3> QED BY <3>1, <3>2, <3>3 DEF Table
  <2> QED BY <2>1, <2>2
<1> QED BY <1>1, <1>3, <1>4 DEF Table

LEMMA ExitKeepsTable ==
  ASSUME NEW p \in Pids, NEW s \in Nat, TypeOK, Table,
         state[p] = "running", Exit(p, s)
  PROVE  Table'
<1> USE ProcessesAssumption DEF Outside
<1>1. /\ state \in [Pids -> {"free", "running", "zombie"}]
      /\ parent \in [Pids -> Pids \cup {Outside}]
      /\ pc \in [Pids -> Places]
  BY DEF TypeOK
<1>2. \A q \in Pids :
        /\ state'[q] = IF q \in Unawaited(p) THEN "free"
                       ELSE IF q = p THEN "zombie" ELSE state[q]
        /\ parent'[q] = IF parent[q] = p /\ state[q] # "free"
                        THEN Outside ELSE parent[q]
        /\ pc'[q] = IF q = p THEN "ended" ELSE pc[q]
  BY <1>1 DEF Exit, Children
<1>3. \A q \in Pids : q \in Unawaited(p) <=>
        \/ parent[q] = p /\ state[q] = "zombie"
        \/ q = p /\ q # Root /\ parent[q] = Outside
  BY DEF Unawaited, Zombies, Children
<1>4. state'[Root] # "free" /\ parent'[Root] = Outside
  BY <1>2, <1>3 DEF Table
<1>5. ASSUME NEW q \in Pids
      PROVE  /\ state'[q] = "free" => parent'[q] = Outside
             /\ parent'[q] # Outside =>
                  state'[parent'[q]] = "running" /\ parent'[q] # q
             /\ state'[q] = "zombie" /\ q # Root => parent'[q] # Outside
             /\ state'[q] = "running" <=> pc'[q] # "ended"
  <2>1. state'[q] = "free" => parent'[q] = Outside
    BY <1>2, <1>3 DEF Table
  <2>2. ASSUME parent'[q] # Outside
        PROVE  state'[parent'[q]] = "running" /\ parent'[q] # q
    <3>1. /\ parent'[q] = parent[q] /\ parent[q] \in Pids
          /\ parent[q] # p /\ parent[q] # q /\ state[parent[q]] = "running"
      BY <1>1, <1>2, <2>2 DEF Table
    <3>2. parent[q] \notin Unawaited(p)
      BY <1>3, <3>1
    <3> QED BY <1>2, <3>1, <3>2
  <2>3. state'[q] = "zombie" /\ q # Root => parent'[q] # Outside
    BY <1>2, <1>3 DEF Table
  <2>4. state'[q] = "running" <=> pc'[q] # "ended"
    BY <1>2, <1>3 DEF Table
  <2> QED BY <2>1, <2>2, <2>3, <2>4
<1> QED BY <1>4, <1>5 DEF Table

LEMMA ReapKeepsTable ==
  ASSUME NEW p \in Pids, NEW c, TypeOK, Table, Reap(p, c),
         \A q \in Pids : pc'[q] = "ended" <=> pc[q] = "ended"
  PROVE  /\ Table'
         /\ c \in Pids /\ c # Root /\ c # p
         /\ parent[c] = p /\ state[c] = "zombie"
<1> USE ProcessesAssumption DEF Outside
<1>1. /\ state \in [Pids -> {"free", "running", "zombie"}]
      /\ parent \in [Pids -> Pids \cup {Outside}]
  BY DEF TypeOK
<1>2. c \in Pids /\ parent[c] = p /\ state[c] = "zombie"
  BY DEF Reap, Zombies, Children
<1>3. c # Root /\ c # p /\ state[p] = "running"
  BY <1>2 DEF Table
<1>4. /\ state' = [state EXCEPT ![c] = "free"]
      /\ parent' = [parent EXCEPT ![c] = Outside]
  BY DEF Reap
<1>5. state'[Root] # "free" /\ parent'[Root] = Outside
  BY <1>1, <1>3, <1>4 DEF Table
<1>6. ASSUME NEW q \in Pids
      PROVE  /\ state'[q] = "free" => parent'[q] = Outside
             /\ parent'[q] # Outside =>
                  state'[parent'[q]] = "running" /\ parent'[q] # q
             /\ state'[q] = "zombie" /\ q # Root => parent'[q] # Outside
             /\ state'[q] = "running" <=> pc'[q] # "ended"
  <2>1. CASE q = c
    BY <1>1, <1>2, <1>4, <2>1 DEF Table
  <2>2. CASE q # c
    <3>1. parent'[q] = parent[q] /\ state'[q] = state[q]
      BY <1>1, <1>4, <2>2
    <3>2. parent[q] # Outside => state'[parent[q]] = "running"
      BY <1>1, <1>2, <1>4 DEF Table
    <3> QED BY <3>1, <3>2 DEF Table
  <2> QED BY <2>1, <2>2
<1> QED BY <1>2, <1>3, <1>5, <1>6 DEF Table
-----------------------------------------------------------------------------
(* A process without children, which someone waits for, just turns zombie. *)

LEMMA ExitOfTheYoungest ==
  ASSUME NEW p \in Pids, NEW s \in Statuses, TypeOK, Table,
         Exit(p, s), Children(p) = {}, p = Root \/ parent[p] # Outside
  PROVE  /\ state' = [state EXCEPT ![p] = "zombie"]
         /\ status' = [status EXCEPT ![p] = s]
         /\ parent' = parent
<1>1. /\ state \in [Pids -> {"free", "running", "zombie"}]
      /\ parent \in [Pids -> Pids \cup {Outside}]
      /\ status \in [Pids -> Statuses]
  BY DEF TypeOK
<1>2. Unawaited(p) = {}
  BY DEF Unawaited, Zombies
<1>3. s % 256 = s
  BY DEF Statuses
<1> QED BY <1>1, <1>2, <1>3 DEF Exit

LEMMA ExitTyped ==
  ASSUME NEW p \in Pids, NEW s \in Nat, TypeOK, Exit(p, s),
         UNCHANGED <<program, n, race>>
  PROVE  TypeOK'
<1>1. s % 256 \in Statuses /\ 0 \in Statuses
  BY DEF Statuses
<1>2. /\ state' \in [Pids -> {"free", "running", "zombie"}]
      /\ status' \in [Pids -> Statuses]
      /\ parent' \in [Pids -> Pids \cup {Outside}]
  BY <1>1 DEF TypeOK, Exit
<1>3. 0 \in 0 .. n
  BY DEF TypeOK, Statuses
<1>4. /\ pc' \in [Pids -> Places]
      /\ count' \in [Pids -> 0 .. n]
      /\ number' \in [Pids -> Numbers \cup {0}]
      /\ rc' \in [Pids -> Pids \cup {0}]
      /\ code' \in [Pids -> Statuses \cup {Unread}]
  BY <1>3 DEF TypeOK, Exit, Places
<1> QED BY <1>2, <1>4 DEF TypeOK, race, Slugs

LEMMA ForkTyped ==
  ASSUME NEW p \in Pids, NEW c \in Pids, TypeOK, ForkTable(p, c)
  PROVE  /\ state' \in [Pids -> {"free", "running", "zombie"}]
         /\ status' \in [Pids -> Statuses]
         /\ parent' \in [Pids -> Pids \cup {Outside}]
BY DEF TypeOK, ForkTable

LEMMA ReapTyped ==
  ASSUME NEW p \in Pids, NEW c, TypeOK, Reap(p, c)
  PROVE  /\ state' \in [Pids -> {"free", "running", "zombie"}]
         /\ status' \in [Pids -> Statuses]
         /\ parent' \in [Pids -> Pids \cup {Outside}]
         /\ c \in Pids
<1>1. 0 \in Statuses
  BY DEF Statuses
<1> QED BY <1>1 DEF TypeOK, Reap, Zombies, Children
-----------------------------------------------------------------------------
(* generation.c *)

\* In a generation nobody waits for a process but its parent.
LEMMA ChainChildren ==
  ASSUME NEW p \in Pids, TypeOK, Table, Chain
  PROVE  /\ pc[p] # "wait" => Children(p) = {}
         /\ Children(p) \subseteq {rc[p]}
         /\ p = Root \/ state[p] = "free" \/ parent[p] # Outside
<1>1. \A q \in Children(p) : q \in Descendants /\ parent[q] = p
  BY ProcessesAssumption DEF Children, Descendants, Table, Outside
<1> QED BY <1>1 DEF Chain, Descendants

LEMMA Ranks ==
  ASSUME TypeOK, Table, Chain
  PROVE  /\ \A p \in Descendants \cup {Root} : Rank(p) \in Int /\ Rank(p) <= n
         /\ Descendants \subseteq Pids
         /\ Root \notin Descendants
<1>1. ASSUME NEW p \in Descendants
      PROVE  Rank(p) \in Int /\ Rank(p) <= n
  <2>1. p \in Pids /\ parent[p] \in Pids
    BY <1>1 DEF Descendants, Chain, TypeOK
  <2>2. count[p] \in 0 .. n /\ count[parent[p]] \in 0 .. n /\ n \in Int
    BY <2>1 DEF TypeOK, Statuses
  <2> QED BY <2>2 DEF Rank
<1>2. n \in Int
  BY DEF TypeOK, Statuses
<1> QED BY <1>1, <1>2 DEF Rank, Descendants

LEMMA GenerationForkIInv ==
  ASSUME NEW p \in Pids, IInv, GenerationFork(p), UNCHANGED race
  PROVE  IInv'
<1> USE ProcessesAssumption
<1>1. PICK c \in Pids :
        /\ ForkTable(p, c)
        /\ count' = [count EXCEPT ![c] = count[p] - 1]
        /\ rc' = [rc EXCEPT ![p] = c, ![c] = 0]
        /\ code' = [code EXCEPT ![c] = Unread]
        /\ pc' = [pc EXCEPT ![p] = "wait", ![c] = "fork"]
  BY DEF GenerationFork, lifeSpanCount
<1>2. /\ TypeOK /\ Table /\ Chain
      /\ program = "generation" /\ state[p] = "running" /\ pc[p] = "fork"
      /\ count[p] > 0
      /\ UNCHANGED <<program, n, number, childPID, numOfActiveChildren>>
  BY DEF IInv, GenerationFork, Running, lifeSpanCount, race
<1>3. /\ pc \in [Pids -> Places] /\ count \in [Pids -> 0 .. n] /\ n \in Nat
      /\ rc \in [Pids -> Pids \cup {0}]
      /\ code \in [Pids -> Statuses \cup {Unread}]
      /\ state \in [Pids -> {"free", "running", "zombie"}]
      /\ parent \in [Pids -> Pids \cup {Outside}]
      /\ status \in [Pids -> Statuses]
  BY <1>2 DEF TypeOK, Statuses
<1>4. Table' /\ c # Root /\ c # p
  <2>1. \A q \in Pids : pc'[q] = "ended" <=> q # c /\ pc[q] = "ended"
    BY <1>1, <1>2, <1>3
  <2> QED BY <1>1, <1>2, <2>1, ForkKeepsTable
<1>5. TypeOK'
  <2>1. count[p] - 1 \in 0 .. n
    BY <1>2, <1>3
  <2>2. /\ pc' \in [Pids -> Places] /\ count' \in [Pids -> 0 .. n]
        /\ rc' \in [Pids -> Pids \cup {0}]
        /\ code' \in [Pids -> Statuses \cup {Unread}]
    BY <1>1, <1>3, <2>1 DEF Places
  <2> QED BY <1>1, <1>2, <2>2, ForkTyped DEF TypeOK, Slugs
<1>6. Chain'
  <2>1. /\ state[c] = "free" /\ c \notin Descendants
        /\ state' = [state EXCEPT ![c] = "running"]
        /\ parent' = [parent EXCEPT ![c] = p]
        /\ status' = status
    BY <1>1 DEF ForkTable, Descendants
  <2>2. Descendants' = Descendants \cup {c} /\ p \in Descendants \cup {Root}
    BY <1>2, <1>3, <1>4, <2>1 DEF Descendants
  <2>3. ASSUME NEW q \in Descendants
        PROVE  /\ q \in Pids /\ q # c /\ q # Root
               /\ parent[q] \in Pids /\ parent[q] # c /\ parent[q] # p
               /\ parent'[q] = parent[q] /\ state'[q] = state[q]
               /\ count'[q] = count[q] /\ count'[parent[q]] = count[parent[q]]
               /\ pc'[parent[q]] = "wait" /\ rc'[parent[q]] = q
               /\ Rank(q)' = Rank(q)
    <3>1. q \in Pids /\ q # c /\ q # Root
      BY <2>1, <2>3 DEF Descendants
    <3>2. parent[q] \in Pids /\ pc[parent[q]] = "wait" /\ rc[parent[q]] = q
      BY <1>2, <1>3, <2>3, <3>1 DEF Chain
    <3>3. state[parent[q]] = "running"
      BY <1>2, <1>3, <3>1, <3>2 DEF Table, Outside
    <3>4. parent[q] # c /\ parent[q] # p
      BY <1>2, <2>1, <3>2, <3>3
    <3> QED BY <1>1, <1>2, <1>3, <2>1, <3>1, <3>2, <3>4 DEF Rank
  <2>4. /\ Rank(p) = count[p] /\ Rank(p)' = Rank(p)
        /\ Rank(c)' = Rank(p) - 1 /\ Rank(Root)' = Rank(Root)
    BY <1>1, <1>2, <1>3, <1>4, <2>1 DEF Rank, Chain
  <2>5. /\ parent'[c] = p /\ pc'[p] = "wait" /\ rc'[p] = c
        /\ count'[c] = count'[p] - 1 /\ state'[c] = "running"
        /\ p \in Pids
    BY <1>1, <1>3, <1>4, <2>1
  <2>6. ASSUME NEW q \in Descendants'
        PROVE  /\ parent'[q] # Outside
               /\ pc'[parent'[q]] = "wait" /\ rc'[parent'[q]] = q
               /\ state'[q] = "running" => count'[q] = count'[parent'[q]] - 1
               /\ state'[q] = "zombie" =>
                    status'[q] \in Outcomes(count'[parent'[q]] - 1)
    <3>1. CASE q = c
      BY <2>5, <3>1 DEF Outside
    <3>2. CASE q \in Descendants
      BY <1>2, <2>1, <2>3, <3>2 DEF Chain
    <3> QED BY <2>2, <3>1, <3>2
  <2>7. \A q \in Descendants \cup {Root} :
          /\ Rank(q)' = Rank(q) /\ Rank(q) \in Int
          /\ q # p => Rank(q) > Rank(p) /\ pc'[q] = "wait"
    <3>1. ASSUME NEW q \in Descendants \cup {Root}, q # p
          PROVE  Rank(q) > Rank(p) /\ pc'[q] = "wait"
      <4>1. Rank(q) > Rank(p)
        BY <1>2, <2>2, <3>1 DEF Chain
      <4>2. q \in Pids /\ q # c
        BY <1>4, <2>3, <3>1
      <4>3. pc[q] = "wait"
        <5>1. SUFFICES ASSUME pc[q] # "wait" PROVE FALSE
          OBVIOUS
        <5>2. Rank(p) > Rank(q)
          BY <1>2, <2>2, <3>1, <5>1 DEF Chain
        <5> QED BY <1>2, <2>2, <4>1, <5>2, Ranks
      <4> QED BY <1>1, <1>3, <3>1, <4>1, <4>2, <4>3
    <3> QED BY <1>2, <2>3, <2>4, <3>1, Ranks
  <2>8. ASSUME NEW q \in (Descendants \cup {Root})',
               NEW r \in (Descendants \cup {Root})'
        PROVE  /\ Rank(q)' = Rank(r)' => q = r
               /\ q # r /\ pc'[q] # "wait" => Rank(r)' > Rank(q)'
    <3>1. \A x \in Descendants \cup {Root} : x # c /\ Rank(x)' > Rank(c)'
      BY <1>4, <2>1, <2>2, <2>4, <2>7
    <3>2. CASE q = c \/ r = c
      BY <1>4, <2>2, <2>4, <2>5, <2>7, <3>1, <3>2
    <3>3. CASE q # c /\ r # c
      <4>1. q \in Descendants \cup {Root} /\ r \in Descendants \cup {Root}
        BY <2>2, <3>3
      <4> QED BY <1>2, <2>5, <2>7, <4>1 DEF Chain
    <3> QED BY <3>2, <3>3
  <2>9. state'[Root] = "running" => count'[Root] = n'
    BY <1>1, <1>2, <1>3, <1>4, <2>1 DEF Chain
  <2>10. ASSUME NEW q \in Pids
         PROVE  /\ pc'[q] \in {"fork", "wait", "return", "ended"}
                /\ pc'[q] # "return" => code'[q] = Unread
                /\ pc'[q] = "return" => code'[q] \in Outcomes(count'[q] - 1)
    <3>1. CASE q = c
      BY <1>1, <1>3, <3>1
    <3>2. CASE q # c
      BY <1>1, <1>2, <1>3, <3>2 DEF Chain
    <3> QED BY <3>1, <3>2
  <2> QED BY <2>6, <2>8, <2>9, <2>10 DEF Chain
<1> QED BY <1>2, <1>4, <1>5, <1>6 DEF IInv

LEMMA GenerationExitIInv ==
  ASSUME NEW p \in Pids, NEW s \in Outcomes(count[p]), IInv,
         program = "generation", state[p] = "running", pc[p] # "wait",
         Exit(p, s), UNCHANGED <<program, n, race>>
  PROVE  IInv'
<1> USE ProcessesAssumption
<1>1. TypeOK /\ Table /\ Chain
  BY DEF IInv
<1>2. /\ pc \in [Pids -> Places] /\ count \in [Pids -> 0 .. n] /\ n \in Statuses
      /\ code \in [Pids -> Statuses \cup {Unread}]
      /\ rc \in [Pids -> Pids \cup {0}]
      /\ state \in [Pids -> {"free", "running", "zombie"}]
      /\ parent \in [Pids -> Pids \cup {Outside}]
      /\ status \in [Pids -> Statuses]
  BY <1>1 DEF TypeOK
<1>3. s \in Statuses /\ s \in Nat /\ n \in Nat /\ count[p] \in 0 .. n
  BY <1>2 DEF Statuses, Outcomes
<1>4. Children(p) = {} /\ (p = Root \/ parent[p] # Outside)
  BY <1>1, ChainChildren
<1>5. /\ state' = [state EXCEPT ![p] = "zombie"]
      /\ status' = [status EXCEPT ![p] = s]
      /\ parent' = parent
  BY <1>1, <1>3, <1>4, ExitOfTheYoungest
<1>6. /\ pc' = [pc EXCEPT ![p] = "ended"]
      /\ count' = [count EXCEPT ![p] = 0]
      /\ rc' = [rc EXCEPT ![p] = 0]
      /\ code' = [code EXCEPT ![p] = Unread]
      /\ UNCHANGED <<program, n>>
  BY DEF Exit
<1>7. Table'
  BY <1>1, <1>3, ExitKeepsTable
<1>8. TypeOK'
  BY <1>1, <1>3, ExitTyped
<1>9. Chain'
  <2>1. Descendants' = Descendants /\ p \in Descendants \cup {Root}
    BY <1>2, <1>5 DEF Descendants
  <2>2. ASSUME NEW q \in Descendants
        PROVE  /\ q \in Pids /\ parent[q] \in Pids /\ parent[q] # p
               /\ pc'[parent[q]] = "wait" /\ rc'[parent[q]] = q
               /\ count'[parent[q]] = count[parent[q]]
               /\ Rank(q)' = Rank(q)
    <3>1. q \in Pids /\ parent[q] \in Pids
      BY <1>1, <1>2, <2>2 DEF Descendants, Chain
    <3>2. pc[parent[q]] = "wait" /\ rc[parent[q]] = q
      BY <1>1, <2>2 DEF Chain
    <3>3. Rank(q)' = Rank(q)
      <4>1. CASE q = p
        BY <1>1, <1>2, <1>5, <1>6, <2>2, <3>1, <3>2, <4>1
           DEF Rank, Chain, Descendants
      <4>2. CASE q # p
        BY <1>2, <1>5, <1>6, <3>1, <3>2, <4>2 DEF Rank
      <4> QED BY <4>1, <4>2
    <3> QED BY <1>2, <1>6, <3>1, <3>2, <3>3
  <2>3. ASSUME NEW q \in Descendants
        PROVE  /\ parent'[q] # Outside
               /\ state'[q] = "running" => count'[q] = count'[parent'[q]] - 1
               /\ state'[q] = "zombie" =>
                    status'[q] \in Outcomes(count'[parent'[q]] - 1)
    <3>1. CASE q = p
      BY <1>1, <1>2, <1>5, <2>2, <2>3, <3>1 DEF Chain
    <3>2. CASE q # p
      BY <1>1, <1>2, <1>5, <1>6, <2>2, <2>3, <3>2 DEF Chain
    <3> QED BY <3>1, <3>2
  <2>4. Rank(Root)' = Rank(Root)
    BY <1>6 DEF Rank
  <2>5. \A q \in Descendants \cup {Root} : pc'[q] # "wait" => pc[q] # "wait"
    BY <1>2, <1>6, <2>1, <2>2
  <2>6. \A q, r \in Descendants \cup {Root} :
          /\ Rank(q)' = Rank(r)' => q = r
          /\ q # r /\ pc'[q] # "wait" => Rank(r)' > Rank(q)'
    BY <1>1, <2>2, <2>4, <2>5 DEF Chain
  <2>7. state'[Root] = "running" => count'[Root] = n'
    BY <1>1, <1>2, <1>5, <1>6 DEF Chain
  <2>8. ASSUME NEW q \in Pids
        PROVE  /\ pc'[q] \in {"fork", "wait", "return", "ended"}
               /\ pc'[q] # "return" => code'[q] = Unread
               /\ pc'[q] = "return" => code'[q] \in Outcomes(count'[q] - 1)
    BY <1>1, <1>2, <1>6 DEF Chain
  <2>9. \A q \in Descendants :
          pc'[parent'[q]] = "wait" /\ rc'[parent'[q]] = q
    BY <1>5, <2>2
  <2> QED BY <2>1, <2>3, <2>6, <2>7, <2>8, <2>9 DEF Chain
<1> QED BY <1>6, <1>7, <1>8, <1>9 DEF IInv

LEMMA GenerationWaitIInv ==
  ASSUME NEW p \in Pids, IInv, GenerationWait(p), UNCHANGED race
  PROVE  IInv'
<1> USE ProcessesAssumption
<1> DEFINE c == rc[p]
<1>1. /\ TypeOK /\ Table /\ Chain
      /\ program = "generation" /\ pc[p] = "wait"
      /\ Reap(p, c)
      /\ code' = [code EXCEPT ![p] = status[c]]
      /\ pc' = [pc EXCEPT ![p] = "return"]
      /\ UNCHANGED <<program, n, count, number, rc, childPID,
                     numOfActiveChildren>>
  BY DEF IInv, GenerationWait, Running, race
<1>2. /\ pc \in [Pids -> Places] /\ count \in [Pids -> 0 .. n] /\ n \in Nat
      /\ code \in [Pids -> Statuses \cup {Unread}]
      /\ rc \in [Pids -> Pids \cup {0}]
      /\ state \in [Pids -> {"free", "running", "zombie"}]
      /\ parent \in [Pids -> Pids \cup {Outside}]
      /\ status \in [Pids -> Statuses]
  BY <1>1 DEF TypeOK, Statuses
<1>3. /\ Table'
      /\ c \in Pids /\ c # Root /\ c # p
      /\ parent[c] = p /\ state[c] = "zombie"
  <2>1. \A q \in Pids : pc'[q] = "ended" <=> pc[q] = "ended"
    BY <1>1, <1>2
  <2> QED BY <1>1, <2>1, ReapKeepsTable
<1>4. TypeOK'
  <2>1. /\ pc' \in [Pids -> Places]
        /\ code' \in [Pids -> Statuses \cup {Unread}]
    BY <1>1, <1>2, <1>3 DEF Places
  <2> QED BY <1>1, <2>1, ReapTyped DEF TypeOK, Slugs
<1>5. Chain'
  <2>1. /\ state' = [state EXCEPT ![c] = "free"]
        /\ parent' = [parent EXCEPT ![c] = Outside]
        /\ status' = [status EXCEPT ![c] = 0]
    BY <1>1 DEF Reap
  <2>2. /\ Descendants' = Descendants \ {c}
        /\ c \in Descendants /\ p \in Descendants \cup {Root}
    BY <1>1, <1>2, <1>3, <2>1 DEF Descendants, Table
  <2>3. state[p] = "running" /\ pc[c] = "ended"
    BY <1>1, <1>3 DEF Table
  <2>4. Rank(c) = Rank(p) - 1
    <3>1. Rank(p) = count[p]
      BY <1>1, <2>3 DEF Rank, Chain
    <3> QED BY <1>3, <3>1 DEF Rank
  <2>5. ASSUME NEW q \in Descendants', NEW r, r = parent[q]
        PROVE  /\ q \in Descendants /\ q \in Pids /\ r \in Pids
               /\ r # c /\ r # p
               /\ parent'[q] = r /\ pc'[r] = "wait" /\ rc'[r] = q
               /\ state'[q] = state[q] /\ status'[q] = status[q]
               /\ Rank(q)' = Rank(q)
    <3>1. q \in Descendants /\ q \in Pids /\ q # c /\ q # Root
      BY <2>2 DEF Descendants
    <3>2. r \in Pids /\ pc[r] = "wait" /\ rc[r] = q
      BY <1>1, <1>2, <2>5, <3>1 DEF Chain
    <3>3. r # c /\ r # p
      BY <2>3, <3>1, <3>2
    <3> QED BY <1>1, <1>2, <2>1, <2>5, <3>1, <3>2, <3>3 DEF Rank
  <2>6. Rank(Root)' = Rank(Root)
    BY <1>1 DEF Rank
  <2>7. \A q \in (Descendants \cup {Root})' : q # p => Rank(q) > Rank(p)
    <3>1. SUFFICES ASSUME NEW q \in (Descendants \cup {Root})', q # p
                   PROVE  Rank(q) > Rank(p)
      OBVIOUS
    <3>2. q \in Descendants \cup {Root} /\ q # c
      BY <1>3, <2>2
    <3>3. Rank(q) > Rank(c)
      BY <1>1, <2>2, <2>3, <3>2 DEF Chain
    <3>4. Rank(q) # Rank(p)
      BY <1>1, <2>2, <3>1, <3>2 DEF Chain
    <3> QED BY <1>1, <2>2, <2>4, <3>2, <3>3, <3>4, Ranks
  <2>8. ASSUME NEW q \in (Descendants \cup {Root})',
               NEW r \in (Descendants \cup {Root})'
        PROVE  /\ Rank(q)' = Rank(r)' => q = r
               /\ q # r /\ pc'[q] # "wait" => Rank(r)' > Rank(q)'
    <3>1. /\ q \in Descendants \cup {Root} /\ r \in Descendants \cup {Root}
          /\ Rank(q)' = Rank(q) /\ Rank(r)' = Rank(r)
      BY <2>2, <2>5, <2>6
    <3>2. Rank(q)' = Rank(r)' => q = r
      <4>1. Rank(q) = Rank(r) => q = r
        BY <1>1, <3>1 DEF Chain
      <4> QED BY <3>1, <4>1
    <3>3. CASE q = p
      BY <2>7, <3>1, <3>2, <3>3
    <3>4. CASE q # p
      <4>1. pc'[q] # "wait" => pc[q] # "wait"
        BY <1>1, <1>2, <2>5, <3>4
      <4> QED BY <1>1, <3>1, <3>2, <4>1 DEF Chain
    <3> QED BY <3>3, <3>4
  <2>9. \A q \in Descendants' :
          /\ state'[q] = "running" => count'[q] = count'[parent'[q]] - 1
          /\ state'[q] = "zombie" =>
               status'[q] \in Outcomes(count'[parent'[q]] - 1)
    BY <1>1, <2>5 DEF Chain
  <2>10. \A q \in Descendants' :
           /\ parent'[q] # Outside
           /\ pc'[parent'[q]] = "wait" /\ rc'[parent'[q]] = q
    BY <1>2, <2>5 DEF Outside
  <2>11. state'[Root] = "running" => count'[Root] = n'
    BY <1>1, <1>2, <1>3, <2>1 DEF Chain
  <2>12. ASSUME NEW q \in Pids
         PROVE  /\ pc'[q] \in {"fork", "wait", "return", "ended"}
                /\ pc'[q] # "return" => code'[q] = Unread
                /\ pc'[q] = "return" => code'[q] \in Outcomes(count'[q] - 1)
    <3>1. CASE q = p
      <4>1. status[c] \in Outcomes(count[p] - 1)
        BY <1>1, <1>3, <2>2 DEF Chain
      <4> QED BY <1>1, <1>2, <3>1, <4>1
    <3>2. CASE q # p
      BY <1>1, <1>2, <3>2 DEF Chain
    <3> QED BY <3>1, <3>2
  <2> QED BY <2>8, <2>9, <2>10, <2>11, <2>12 DEF Chain
<1> QED BY <1>1, <1>3, <1>4, <1>5 DEF IInv

LEMMA GenerationIInv ==
  ASSUME NEW p \in Pids, IInv, GenerationStep(p), UNCHANGED race
  PROVE  IInv'
<1>1. CASE GenerationFork(p)
  BY <1>1, GenerationForkIInv
<1>2. CASE GenerationForkFails(p)
  BY <1>2, GenerationExitIInv
     DEF GenerationForkFails, Running, lifeSpanCount, Outcomes
<1>3. CASE GenerationWait(p)
  BY <1>3, GenerationWaitIInv
<1>4. CASE GenerationReturn(p)
  BY <1>4, GenerationExitIInv
     DEF GenerationReturn, Running, lifeSpanCount, Outcomes
<1> QED BY <1>1, <1>2, <1>3, <1>4 DEF GenerationStep
-----------------------------------------------------------------------------
(* prolific.c and explorer.c *)

OneChildPrograms == {"prolific", "explorer"}

LEMMA ExitCodes ==
  ASSUME NEW p \in Pids, TypeOK
  PROVE  exitCode(p) \in Statuses
<1>1. number[p] \in Numbers \cup {0}
  BY DEF TypeOK
<1>2. CASE number[p] = 0
  BY <1>2 DEF exitCode, Statuses
<1>3. CASE number[p] \in Numbers
  <2>1. number[p] \in Nat
    BY <1>3, ProlificAssumption
  <2> QED BY <2>1 DEF exitCode, Statuses
<1> QED BY <1>1, <1>2, <1>3

LEMMA OneChildOfRoot ==
  ASSUME TypeOK, Table, OneChild
  PROVE  /\ \A p \in Pids : p # Root \/ pc[Root] # "wait" => Children(p) = {}
         /\ \A p \in Pids : p = Root \/ state[p] = "free" \/ parent[p] # Outside
         /\ pc[Root] # "wait" => Descendants = {}
<1>1. \A p \in Pids : \A q \in Children(p) : q \in Descendants /\ parent[q] = p
  BY ProcessesAssumption DEF Children, Descendants, Table, Outside
<1> QED BY <1>1, ProcessesAssumption DEF OneChild, Descendants, Outside

LEMMA ForkNextIInv ==
  ASSUME NEW c \in Pids, NEW place \in {"child", "exec"}, IInv,
         program \in OneChildPrograms, state[Root] = "running",
         pc[Root] = "fork", count[Root] < n,
         ForkNext(Root, c, place), UNCHANGED race
  PROVE  IInv'
<1> USE ProcessesAssumption, ProlificAssumption
<1>1. TypeOK /\ Table /\ OneChild /\ Descendants = {}
  BY OneChildOfRoot DEF IInv, OneChildPrograms
<1>2. /\ pc \in [Pids -> Places] /\ count \in [Pids -> 0 .. n] /\ n \in Nat
      /\ rc \in [Pids -> Pids \cup {0}]
      /\ number \in [Pids -> Numbers \cup {0}]
      /\ code \in [Pids -> Statuses \cup {Unread}]
      /\ state \in [Pids -> {"free", "running", "zombie"}]
      /\ parent \in [Pids -> Pids \cup {Outside}]
      /\ status \in [Pids -> Statuses]
  BY <1>1 DEF TypeOK, Statuses
<1>3. PICK r \in Numbers : number' = [number EXCEPT ![Root] = r, ![c] = r]
  BY DEF ForkNext
<1>4. /\ ForkTable(Root, c)
      /\ rc' = [rc EXCEPT ![Root] = c, ![c] = 0]
      /\ count' = [count EXCEPT ![c] = count[Root]]
      /\ code' = [code EXCEPT ![c] = code[Root]]
      /\ pc' = [pc EXCEPT ![Root] = "wait", ![c] = place]
      /\ UNCHANGED <<program, n, childPID, numOfActiveChildren>>
  BY DEF ForkNext, race
<1>5. Table' /\ c # Root
  <2>1. \A q \in Pids : pc'[q] = "ended" <=> q # c /\ pc[q] = "ended"
    BY <1>2, <1>4
  <2> QED BY <1>1, <1>4, <2>1, ForkKeepsTable
<1>6. TypeOK'
  <2>1. /\ pc' \in [Pids -> Places] /\ count' \in [Pids -> 0 .. n]
        /\ rc' \in [Pids -> Pids \cup {0}]
        /\ number' \in [Pids -> Numbers \cup {0}]
        /\ code' \in [Pids -> Statuses \cup {Unread}]
    BY <1>2, <1>3, <1>4 DEF Places
  <2> QED BY <1>1, <1>4, <2>1, ForkTyped DEF TypeOK, Slugs
<1>7. OneChild'
  <2>1. /\ state' = [state EXCEPT ![c] = "running"]
        /\ parent' = [parent EXCEPT ![c] = Root]
    BY <1>4 DEF ForkTable
  <2>2. Descendants' = {c}
    BY <1>1, <1>2, <1>5, <2>1 DEF Descendants
  <2>3. /\ pc'[Root] = "wait" /\ rc'[Root] = c /\ count'[Root] < n'
        /\ parent'[c] = Root /\ state'[c] = "running"
        /\ number'[c] = number'[Root]
    BY <1>2, <1>3, <1>4, <1>5, <2>1
  <2>4. \A q \in Pids \ {Root} : pc'[q] \in {"child", "exec", "ended"}
    BY <1>1, <1>2, <1>4 DEF OneChild
  <2> QED BY <2>2, <2>3, <2>4 DEF OneChild
<1> QED BY <1>4, <1>5, <1>6, <1>7 DEF IInv, OneChildPrograms

LEMMA OneChildExitIInv ==
  ASSUME NEW p \in Pids, NEW s \in Statuses, IInv,
         program \in OneChildPrograms, state[p] = "running", pc[p] # "wait",
         program = "prolific" /\ p # Root => s = exitCode(p),
         Exit(p, s), UNCHANGED <<program, n, race>>
  PROVE  IInv'
<1> USE ProcessesAssumption
<1>1. TypeOK /\ Table /\ OneChild
  BY DEF IInv, OneChildPrograms
<1>2. /\ pc \in [Pids -> Places] /\ count \in [Pids -> 0 .. n] /\ n \in Nat
      /\ number \in [Pids -> Numbers \cup {0}]
      /\ rc \in [Pids -> Pids \cup {0}]
      /\ code \in [Pids -> Statuses \cup {Unread}]
      /\ state \in [Pids -> {"free", "running", "zombie"}]
      /\ parent \in [Pids -> Pids \cup {Outside}]
      /\ status \in [Pids -> Statuses]
  BY <1>1 DEF TypeOK, Statuses
<1>3. s \in Nat
  BY DEF Statuses
<1>4. /\ state' = [state EXCEPT ![p] = "zombie"]
      /\ status' = [status EXCEPT ![p] = s]
      /\ parent' = parent
  BY <1>1, OneChildOfRoot, ExitOfTheYoungest
<1>5. /\ pc' = [pc EXCEPT ![p] = "ended"]
      /\ count' = [count EXCEPT ![p] = 0]
      /\ number' = [number EXCEPT ![p] = 0]
      /\ rc' = [rc EXCEPT ![p] = 0]
      /\ code' = [code EXCEPT ![p] = Unread]
      /\ UNCHANGED <<program, n>>
  BY DEF Exit
<1>6. Table' /\ TypeOK'
  BY <1>1, <1>3, ExitKeepsTable, ExitTyped
<1>7. OneChild'
  <2>1. Descendants' = Descendants
    BY <1>2, <1>4 DEF Descendants
  <2>2. /\ pc'[Root] \in {"fork", "wait", "ended"}
        /\ pc'[Root] = "wait" => count'[Root] < n'
        /\ \A q \in Pids \ {Root} : pc'[q] \in {"child", "exec", "ended"}
    BY <1>1, <1>2, <1>5 DEF OneChild
  <2>3. ASSUME p # Root
        PROVE  /\ pc'[Root] = pc[Root] /\ rc'[Root] = rc[Root]
               /\ number'[Root] = number[Root] /\ code'[Root] = code[Root]
               /\ exitCode(Root)' = exitCode(Root)
    BY <1>2, <1>5, <2>3 DEF exitCode
  <2>4. ASSUME NEW q \in Descendants'
        PROVE  /\ parent'[q] = Root /\ pc'[Root] = "wait" /\ rc'[Root] = q
               /\ program' = "prolific" =>
                    /\ state'[q] = "running" => number'[q] = number'[Root]
                    /\ state'[q] = "zombie" => status'[q] = exitCode(Root)'
    <3>1. /\ q \in Descendants /\ q \in Pids /\ q # Root
          /\ parent[q] = Root /\ pc[Root] = "wait" /\ rc[Root] = q
      BY <1>1, <2>1 DEF OneChild, Descendants
    <3>2. p # Root
      BY <3>1
    <3>3. CASE q = p
      <4>1. program = "prolific" => s = exitCode(Root)
        BY <1>1, <3>1, <3>3 DEF OneChild, exitCode
      <4> QED BY <1>2, <1>4, <1>5, <2>3, <3>1, <3>2, <3>3, <4>1
    <3>4. CASE q # p
      BY <1>1, <1>2, <1>4, <1>5, <2>3, <3>1, <3>2, <3>4 DEF OneChild
    <3> QED BY <3>3, <3>4
  <2>5. program' = "prolific" /\ pc'[Root] = "fork" =>
          code'[Root] \in {Unread, exitCode(Root)'}
    BY <1>1, <1>2, <1>5, <2>3 DEF OneChild
  <2> QED BY <2>2, <2>4, <2>5 DEF OneChild
<1> QED BY <1>5, <1>6, <1>7 DEF IInv, OneChildPrograms

LEMMA WaitForItIInv ==
  ASSUME IInv, program \in OneChildPrograms, state[Root] = "running",
         pc[Root] = "wait", WaitForIt(Root), UNCHANGED race
  PROVE  IInv'
<1> USE ProcessesAssumption
<1> DEFINE c == rc[Root]
<1>1. /\ TypeOK /\ Table /\ OneChild
      /\ Reap(Root, c)
      /\ code' = [code EXCEPT ![Root] = status[c]]
      /\ count' = [count EXCEPT ![Root] = @ + 1]
      /\ pc' = [pc EXCEPT ![Root] = "fork"]
      /\ UNCHANGED <<program, n, number, rc, childPID, numOfActiveChildren>>
  BY DEF IInv, WaitForIt, OneChildPrograms, race
<1>2. /\ pc \in [Pids -> Places] /\ count \in [Pids -> 0 .. n] /\ n \in Nat
      /\ code \in [Pids -> Statuses \cup {Unread}]
      /\ state \in [Pids -> {"free", "running", "zombie"}]
      /\ parent \in [Pids -> Pids \cup {Outside}]
      /\ status \in [Pids -> Statuses]
  BY <1>1 DEF TypeOK, Statuses
<1>3. Table' /\ c \in Pids /\ c # Root /\ state[c] = "zombie"
  <2>1. \A q \in Pids : pc'[q] = "ended" <=> pc[q] = "ended"
    BY <1>1, <1>2
  <2> QED BY <1>1, <2>1, ReapKeepsTable
<1>4. TypeOK'
  <2>1. count[Root] + 1 \in 0 .. n
    BY <1>1, <1>2 DEF OneChild
  <2>2. /\ pc' \in [Pids -> Places] /\ count' \in [Pids -> 0 .. n]
        /\ code' \in [Pids -> Statuses \cup {Unread}]
    BY <1>1, <1>2, <1>3, <2>1 DEF Places
  <2> QED BY <1>1, <2>2, ReapTyped DEF TypeOK, Slugs
<1>5. OneChild'
  <2>1. state' = [state EXCEPT ![c] = "free"] /\ c \in Descendants
    BY <1>1, <1>3 DEF Reap, Descendants
  <2>2. Descendants' = {}
    <3>1. \A q \in Descendants : q = c
      BY <1>1 DEF OneChild
    <3> QED BY <1>2, <1>3, <2>1, <3>1 DEF Descendants
  <2>3. program = "prolific" => code'[Root] = exitCode(Root)'
    BY <1>1, <1>2, <1>3, <2>1 DEF OneChild, exitCode
  <2>4. pc'[Root] = "fork"
        /\ \A q \in Pids \ {Root} : pc'[q] \in {"child", "exec", "ended"}
    BY <1>1, <1>2 DEF OneChild
  <2> QED BY <1>1, <2>2, <2>3, <2>4 DEF OneChild
<1> QED BY <1>1, <1>3, <1>4, <1>5 DEF IInv, OneChildPrograms

LEMMA ProlificIInv ==
  ASSUME NEW p \in Pids, IInv, ProlificStep(p), UNCHANGED race
  PROVE  IInv'
<1> USE ProcessesAssumption
<1>1. 0 \in Statuses /\ 1 \in Statuses
  BY DEF Statuses
<1>2. CASE ProlificFork
  BY <1>1, <1>2, ForkNextIInv, OneChildExitIInv
     DEF ProlificFork, ForkNextFails, Running, OneChildPrograms
<1>3. CASE ProlificChild(p)
  BY <1>3, ExitCodes, OneChildExitIInv
     DEF ProlificChild, Running, OneChildPrograms, IInv
<1>4. CASE ProlificWait
  BY <1>4, WaitForItIInv DEF ProlificWait, Running, OneChildPrograms
<1>5. CASE ProlificReturn
  BY <1>1, <1>5, OneChildExitIInv
     DEF ProlificReturn, Running, OneChildPrograms
<1> QED BY <1>2, <1>3, <1>4, <1>5 DEF ProlificStep

LEMMA ExplorerIInv ==
  ASSUME NEW p \in Pids, IInv, ExplorerStep(p), UNCHANGED race
  PROVE  IInv'
<1> USE ProcessesAssumption
<1>1. {0, 1, 2} \subseteq Statuses
  BY DEF Statuses
<1>2. CASE ExplorerFork
  BY <1>1, <1>2, ForkNextIInv, OneChildExitIInv
     DEF ExplorerFork, ForkNextFails, Running, OneChildPrograms
<1>3. CASE ExplorerChild(p)
  BY <1>1, <1>3, OneChildExitIInv DEF ExplorerChild, Running, OneChildPrograms
<1>4. CASE ExplorerWait
  BY <1>4, WaitForItIInv DEF ExplorerWait, Running, OneChildPrograms
<1>5. CASE ExplorerReturn
  BY <1>1, <1>5, OneChildExitIInv
     DEF ExplorerReturn, Running, OneChildPrograms
<1> QED BY <1>2, <1>3, <1>4, <1>5 DEF ExplorerStep
-----------------------------------------------------------------------------
(* slugrace.c *)

LEMMA SlugRaceForkIInv ==
  ASSUME IInv, SlugRaceFork
  PROVE  IInv'
<1> USE ProcessesAssumption
<1>1. PICK c \in Pids :
        /\ ForkTable(Root, c)
        /\ childPID' = [childPID EXCEPT ![count[Root]] = c]
        /\ count' = [count EXCEPT ![c] = count[Root], ![Root] = @ + 1]
        /\ pc' = [pc EXCEPT ![c] = "child"]
  BY DEF SlugRaceFork
<1>2. /\ TypeOK /\ Table /\ Racing /\ Entries
      /\ program = "slugrace" /\ state[Root] = "running"
      /\ pc[Root] = "fork" /\ count[Root] < n
      /\ UNCHANGED <<program, n, number, rc, code, numOfActiveChildren>>
  BY DEF IInv, SlugRaceFork, Running, Racing
<1>3. /\ pc \in [Pids -> Places] /\ count \in [Pids -> 0 .. n] /\ n \in Nat
      /\ state \in [Pids -> {"free", "running", "zombie"}]
      /\ parent \in [Pids -> Pids \cup {Outside}]
      /\ childPID \in [Slugs -> Pids \cup {0, -1}]
      /\ numOfActiveChildren \in 0 .. n
  BY <1>2 DEF TypeOK, Statuses
<1>4. Table' /\ c # Root
  <2>1. \A q \in Pids : pc'[q] = "ended" <=> q # c /\ pc[q] = "ended"
    BY <1>1, <1>3
  <2> QED BY <1>1, <1>2, <2>1, ForkKeepsTable
<1>5. count[Root] \in Slugs /\ count[Root] \in Nat
  BY <1>2, <1>3 DEF Slugs
<1>6. TypeOK'
  <2>1. count[Root] + 1 \in 0 .. n
    BY <1>2, <1>3
  <2>2. /\ pc' \in [Pids -> Places] /\ count' \in [Pids -> 0 .. n]
        /\ childPID' \in [Slugs -> Pids \cup {0, -1}]
    BY <1>1, <1>3, <2>1 DEF Places
  <2> QED BY <1>1, <1>2, <2>2, ForkTyped DEF TypeOK, Slugs
<1>7. Entries'
  <2>1. /\ state[c] = "free"
        /\ state' = [state EXCEPT ![c] = "running"]
        /\ parent' = [parent EXCEPT ![c] = Root]
    BY <1>1 DEF ForkTable
  <2>2. /\ Children(Root)' = Children(Root) \cup {c}
        /\ c \notin Children(Root)
        /\ Descendants' = Descendants \cup {c}
    BY <1>3, <1>4, <2>1 DEF Children, Descendants
  <2>3. /\ Forked' = Forked \cup {count[Root]} /\ count[Root] \notin Forked
        /\ Forked \subseteq Slugs /\ Slugs' = Slugs
        /\ count'[Root] = count[Root] + 1
    BY <1>1, <1>2, <1>3, <1>4, <1>5 DEF Forked, Slugs
  <2>4. \A j \in Slugs : childPID'[j] = IF j = count[Root] THEN c ELSE childPID[j]
    BY <1>1, <1>3, <1>5
  <2>5. \A q \in Descendants' : parent'[q] = Root
    BY <1>2, <1>3, <2>1, <2>2 DEF Entries, Descendants
  <2>6. /\ \A j \in Forked' :
             childPID'[j] = -1 \/ childPID'[j] \in Children(Root)'
        /\ \A j \in Slugs' \ Forked' : childPID'[j] = 0
    <3>1. ASSUME NEW j \in Forked'
          PROVE  childPID'[j] = -1 \/ childPID'[j] \in Children(Root)'
      <4>1. CASE j = count[Root]
        BY <1>5, <2>2, <2>4, <4>1
      <4>2. CASE j \in Forked
        <5>1. childPID'[j] = childPID[j]
          BY <2>3, <2>4, <4>2
        <5>2. childPID[j] = -1 \/ childPID[j] \in Children(Root)
          BY <1>2, <4>2 DEF Entries
        <5> QED BY <2>2, <5>1, <5>2
      <4> QED BY <2>3, <3>1, <4>1, <4>2
    <3>2. ASSUME NEW j \in Slugs' \ Forked'
          PROVE  childPID'[j] = 0
      <4>1. j \in Slugs \ Forked /\ j # count[Root]
        BY <2>3, <3>2
      <4> QED BY <1>2, <2>4, <4>1 DEF Entries
    <3> QED BY <3>1, <3>2
  <2>7. \A j \in Slugs : childPID[j] # c
    <3>1. \A j \in Slugs :
            childPID[j] \in Children(Root) \/ childPID[j] = 0 \/ childPID[j] = -1
      BY <1>2, <2>3 DEF Entries
    <3>2. c # 0 /\ c # -1
      OBVIOUS
    <3> QED BY <2>2, <3>1, <3>2
  <2>8. ASSUME NEW d \in Children(Root)'
        PROVE  \E j \in Forked' :
                 /\ \A k \in Slugs' : childPID'[k] = d <=> k = j
                 /\ state'[d] = "running" => count'[d] = j
    <3>1. CASE d = c
      BY <1>1, <1>3, <1>4, <2>3, <2>4, <2>7, <3>1
    <3>2. CASE d \in Children(Root)
      <4>1. PICK j \in Forked :
              /\ \A k \in Slugs : childPID[k] = d <=> k = j
              /\ state[d] = "running" => count[d] = j
        BY <1>2, <3>2 DEF Entries
      <4>2. d \in Pids /\ d # c /\ d # Root
        BY <1>2, <2>2, <3>2 DEF Children, Table, Outside
      <4>3. state'[d] = "running" => count'[d] = j
        BY <1>1, <1>3, <2>1, <4>1, <4>2
      <4>4. \A k \in Slugs' : childPID'[k] = d <=> k = j
        BY <2>3, <2>4, <4>1, <4>2
      <4> QED BY <2>3, <4>3, <4>4
    <3> QED BY <2>2, <3>1, <3>2
  <2>9. /\ IsFiniteSet(Children(Root)')
        /\ Cardinality(Children(Root)') = Cardinality(Children(Root)) + 1
    BY <1>2, <2>2, FS_AddElement DEF Entries
  <2>10. Cardinality(Children(Root))' =
           numOfActiveChildren' - (n' - count'[Root])
    <3>1. Cardinality(Children(Root)) = numOfActiveChildren - (n - count[Root])
      BY <1>2 DEF Entries
    <3> QED BY <1>2, <1>3, <1>5, <2>3, <2>9, <3>1
  <2> QED BY <2>5, <2>6, <2>8, <2>9, <2>10 DEF Entries
<1>8. Racing'
  <2>1. pc'[Root] = "fork" /\ state'[Root] = "running"
    BY <1>1, <1>2, <1>3, <1>4 DEF ForkTable
  <2>2. /\ \A q \in Pids \ {Root} : pc'[q] \in {"child", "slug", "ended"}
        /\ \A q \in Pids : code'[q] = Unread
    BY <1>1, <1>2, <1>3 DEF Racing
  <2> QED BY <1>7, <2>1, <2>2 DEF Racing
<1> QED BY <1>2, <1>4, <1>6, <1>8 DEF IInv

\* The parent leaves: its table of slugs is of no use any more.
LEMMA RaceExitIInv ==
  ASSUME NEW s \in {0, 1}, IInv, program = "slugrace",
         state[Root] = "running", s = 0 => Descendants = {},
         Exit(Root, s), UNCHANGED <<program, n, race>>
  PROVE  IInv'
<1> USE ProcessesAssumption
<1>1. TypeOK /\ Table /\ Racing
  BY DEF IInv
<1>2. /\ pc \in [Pids -> Places]
      /\ code \in [Pids -> Statuses \cup {Unread}]
      /\ state \in [Pids -> {"free", "running", "zombie"}]
      /\ status \in [Pids -> Statuses]
  BY <1>1 DEF TypeOK
<1>3. Table' /\ TypeOK'
  BY <1>1, ExitKeepsTable, ExitTyped
<1>4. Root \notin Unawaited(Root)
  BY <1>1 DEF Unawaited, Zombies, Children
<1>5. /\ state'[Root] = "zombie" /\ status'[Root] = s /\ pc'[Root] = "ended"
      /\ \A q \in Pids \ {Root} : state[q] = "free" => state'[q] = "free"
  BY <1>2, <1>4 DEF Exit
<1>6. Racing'
  <2>1. /\ \A q \in Pids \ {Root} : pc'[q] \in {"child", "slug", "ended"}
        /\ \A q \in Pids : code'[q] = Unread
    BY <1>1, <1>2 DEF Racing, Exit
  <2>2. s = 0 => Descendants' = {}
    BY <1>5 DEF Descendants
  <2> QED BY <1>5, <2>1, <2>2 DEF Racing
<1> QED BY <1>3, <1>6 DEF IInv

LEMMA SlugExitIInv ==
  ASSUME NEW p \in Pids, NEW s \in {0, 1}, IInv, program = "slugrace",
         state[p] = "running", pc[p] \in {"child", "slug"},
         Exit(p, s), UNCHANGED <<program, n, race>>
  PROVE  IInv'
<1> USE ProcessesAssumption
<1>1. TypeOK /\ Table /\ Racing /\ p # Root
  BY DEF IInv, Racing
<1>2. /\ pc \in [Pids -> Places] /\ count \in [Pids -> 0 .. n]
      /\ code \in [Pids -> Statuses \cup {Unread}]
      /\ state \in [Pids -> {"free", "running", "zombie"}]
      /\ parent \in [Pids -> Pids \cup {Outside}]
      /\ status \in [Pids -> Statuses]
  BY <1>1 DEF TypeOK
<1>3. Table' /\ TypeOK'
  BY <1>1, ExitKeepsTable, ExitTyped
<1>4. p \in Descendants
  BY <1>1 DEF Descendants
<1>5. /\ pc' = [pc EXCEPT ![p] = "ended"]
      /\ count' = [count EXCEPT ![p] = 0]
      /\ code' = [code EXCEPT ![p] = Unread]
      /\ UNCHANGED <<program, n, childPID, numOfActiveChildren>>
  BY DEF Exit, race
<1>6. /\ pc'[Root] = pc[Root] /\ count'[Root] = count[Root]
      /\ \A q \in Pids \ {Root} : pc'[q] \in {"child", "slug", "ended"}
      /\ \A q \in Pids : code'[q] = Unread
  BY <1>1, <1>2, <1>5 DEF Racing
<1>7. state'[Root] = state[Root] /\ status'[Root] = status[Root]
  <2>1. Root \notin Unawaited(p)
    BY <1>1 DEF Unawaited, Zombies, Children, Table, Outside
  <2> QED BY <1>1, <1>2, <2>1 DEF Exit
<1>8. state[Root] = "running" => Entries'
  <2>1. SUFFICES ASSUME state[Root] = "running" PROVE Entries'
    OBVIOUS
  <2>2. Entries
    BY <1>1, <2>1 DEF Racing
  <2>3. Children(p) = {} /\ parent[p] = Root
    <3>1. parent[p] = Root
      BY <1>4, <2>2 DEF Entries
    <3>2. ASSUME NEW q \in Children(p)
          PROVE  FALSE
      <4>1. q \in Pids /\ parent[q] = p /\ state[q] # "free"
        BY <3>2 DEF Children
      <4>2. q \in Descendants
        BY <1>1, <4>1 DEF Descendants, Table, Outside
      <4> QED BY <1>1, <2>2, <4>1, <4>2 DEF Entries
    <3> QED BY <3>1, <3>2
  <2>4. state' = [state EXCEPT ![p] = "zombie"] /\ parent' = parent
    <3>1. s \in Statuses /\ Root # Outside
      BY DEF Statuses, Outside
    <3> QED BY <1>1, <2>3, <3>1, ExitOfTheYoungest
  <2>5. Children(Root)' = Children(Root) /\ Descendants' = Descendants
    BY <1>2, <1>4, <2>4 DEF Children, Descendants
  <2>6. \A c \in Pids : c # p =>
          state'[c] = state[c] /\ count'[c] = count[c]
    BY <1>2, <1>5, <2>4
  <2>7. state'[p] # "running" /\ Children(Root) \subseteq Pids
    BY <1>2, <2>4 DEF Children
  <2>8. Forked' = Forked /\ Slugs' = Slugs
    BY <1>5, <1>6 DEF Forked, Slugs
  <2>9. ASSUME NEW c \in Children(Root)
        PROVE  \E j \in Forked' :
                 /\ \A k \in Slugs' : childPID'[k] = c <=> k = j
                 /\ state'[c] = "running" => count'[c] = j
    <3>1. PICK j \in Forked :
            /\ \A k \in Slugs : childPID[k] = c <=> k = j
            /\ state[c] = "running" => count[c] = j
      BY <2>2 DEF Entries
    <3>2. state'[c] = "running" => count'[c] = j
      BY <2>6, <2>7, <3>1
    <3>3. \A k \in Slugs' : childPID'[k] = c <=> k = j
      BY <1>5, <2>8, <3>1
    <3> QED BY <2>8, <3>2, <3>3
  <2> QED BY <1>5, <1>6, <2>2, <2>4, <2>5, <2>8, <2>9 DEF Entries
<1>9. state[Root] # "running" => state'[Root] = "zombie" /\ status'[Root] = 1
  BY <1>1, <1>2, <1>4, <1>7 DEF Racing, Table
<1>10. Racing'
  <2>1. pc'[Root] \in {"fork", "poll", "usleep", "ended"}
    BY <1>1, <1>6 DEF Racing
  <2>2. pc'[Root] \in {"poll", "usleep"} => count'[Root] = n'
    BY <1>1, <1>5, <1>6 DEF Racing
  <2> QED BY <1>6, <1>7, <1>8, <1>9, <2>1, <2>2 DEF Racing
<1> QED BY <1>3, <1>5, <1>10 DEF IInv

\* Steps that only move the program on.
LEMMA RaceMoveIInv ==
  ASSUME NEW p \in Pids, NEW loc \in Places \ {"ended"}, IInv,
         program = "slugrace", pc[p] # "ended", pc' = [pc EXCEPT ![p] = loc],
         IF p = Root THEN loc \in {"fork", "poll", "usleep"} /\ count[Root] = n
                     ELSE loc = "slug",
         UNCHANGED <<program, n, table, memory, race>>
  PROVE  IInv'
<1> USE ProcessesAssumption
<1>1. /\ TypeOK /\ Table /\ Racing
      /\ UNCHANGED <<program, n, state, parent, status, count, number, rc,
                     code, childPID, numOfActiveChildren>>
  BY DEF IInv, table, memory, race
<1>2. pc \in [Pids -> Places]
  BY <1>1 DEF TypeOK
<1>3. TypeOK'
  BY <1>1, <1>2 DEF TypeOK, Slugs
<1>4. Table'
  BY <1>1, <1>2 DEF Table
<1>5. Entries' <=> Entries
  BY <1>1 DEF Entries, Forked, Slugs, Children, Descendants
<1>6. Racing'
  <2>1. Descendants' = Descendants
    BY <1>1 DEF Descendants
  <2>2. \A q \in Pids \ {Root} : pc'[q] \in {"child", "slug", "ended"}
    BY <1>1, <1>2 DEF Racing
  <2>3. /\ pc'[Root] \in {"fork", "poll", "usleep", "ended"}
        /\ pc'[Root] \in {"poll", "usleep"} => count'[Root] = n'
    BY <1>1, <1>2 DEF Racing
  <2> QED BY <1>1, <1>5, <2>1, <2>2, <2>3 DEF Racing
<1> QED BY <1>1, <1>3, <1>4, <1>6 DEF IInv

LEMMA PollFindsIInv ==
  ASSUME IInv, PollFinds
  PROVE  IInv'
<1> USE ProcessesAssumption
<1>1. PICK c \in Pids :
        /\ Reap(Root, c)
        /\ childPID' = [j \in Slugs |->
                          IF IsEntryOf(j, c) THEN -1 ELSE childPID[j]]
  BY DEF PollFinds
<1>2. /\ TypeOK /\ Table /\ Racing /\ Entries
      /\ program = "slugrace" /\ state[Root] = "running" /\ pc[Root] = "poll"
      /\ numOfActiveChildren > 0
      /\ numOfActiveChildren' = numOfActiveChildren - 1
      /\ UNCHANGED <<program, n, pc, count, number, rc, code>>
  BY DEF IInv, PollFinds, Running, Racing, memory
<1>3. /\ count \in [Pids -> 0 .. n] /\ n \in Nat
      /\ state \in [Pids -> {"free", "running", "zombie"}]
      /\ parent \in [Pids -> Pids \cup {Outside}]
      /\ childPID \in [Slugs -> Pids \cup {0, -1}]
      /\ numOfActiveChildren \in 0 .. n
  BY <1>2 DEF TypeOK, Statuses
<1>4. Table' /\ c # Root /\ parent[c] = Root /\ state[c] = "zombie"
  BY <1>1, <1>2, ReapKeepsTable
<1>5. TypeOK'
  <2>1. childPID' \in [Slugs -> Pids \cup {0, -1}]
    BY <1>1, <1>3
  <2>2. numOfActiveChildren' \in 0 .. n
    BY <1>2, <1>3
  <2> QED BY <1>1, <1>2, <2>1, <2>2, ReapTyped DEF TypeOK, Slugs
<1>6. Entries'
  <2>1. /\ state' = [state EXCEPT ![c] = "free"]
        /\ parent' = [parent EXCEPT ![c] = Outside]
    BY <1>1 DEF Reap
  <2>2. /\ Children(Root)' = Children(Root) \ {c} /\ c \in Children(Root)
        /\ Descendants' = Descendants \ {c}
    BY <1>3, <1>4, <2>1 DEF Children, Descendants, Outside
  <2>3. /\ count'[Root] = n /\ count[Root] = n
        /\ Forked' = Slugs /\ Forked = Slugs /\ Slugs' = Slugs
    BY <1>2 DEF Racing, Forked, Slugs
  <2>4. PICK e \in Slugs : \A k \in Slugs : childPID[k] = c <=> k = e
    BY <1>2, <2>2, <2>3 DEF Entries
  <2>5. \A j \in Slugs : childPID'[j] = IF j = e THEN -1 ELSE childPID[j]
    <3>1. ASSUME NEW j \in Slugs
          PROVE  IsEntryOf(j, c) <=> j = e
      <4>1. 0 .. j - 1 \subseteq Slugs /\ j \notin 0 .. j - 1
        BY <1>3, <3>1 DEF Slugs
      <4> QED BY <2>4, <4>1 DEF IsEntryOf
    <3> QED BY <1>1, <3>1
  <2>6. \A q \in Descendants' : parent'[q] = Root
    BY <1>2, <1>3, <2>1, <2>2 DEF Entries, Descendants
  <2>7. ASSUME NEW j \in Slugs
        PROVE  childPID'[j] = -1 \/ childPID'[j] \in Children(Root)'
    <3>1. childPID[j] = -1 \/ childPID[j] \in Children(Root)
      BY <1>2, <2>3 DEF Entries
    <3> QED BY <2>2, <2>4, <2>5, <3>1
  <2>8. ASSUME NEW d \in Children(Root)'
        PROVE  \E j \in Slugs :
                 /\ \A k \in Slugs : childPID'[k] = d <=> k = j
                 /\ state'[d] = "running" => count'[d] = j
    <3>1. d \in Children(Root) /\ d # c /\ d \in Pids
      BY <2>2 DEF Children
    <3>2. PICK j \in Slugs :
            /\ \A k \in Slugs : childPID[k] = d <=> k = j
            /\ state[d] = "running" => count[d] = j
      BY <1>2, <2>3, <3>1 DEF Entries
    <3>3. d # -1
      BY <3>1
    <3>4. \A k \in Slugs : childPID'[k] = d <=> k = j
      BY <2>4, <2>5, <3>1, <3>2, <3>3
    <3>5. state'[d] = "running" => count'[d] = j
      BY <1>2, <1>3, <2>1, <3>1, <3>2
    <3> QED BY <3>4, <3>5
  <2>9. /\ IsFiniteSet(Children(Root)')
        /\ Cardinality(Children(Root)') = Cardinality(Children(Root)) - 1
    BY <1>2, <2>2, FS_RemoveElement DEF Entries
  <2>10. Cardinality(Children(Root))' =
           numOfActiveChildren' - (n' - count'[Root])
    <3>1. Cardinality(Children(Root)) = numOfActiveChildren - (n - count[Root])
      BY <1>2 DEF Entries
    <3> QED BY <1>2, <1>3, <2>3, <2>9, <3>1
  <2> QED BY <2>3, <2>6, <2>7, <2>8, <2>9, <2>10 DEF Entries
<1>7. Racing'
  <2>1. state'[Root] = "running"
    BY <1>1, <1>2, <1>3, <1>4 DEF Reap
  <2> QED BY <1>2, <1>6, <2>1 DEF Racing
<1> QED BY <1>2, <1>4, <1>5, <1>7 DEF IInv

LEMMA NoSlugsLeft ==
  ASSUME IInv, program = "slugrace", state[Root] = "running", pc[Root] = "poll",
         numOfActiveChildren = 0
  PROVE  Descendants = {}
<1>1. TypeOK /\ Entries /\ count[Root] = n /\ n \in Int
  BY DEF IInv, Racing, TypeOK, Statuses
<1>2. Cardinality(Children(Root)) = 0
  BY <1>1 DEF Entries
<1>3. Children(Root) = {}
  BY <1>1, <1>2, FS_EmptySet DEF Entries
<1>4. Descendants \subseteq Children(Root)
  BY <1>1 DEF Entries, Descendants, Children
<1> QED BY <1>3, <1>4

LEMMA SlugRaceIInv ==
  ASSUME NEW p \in Pids, IInv, SlugRaceStep(p)
  PROVE  IInv'
<1> USE ProcessesAssumption
<1>1. CASE SlugRaceFork
  BY <1>1, SlugRaceForkIInv
<1>2. CASE SlugRaceForkFails
  BY <1>2, RaceExitIInv DEF SlugRaceForkFails, Running
<1>3. CASE StartPolling
  BY <1>3, RaceMoveIInv DEF StartPolling, Running, Places
<1>4. CASE PollFinds
  BY <1>4, PollFindsIInv
<1>5. CASE PollSleeps
  <2>1. count[Root] = n
    BY <1>5 DEF IInv, Racing, PollSleeps, Running
  <2> QED BY <1>5, <2>1, RaceMoveIInv DEF PollSleeps, Running, Places
<1>6. CASE PrintRacing
  <2>1. count[Root] = n
    BY <1>6 DEF IInv, Racing, PrintRacing, Running
  <2> QED BY <1>6, <2>1, RaceMoveIInv DEF PrintRacing, Running, Places
<1>7. CASE RaceOver
  BY <1>7, NoSlugsLeft, RaceExitIInv DEF RaceOver, Running
<1>8. CASE ExecSlug(p)
  <2>1. p # Root
    BY <1>8 DEF IInv, Racing, ExecSlug, Running
  <2> QED BY <1>8, <2>1, RaceMoveIInv DEF ExecSlug, Running, Places
<1>9. CASE ExecSlugFails(p)
  BY <1>9, SlugExitIInv DEF ExecSlugFails, Running
<1>10. CASE Slug(p)
  BY <1>10, SlugExitIInv DEF Slug, Running
<1> QED BY <1>1, <1>2, <1>3, <1>4, <1>5, <1>6, <1>7, <1>8, <1>9, <1>10
        DEF SlugRaceStep
-----------------------------------------------------------------------------
(* The invariant holds, and what follows from it. *)

LEMMA InitIInv ==
  Init => IInv
<1> SUFFICES ASSUME Init PROVE IInv
  OBVIOUS
<1> USE ProcessesAssumption, FamiliesAssumption
<1>1. program \in Programs /\ n \in Statuses /\ n \in Nat
  BY DEF Init, Statuses
<1>2. 0 \in Statuses /\ 0 \in 0 .. n /\ n \in 0 .. n
  BY <1>1 DEF Statuses
<1>3. TypeOK
  BY <1>1, <1>2 DEF Init, InitRace, TypeOK, Places, Slugs
<1>4. Table
  BY DEF Init, Table, Outside
<1>5. Descendants = {}
  BY DEF Init, Descendants
<1>6. program = "generation" => Chain
  BY <1>5 DEF Init, Chain, Unread
<1>7. program \in {"prolific", "explorer"} => OneChild
  BY <1>5 DEF Init, OneChild
<1>8. program = "slugrace" => Racing
  <2> SUFFICES ASSUME program = "slugrace" PROVE Racing
    OBVIOUS
  <2>1. Children(Root) = {} /\ Forked = {} /\ count[Root] = 0
    <3>1. count[Root] = 0 /\ \A p \in Pids : parent[p] = Outside
      BY DEF Init
    <3>2. Root # Outside
      BY DEF Outside
    <3>3. Children(Root) = {}
      BY <3>1, <3>2 DEF Children
    <3>4. Forked = {}
      BY <3>1 DEF Forked
    <3> QED BY <3>1, <3>3, <3>4
  <2>2. Entries
    BY <1>1, <1>5, <2>1, FS_EmptySet DEF Init, InitRace, Entries, Slugs
  <2> QED BY <1>5, <2>2 DEF Init, Racing, Unread
<1> QED BY <1>3, <1>4, <1>6, <1>7, <1>8 DEF IInv

LEMMA NextIInv ==
  IInv /\ [Next]_vars => IInv'
<1>1. ASSUME IInv, NEW p \in Pids, Step(p)
      PROVE  IInv'
  BY <1>1, SlugRaceIInv, GenerationIInv, ProlificIInv, ExplorerIInv DEF Step
<1>2. ASSUME IInv, UNCHANGED vars
      PROVE  IInv'
  <2>1. TypeOK' /\ Table'
    BY <1>2 DEF IInv, TypeOK, Table, vars, Slugs
  <2>2. Descendants' = Descendants
    BY <1>2 DEF vars, Descendants
  <2>3. program = "generation" => Chain'
    <3>1. \A p : Rank(p)' = Rank(p)
      BY <1>2 DEF vars, Rank
    <3> QED BY <1>2, <2>2, <3>1 DEF IInv, vars, Chain
  <2>4. program \in {"prolific", "explorer"} => OneChild'
    BY <1>2, <2>2 DEF IInv, vars, OneChild, exitCode
  <2>5. program = "slugrace" => Racing'
    BY <1>2, <2>2
       DEF IInv, vars, Racing, Entries, Children, Forked, Slugs
  <2> QED BY <1>2, <2>1, <2>3, <2>4, <2>5 DEF IInv, vars
<1> QED BY <1>1, <1>2 DEF Next

LEMMA SpecInv ==
  Spec => []IInv
BY InitIInv, NextIInv, PTL DEF Spec

\* Every field of the process table and of the processes' memory keeps its type:
\* the lifeSpanCount of a generation never falls below 0, for one.
THEOREM Types ==
  Spec => []TypeOK
<1>1. IInv => TypeOK
  BY DEF IInv
<1> QED BY <1>1, SpecInv, PTL

\* The polling loop of slugrace.c loses no slug and counts none twice, whatever
\* the number of slugs and the order they finish in.
THEOREM RaceCountsEverySlug ==
  Spec => []RaceTable
<1>1. IInv => RaceTable
  <2> SUFFICES ASSUME IInv,
                      \/ Running("slugrace", Root, "poll")
                      \/ Running("slugrace", Root, "usleep")
               PROVE  /\ \A j \in Slugs : childPID[j] = -1
                                          \/ childPID[j] \in Children(Root)
                      /\ \A c \in Children(Root) : \E j \in Slugs :
                           /\ \A k \in Slugs : childPID[k] = c <=> k = j
                           /\ state[c] = "running" => count[c] = j
                      /\ numOfActiveChildren = Cardinality(Children(Root))
    BY DEF RaceTable
  <2>1. TypeOK /\ Entries /\ count[Root] = n /\ n \in Int
    BY DEF IInv, Racing, Running, TypeOK, Statuses
  <2>2. Forked = Slugs /\ numOfActiveChildren \in Int
    BY <2>1 DEF Forked, Slugs, TypeOK
  <2> QED BY <2>1, <2>2 DEF Entries
<1> QED BY <1>1, SpecInv, PTL

\* In the other programs each process is waited for by its parent, and by
\* nobody else.
THEOREM ParentsWait ==
  Spec => []OneAtATime
<1>1. IInv => OneAtATime
  <2> SUFFICES ASSUME IInv, program # "slugrace",
                      NEW p \in Pids \ {Root}, state[p] # "free"
               PROVE  /\ parent[p] \in Pids
                      /\ Running(program, parent[p], "wait")
                      /\ rc[parent[p]] = p
    BY DEF OneAtATime
  <2>1. p \in Descendants /\ parent[p] \in Pids \cup {Outside} /\ Table
    BY DEF Descendants, IInv, TypeOK
  <2>2. parent[p] # Outside /\ pc[parent[p]] = "wait" /\ rc[parent[p]] = p
    <3>1. program \in {"generation", "prolific", "explorer"}
      BY DEF IInv, TypeOK, Programs
    <3>2. Root # Outside
      BY ProcessesAssumption DEF Outside
    <3> QED BY <2>1, <3>1, <3>2 DEF IInv, Chain, OneChild
  <2> QED BY <2>1, <2>2 DEF Table, Running
<1> QED BY <1>1, SpecInv, PTL

\* A program that returns has reaped all its descendants: in a generation the
\* root could only end as the last of them all.
THEOREM NoProcessIsLeft ==
  Spec => []LeavesNoProcess
<1>1. IInv => LeavesNoProcess
  <2> SUFFICES ASSUME IInv, state[Root] = "zombie",
                      ~ (program = "slugrace" /\ status[Root] = 1)
               PROVE  Descendants = {}
    BY DEF LeavesNoProcess, Descendants
  <2>1. TypeOK /\ Table /\ pc[Root] = "ended"
    BY ProcessesAssumption DEF IInv, Table
  <2>2. CASE program = "generation"
    <3> SUFFICES ASSUME NEW q \in Descendants PROVE FALSE
      OBVIOUS
    <3>1. Chain
      BY <2>2 DEF IInv
    <3>2. Rank(q) > Rank(Root) /\ Rank(Root) = n
      BY <2>1, <3>1, Ranks DEF Chain, Rank
    <3>3. Rank(q) \in Int /\ Rank(q) <= n /\ n \in Int
      BY <2>1, <3>1, Ranks DEF TypeOK, Statuses
    <3> QED BY <3>2, <3>3
  <2>3. CASE program \in {"prolific", "explorer"}
    BY <2>1, <2>3, OneChildOfRoot DEF IInv
  <2>4. CASE program = "slugrace"
    BY <2>4 DEF IInv, Racing
  <2> QED BY <2>2, <2>3, <2>4 DEF IInv, TypeOK, Programs
<1> QED BY <1>1, SpecInv, PTL

\* What a parent reads with WEXITSTATUS is what its own child may have passed
\* on, although its process id may have belonged to other children before; 1 for
\* a failed fork is never read of a descendant that has nobody to fork.
THEOREM ParentsReadTheirChild ==
  Spec => []CodesRead
<1>1. IInv => CodesRead
  <2> SUFFICES ASSUME IInv, NEW p \in Pids, code[p] # Unread, pc[p] # "wait"
               PROVE  /\ program = "generation" =>
                           code[p] \in Outcomes(count[p] - 1)
                      /\ program = "prolific" /\ pc[p] = "fork" =>
                           code[p] = exitCode(p)
    BY DEF CodesRead, lifeSpanCount
  <2>1. program = "generation" => code[p] \in Outcomes(count[p] - 1)
    BY DEF IInv, Chain
  <2>2. program = "prolific" /\ pc[p] = "fork" => code[p] = exitCode(p)
    BY DEF IInv, OneChild
  <2> QED BY <2>1, <2>2
<1> QED BY <1>1, SpecInv, PTL
-----------------------------------------------------------------------------
(* The families of generation.c, prolific.c and explorer.c end. *)

Family == Descendants \cup {Root}

\* The process of a family that does not wait for another one.
Active == CHOOSE p \in Family : pc[p] # "wait"

\* How many steps a family has left, at most.  A generation grows down to the
\* count 0 or to a fork that fails, then each process returns and is waited for.
GenerationLeft ==
  IF pc[Active] = "fork" THEN 3 * n + 3 + 2 * Rank(Active)
  ELSE 3 * (n - Rank(Active)) + (IF pc[Active] = "return" THEN 2 ELSE 1)

\* The others fork, let run and wait for a child as often as they still are to.
OneChildLeft ==
  CASE pc[Root] = "fork" -> 3 * (n - count[Root]) + 1
    [] pc[Root] = "wait" ->
         3 * (n - count[Root]) - (IF state[Active] = "zombie" THEN 1 ELSE 0)
    [] OTHER -> 0

StepsLeft == IF program = "generation" THEN GenerationLeft ELSE OneChildLeft

\* There is one process at most that does not wait.
LEMMA ActiveIs ==
  IInv /\ program # "slugrace" =>
    \A p \in Family : pc[p] # "wait" => Active = p
<1> SUFFICES ASSUME IInv, program # "slugrace", NEW p \in Family, pc[p] # "wait"
             PROVE  Active = p
  OBVIOUS
<1>1. ASSUME NEW q \in Family, pc[q] # "wait"
      PROVE  q = p
  <2>1. CASE program = "generation"
    <3>1. TypeOK /\ Table /\ Chain
      BY <2>1 DEF IInv
    <3>2. /\ Rank(p) \in Int /\ Rank(q) \in Int
          /\ p # q => Rank(q) > Rank(p) /\ Rank(p) > Rank(q)
      BY <1>1, <3>1, Ranks DEF Chain, Family
    <3> QED BY <3>2
  <2>2. CASE program # "generation"
    <3>1. TypeOK /\ Table /\ OneChild
      BY <2>2 DEF IInv, TypeOK, Programs
    <3>2. CASE pc[Root] = "wait"
      BY <1>1, <3>1, <3>2 DEF OneChild, Family
    <3>3. CASE pc[Root] # "wait"
      BY <1>1, <3>1, <3>3, OneChildOfRoot DEF Family
    <3> QED BY <3>2, <3>3
  <2> QED BY <2>1, <2>2
<1> QED BY <1>1 DEF Active

LEMMA ActiveWillBe ==
  (IInv /\ program # "slugrace" =>
     \A p \in Family : pc[p] # "wait" => Active = p)'
BY ActiveIs, PTL

\* The process that does not wait exits.
LEMMA ExitOfActive ==
  ASSUME NEW p \in Pids, NEW s \in Statuses, IInv, IInv',
         program # "slugrace", state[p] = "running", pc[p] # "wait",
         Exit(p, s), UNCHANGED <<program, n>>
  PROVE  /\ p \in Family /\ Active = p /\ Active' = p
         /\ state' = [state EXCEPT ![p] = "zombie"] /\ parent' = parent
         /\ pc' = [pc EXCEPT ![p] = "ended"]
         /\ count' = [count EXCEPT ![p] = 0]
<1>1. TypeOK /\ Table
  BY DEF IInv
<1>2. p \in Family
  BY DEF Family, Descendants
<1>3. Children(p) = {} /\ (p = Root \/ parent[p] # Outside)
  <2>1. CASE program = "generation"
    <3>1. Chain
      BY <2>1 DEF IInv
    <3> QED BY <1>1, <3>1, ChainChildren
  <2>2. CASE program # "generation"
    <3>1. OneChild
      BY <1>1, <2>2 DEF IInv, TypeOK, Programs
    <3> QED BY <1>1, <3>1, OneChildOfRoot
  <2> QED BY <2>1, <2>2
<1>4. state' = [state EXCEPT ![p] = "zombie"] /\ parent' = parent
  BY <1>1, <1>3, ExitOfTheYoungest
<1>5. pc' = [pc EXCEPT ![p] = "ended"] /\ count' = [count EXCEPT ![p] = 0]
  BY DEF Exit
<1>6. p \in Family' /\ pc'[p] # "wait"
  BY <1>1, <1>4, <1>5 DEF Family, Descendants, TypeOK
<1> QED BY <1>2, <1>4, <1>5, <1>6, ActiveIs, ActiveWillBe

LEMMA GenerationFalls ==
  ASSUME NEW p \in Pids, IInv, IInv', GenerationStep(p), UNCHANGED race
  PROVE  GenerationLeft' < GenerationLeft
<1> USE ProcessesAssumption
<1>1. /\ TypeOK /\ Table /\ Chain
      /\ program = "generation" /\ UNCHANGED <<program, n>>
      /\ state[p] = "running" /\ p \in Family
  BY DEF GenerationStep, GenerationFork, GenerationForkFails, GenerationWait,
         GenerationReturn, Running, IInv, Family, Descendants
<1>2. /\ pc \in [Pids -> Places] /\ count \in [Pids -> 0 .. n] /\ n \in Nat
      /\ state \in [Pids -> {"free", "running", "zombie"}]
  BY <1>1 DEF TypeOK, Statuses
<1>3. Rank(p) = count[p] /\ Rank(p) \in 0 .. n
  BY <1>1, <1>2 DEF Rank, Chain, TypeOK
<1>4. CASE GenerationFork(p)
  <2>1. PICK c \in Pids :
          /\ ForkTable(p, c)
          /\ count' = [count EXCEPT ![c] = count[p] - 1]
          /\ pc' = [pc EXCEPT ![p] = "wait", ![c] = "fork"]
    BY <1>4 DEF GenerationFork, lifeSpanCount
  <2>2. c # Root /\ c # p /\ pc[p] = "fork" /\ state'[c] = "running"
    BY <1>1, <1>2, <1>4, <2>1 DEF GenerationFork, Running, ForkTable, Table
  <2>3. Active = p /\ Active' = c
    <3>1. c \in Family' /\ pc'[c] = "fork"
      BY <1>2, <2>1, <2>2 DEF Family, Descendants
    <3> QED BY <1>1, <2>2, <3>1, ActiveIs, ActiveWillBe
  <2>4. Rank(c)' = count[p] - 1
    BY <1>2, <2>1, <2>2 DEF Rank
  <2>5. GenerationLeft = 3 * n + 3 + 2 * count[p]
    BY <1>3, <2>2, <2>3 DEF GenerationLeft
  <2>6. GenerationLeft' = 3 * n + 3 + 2 * (count[p] - 1)
    <3>1. pc'[c] = "fork" /\ Rank(Active)' = count[p] - 1
      BY <1>2, <2>1, <2>2, <2>3, <2>4 DEF Rank
    <3> QED BY <1>1, <2>3, <3>1 DEF GenerationLeft
  <2> QED BY <1>3, <1>2, <2>5, <2>6
<1>5. ASSUME NEW s \in Statuses, Exit(p, s), pc[p] \in {"fork", "return"}
      PROVE  GenerationLeft' < GenerationLeft
  <2>1. /\ Active = p /\ Active' = p
        /\ state' = [state EXCEPT ![p] = "zombie"] /\ parent' = parent
        /\ pc' = [pc EXCEPT ![p] = "ended"]
        /\ count' = [count EXCEPT ![p] = 0]
    BY <1>1, <1>5, ExitOfActive
  <2>2. Rank(Active)' = Rank(p)
    <3>1. CASE p = Root
      BY <1>1, <2>1, <3>1 DEF Rank
    <3>2. CASE p # Root
      <4>1. /\ p \in Descendants /\ parent[p] \in Pids /\ parent[p] # p
            /\ count[p] = count[parent[p]] - 1
        BY <1>1, <3>2 DEF Chain, Table, Descendants, TypeOK
      <4>2. Rank(Active)' = count'[parent[p]] - 1
        BY <1>2, <2>1, <3>2 DEF Rank
      <4>3. count'[parent[p]] = count[parent[p]]
        BY <1>2, <2>1, <4>1
      <4> QED BY <1>3, <4>1, <4>2, <4>3
    <3> QED BY <3>1, <3>2
  <2>3. GenerationLeft' = 3 * (n - Rank(p)) + 1
    <3>1. pc'[p] = "ended"
      BY <1>2, <2>1
    <3> QED BY <1>1, <2>1, <2>2, <3>1 DEF GenerationLeft
  <2>4. GenerationLeft \in {3 * n + 3 + 2 * Rank(p), 3 * (n - Rank(p)) + 2}
    BY <1>5, <2>1 DEF GenerationLeft
  <2> DEFINE r == Rank(p)
  <2>5. r \in 0 .. n
    BY <1>3
  <2> HIDE DEF r
  <2>6. 3 * (n - r) + 1 < 3 * n + 3 + 2 * r /\ 3 * (n - r) + 1 < 3 * (n - r) + 2
    BY <1>2, <2>5
  <2> QED BY <2>3, <2>4, <2>6 DEF r
<1>6. CASE GenerationWait(p)
  <2> DEFINE c == rc[p]
  <2>1. /\ Reap(p, c) /\ pc' = [pc EXCEPT ![p] = "return"]
        /\ UNCHANGED count /\ pc[p] = "wait"
    BY <1>6 DEF GenerationWait, Running
  <2>2. /\ c \in Pids /\ c # p /\ c # Root /\ state[c] = "zombie"
        /\ parent[c] = p /\ pc[c] = "ended"
    <3>1. c \in Pids /\ parent[c] = p /\ state[c] = "zombie"
      BY <2>1 DEF Reap, Zombies, Children
    <3>2. pc[c] = "ended" /\ c # p
      BY <1>1, <3>1 DEF Table
    <3>3. c # Root
      BY <1>1, <3>1 DEF Table, Outside
    <3> QED BY <3>1, <3>2, <3>3
  <2> HIDE DEF c
  <2>3. Active = c
    BY <1>1, <2>2, ActiveIs DEF Family, Descendants
  <2>4. /\ state' = [state EXCEPT ![c] = "free"] /\ pc'[p] = "return"
        /\ state'[p] = "running"
    BY <1>1, <1>2, <2>1, <2>2 DEF Reap
  <2>5. Active' = p
    <3>1. p \in Family' /\ pc'[p] # "wait"
      BY <1>1, <2>4 DEF Family, Descendants
    <3> QED BY <1>1, <3>1, ActiveWillBe
  <2>6. GenerationLeft = 3 * (n - (count[p] - 1)) + 1
    BY <2>2, <2>3 DEF GenerationLeft, Rank
  <2>7. GenerationLeft' = 3 * (n - count[p]) + 2
    <3>1. Rank(Active)' = count[p]
      BY <1>1, <1>3, <2>1, <2>4, <2>5 DEF Rank
    <3> QED BY <1>1, <2>4, <2>5, <3>1 DEF GenerationLeft
  <2> QED BY <1>2, <1>3, <2>6, <2>7
<1>7. CASE GenerationForkFails(p)
  <2>1. 1 \in Statuses
    BY DEF Statuses
  <2> QED BY <1>5, <1>7, <2>1 DEF GenerationForkFails, Running
<1>8. CASE GenerationReturn(p)
  <2>1. count[p] \in Statuses
    <3>1. n \in 0 .. 255 /\ count[p] \in 0 .. n
      BY <1>1, <1>2 DEF TypeOK, Statuses
    <3> QED BY <3>1 DEF Statuses
  <2> QED BY <1>5, <1>8, <2>1 DEF GenerationReturn, Running, lifeSpanCount
<1> QED BY <1>4, <1>6, <1>7, <1>8 DEF GenerationStep

LEMMA OneChildFalls ==
  ASSUME NEW p \in Pids, IInv, IInv', ProlificStep(p) \/ ExplorerStep(p),
         UNCHANGED race
  PROVE  OneChildLeft' < OneChildLeft
<1> USE ProcessesAssumption
<1>1. program \in OneChildPrograms /\ UNCHANGED <<program, n>>
  BY DEF ProlificStep, ExplorerStep, ProlificFork, ProlificChild, ProlificWait,
         ProlificReturn, ExplorerFork, ExplorerChild, ExplorerWait,
         ExplorerReturn, Running, ForkNext, ForkNextFails, WaitForIt,
         OneChildPrograms
<1>2. TypeOK /\ Table /\ OneChild /\ program # "slugrace"
  BY <1>1 DEF IInv, OneChildPrograms
<1>3. /\ pc \in [Pids -> Places] /\ count \in [Pids -> 0 .. n] /\ n \in Nat
      /\ state \in [Pids -> {"free", "running", "zombie"}]
  BY <1>2 DEF TypeOK, Statuses
<1>4. ASSUME NEW c \in Pids, NEW place \in {"child", "exec"},
             pc[Root] = "fork", state[Root] = "running", count[Root] < n,
             ForkNext(Root, c, place)
      PROVE  OneChildLeft' < OneChildLeft
  <2>1. /\ c # Root /\ pc'[Root] = "wait" /\ count'[Root] = count[Root]
    BY <1>3, <1>4 DEF ForkNext, ForkTable
  <2>2. OneChildLeft = 3 * (n - count[Root]) + 1
    BY <1>4 DEF OneChildLeft
  <2>3. OneChildLeft' = 3 * (n - count[Root])
                          - (IF state'[Active'] = "zombie" THEN 1 ELSE 0)
    BY <1>1, <2>1 DEF OneChildLeft
  <2> QED BY <1>3, <2>2, <2>3
<1>5. ASSUME NEW s \in Statuses, pc[Root] = "fork", state[Root] = "running",
             Exit(Root, s)
      PROVE  OneChildLeft' < OneChildLeft
  <2>1. pc'[Root] = "ended"
    BY <1>3, <1>5 DEF Exit
  <2>2. OneChildLeft' = 0
    BY <2>1 DEF OneChildLeft
  <2>3. OneChildLeft = 3 * (n - count[Root]) + 1
    BY <1>5 DEF OneChildLeft
  <2> QED BY <1>3, <2>2, <2>3
<1>6. ASSUME NEW s \in Statuses, pc[p] \in {"child", "exec"},
             state[p] = "running", Exit(p, s)
      PROVE  OneChildLeft' < OneChildLeft
  <2>1. p # Root /\ p \in Descendants /\ pc[Root] = "wait"
    BY <1>2, <1>6 DEF OneChild, Descendants
  <2>2. /\ Active = p /\ Active' = p
        /\ state' = [state EXCEPT ![p] = "zombie"]
        /\ pc' = [pc EXCEPT ![p] = "ended"]
        /\ count' = [count EXCEPT ![p] = 0]
    BY <1>1, <1>2, <1>6, ExitOfActive
  <2>3. pc'[Root] = "wait" /\ count'[Root] = count[Root] /\ state'[p] = "zombie"
    BY <1>3, <2>1, <2>2
  <2>4. OneChildLeft = 3 * (n - count[Root])
    BY <1>3, <1>6, <2>1, <2>2 DEF OneChildLeft
  <2>5. OneChildLeft' = 3 * (n - count[Root]) - 1
    BY <1>1, <2>2, <2>3 DEF OneChildLeft
  <2> QED BY <1>3, <2>4, <2>5
<1>7. ASSUME pc[Root] = "wait", WaitForIt(Root)
      PROVE  OneChildLeft' < OneChildLeft
  <2>1. pc'[Root] = "fork" /\ count'[Root] = count[Root] + 1
    BY <1>3, <1>7 DEF WaitForIt
  <2>2. OneChildLeft = 3 * (n - count[Root])
                         - (IF state[Active] = "zombie" THEN 1 ELSE 0)
    BY <1>7 DEF OneChildLeft
  <2>3. OneChildLeft' = 3 * (n - (count[Root] + 1)) + 1
    BY <1>1, <2>1 DEF OneChildLeft
  <2> QED BY <1>3, <2>2, <2>3
<1>8. CASE ProlificStep(p)
  <2>1. 0 \in Statuses /\ 1 \in Statuses /\ exitCode(p) \in Statuses
    BY <1>2, ExitCodes DEF Statuses
  <2>2. CASE ProlificFork
    BY <1>4, <1>5, <2>1, <2>2 DEF ProlificFork, Running, ForkNextFails
  <2>3. CASE ProlificWait
    BY <1>7, <2>3 DEF ProlificWait, Running
  <2>4. CASE ProlificReturn
    BY <1>5, <2>1, <2>4 DEF ProlificReturn, Running
  <2>5. CASE ProlificChild(p)
    BY <1>6, <2>1, <2>5 DEF ProlificChild, Running
  <2> QED BY <1>8, <2>2, <2>3, <2>4, <2>5 DEF ProlificStep
<1>9. CASE ExplorerStep(p)
  <2>1. 0 \in Statuses /\ 1 \in Statuses /\ {0, 1, 2} \subseteq Statuses
    BY DEF Statuses
  <2>2. CASE ExplorerFork
    BY <1>4, <1>5, <2>1, <2>2 DEF ExplorerFork, Running, ForkNextFails
  <2>3. CASE ExplorerWait
    BY <1>7, <2>3 DEF ExplorerWait, Running
  <2>4. CASE ExplorerReturn
    BY <1>5, <2>1, <2>4 DEF ExplorerReturn, Running
  <2>5. CASE ExplorerChild(p)
    BY <1>6, <2>1, <2>5 DEF ExplorerChild, Running
  <2> QED BY <1>9, <2>2, <2>3, <2>4, <2>5 DEF ExplorerStep
<1> QED BY <1>8, <1>9

\* Somebody in the family can go on, or has ended: they never all wait for one
\* another, and nobody waits for a process that is not there.
SomebodyWorks == program # "slugrace" => \E p \in Family : pc[p] # "wait"

LEMMA SomebodyWorksStep ==
  ASSUME NEW p \in Pids, IInv, IInv', Step(p), program # "slugrace"
  PROVE  SomebodyWorks'
<1> USE ProcessesAssumption
<1>1. TypeOK
  BY DEF IInv
<1>2. /\ pc \in [Pids -> Places]
      /\ state \in [Pids -> {"free", "running", "zombie"}]
  BY <1>1 DEF TypeOK
<1>3. GenerationStep(p) \/ ProlificStep(p) \/ ExplorerStep(p)
  BY DEF Step, SlugRaceStep, SlugRaceFork, SlugRaceForkFails, StartPolling,
         PollFinds, PollSleeps, PrintRacing, RaceOver, ExecSlug, ExecSlugFails,
         Slug, Running
<1>4. state[p] = "running" /\ UNCHANGED <<program, n>>
  BY <1>3 DEF GenerationStep, GenerationFork, GenerationForkFails,
         GenerationWait, GenerationReturn, ProlificStep, ExplorerStep,
         ProlificFork, ProlificChild, ProlificWait, ProlificReturn,
         ExplorerFork, ExplorerChild, ExplorerWait, ExplorerReturn, Running,
         ForkNext, ForkNextFails, WaitForIt
<1>5. ASSUME NEW q \in Pids, state'[q] # "free", pc'[q] # "wait"
      PROVE  SomebodyWorks'
  BY <1>5 DEF SomebodyWorks, Family, Descendants
<1>6. ASSUME NEW s \in Statuses, Exit(p, s), pc[p] # "wait"
      PROVE  SomebodyWorks'
  <2>1. /\ state' = [state EXCEPT ![p] = "zombie"]
        /\ pc' = [pc EXCEPT ![p] = "ended"]
    BY <1>4, <1>6, ExitOfActive
  <2> QED BY <1>2, <1>5, <2>1
<1>7. ASSUME NEW c \in Pids, ForkTable(p, c),
             pc' = [pc EXCEPT ![p] = "wait", ![c] = "fork"]
             \/ pc' = [pc EXCEPT ![p] = "wait", ![c] = "child"]
             \/ pc' = [pc EXCEPT ![p] = "wait", ![c] = "exec"]
      PROVE  SomebodyWorks'
  <2>1. state'[c] = "running" /\ pc'[c] \in {"fork", "child", "exec"}
    BY <1>2, <1>7 DEF ForkTable
  <2> QED BY <1>5, <2>1
<1>8. ASSUME NEW c, Reap(p, c), pc' = [pc EXCEPT ![p] = "return"]
                                \/ pc' = [pc EXCEPT ![p] = "fork"]
      PROVE  SomebodyWorks'
  <2>1. state'[p] = "running" /\ pc'[p] \in {"return", "fork"}
    BY <1>2, <1>4, <1>8 DEF Reap, Zombies, Children
  <2> QED BY <1>5, <2>1
<1>9. 0 \in Statuses /\ 1 \in Statuses /\ {0, 1, 2} \subseteq Statuses
      /\ exitCode(p) \in Statuses /\ count[p] \in Statuses
  <2>1. n \in 0 .. 255 /\ count[p] \in 0 .. n
    BY <1>1 DEF TypeOK, Statuses
  <2>2. {0, 1, 2} \subseteq Statuses /\ count[p] \in Statuses
    BY <2>1 DEF Statuses
  <2>3. exitCode(p) \in Statuses
    BY <1>1, ExitCodes
  <2> QED BY <2>2, <2>3
<1>10. CASE GenerationStep(p)
  <2>1. CASE GenerationFork(p)
    BY <1>7, <2>1 DEF GenerationFork
  <2>2. CASE GenerationForkFails(p) \/ GenerationReturn(p)
    BY <1>6, <1>9, <2>2
       DEF GenerationForkFails, GenerationReturn, Running, lifeSpanCount
  <2>3. CASE GenerationWait(p)
    BY <1>8, <2>3 DEF GenerationWait
  <2> QED BY <1>10, <2>1, <2>2, <2>3 DEF GenerationStep
<1>11. CASE ProlificStep(p)
  <2>1. CASE p = Root /\ ProlificFork
    BY <1>6, <1>7, <1>9, <2>1 DEF ProlificFork, ForkNext, ForkNextFails, Running
  <2>2. CASE ProlificChild(p) \/ (p = Root /\ ProlificReturn)
    BY <1>6, <1>9, <2>2 DEF ProlificChild, ProlificReturn, Running
  <2>3. CASE p = Root /\ ProlificWait
    BY <1>8, <2>3 DEF ProlificWait, WaitForIt
  <2> QED BY <1>11, <2>1, <2>2, <2>3 DEF ProlificStep
<1>12. CASE ExplorerStep(p)
  <2>1. CASE p = Root /\ ExplorerFork
    BY <1>6, <1>7, <1>9, <2>1 DEF ExplorerFork, ForkNext, ForkNextFails, Running
  <2>2. CASE ExplorerChild(p) \/ (p = Root /\ ExplorerReturn)
    BY <1>6, <1>9, <2>2 DEF ExplorerChild, ExplorerReturn, Running
  <2>3. CASE p = Root /\ ExplorerWait
    BY <1>8, <2>3 DEF ExplorerWait, WaitForIt
  <2> QED BY <1>12, <2>1, <2>2, <2>3 DEF ExplorerStep
<1> QED BY <1>3, <1>10, <1>11, <1>12

LEMMA StepsLeftFall ==
  ASSUME NEW p \in Pids, IInv, IInv', Step(p), program # "slugrace"
  PROVE  StepsLeft' < StepsLeft
<1>1. \/ GenerationStep(p) /\ UNCHANGED race
      \/ (ProlificStep(p) \/ ExplorerStep(p)) /\ UNCHANGED race
  BY DEF Step, SlugRaceStep, SlugRaceFork, SlugRaceForkFails, StartPolling,
         PollFinds, PollSleeps, PrintRacing, RaceOver, ExecSlug, ExecSlugFails,
         Slug, Running
<1>2. CASE GenerationStep(p) /\ UNCHANGED race
  <2>1. program = "generation" /\ program' = program
    BY <1>2 DEF GenerationStep, GenerationFork, GenerationForkFails,
                GenerationWait, GenerationReturn, Running
  <2>2. StepsLeft = GenerationLeft /\ StepsLeft' = GenerationLeft'
    BY <2>1 DEF StepsLeft
  <2> QED BY <1>2, <2>2, GenerationFalls
<1>3. CASE (ProlificStep(p) \/ ExplorerStep(p)) /\ UNCHANGED race
  <2>1. program # "generation" /\ program' = program
    BY <1>3 DEF ProlificStep, ExplorerStep, ProlificFork, ProlificChild,
         ProlificWait, ProlificReturn, ExplorerFork, ExplorerChild,
         ExplorerWait, ExplorerReturn, Running, ForkNext, ForkNextFails,
         WaitForIt
  <2>2. StepsLeft = OneChildLeft /\ StepsLeft' = OneChildLeft'
    BY <2>1 DEF StepsLeft
  <2> QED BY <1>3, <2>2, OneChildFalls
<1> QED BY <1>1, <1>2, <1>3

\* What the number starts at.
LEMMA StepsAtFirst ==
  Init => /\ program = "generation" => StepsLeft = 5 * n + 3
          /\ program \in OneChildPrograms => StepsLeft = 3 * n + 1
<1> SUFFICES ASSUME Init
             PROVE  /\ program = "generation" => StepsLeft = 5 * n + 3
                    /\ program \in OneChildPrograms => StepsLeft = 3 * n + 1
  OBVIOUS
<1> USE ProcessesAssumption
<1>1. /\ pc[Root] = "fork" /\ n \in Nat
      /\ program # "generation" => count[Root] = 0
  BY InitIInv DEF Init, IInv, TypeOK, Statuses
<1>2. program # "slugrace" => Active = Root
  BY <1>1, InitIInv, ActiveIs DEF Family
<1>3. CASE program = "generation"
  <2>1. StepsLeft = 3 * n + 3 + 2 * n
    BY <1>1, <1>2, <1>3 DEF StepsLeft, GenerationLeft, Rank
  <2> QED BY <1>1, <1>3, <2>1 DEF OneChildPrograms
<1>4. CASE program # "generation"
  <2>1. StepsLeft = 3 * (n - 0) + 1
    BY <1>1, <1>4 DEF StepsLeft, OneChildLeft
  <2> QED BY <1>1, <1>4, <2>1
<1> QED BY <1>3, <1>4

LEMMA StepsLeftType ==
  IInv /\ SomebodyWorks /\ program # "slugrace" => StepsLeft \in Nat
<1> SUFFICES ASSUME IInv, SomebodyWorks, program # "slugrace"
             PROVE  StepsLeft \in Nat
  OBVIOUS
<1> USE ProcessesAssumption
<1>1. /\ TypeOK /\ Table /\ n \in Nat /\ count \in [Pids -> 0 .. n]
  BY DEF IInv, TypeOK, Statuses
<1>2. CASE program = "generation"
  <2>1. Chain
    BY <1>2 DEF IInv
  <2>2. Active \in Family
    BY DEF Active, SomebodyWorks
  <2>3. Rank(Active) \in Int /\ Rank(Active) <= n
    BY <1>1, <2>1, <2>2, Ranks DEF Family
  <2>4. pc[Active] = "fork" => Rank(Active) >= 0
    <3>1. CASE Active = Root
      BY <1>1, <3>1 DEF Rank
    <3>2. CASE Active # Root /\ pc[Active] = "fork"
      <4>1. Active \in Pids /\ state[Active] = "running"
        BY <1>1, <2>2, <3>2 DEF Family, Descendants, Table
      <4> QED BY <1>1, <3>2, <4>1 DEF Rank
    <3> QED BY <3>1, <3>2
  <2> DEFINE r == Rank(Active)
  <2>5. CASE pc[Active] = "fork"
    <3>1. StepsLeft = 3 * n + 3 + 2 * r
      BY <1>2, <2>5 DEF StepsLeft, GenerationLeft
    <3>2. r \in Nat
      BY <2>3, <2>4, <2>5
    <3> HIDE DEF r
    <3> QED BY <1>1, <3>1, <3>2
  <2>6. CASE pc[Active] # "fork"
    <3>1. StepsLeft \in {3 * (n - r) + 2, 3 * (n - r) + 1}
      BY <1>2, <2>6 DEF StepsLeft, GenerationLeft
    <3>2. r \in Int /\ r <= n
      BY <2>3
    <3> HIDE DEF r
    <3> QED BY <1>1, <3>1, <3>2
  <2> QED BY <2>5, <2>6
<1>3. CASE program # "generation"
  <2>1. OneChild
    BY <1>1, <1>3 DEF IInv, TypeOK, Programs
  <2>2. count[Root] \in 0 .. n
    BY <1>1
  <2>3. CASE pc[Root] = "fork"
    <3>1. StepsLeft = 3 * (n - count[Root]) + 1
      BY <1>3, <2>3 DEF StepsLeft, OneChildLeft
    <3> QED BY <1>1, <2>2, <3>1
  <2>4. CASE pc[Root] = "wait"
    <3>1. count[Root] < n
      BY <2>1, <2>4 DEF OneChild
    <3>2. StepsLeft = 3 * (n - count[Root])
                        - (IF state[Active] = "zombie" THEN 1 ELSE 0)
      BY <1>3, <2>4 DEF StepsLeft, OneChildLeft
    <3> QED BY <1>1, <2>2, <3>1, <3>2
  <2>5. CASE pc[Root] = "ended"
    BY <1>3, <2>5 DEF StepsLeft, OneChildLeft
  <2> QED BY <2>1, <2>3, <2>4, <2>5 DEF OneChild
<1> QED BY <1>2, <1>3

\* In generation.c, prolific.c and explorer.c the processes never all wait: the
\* one that does not is running, or has ended and is waited for.
THEOREM NotAllWait ==
  Spec => []SomebodyWorks
<1>1. Init => SomebodyWorks
  BY ProcessesAssumption DEF Init, SomebodyWorks, Family
<1>2. IInv /\ IInv' /\ SomebodyWorks /\ [Next]_vars => SomebodyWorks'
  <2>1. CASE UNCHANGED vars
    BY <2>1 DEF vars, SomebodyWorks, Family, Descendants
  <2>2. ASSUME IInv, IInv', NEW p \in Pids, Step(p)
        PROVE  SomebodyWorks'
    <3>1. CASE program # "slugrace"
      BY <2>2, <3>1, SomebodyWorksStep
    <3>2. CASE program = "slugrace"
      <4>1. program' = "slugrace"
        BY <2>2, <3>2 DEF Step, SlugRaceStep, SlugRaceFork, SlugRaceForkFails,
             StartPolling, PollFinds, PollSleeps, PrintRacing, RaceOver,
             ExecSlug, ExecSlugFails, Slug, GenerationStep, GenerationFork,
             GenerationForkFails, GenerationWait, GenerationReturn,
             ProlificStep, ExplorerStep, ProlificFork, ProlificChild,
             ProlificWait, ProlificReturn, ExplorerFork, ExplorerChild,
             ExplorerWait, ExplorerReturn, Running
      <4> QED BY <4>1 DEF SomebodyWorks
    <3> QED BY <3>1, <3>2
  <2> QED BY <2>1, <2>2 DEF Next
<1> QED BY <1>1, <1>2, SpecInv, PTL DEF Spec

\* A family of n has at most 5 * n + 3 steps to take at first, or 3 * n + 1 when
\* it is one of a parent and its children; each step leaves it fewer.
FamilyEnds ==
  /\ program = "generation" => StepsLeft = 5 * n + 3
  /\ program \in OneChildPrograms => StepsLeft = 3 * n + 1
  /\ [][program # "slugrace" =>
          StepsLeft \in Nat /\ StepsLeft' \in Nat /\ StepsLeft' < StepsLeft]_vars

\* What is behind Ends, but for slugrace, whose parent polls as long as its slugs
\* take: a family takes at most that number of steps, the failures of fork included.
THEOREM FamiliesEnd ==
  Spec => FamilyEnds
<1>1. IInv /\ IInv' /\ SomebodyWorks /\ SomebodyWorks' /\ [Next]_vars =>
        [program # "slugrace" =>
           StepsLeft \in Nat /\ StepsLeft' \in Nat /\ StepsLeft' < StepsLeft]_vars
  <2> SUFFICES ASSUME IInv, IInv', SomebodyWorks, SomebodyWorks',
                      NEW p \in Pids, Step(p), program # "slugrace"
               PROVE  StepsLeft \in Nat /\ StepsLeft' \in Nat
                      /\ StepsLeft' < StepsLeft
    BY DEF Next
  <2>1. StepsLeft \in Nat
    BY StepsLeftType
  <2>2. (IInv /\ SomebodyWorks /\ program # "slugrace" => StepsLeft \in Nat)'
    BY StepsLeftType, PTL
  <2>3. program' = program
    BY DEF Step, SlugRaceStep, SlugRaceFork, SlugRaceForkFails,
           StartPolling, PollFinds, PollSleeps, PrintRacing, RaceOver,
           ExecSlug, ExecSlugFails, Slug, GenerationStep, GenerationFork,
           GenerationForkFails, GenerationWait, GenerationReturn,
           ProlificStep, ExplorerStep, ProlificFork, ProlificChild,
           ProlificWait, ProlificReturn, ExplorerFork, ExplorerChild,
           ExplorerWait, ExplorerReturn, Running, ForkNext, ForkNextFails,
           WaitForIt
  <2> QED BY <2>1, <2>2, <2>3, StepsLeftFall
<1> QED BY <1>1, StepsAtFirst, SpecInv, NotAllWait, PTL DEF Spec, FamilyEnds
=============================================================================
