------------------------------- MODULE Shipping -----------------------------
(***************************************************************************)
(* What FedOops does to its packages, with no members, semaphores or       *)
(* fairness: teams pick packages up in the order of the queue, one at a    *)
(* time, reserve every station on a package's list at once, visit them in  *)
(* the order of the list, leave each one before the next, and ship.        *)
(* Source: Project 2/Question2/problem2_explanation.txt, as teamMember.c   *)
(* carries it out.                                                         *)
(***************************************************************************)
EXTENDS Integers, Sequences

CONSTANTS
  Teams, NUM_PACKETS, Stations,
  Routes,             \* the lists of instructions a package may carry
  NoPacket            \* neither a package in hand nor one on a station

Packets == 0 .. NUM_PACKETS - 1

VARIABLES
  waiting,            \* the packages not yet picked up, in order
  held,               \* the package each team works on
  reserved,           \* the package each station is reserved for
  instructions,       \* the list of each package
  cleared             \* how many instructions of each list are done

vars == <<waiting, held, reserved, instructions, cleared>>

StationsOf(k) == {instructions[k][i] : i \in DOMAIN instructions[k]}

IsReservedFor(s, k) == reserved[s] = k

Init ==
  /\ instructions \in [Packets -> Routes]
  /\ cleared = [k \in Packets |-> 0]
  /\ held = [t \in Teams |-> NoPacket]
  /\ reserved = [s \in Stations |-> NoPacket]
  /\ waiting = [n \in 1 .. NUM_PACKETS |-> n - 1]

PickUp(t) ==
  /\ held[t] = NoPacket
  /\ waiting # <<>>
  /\ held' = [held EXCEPT ![t] = Head(waiting)]
  /\ waiting' = Tail(waiting)
  /\ UNCHANGED <<reserved, instructions, cleared>>

\* All or nothing: no team keeps a station while it waits for another.
Reserve(t) ==
  /\ held[t] # NoPacket
  /\ cleared[held[t]] = 0
  /\ \A s \in StationsOf(held[t]) : reserved[s] = NoPacket
  /\ reserved' = [s \in Stations |-> IF s \in StationsOf(held[t])
                                     THEN held[t] ELSE reserved[s]]
  /\ UNCHANGED <<waiting, held, instructions, cleared>>

\* The next instruction is carried out at a station reserved for it, once the
\* package has left the stations before.
Process(t) ==
  LET k == held[t]
  IN  /\ k # NoPacket
      /\ cleared[k] < Len(instructions[k])
      /\ \A i \in DOMAIN instructions[k] :
           IsReservedFor(instructions[k][i], k) <=> i > cleared[k]
      /\ cleared' = [cleared EXCEPT ![k] = cleared[k] + 1]
      /\ UNCHANGED <<waiting, held, reserved, instructions>>

Leave(t) ==
  LET k == held[t]
  IN  /\ k # NoPacket
      /\ cleared[k] > 0
      /\ IsReservedFor(instructions[k][cleared[k]], k)
      /\ reserved' = [reserved EXCEPT ![instructions[k][cleared[k]]] = NoPacket]
      /\ UNCHANGED <<waiting, held, instructions, cleared>>

Ship(t) ==
  LET k == held[t]
  IN  /\ k # NoPacket
      /\ cleared[k] = Len(instructions[k])
      /\ \A s \in Stations : ~IsReservedFor(s, k)
      /\ held' = [held EXCEPT ![t] = NoPacket]
      /\ UNCHANGED <<waiting, reserved, instructions, cleared>>

Next ==
  \E t \in Teams : PickUp(t) \/ Reserve(t) \/ Process(t) \/ Leave(t) \/ Ship(t)

Spec == Init /\ [][Next]_vars
=============================================================================
