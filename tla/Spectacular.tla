----------------------------- MODULE Spectacular ----------------------------
(***************************************************************************)
(* The stage of Project 2/Question1: spectacular.c starts one thread per   *)
(* performer and performance.c is what each thread runs.                   *)
(*                                                                         *)
(* The threads share the struct stage, the mutex stageLock and one         *)
(* condition variable per performer type.  Every access to the stage and   *)
(* every signal, broadcast and wait is made with stageLock held, so a      *)
(* critical section, from the moment the mutex is obtained to the unlock   *)
(* or the pthread_cond_wait that ends it, is one action.                   *)
(***************************************************************************)
EXTENDS Integers, FiniteSets

CONSTANTS
  Dancers, Jugglers, Soloists,        \* the threads of each performer type
  STAGESIZE, MAXIMUM_CONSECUTIVE_PERFORMANCES, TOTAL_PERFORMANCES,
  SpuriousWakeups,                    \* may pthread_cond_wait return unsignalled?
  Nobody                              \* the occupant of a free spot (index -1)

\* defines.h gives every number a positive value.
ASSUME StageAssumption ==
  /\ STAGESIZE \in Nat \ {0}
  /\ MAXIMUM_CONSECUTIVE_PERFORMANCES \in Nat \ {0}
  /\ TOTAL_PERFORMANCES \in Nat
  /\ SpuriousWakeups \in BOOLEAN

\* A performer has one type, and the index of a free spot is nobody's.
ASSUME PerformersAssumption ==
  /\ Dancers \cap Jugglers = {}
  /\ Dancers \cap Soloists = {}
  /\ Jugglers \cap Soloists = {}
  /\ Nobody \notin Dancers \cup Jugglers \cup Soloists

\* There is a thread for each, so they are finitely many.
ASSUME FinitelyManyPerformers == IsFiniteSet(Dancers \cup Jugglers \cup Soloists)

VARIABLES
  performancesSoFar,          \* stage.performancesSoFar
  currentTypeOfPerformance,   \* stage.currentTypeOfPerformance
  samePerformersInARow,       \* stage.samePerformersInARow
  spots,                      \* stage.spots: the occupant of each spot
  state,                      \* where each performer's thread is
  spot,                       \* the spot each thread keeps in its local variable
  mainReturned                \* has main joined every thread?

vars == <<performancesSoFar, currentTypeOfPerformance, samePerformersInARow,
          spots, state, spot, mainReturned>>

stageCounters ==
  <<performancesSoFar, currentTypeOfPerformance, samePerformersInARow>>

Spots  == 0 .. STAGESIZE - 1
NoSpot == -1

onStage == {p \in Dancers \cup Jugglers \cup Soloists : state[p] = "onstage"}

\* The acts this stage gives; it also brings in Performers, TypeOf and the types.
Show == INSTANCE CircusShow WITH
  cast   <- onStage,
  act    <- currentTypeOfPerformance,
  inARow <- samePerformersInARow,
  begun  <- performancesSoFar

Performers     == Show!Performers
PerformerTypes == Show!PerformerTypes
JUGGLER        == Show!JUGGLER
DANCER         == Show!DANCER
SOLOIST        == Show!SOLOIST
EMPTY          == Show!EMPTY
TypeOf(p)      == Show!TypeOf(p)

(***************************************************************************)
(* "contending": about to lock stageLock, or woken and about to get it     *)
(*               back: nothing else tells these threads apart              *)
(* "napping":    in the pthread_cond_wait of makeDecision                  *)
(* "onstage":    in the sleep that simulates the performance               *)
(* "resting":    in the pthread_cond_wait after a performance              *)
(* "returned":   startPerformance has returned                             *)
(***************************************************************************)
ThreadStates == {"contending", "napping", "onstage", "resting", "returned"}

TypeOK ==
  /\ performancesSoFar \in 0 .. TOTAL_PERFORMANCES
  /\ currentTypeOfPerformance \in PerformerTypes \cup {EMPTY}
  /\ samePerformersInARow \in 0 .. MAXIMUM_CONSECUTIVE_PERFORMANCES
  /\ spots \in [Spots -> Performers \cup {Nobody}]
  /\ state \in [Performers -> ThreadStates]
  /\ spot \in [Performers -> Spots \cup {NoSpot}]
  /\ mainReturned \in BOOLEAN

-----------------------------------------------------------------------------
(* getStageInfo: is there a free spot, is the stage empty, the last free spot. *)

IsFree(i)  == spots[i] = Nobody
HasFreeSpot == \E i \in Spots : IsFree(i)
IsEmpty     == \A i \in Spots : IsFree(i)

\* Mutant: the index is assigned outside the if of line 141.
IsFreeSpotIndexUnguarded(i) == i = STAGESIZE - 1

IsFreeSpotIndex(i) == IsFree(i) /\ \A j \in Spots : IsFree(j) => j <= i

(* makeDecision: the two branches that set canGo; the others wait. *)

\* Mutant: the type that gave the last act may open the stage again.
CanOpenAgain(p) == HasFreeSpot /\ IsEmpty

CanOpen(p) ==
  /\ HasFreeSpot
  /\ IsEmpty
  /\ TypeOf(p) # currentTypeOfPerformance

\* Mutant: line 172 dropped, performers of any type may join.
CanJoinAnyType(p) ==
  /\ HasFreeSpot
  /\ ~IsEmpty
  /\ TypeOf(p) # SOLOIST
  /\ samePerformersInARow < MAXIMUM_CONSECUTIVE_PERFORMANCES

\* Mutant: one performance too many in a row.
CanJoinOffByOne(p) ==
  /\ HasFreeSpot
  /\ ~IsEmpty
  /\ TypeOf(p) = currentTypeOfPerformance
  /\ TypeOf(p) # SOLOIST
  /\ samePerformersInARow <= MAXIMUM_CONSECUTIVE_PERFORMANCES

CanJoin(p) ==
  /\ HasFreeSpot
  /\ ~IsEmpty
  /\ TypeOf(p) = currentTypeOfPerformance
  /\ TypeOf(p) # SOLOIST
  /\ samePerformersInARow < MAXIMUM_CONSECUTIVE_PERFORMANCES

(* pthread_cond_signal and pthread_cond_broadcast on canGoOnStageC. *)

IsWaiting(p) == state[p] \in {"napping", "resting"}

Waiting(t) == {p \in Performers : IsWaiting(p) /\ TypeOf(p) = t}

\* The sets of threads one signal on canGoOnStageC[t] may wake.
SignalChoices(t) ==
  IF Waiting(t) = {} THEN {{}} ELSE {{q} : q \in Waiting(t)}

\* The state of every thread once those in W are woken and p is in state s.
Woken(W, p, s) ==
  [q \in Performers |-> IF q = p THEN s
                        ELSE IF q \in W THEN "contending" ELSE state[q]]
-----------------------------------------------------------------------------
Init ==
  /\ performancesSoFar = 0
  /\ currentTypeOfPerformance = EMPTY
  /\ samePerformersInARow = 0
  /\ spots = [i \in Spots |-> Nobody]
  /\ state = [p \in Performers |-> "contending"]
  /\ spot = [p \in Performers |-> NoSpot]
  /\ mainReturned = FALSE

\* The loop's exit: the show is over, so wake others and return.  The three
\* broadcasts go to canGoOnStageC[1], [1] and [2].
Return(p) ==
  /\ state[p] = "contending"
  /\ performancesSoFar >= TOTAL_PERFORMANCES
  /\ state' = Woken(Waiting(1) \cup Waiting(2), p, "returned")
  /\ UNCHANGED <<stageCounters, spots, spot, mainReturned>>

\* canGo was set: take the last free spot and start performing.
TakeSpot(p, i) ==
  /\ IsFreeSpotIndex(i)
  /\ performancesSoFar' = performancesSoFar + 1
  /\ spots' = [spots EXCEPT ![i] = p]
  /\ spot' = [spot EXCEPT ![p] = i]
  /\ state' = [state EXCEPT ![p] = "onstage"]
  /\ UNCHANGED mainReturned

OpenStage(p) ==
  /\ state[p] = "contending"
  /\ performancesSoFar < TOTAL_PERFORMANCES
  /\ CanOpen(p)
  /\ samePerformersInARow' = 1
  /\ currentTypeOfPerformance' = TypeOf(p)
  /\ \E i \in Spots : TakeSpot(p, i)

JoinStage(p) ==
  /\ state[p] = "contending"
  /\ performancesSoFar < TOTAL_PERFORMANCES
  /\ CanJoin(p)
  /\ samePerformersInARow' = samePerformersInARow + 1
  /\ UNCHANGED currentTypeOfPerformance
  /\ \E i \in Spots : TakeSpot(p, i)

\* Every other branch of makeDecision waits on canGoOnStageC[TypeOf(p)].
Nap(p) ==
  /\ state[p] = "contending"
  /\ performancesSoFar < TOTAL_PERFORMANCES
  /\ ~CanOpen(p)
  /\ ~CanJoin(p)
  /\ state' = [state EXCEPT ![p] = "napping"]
  /\ UNCHANGED <<stageCounters, spots, spot, mainReturned>>

\* Mutant: a departure does not signal its own group.
LeaveStageUnsignalled(p) ==
  /\ state[p] = "onstage"
  /\ spots' = [spots EXCEPT ![spot[p]] = Nobody]
  /\ LET others == IF \A i \in Spots : spots'[i] = Nobody
                   THEN Waiting((TypeOf(p) + 1) % 3)
                          \cup Waiting((TypeOf(p) + 2) % 3)
                   ELSE {}
     IN  state' = Woken(others, p, "resting")
  /\ UNCHANGED <<stageCounters, spot, mainReturned>>

\* Mutant: the copy-paste of line 50 at line 122, one group broadcast to twice.
LeaveStageOneGroup(p) ==
  /\ state[p] = "onstage"
  /\ spots' = [spots EXCEPT ![spot[p]] = Nobody]
  /\ \E W \in SignalChoices(TypeOf(p)) :
       LET others == IF \A i \in Spots : spots'[i] = Nobody
                     THEN Waiting((TypeOf(p) + 1) % 3)
                     ELSE {}
       IN  state' = Woken(W \cup others, p, "resting")
  /\ UNCHANGED <<stageCounters, spot, mainReturned>>

\* Mutant: the stage is looked at before the spot is freed.
LeaveStageStaleInfo(p) ==
  /\ state[p] = "onstage"
  /\ spots' = [spots EXCEPT ![spot[p]] = Nobody]
  /\ \E W \in SignalChoices(TypeOf(p)) :
       LET others == IF IsEmpty
                     THEN Waiting((TypeOf(p) + 1) % 3)
                            \cup Waiting((TypeOf(p) + 2) % 3)
                     ELSE {}
       IN  state' = Woken(W \cup others, p, "resting")
  /\ UNCHANGED <<stageCounters, spot, mainReturned>>

\* The sleep is over: free the spot, signal the own group, broadcast to the
\* two other groups when the stage is left empty, and wait.
LeaveStage(p) ==
  /\ state[p] = "onstage"
  /\ spots' = [spots EXCEPT ![spot[p]] = Nobody]
  /\ \E W \in SignalChoices(TypeOf(p)) :
       LET others == IF \A i \in Spots : spots'[i] = Nobody
                     THEN Waiting((TypeOf(p) + 1) % 3)
                            \cup Waiting((TypeOf(p) + 2) % 3)
                     ELSE {}
       IN  state' = Woken(W \cup others, p, "resting")
  /\ UNCHANGED <<stageCounters, spot, mainReturned>>

\* POSIX lets pthread_cond_wait return without a signal.
WakeSpuriously(p) ==
  /\ SpuriousWakeups
  /\ IsWaiting(p)
  /\ state' = [state EXCEPT ![p] = "contending"]
  /\ UNCHANGED <<stageCounters, spots, spot, mainReturned>>

\* main has joined the threads one after the other and returns.
MainReturns ==
  /\ ~mainReturned
  /\ \A p \in Performers : state[p] = "returned"
  /\ mainReturned' = TRUE
  /\ UNCHANGED <<stageCounters, spots, state, spot>>

Step(p) == OpenStage(p) \/ JoinStage(p) \/ Nap(p) \/ Return(p) \/ LeaveStage(p)

Next ==
  \/ \E p \in Performers : Step(p) \/ WakeSpuriously(p)
  \/ MainReturns

Spec == Init /\ [][Next]_vars

\* A thread that can run is scheduled and gets the mutex; a performance ends.
Fairness == WF_vars(MainReturns) /\ \A p \in Performers : WF_vars(Step(p))

FairSpec == Spec /\ Fairness
-----------------------------------------------------------------------------
(* What must hold. *)

\* A performer on stage has a spot of its own that names it, and every taken
\* spot belongs to a performer on stage: when a performance ends, the spot
\* freed through the pointer kept across the sleep is the performer's own.
SpotOwnership ==
  /\ \A p \in onStage : spot[p] \in Spots /\ spots[spot[p]] = p
  /\ \A i \in Spots : ~IsFree(i) => spots[i] \in onStage /\ spot[spots[i]] = i

\* Claim 1, Performance Safety: performers of two types never share the stage,
\* and a soloist shares it with nobody.
PerformanceSafety ==
  \A p, q \in onStage : p # q => TypeOf(p) = TypeOf(q) /\ TypeOf(p) # SOLOIST

\* No wakeup is lost at a change of act: while the stage is empty and the show
\* goes on, every performer who may open it (any type but the last one) is
\* awake, whatever it was waiting for when the stage emptied.
OpenersAwake ==
  IsEmpty /\ performancesSoFar < TOTAL_PERFORMANCES =>
    \A p \in Performers :
      TypeOf(p) # currentTypeOfPerformance => state[p] = "contending"

\* Claim 2, Maximum Parallelism: while performers of type t are on stage and
\* the loop of makeDecision would let one more in, a performer of type t naps
\* only if others of its type are awake to fill the free spots (or the rest of
\* the act): the one signal of a departure is enough.  (Once the show is over
\* the loop lets nobody in, and jugglers who are awake return without a signal
\* to those who nap.)
Joinable == {p \in Performers : state[p] = "contending" /\ CanJoin(p)}

Room == {Cardinality({i \in Spots : IsFree(i)}),
         MAXIMUM_CONSECUTIVE_PERFORMANCES - samePerformersInARow}

MaximumParallelism ==
  /\ performancesSoFar < TOTAL_PERFORMANCES
  /\ \E p \in Performers : state[p] = "napping" /\ CanJoin(p)
  => \E n \in Room : n <= Cardinality(Joinable)

\* The stage implements the show of CircusShow.
ImplementsShow == Show!Spec

\* The show goes on to its last performance and the stage is then empty for
\* good, although the threads that gave it may never return.
ShowCompletes == <>[](performancesSoFar = TOTAL_PERFORMANCES /\ IsEmpty)

\* The comment of performance.c:49, "wake up all the other threads and let
\* them terminate", as a step: a thread that returns leaves none waiting.
ReturnWakesEveryone ==
  [][\A p \in Performers : Return(p) =>
       \A q \in Performers : state'[q] \notin {"napping", "resting"}]_vars

\* The same comment as an outcome, for the two types whose condition variables
\* are broadcast: every dancer and every soloist returns.
DancersAndSoloistsReturn ==
  \A p \in Dancers \cup Soloists : <>(state[p] = "returned")
=============================================================================
