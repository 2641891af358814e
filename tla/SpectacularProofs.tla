------------------------- MODULE SpectacularProofs -------------------------
(***************************************************************************)
(* Proofs about Spectacular, for every set of performers, stage size and   *)
(* length of the show: type correctness, the ownership of the spots,       *)
(* Performance Safety, no lost wakeup at a change of act, and that the     *)
(* stage implements the show of CircusShow.                                *)
(***************************************************************************)
EXTENDS Spectacular, FiniteSetTheorems, TLAPS

\* Whoever is on stage is of the type the act was opened with.
ActOfOneType == \A p \in onStage : TypeOf(p) = currentTypeOfPerformance

\* Nobody returns while the show goes on.
NobodyLeavesEarly ==
  (\E p \in Performers : state[p] = "returned") =>
    performancesSoFar >= TOTAL_PERFORMANCES

\* PerformanceSafety is not inductive alone: who may join is decided from the
\* spots and from the type of the act, so both must agree with the threads.
IInv ==
  /\ TypeOK
  /\ SpotOwnership
  /\ ActOfOneType
  /\ PerformanceSafety
  /\ NobodyLeavesEarly
  /\ OpenersAwake

USE DEF Spots, NoSpot, ThreadStates
-----------------------------------------------------------------------------
(* Facts about the operators of the model. *)

\* initPerformers gives every performer one of the three types.
LEMMA TypeOfType == \A p \in Performers : TypeOf(p) \in PerformerTypes
  BY DEF TypeOf, Show!TypeOf, PerformerTypes, Show!PerformerTypes,
         Show!JUGGLER, Show!DANCER, Show!SOLOIST

\* The indices of lines 121 and 122 are those of the two other types.
LEMMA OtherTypes ==
  ASSUME NEW s \in PerformerTypes, NEW t \in PerformerTypes, s # t
  PROVE  s = (t + 1) % 3 \/ s = (t + 2) % 3
  <1>1. PerformerTypes = {0, 1, 2}
    BY DEF PerformerTypes, Show!PerformerTypes, Show!JUGGLER, Show!DANCER,
           Show!SOLOIST
  <1>2. CASE t = 0  BY <1>1, <1>2
  <1>3. CASE t = 1  BY <1>1, <1>3
  <1>4. CASE t = 2  BY <1>1, <1>4
  <1> QED  BY <1>1, <1>2, <1>3, <1>4

LEMMA OnStage ==
  /\ onStage = {p \in Performers : state[p] = "onstage"}
  /\ onStage' = {p \in Performers : state'[p] = "onstage"}
  BY DEF onStage, Performers, Show!Performers

\* A signal and a broadcast wake waiting performers only.
LEMMA SignalWakesWaiting ==
  ASSUME NEW t, NEW W \in SignalChoices(t)
  PROVE  W \subseteq Waiting(t)
  BY DEF SignalChoices

\* The stage looks empty to getStageInfo exactly when nobody is on it.
LEMMA EmptyStage ==
  ASSUME TypeOK, SpotOwnership
  PROVE  IsEmpty <=> onStage = {}
  <1>1. IsEmpty => onStage = {}
    BY PerformersAssumption, OnStage
       DEF IsEmpty, IsFree, SpotOwnership, Performers, Show!Performers
  <1>2. onStage = {} => IsEmpty
    BY DEF IsEmpty, SpotOwnership
  <1> QED  BY <1>1, <1>2

\* Nobody is not a performer.
LEMMA NobodyIsNoPerformer == Nobody \notin Performers
  BY PerformersAssumption DEF Performers, Show!Performers
-----------------------------------------------------------------------------
(* What the actions have in common. *)

\* Woken moves a thread between states, and only waiting threads are woken.
LEMMA WokenState ==
  ASSUME TypeOK, NEW p \in Performers, NEW s \in ThreadStates,
         NEW W, state' = Woken(W, p, s)
  PROVE  /\ state' \in [Performers -> ThreadStates]
         /\ state'[p] = s
         /\ \A q \in Performers \ {p} :
              state'[q] = IF q \in W THEN "contending" ELSE state[q]
  BY DEF Woken, TypeOK

LEMMA WokenOnStage ==
  ASSUME TypeOK, NEW p \in Performers, NEW s \in ThreadStates, s # "onstage",
         NEW W, \A q \in W : IsWaiting(q), state' = Woken(W, p, s)
  PROVE  onStage' = onStage \ {p}
  BY WokenState, OnStage DEF IsWaiting

\* A step that moves no one on or off the stage keeps what is said of the stage.
LEMMA StageKept ==
  ASSUME IInv, onStage' = onStage, UNCHANGED <<stageCounters, spots, spot>>
  PROVE  SpotOwnership' /\ ActOfOneType' /\ PerformanceSafety'
  BY DEF IInv, SpotOwnership, ActOfOneType, PerformanceSafety, stageCounters,
         IsFree

\* Taking a spot puts one performer on stage, and on that spot.
LEMMA TakeSpotOwnership ==
  ASSUME IInv, NEW p \in Performers, NEW i \in Spots, state[p] = "contending",
         TakeSpot(p, i)
  PROVE  /\ onStage' = onStage \cup {p}
         /\ p \notin onStage
         /\ SpotOwnership'
         /\ ~IsEmpty'
         /\ spots' \in [Spots -> Performers \cup {Nobody}]
         /\ state' \in [Performers -> ThreadStates]
         /\ spot' \in [Performers -> Spots \cup {NoSpot}]
  <1>. USE DEF IInv
  <1>1. spots' = [spots EXCEPT ![i] = p] /\ spots[i] = Nobody
    BY DEF TakeSpot, IsFreeSpotIndex, IsFree
  <1>2. spot' = [spot EXCEPT ![p] = i]
    BY DEF TakeSpot
  <1>3. state' = [state EXCEPT ![p] = "onstage"]
    BY DEF TakeSpot
  <1>4. spots' \in [Spots -> Performers \cup {Nobody}] /\ spots'[i] = p
    BY <1>1 DEF TypeOK
  <1>5. state' \in [Performers -> ThreadStates]
    BY <1>3 DEF TypeOK
  <1>6. spot' \in [Performers -> Spots \cup {NoSpot}]
    BY <1>2 DEF TypeOK
  <1>7. onStage' = onStage \cup {p} /\ p \notin onStage
    BY <1>3, OnStage DEF TypeOK
  <1>8. ~IsEmpty'
    BY <1>4, NobodyIsNoPerformer DEF IsEmpty, IsFree
  <1>9. SpotOwnership'
    <2>1. \A q \in onStage' : spot'[q] \in Spots /\ spots'[spot'[q]] = q
      <3>. SUFFICES ASSUME NEW q \in onStage'
                    PROVE  spot'[q] \in Spots /\ spots'[spot'[q]] = q
        OBVIOUS
      <3>1. CASE q = p
        BY <3>1, <1>2, <1>4 DEF TypeOK
      <3>2. CASE q # p
        <4>1. q \in Performers /\ spot'[q] = spot[q] /\ spot[q] \in Spots
              /\ spots[spot[q]] = q
          BY <3>2, <1>2, <1>7, OnStage DEF TypeOK, SpotOwnership
        <4>2. spot[q] # i
          BY <4>1, <1>1, NobodyIsNoPerformer
        <4> QED  BY <4>1, <4>2, <1>1 DEF TypeOK
      <3> QED  BY <3>1, <3>2
    <2>2. \A j \in Spots : spots'[j] # Nobody =>
            spots'[j] \in onStage' /\ spot'[spots'[j]] = j
      <3>. SUFFICES ASSUME NEW j \in Spots, spots'[j] # Nobody
                    PROVE  spots'[j] \in onStage' /\ spot'[spots'[j]] = j
        OBVIOUS
      <3>1. CASE j = i
        BY <3>1, <1>2, <1>4, <1>7 DEF TypeOK
      <3>2. CASE j # i
        <4>1. spots'[j] = spots[j] /\ spots[j] \in onStage /\ spot[spots[j]] = j
          BY <3>2, <1>1 DEF TypeOK, SpotOwnership, IsFree
        <4> QED  BY <4>1, <1>2, <1>7, OnStage DEF TypeOK
      <3> QED  BY <3>1, <3>2
    <2> QED  BY <2>1, <2>2 DEF SpotOwnership, IsFree
  <1> QED  BY <1>4, <1>5, <1>6, <1>7, <1>8, <1>9
-----------------------------------------------------------------------------
(* Each action preserves the invariant. *)

LEMMA InitIInv == Init => IInv
  <1>. SUFFICES ASSUME Init PROVE IInv
    OBVIOUS
  <1>1. onStage = {}
    BY OnStage DEF Init
  <1>2. TypeOK
    <2>1. performancesSoFar \in 0 .. TOTAL_PERFORMANCES
          /\ samePerformersInARow \in 0 .. MAXIMUM_CONSECUTIVE_PERFORMANCES
      BY StageAssumption DEF Init
    <2>2. spots \in [Spots -> Performers \cup {Nobody}]
      BY DEF Init
    <2>3. state \in [Performers -> ThreadStates]
      BY DEF Init
    <2>4. spot \in [Performers -> Spots \cup {NoSpot}]
      BY DEF Init
    <2>5. currentTypeOfPerformance \in PerformerTypes \cup {EMPTY}
          /\ mainReturned \in BOOLEAN
      BY DEF Init
    <2> QED  BY <2>1, <2>2, <2>3, <2>4, <2>5 DEF TypeOK
  <1>3. SpotOwnership
    BY <1>1 DEF Init, SpotOwnership, IsFree
  <1>4. ActOfOneType /\ PerformanceSafety
    BY <1>1 DEF ActOfOneType, PerformanceSafety
  <1>5. NobodyLeavesEarly /\ OpenersAwake
    BY DEF Init, NobodyLeavesEarly, OpenersAwake
  <1> QED  BY <1>2, <1>3, <1>4, <1>5 DEF IInv

LEMMA OpenStageIInv ==
  ASSUME IInv, NEW p \in Performers, OpenStage(p)
  PROVE  IInv'
  <1>. USE DEF IInv
  <1>1. PICK i \in Spots : TakeSpot(p, i)
    BY DEF OpenStage
  <1>2. onStage' = {p}
    BY <1>1, TakeSpotOwnership, EmptyStage DEF OpenStage, CanOpen
  <1>3. SpotOwnership'
    BY <1>1, TakeSpotOwnership DEF OpenStage
  <1>4. TypeOK'
    <2>1. spots' \in [Spots -> Performers \cup {Nobody}]
          /\ state' \in [Performers -> ThreadStates]
          /\ spot' \in [Performers -> Spots \cup {NoSpot}]
      BY <1>1, TakeSpotOwnership DEF OpenStage
    <2>2. performancesSoFar' \in 0 .. TOTAL_PERFORMANCES
          /\ samePerformersInARow' \in 0 .. MAXIMUM_CONSECUTIVE_PERFORMANCES
      BY <1>1, StageAssumption DEF OpenStage, TakeSpot, TypeOK
    <2>3. currentTypeOfPerformance' \in PerformerTypes /\ mainReturned' \in BOOLEAN
      BY <1>1, TypeOfType DEF OpenStage, TakeSpot, TypeOK
    <2> QED  BY <2>1, <2>2, <2>3 DEF TypeOK
  <1>5. ActOfOneType' /\ PerformanceSafety'
    BY <1>2 DEF ActOfOneType, PerformanceSafety, OpenStage
  <1>6. NobodyLeavesEarly'
    BY <1>1, StageAssumption
       DEF NobodyLeavesEarly, OpenStage, TakeSpot, TypeOK
  <1>7. OpenersAwake'
    BY <1>1, TakeSpotOwnership DEF OpenersAwake, OpenStage
  <1> QED  BY <1>3, <1>4, <1>5, <1>6, <1>7

LEMMA JoinStageIInv ==
  ASSUME IInv, NEW p \in Performers, JoinStage(p)
  PROVE  IInv'
  <1>. USE DEF IInv
  <1>1. PICK i \in Spots : TakeSpot(p, i)
    BY DEF JoinStage
  <1>2. onStage' = onStage \cup {p}
    BY <1>1, TakeSpotOwnership DEF JoinStage
  <1>3. SpotOwnership'
    BY <1>1, TakeSpotOwnership DEF JoinStage
  <1>4. TypeOK'
    <2>1. spots' \in [Spots -> Performers \cup {Nobody}]
          /\ state' \in [Performers -> ThreadStates]
          /\ spot' \in [Performers -> Spots \cup {NoSpot}]
      BY <1>1, TakeSpotOwnership DEF JoinStage
    <2>2. performancesSoFar' \in 0 .. TOTAL_PERFORMANCES
          /\ samePerformersInARow' \in 0 .. MAXIMUM_CONSECUTIVE_PERFORMANCES
      BY <1>1, StageAssumption DEF JoinStage, CanJoin, TakeSpot, TypeOK
    <2>3. currentTypeOfPerformance' \in PerformerTypes \cup {EMPTY}
          /\ mainReturned' \in BOOLEAN
      BY <1>1 DEF JoinStage, TakeSpot, TypeOK
    <2> QED  BY <2>1, <2>2, <2>3 DEF TypeOK
  <1>5. ActOfOneType'
    BY <1>2 DEF ActOfOneType, JoinStage, CanJoin
  <1>6. PerformanceSafety'
    BY <1>2, <1>5 DEF ActOfOneType, PerformanceSafety, JoinStage, CanJoin
  <1>7. NobodyLeavesEarly'
    BY <1>1, StageAssumption
       DEF NobodyLeavesEarly, JoinStage, TakeSpot, TypeOK
  <1>8. OpenersAwake'
    BY <1>1, TakeSpotOwnership DEF OpenersAwake, JoinStage
  <1> QED  BY <1>3, <1>4, <1>5, <1>6, <1>7, <1>8

LEMMA NapIInv ==
  ASSUME IInv, NEW p \in Performers, Nap(p)
  PROVE  IInv'
  <1>. USE DEF IInv
  <1>1. state' \in [Performers -> ThreadStates] /\ onStage' = onStage
    BY OnStage DEF Nap, TypeOK
  <1>2. SpotOwnership' /\ ActOfOneType' /\ PerformanceSafety'
    BY <1>1, StageKept DEF Nap
  <1>3. TypeOK'
    BY <1>1 DEF Nap, TypeOK, stageCounters
  <1>4. NobodyLeavesEarly'
    BY DEF Nap, NobodyLeavesEarly, TypeOK, stageCounters
  \* Whoever may open the empty stage does not nap.
  <1>5. OpenersAwake'
    <2>1. IsEmpty => TypeOf(p) = currentTypeOfPerformance
      BY StageAssumption DEF Nap, CanOpen, HasFreeSpot, IsEmpty
    <2> QED  BY <2>1 DEF Nap, OpenersAwake, TypeOK, stageCounters, IsEmpty, IsFree
  <1> QED  BY <1>2, <1>3, <1>4, <1>5

LEMMA ReturnIInv ==
  ASSUME IInv, NEW p \in Performers, Return(p)
  PROVE  IInv'
  <1>. USE DEF IInv
  <1>0. state' = Woken(Waiting(1) \cup Waiting(2), p, "returned")
        /\ \A q \in Waiting(1) \cup Waiting(2) : IsWaiting(q)
    BY DEF Return, Waiting
  <1>1. state' \in [Performers -> ThreadStates] /\ onStage' = onStage
    <2>1. onStage' = onStage \ {p}
      BY <1>0, WokenOnStage
    <2> QED  BY <2>1, <1>0, WokenState, OnStage DEF Return
  <1>2. SpotOwnership' /\ ActOfOneType' /\ PerformanceSafety'
    BY <1>1, StageKept DEF Return
  <1>3. TypeOK'
    BY <1>1 DEF Return, TypeOK, stageCounters
  <1>4. NobodyLeavesEarly' /\ OpenersAwake'
    BY StageAssumption DEF Return, NobodyLeavesEarly, OpenersAwake, TypeOK,
                           stageCounters
  <1> QED  BY <1>2, <1>3, <1>4

\* The performer frees its own spot; if that empties the stage, the signal and
\* the two broadcasts reach every waiting performer who may open it.
LEMMA LeaveStageIInv ==
  ASSUME IInv, NEW p \in Performers, LeaveStage(p)
  PROVE  IInv'
  <1>. USE DEF IInv
  <1>. DEFINE empty  == \A i \in Spots : spots'[i] = Nobody
              others == IF empty
                        THEN Waiting((TypeOf(p) + 1) % 3)
                               \cup Waiting((TypeOf(p) + 2) % 3)
                        ELSE {}
  <1>1. PICK W \in SignalChoices(TypeOf(p)) :
          state' = Woken(W \cup others, p, "resting")
    BY DEF LeaveStage
  <1>2. \A q \in W \cup others : IsWaiting(q)
    BY SignalWakesWaiting DEF Waiting
  <1>. HIDE DEF others
  <1>3. onStage' = onStage \ {p}
    BY <1>1, <1>2, WokenOnStage
  <1>4. /\ state' \in [Performers -> ThreadStates]
        /\ state'[p] = "resting"
        /\ \A q \in Performers \ {p} :
             state'[q] = IF q \in W \cup others THEN "contending" ELSE state[q]
    BY <1>1, WokenState
  <1>5. p \in onStage /\ spot[p] \in Spots /\ spots[spot[p]] = p
    BY OnStage DEF LeaveStage, SpotOwnership
  <1>6. spots' = [spots EXCEPT ![spot[p]] = Nobody] /\ spot' = spot
    BY DEF LeaveStage
  <1>7. TypeOK'
    BY <1>4, <1>5, <1>6 DEF TypeOK, LeaveStage, stageCounters
  <1>8. SpotOwnership'
    <2>1. \A q \in onStage' : spot'[q] \in Spots /\ spots'[spot'[q]] = q
      BY <1>3, <1>5, <1>6 DEF SpotOwnership, TypeOK
    <2>2. \A j \in Spots : spots'[j] # Nobody =>
            spots'[j] \in onStage' /\ spot'[spots'[j]] = j
      BY <1>3, <1>5, <1>6 DEF SpotOwnership, TypeOK, IsFree
    <2> QED  BY <2>1, <2>2 DEF SpotOwnership, IsFree
  <1>9. ActOfOneType' /\ PerformanceSafety'
    BY <1>3 DEF ActOfOneType, PerformanceSafety, LeaveStage, stageCounters
  <1>10. NobodyLeavesEarly'
    BY <1>4 DEF NobodyLeavesEarly, LeaveStage, stageCounters
  <1>11. OpenersAwake'
    <2>. SUFFICES ASSUME IsEmpty', performancesSoFar' < TOTAL_PERFORMANCES,
                         NEW q \in Performers,
                         TypeOf(q) # currentTypeOfPerformance'
                  PROVE  state'[q] = "contending"
      BY DEF OpenersAwake
    <2>1. empty
      BY DEF IsEmpty, IsFree
    <2>2. TypeOf(p) = currentTypeOfPerformance
          /\ currentTypeOfPerformance' = currentTypeOfPerformance
      BY <1>5 DEF ActOfOneType, LeaveStage, stageCounters
    <2>3. q # p
      BY <2>2
    <2>4. state[q] # "onstage"
      <3>1. onStage' = {}
        BY <1>7, <1>8, OnStage, PerformersAssumption
           DEF SpotOwnership, IsEmpty, IsFree, Performers, Show!Performers
      <3> QED  BY <3>1, <1>3, <2>3, OnStage
    <2>5. state[q] # "returned"
      BY StageAssumption DEF NobodyLeavesEarly, LeaveStage, stageCounters, TypeOK
    <2>6. CASE IsWaiting(q)
      <3>1. TypeOf(q) = (TypeOf(p) + 1) % 3 \/ TypeOf(q) = (TypeOf(p) + 2) % 3
        BY <2>2, TypeOfType, OtherTypes
      <3>2. q \in others
        BY <2>1, <2>6, <3>1 DEF others, Waiting
      <3> QED  BY <3>2, <1>4, <2>3
    <2>7. CASE state[q] = "contending"
      BY <2>7, <1>4, <2>3
    <2> QED  BY <2>4, <2>5, <2>6, <2>7 DEF TypeOK, IsWaiting
  <1> QED  BY <1>7, <1>8, <1>9, <1>10, <1>11

LEMMA WakeSpuriouslyIInv ==
  ASSUME IInv, NEW p \in Performers, WakeSpuriously(p)
  PROVE  IInv'
  <1>. USE DEF IInv
  <1>1. state' \in [Performers -> ThreadStates] /\ onStage' = onStage
    BY OnStage DEF WakeSpuriously, IsWaiting, TypeOK
  <1>2. SpotOwnership' /\ ActOfOneType' /\ PerformanceSafety'
    BY <1>1, StageKept DEF WakeSpuriously
  <1>3. TypeOK'
    BY <1>1 DEF WakeSpuriously, TypeOK, stageCounters
  <1>4. NobodyLeavesEarly' /\ OpenersAwake'
    BY DEF WakeSpuriously, NobodyLeavesEarly, OpenersAwake, TypeOK,
           stageCounters, IsEmpty, IsFree
  <1> QED  BY <1>2, <1>3, <1>4

\* Nothing the invariant reads changes.
LEMMA StutterIInv ==
  ASSUME IInv, UNCHANGED <<stageCounters, spots, state, spot>>,
         mainReturned' \in BOOLEAN
  PROVE  IInv'
  <1>. USE DEF IInv
  <1>1. onStage' = onStage
    BY OnStage
  <1>2. SpotOwnership' /\ ActOfOneType' /\ PerformanceSafety'
    BY <1>1, StageKept
  <1>3. TypeOK'
    BY DEF TypeOK, stageCounters
  <1>4. NobodyLeavesEarly' /\ OpenersAwake'
    BY DEF NobodyLeavesEarly, OpenersAwake, stageCounters, IsEmpty, IsFree
  <1> QED  BY <1>2, <1>3, <1>4

LEMMA NextIInv == IInv /\ [Next]_vars => IInv'
  <1>. SUFFICES ASSUME IInv, [Next]_vars PROVE IInv'
    OBVIOUS
  <1>1. CASE \E p \in Performers : Step(p) \/ WakeSpuriously(p)
    BY <1>1, OpenStageIInv, JoinStageIInv, NapIInv, ReturnIInv, LeaveStageIInv,
       WakeSpuriouslyIInv DEF Step
  <1>2. CASE MainReturns
    BY <1>2, StutterIInv DEF MainReturns, stageCounters
  <1>3. CASE UNCHANGED vars
    BY <1>3, StutterIInv DEF vars, stageCounters, IInv, TypeOK
  <1> QED  BY <1>1, <1>2, <1>3 DEF Next
-----------------------------------------------------------------------------
(* The theorems. *)

\* The inductive invariant holds in every state of the show.
THEOREM Invariance == Spec => []IInv
  BY InitIInv, NextIInv, PTL DEF Spec

\* The counters, the spots and the threads keep their types; in particular the
\* show never has more than TOTAL_PERFORMANCES performances, nor an act more
\* than MAXIMUM_CONSECUTIVE_PERFORMANCES.
THEOREM TypeCorrect == Spec => []TypeOK
  <1>1. IInv => TypeOK
    BY DEF IInv
  <1> QED  BY <1>1, Invariance, PTL

\* The spot freed after a performance is the performer's own.
THEOREM SpotsOwned == Spec => []SpotOwnership
  <1>1. IInv => SpotOwnership
    BY DEF IInv
  <1> QED  BY <1>1, Invariance, PTL

\* Two types never share the stage, and a soloist shares it with nobody.
THEOREM SafePerformances == Spec => []PerformanceSafety
  <1>1. IInv => PerformanceSafety
    BY DEF IInv
  <1> QED  BY <1>1, Invariance, PTL

\* No wakeup is lost at a change of act.
THEOREM NoLostOpener == Spec => []OpenersAwake
  <1>1. IInv => OpenersAwake
    BY DEF IInv
  <1> QED  BY <1>1, Invariance, PTL
-----------------------------------------------------------------------------
(* Maximum Parallelism.  It is inductive together with IInv: OpenersAwake   *)
(* says who is awake when an act is opened, and from then on each departure *)
(* that adds a free spot also adds an awake performer.                      *)

FreeSpots == {i \in Spots : IsFree(i)}

\* Both sets that are counted are finite.
LEMMA CountedSets ==
  ASSUME NEW S \in SUBSET Performers, NEW F \in SUBSET Spots
  PROVE  /\ IsFiniteSet(S) /\ Cardinality(S) \in Nat
         /\ IsFiniteSet(F) /\ Cardinality(F) \in Nat
  <1>1. IsFiniteSet(Performers)
    BY FinitelyManyPerformers
       DEF Performers, Show!Performers, IsFiniteSet, Show!IsFiniteSet
  <1>2. IsFiniteSet(Spots)
    BY FS_Interval, StageAssumption
  <1>3. IsFiniteSet(S) /\ IsFiniteSet(F)
    BY <1>1, <1>2, FS_Subset
  <1> QED  BY <1>3, FS_CardinalityType

LEMMA RoomIs ==
  Room = {Cardinality(FreeSpots),
          MAXIMUM_CONSECUTIVE_PERFORMANCES - samePerformersInARow}
  BY DEF Room, FreeSpots

\* A free spot is what the scan of getStageInfo looks for.
LEMMA HasFreeSpotIs == HasFreeSpot <=> FreeSpots # {}
  BY DEF HasFreeSpot, FreeSpots

\* Nobody of the type that opens an act was napping.
LEMMA OpenStageParallel ==
  ASSUME IInv, NEW p \in Performers, OpenStage(p)
  PROVE  MaximumParallelism'
  <1>. USE DEF IInv
  <1>1. PICK i \in Spots : TakeSpot(p, i)
    BY DEF OpenStage
  <1>2. SUFFICES ASSUME NEW q \in Performers, state'[q] = "napping", CanJoin(q)'
                 PROVE  FALSE
    BY DEF MaximumParallelism
  <1>3. state[q] = "napping"
    BY <1>1, <1>2 DEF TakeSpot, TypeOK
  <1>4. TypeOf(q) # currentTypeOfPerformance
    BY <1>2 DEF CanJoin, OpenStage, CanOpen
  <1>5. state[q] = "contending"
    BY <1>4 DEF OpenersAwake, OpenStage, CanOpen
  <1> QED  BY <1>3, <1>5

\* Whoever joins was awake, takes one spot and counts for one performance.
LEMMA JoinStageParallel ==
  ASSUME IInv, MaximumParallelism, NEW p \in Performers, JoinStage(p)
  PROVE  MaximumParallelism'
  <1>. USE DEF IInv
  <1>1. PICK i \in Spots : TakeSpot(p, i)
    BY DEF JoinStage
  <1>2. SUFFICES ASSUME NEW q \in Performers, state'[q] = "napping", CanJoin(q)'
                 PROVE  \E n \in Room' : n <= Cardinality(Joinable)'
    BY DEF MaximumParallelism
  <1>3. state[q] = "napping" /\ CanJoin(q) /\ p \in Joinable
    BY <1>1, <1>2 DEF TakeSpot, TypeOK, JoinStage, CanJoin, Joinable
  <1>4. PICK n \in Room : n <= Cardinality(Joinable)
    BY <1>3 DEF MaximumParallelism, JoinStage
  <1>5. Joinable \ {p} \subseteq Joinable'
    BY <1>1, <1>2 DEF Joinable, TakeSpot, TypeOK, JoinStage, CanJoin
  <1>6. i \in FreeSpots /\ FreeSpots' = FreeSpots \ {i}
    BY <1>1, NobodyIsNoPerformer
       DEF FreeSpots, IsFree, TakeSpot, IsFreeSpotIndex, TypeOK
  <1>. DEFINE J == Joinable
              K == Joinable'
  <1>7. J \in SUBSET Performers /\ K \in SUBSET Performers
    BY DEF Joinable
  <1>8. /\ IsFiniteSet(J) /\ IsFiniteSet(K)
        /\ Cardinality(J) \in Nat /\ Cardinality(K) \in Nat
    BY <1>7, CountedSets
  <1>. HIDE DEF J, K
  <1>9. Cardinality(J \ {p}) = Cardinality(J) - 1
    BY <1>3, <1>8, FS_RemoveElement DEF J
  <1>10. Cardinality(J) - 1 <= Cardinality(K)
    <2>1. J \ {p} \in SUBSET K
      BY <1>5 DEF J, K
    <2> QED  BY <1>8, <1>9, <2>1, FS_Subset
  <1>11. Cardinality(FreeSpots') = Cardinality(FreeSpots) - 1
    <2>1. IsFiniteSet(FreeSpots)
      BY CountedSets DEF FreeSpots
    <2> QED  BY <1>6, <2>1, FS_RemoveElement
  <1>12. Cardinality(FreeSpots) \in Nat
    BY CountedSets DEF FreeSpots
  <1>13. samePerformersInARow' = samePerformersInARow + 1
    BY DEF JoinStage
  <1>14. n - 1 \in Room' /\ n \in Int
    <2>1. Room' = {Cardinality(FreeSpots'),
                   MAXIMUM_CONSECUTIVE_PERFORMANCES - samePerformersInARow'}
      BY RoomIs DEF Room, FreeSpots
    <2>2. CASE n = Cardinality(FreeSpots)
      BY <2>1, <2>2, <1>11, <1>12
    <2>3. CASE n = MAXIMUM_CONSECUTIVE_PERFORMANCES - samePerformersInARow
      BY <2>1, <2>3, <1>13, StageAssumption DEF TypeOK
    <2> QED  BY <2>2, <2>3, <1>4, RoomIs
  <1>15. n - 1 <= Cardinality(K)
    BY <1>4, <1>8, <1>10, <1>14 DEF J
  <1> QED  BY <1>14, <1>15 DEF K

\* Who naps could not join.
LEMMA NapParallel ==
  ASSUME IInv, MaximumParallelism, NEW p \in Performers, Nap(p)
  PROVE  MaximumParallelism'
  <1>. USE DEF IInv
  <1>1. \A q \in Performers : CanJoin(q)' <=> CanJoin(q)
    BY DEF Nap, stageCounters, CanJoin, HasFreeSpot, IsEmpty, IsFree
  <1>2. Joinable' = Joinable
    BY <1>1 DEF Joinable, Nap, TypeOK
  <1>3. Room' = Room
    BY DEF Room, Nap, stageCounters, IsFree
  <1>4. \A q \in Performers :
          state'[q] = "napping" /\ CanJoin(q)' => state[q] = "napping" /\ CanJoin(q)
    BY <1>1 DEF Nap, TypeOK
  <1>5. performancesSoFar' = performancesSoFar
    BY DEF Nap, stageCounters
  <1>6. (\E n \in Room : n <= Cardinality(Joinable)) =>
          \E n \in Room' : n <= Cardinality(Joinable)'
    BY <1>2, <1>3
  <1> QED  BY <1>4, <1>5, <1>6 DEF MaximumParallelism

\* The departure that frees a spot wakes one performer for it, if any waits.
LEMMA LeaveStageParallel ==
  ASSUME IInv, MaximumParallelism, NEW p \in Performers, LeaveStage(p)
  PROVE  MaximumParallelism'
  <1>. USE DEF IInv
  <1>1. SUFFICES ASSUME performancesSoFar' < TOTAL_PERFORMANCES,
                        NEW q \in Performers, state'[q] = "napping", CanJoin(q)'
                 PROVE  \E n \in Room' : n <= Cardinality(Joinable)'
    BY DEF MaximumParallelism
  <1>2. ~(\A i \in Spots : spots'[i] = Nobody)
    BY <1>1 DEF CanJoin, IsEmpty, IsFree
  <1>3. PICK W \in SignalChoices(TypeOf(p)) :
          state' = Woken(W \cup {}, p, "resting")
    BY <1>2 DEF LeaveStage
  <1>4. /\ p \in onStage /\ spot[p] \in Spots /\ spots[spot[p]] = p
        /\ TypeOf(p) = currentTypeOfPerformance
        /\ currentTypeOfPerformance' = currentTypeOfPerformance
        /\ samePerformersInARow' = samePerformersInARow
        /\ performancesSoFar' = performancesSoFar
    BY OnStage DEF LeaveStage, SpotOwnership, ActOfOneType, stageCounters
  <1>5. /\ state'[p] = "resting"
        /\ \A r \in Performers \ {p} :
             state'[r] = IF r \in W THEN "contending" ELSE state[r]
    BY <1>3, WokenState
  <1>6. q # p /\ state[q] = "napping" /\ TypeOf(q) = TypeOf(p)
    BY <1>1, <1>4, <1>5 DEF CanJoin
  <1>7. q \in Waiting(TypeOf(p))
    BY <1>6 DEF Waiting, IsWaiting
  <1>8. PICK w \in Waiting(TypeOf(p)) : W = {w}
    BY <1>7 DEF SignalChoices
  <1>9. /\ w \in Performers /\ w # p /\ TypeOf(w) = TypeOf(p)
        /\ state'[w] = "contending" /\ w \notin Joinable
    BY <1>5, <1>8 DEF Waiting, IsWaiting, LeaveStage, Joinable
  <1>10. \A r \in Performers : TypeOf(r) = TypeOf(p) => CanJoin(r)'
    BY <1>1, <1>4, <1>6 DEF CanJoin
  <1>11. Joinable \cup {w} \subseteq Joinable'
    <2>1. \A r \in Joinable : r \in Performers /\ r # p /\ state[r] = "contending"
                              /\ TypeOf(r) = TypeOf(p)
      BY <1>4 DEF Joinable, CanJoin, LeaveStage
    <2>2. \A r \in Joinable : state'[r] = "contending"
      BY <2>1, <1>5
    <2> QED  BY <2>1, <2>2, <1>9, <1>10 DEF Joinable
  <1>12. FreeSpots' = FreeSpots \cup {spot[p]} /\ spot[p] \notin FreeSpots
    BY <1>4, NobodyIsNoPerformer DEF FreeSpots, IsFree, LeaveStage, TypeOK
  <1>. DEFINE J == Joinable
              K == Joinable'
              F == FreeSpots
              G == FreeSpots'
  <1>13. J \in SUBSET Performers /\ K \in SUBSET Performers
         /\ F \in SUBSET Spots /\ G \in SUBSET Spots
    BY DEF Joinable, FreeSpots
  <1>14. Room' = {Cardinality(G),
                  MAXIMUM_CONSECUTIVE_PERFORMANCES - samePerformersInARow}
    BY <1>4 DEF Room, FreeSpots
  <1>. HIDE DEF J, K, F, G
  <1>15. /\ IsFiniteSet(J) /\ IsFiniteSet(K)
         /\ Cardinality(J) \in Nat /\ Cardinality(K) \in Nat
         /\ IsFiniteSet(F) /\ Cardinality(F) \in Nat
    BY <1>13, CountedSets
  <1>16. Cardinality(J) + 1 <= Cardinality(K)
    <2>1. IsFiniteSet(J \cup {w}) /\ Cardinality(J \cup {w}) = Cardinality(J) + 1
      BY <1>9, <1>15, FS_AddElement DEF J
    <2>2. J \cup {w} \in SUBSET K
      BY <1>11 DEF J, K
    <2> QED  BY <2>1, <2>2, <1>15, FS_Subset
  <1>17. Cardinality(G) = Cardinality(F) + 1
    BY <1>12, <1>15, FS_AddElement DEF F, G
  <1>18. CASE F = {}
    <2>1. Cardinality(G) = 1
      BY <1>17, <1>18, FS_EmptySet
    <2>2. 1 <= Cardinality(K)
      BY <1>15, <1>16
    <2> QED  BY <2>1, <2>2, <1>14 DEF K
  <1>19. CASE F # {}
    <2>1. CanJoin(q)
      <3>1. HasFreeSpot
        BY <1>19, HasFreeSpotIs DEF F
      <3>2. ~IsEmpty
        BY <1>4, NobodyIsNoPerformer DEF IsEmpty, IsFree
      <3> QED  BY <3>1, <3>2, <1>1, <1>4 DEF CanJoin
    <2>2. PICK n \in Room : n <= Cardinality(J)
      BY <2>1, <1>1, <1>4, <1>6 DEF MaximumParallelism, J
    <2>3. CASE n = Cardinality(F)
      <3>1. Cardinality(G) <= Cardinality(K)
        BY <2>2, <2>3, <1>15, <1>16, <1>17
      <3> QED  BY <3>1, <1>14 DEF K
    <2>4. CASE n = MAXIMUM_CONSECUTIVE_PERFORMANCES - samePerformersInARow
      <3>1. n \in Int
        BY <2>4, StageAssumption DEF TypeOK
      <3>2. n <= Cardinality(K)
        BY <2>2, <3>1, <1>15, <1>16
      <3> QED  BY <2>4, <3>2, <1>14 DEF K
    <2> QED  BY <2>2, <2>3, <2>4, RoomIs DEF F
  <1> QED  BY <1>18, <1>19

\* One more performer is awake.
LEMMA WakeSpuriouslyParallel ==
  ASSUME IInv, MaximumParallelism, NEW p \in Performers, WakeSpuriously(p)
  PROVE  MaximumParallelism'
  <1>. USE DEF IInv
  <1>1. \A q \in Performers : CanJoin(q)' <=> CanJoin(q)
    BY DEF WakeSpuriously, stageCounters, CanJoin, HasFreeSpot, IsEmpty, IsFree
  <1>. DEFINE J == Joinable
              K == Joinable'
  <1>2. J \in SUBSET Performers /\ K \in SUBSET Performers /\ J \in SUBSET K
    BY <1>1 DEF Joinable, WakeSpuriously, TypeOK
  <1>3. Room' = Room
    BY DEF Room, WakeSpuriously, stageCounters, IsFree
  <1>4. \A q \in Performers :
          state'[q] = "napping" /\ CanJoin(q)' => state[q] = "napping" /\ CanJoin(q)
    BY <1>1 DEF WakeSpuriously, TypeOK
  <1>5. performancesSoFar' = performancesSoFar
    BY DEF WakeSpuriously, stageCounters
  <1>6. (\E n \in Room : n <= Cardinality(J)) => \E n \in Room' : n <= Cardinality(K)
    <2>. SUFFICES ASSUME NEW n \in Room, n <= Cardinality(J)
                  PROVE  n <= Cardinality(K)
      BY <1>3
    <2>. HIDE DEF J, K
    <2>1. /\ IsFiniteSet(K) /\ Cardinality(K) \in Nat
          /\ Cardinality(J) \in Nat /\ Cardinality(FreeSpots) \in Nat
      BY <1>2, CountedSets DEF FreeSpots
    <2>2. Cardinality(J) <= Cardinality(K)
      BY <1>2, <2>1, FS_Subset
    <2>3. n \in Int
      BY <2>1, RoomIs, StageAssumption DEF TypeOK
    <2> QED  BY <2>1, <2>2, <2>3
  <1> QED  BY <1>4, <1>5, <1>6 DEF MaximumParallelism

LEMMA StutterParallel ==
  ASSUME MaximumParallelism, UNCHANGED <<stageCounters, spots, state, spot>>
  PROVE  MaximumParallelism'
  <1>1. \A q \in Performers : CanJoin(q)' <=> CanJoin(q)
    BY DEF stageCounters, CanJoin, HasFreeSpot, IsEmpty, IsFree
  <1>2. Joinable' = Joinable /\ Room' = Room
    BY <1>1 DEF Joinable, Room, IsFree, stageCounters
  <1> QED  BY <1>1, <1>2 DEF MaximumParallelism, stageCounters

LEMMA NextParallel ==
  IInv /\ MaximumParallelism /\ [Next]_vars => MaximumParallelism'
  <1>. SUFFICES ASSUME IInv, MaximumParallelism, [Next]_vars
                PROVE  MaximumParallelism'
    OBVIOUS
  <1>1. ASSUME NEW p \in Performers, Return(p) PROVE MaximumParallelism'
    <2>1. ~(performancesSoFar' < TOTAL_PERFORMANCES)
      BY <1>1, StageAssumption DEF Return, IInv, TypeOK, stageCounters
    <2> QED  BY <2>1 DEF MaximumParallelism
  <1>2. CASE \E p \in Performers : Step(p) \/ WakeSpuriously(p)
    BY <1>1, <1>2, OpenStageParallel, JoinStageParallel, NapParallel,
       LeaveStageParallel, WakeSpuriouslyParallel DEF Step
  <1>3. CASE MainReturns \/ UNCHANGED vars
    BY <1>3, StutterParallel DEF MainReturns, vars, stageCounters
  <1> QED  BY <1>2, <1>3 DEF Next

\* While the show goes on, a performer naps beside an act it could join only when
\* enough others who could join are awake to take every free spot or to give what
\* is left of the act, whatever the number of spots and performers.
THEOREM ParallelActs == Spec => []MaximumParallelism
  <1>1. Init => MaximumParallelism
    BY DEF Init, MaximumParallelism
  <1> QED  BY <1>1, NextParallel, Invariance, PTL DEF Spec
-----------------------------------------------------------------------------
(* The stage implements the show. *)

\* Each performer on stage has a spot of its own, so a free spot leaves fewer
\* performers than spots.
LEMMA RoomForOneMore ==
  ASSUME IInv, HasFreeSpot
  PROVE  Cardinality(onStage) < STAGESIZE
  <1>. USE DEF IInv
  <1>1. PICK i \in Spots : spots[i] = Nobody
    BY DEF HasFreeSpot, IsFree
  <1>. DEFINE spotOf == [p \in onStage |-> spot[p]]
  <1>2. \A p \in onStage : spot[p] \in Spots \ {i} /\ spots[spot[p]] = p
    BY <1>1, OnStage, NobodyIsNoPerformer DEF SpotOwnership
  <1>3. spotOf \in [onStage -> Spots \ {i}]
    BY <1>2
  <1>4. \A p, q \in onStage : spotOf[p] = spotOf[q] => p = q
    BY <1>2
  <1>5. spotOf \in Injection(onStage, Spots \ {i})
    BY <1>3, <1>4 DEF Injection, IsInjective
  <1>6. IsFiniteSet(Spots) /\ Cardinality(Spots) = STAGESIZE
    BY FS_Interval, StageAssumption
  <1>7. IsFiniteSet(Spots \ {i}) /\ Cardinality(Spots \ {i}) = STAGESIZE - 1
    BY <1>6, FS_RemoveElement
  <1>8. IsFiniteSet(onStage) /\ Cardinality(onStage) <= STAGESIZE - 1
    BY <1>5, <1>7, FS_Injection
  <1> QED  BY <1>8, FS_CardinalityType, StageAssumption

LEMMA InitShow == Init => Show!Init
  <1>. SUFFICES ASSUME Init PROVE Show!Init
    OBVIOUS
  <1>1. onStage = {}
    BY OnStage DEF Init
  <1> QED  BY <1>1 DEF Init, Show!Init, EMPTY

LEMMA OpenStageShow ==
  ASSUME IInv, NEW p \in Performers, OpenStage(p)
  PROVE  Show!StartAct(p)
  <1>. USE DEF IInv
  <1>1. PICK i \in Spots : TakeSpot(p, i)
    BY DEF OpenStage
  <1>2. onStage = {} /\ onStage' = {p}
    BY <1>1, TakeSpotOwnership, EmptyStage DEF OpenStage, CanOpen
  <1> QED  BY <1>1, <1>2 DEF OpenStage, CanOpen, TakeSpot, TypeOf, Show!StartAct

LEMMA JoinStageShow ==
  ASSUME IInv, NEW p \in Performers, JoinStage(p)
  PROVE  Show!JoinAct(p)
  <1>. USE DEF IInv
  <1>1. PICK i \in Spots : TakeSpot(p, i)
    BY DEF JoinStage
  <1>2. onStage' = onStage \cup {p} /\ p \notin onStage
    BY <1>1, TakeSpotOwnership DEF JoinStage
  <1>3. onStage # {}
    BY EmptyStage DEF JoinStage, CanJoin
  <1>4. Cardinality(onStage) < STAGESIZE
    BY RoomForOneMore DEF JoinStage, CanJoin
  <1>5. /\ performancesSoFar < TOTAL_PERFORMANCES
        /\ samePerformersInARow < MAXIMUM_CONSECUTIVE_PERFORMANCES
        /\ performancesSoFar' = performancesSoFar + 1
        /\ samePerformersInARow' = samePerformersInARow + 1
        /\ UNCHANGED currentTypeOfPerformance
    BY <1>1 DEF JoinStage, CanJoin, TakeSpot
  <1>6. /\ Show!TypeOf(p) = currentTypeOfPerformance
        /\ currentTypeOfPerformance # Show!SOLOIST
    BY DEF JoinStage, CanJoin, TypeOf, SOLOIST
  <1>7. Show!Cardinality(onStage) < STAGESIZE
    BY <1>4 DEF Cardinality, Show!Cardinality, IsFiniteSet, Show!IsFiniteSet
  <1> QED  BY <1>2, <1>3, <1>5, <1>6, <1>7 DEF Show!JoinAct

LEMMA LeaveStageShow ==
  ASSUME IInv, NEW p \in Performers, LeaveStage(p)
  PROVE  Show!LeaveStage(p)
  <1>. USE DEF IInv
  <1>1. PICK W \in SignalChoices(TypeOf(p)), others \in
               {{}, Waiting((TypeOf(p) + 1) % 3) \cup Waiting((TypeOf(p) + 2) % 3)} :
          state' = Woken(W \cup others, p, "resting")
    BY DEF LeaveStage
  <1>2. \A q \in W \cup others : IsWaiting(q)
    BY <1>1, SignalWakesWaiting DEF Waiting
  <1>3. onStage' = onStage \ {p} /\ p \in onStage
    BY <1>1, <1>2, WokenOnStage, OnStage DEF LeaveStage
  <1> QED  BY <1>3 DEF LeaveStage, Show!LeaveStage, stageCounters

LEMMA NextShow == IInv /\ [Next]_vars => [Show!Next]_(Show!vars)
  <1>. SUFFICES ASSUME IInv, [Next]_vars
                PROVE  Show!Next \/ UNCHANGED Show!vars
    OBVIOUS
  <1>. USE DEF IInv
  <1>1. ASSUME NEW p \in Performers, OpenStage(p) PROVE Show!Next
    BY <1>1, OpenStageShow DEF Show!Next, Performers
  <1>2. ASSUME NEW p \in Performers, JoinStage(p) PROVE Show!Next
    BY <1>2, JoinStageShow DEF Show!Next, Performers
  <1>3. ASSUME NEW p \in Performers, LeaveStage(p) PROVE Show!Next
    BY <1>3, LeaveStageShow DEF Show!Next, Performers
  <1>4. ASSUME NEW p \in Performers, Nap(p) \/ WakeSpuriously(p)
        PROVE  UNCHANGED Show!vars
    BY <1>4, OnStage DEF Nap, WakeSpuriously, IsWaiting, TypeOK, Show!vars,
                         stageCounters
  <1>5. ASSUME NEW p \in Performers, Return(p) PROVE UNCHANGED Show!vars
    <2>1. \A q \in Waiting(1) \cup Waiting(2) : IsWaiting(q)
      BY DEF Waiting
    <2>2. onStage' = onStage \ {p}
      BY <1>5, <2>1, WokenOnStage DEF Return
    <2> QED  BY <1>5, <2>2, OnStage DEF Return, Show!vars, stageCounters
  <1>6. CASE MainReturns \/ UNCHANGED vars
    <2>1. onStage' = onStage
      BY <1>6, OnStage DEF MainReturns, vars
    <2> QED  BY <1>6, <2>1 DEF MainReturns, vars, Show!vars, stageCounters
  <1> QED  BY <1>1, <1>2, <1>3, <1>4, <1>5, <1>6 DEF Next, Step

\* Every run of the threads is a run of CircusShow: acts of one type, soloists
\* alone, no more performers than spots, no act longer than allowed and never
\* two acts of one type in a row.
THEOREM StageImplementsShow == Spec => ImplementsShow
  BY InitShow, NextShow, Invariance, PTL DEF Spec, Show!Spec, ImplementsShow
=============================================================================
