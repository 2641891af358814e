----------------------------- MODULE CircusShow -----------------------------
(***************************************************************************)
(* What the Summer Spectacular promises its audience, with no threads,     *)
(* mutex or condition variables: a show is a sequence of acts.  One type   *)
(* of performer holds the stage during an act, a soloist holds it alone,   *)
(* an act has at most MAXIMUM_CONSECUTIVE_PERFORMANCES performances, and   *)
(* two acts in a row are never of the same type.                           *)
(* Source: claims 1 to 3 of Project 2/Question1/problem1_explanation.txt,  *)
(* as performance.c decides them.                                          *)
(***************************************************************************)
EXTENDS Integers, FiniteSets

CONSTANTS
  Dancers, Jugglers, Soloists,        \* the performers of each type
  STAGESIZE,                          \* how many performers fit on the stage
  MAXIMUM_CONSECUTIVE_PERFORMANCES,   \* performances of one type in a row
  TOTAL_PERFORMANCES                  \* performances in the whole show

Performers == Dancers \cup Jugglers \cup Soloists

\* The enum Performer; EMPTY is also the type of the act before the first one.
JUGGLER == 0
DANCER  == 1
SOLOIST == 2
EMPTY   == 3

NUM_TYPES == 3

PerformerTypes == {JUGGLER, DANCER, SOLOIST}

\* The type initPerformers gives to a performer.
TypeOf(p) ==
  IF p \in Dancers THEN DANCER
  ELSE IF p \in Jugglers THEN JUGGLER
  ELSE SOLOIST

VARIABLES
  cast,       \* the performers on stage
  act,        \* the type of the act on stage, or of the last one
  inARow,     \* performances begun in that act
  begun       \* performances begun in the whole show

vars == <<cast, act, inARow, begun>>

TypeOK ==
  /\ cast \subseteq Performers
  /\ act \in PerformerTypes \cup {EMPTY}
  /\ inARow \in Nat
  /\ begun \in Nat

Init ==
  /\ cast = {}
  /\ act = EMPTY
  /\ inARow = 0
  /\ begun = 0

\* An empty stage is taken by a performer of another type than the last act.
StartAct(p) ==
  /\ begun < TOTAL_PERFORMANCES
  /\ cast = {}
  /\ TypeOf(p) # act
  /\ cast' = {p}
  /\ act' = TypeOf(p)
  /\ inARow' = 1
  /\ begun' = begun + 1

\* A performer joins an act of its own type while there is room for it.
JoinAct(p) ==
  /\ begun < TOTAL_PERFORMANCES
  /\ cast # {}
  /\ p \notin cast
  /\ TypeOf(p) = act
  /\ act # SOLOIST
  /\ Cardinality(cast) < STAGESIZE
  /\ inARow < MAXIMUM_CONSECUTIVE_PERFORMANCES
  /\ cast' = cast \cup {p}
  /\ inARow' = inARow + 1
  /\ begun' = begun + 1
  /\ UNCHANGED act

\* A performance ends.
LeaveStage(p) ==
  /\ p \in cast
  /\ cast' = cast \ {p}
  /\ UNCHANGED <<act, inARow, begun>>

Next == \E p \in Performers : StartAct(p) \/ JoinAct(p) \/ LeaveStage(p)

Spec == Init /\ [][Next]_vars
=============================================================================
