--------------------------- MODULE SystemContents ---------------------------
(***************************************************************************)
(* genesis.generateSystem: which orbits of one system are occupied, what   *)
(* each planet is and how habitable, and the top-up of large systems.  One *)
(* behaviour is one call; a die may show any of its faces.                 *)
(***************************************************************************)
EXTENDS Integers, FiniteSets, Sums

CONSTANT RollBound  \* how many of an orbit's lowest rolls are tried

ASSUME ContentsAssumption == RollBound \in 1 .. 3

Orbits == 1 .. 10

minHabitability == 0
maxHabitability == 25
minTotalHabitability == 9
largeSystemPlanets == 5

VARIABLES
  step,    \* of the call
  hab,     \* occupied orbit -> habitability
  rolled,  \* history: hab as the dice had it
  total,   \* topUpHabitability's running total
  orbit    \* and where its walk is

contents == <<step, hab, rolled, total, orbit>>

-----------------------------------------------------------------------------
(* orbitTable: n dice of so many sides, plus an offset.  Belts roll nothing. *)
orbitTable == <<
  [typ |-> "rocky",         n |-> 3, sides |-> 2, offset |-> -3],
  [typ |-> "rocky",         n |-> 3, sides |-> 3, offset |-> -3],
  [typ |-> "rocky",         n |-> 5, sides |-> 6, offset |-> -5],
  [typ |-> "asteroid belt", n |-> 0, sides |-> 0, offset |-> 0],
  [typ |-> "rocky",         n |-> 5, sides |-> 4, offset |-> -5],
  [typ |-> "gas giant",     n |-> 2, sides |-> 8, offset |-> -2],
  [typ |-> "gas giant",     n |-> 2, sides |-> 8, offset |-> -4],
  [typ |-> "gas giant",     n |-> 2, sides |-> 8, offset |-> -8],
  [typ |-> "rocky",         n |-> 2, sides |-> 8, offset |-> -12],
  [typ |-> "asteroid belt", n |-> 0, sides |-> 0, offset |-> 0] >>

Habitable(o) == orbitTable[o].typ # "asteroid belt"

clamp(v, lo, hi) == IF v < lo THEN lo ELSE IF v > hi THEN hi ELSE v

(* The least and the most an orbit's planet can be rolled. *)
Least(o) ==
  LET t == orbitTable[o] IN clamp(t.n + t.offset, minHabitability, maxHabitability)

Most(o) ==
  LET t == orbitTable[o]
  IN  clamp(t.n * t.sides + t.offset, minHabitability, maxHabitability)

(* The k-th of the rolls tried: the lowest RollBound, and the highest.  Every
   orbit's rolls run from 0 to 3 at least. *)
Roll(o, k) ==
  IF ~Habitable(o) THEN 0 ELSE IF k = RollBound THEN Most(o) ELSE Least(o) + k

(* 3d4 - 2 planets; up to three stand in fixed orbits, more in orbits a shuffle
   picks. *)
Layouts ==
  {{4}, {4, 6}, {3, 4, 8}} \union {L \in SUBSET Orbits : Cardinality(L) >= 4}

-----------------------------------------------------------------------------
ContentsInit ==
  /\ step = "called" /\ hab = <<>> /\ rolled = <<>> /\ total = 0 /\ orbit = 3

Occupy(L) ==
  /\ step = "called" /\ L \in Layouts
  /\ \E k \in [{o \in L : Habitable(o)} -> 0 .. RollBound] :
       hab' = [o \in L |-> Roll(o, IF Habitable(o) THEN k[o] ELSE 0)]
  /\ rolled' = hab' /\ total' = Sum(hab')
  /\ step' = IF Cardinality(L) < largeSystemPlanets THEN "done" ELSE "topUp"
  /\ UNCHANGED orbit

Increase(o) == IF o \in {3, 6} THEN 2 ELSE 1

(* Mutant of Onward: wraps to where the walk began. *)
OnwardToStart(o) == IF o + 1 > 10 THEN 3 ELSE o + 1

(* Mutant of Onward: wraps past the orbit the walk began with. *)
OnwardToFour(o) == IF o + 1 > 10 THEN 4 ELSE o + 1

Onward(o) == IF o + 1 > 10 THEN 2 ELSE o + 1

TopUp ==
  /\ step = "topUp" /\ total < minTotalHabitability
  /\ IF orbit \in DOMAIN hab /\ Habitable(orbit)
     THEN /\ hab' = [hab EXCEPT ![orbit] = @ + Increase(orbit)]
          /\ total' = total + Increase(orbit)
     ELSE UNCHANGED <<hab, total>>
  /\ orbit' = Onward(orbit)
  /\ UNCHANGED <<step, rolled>>

(* Mutant of Enough: stops one short. *)
EnoughShort ==
  /\ step = "topUp" /\ total >= minTotalHabitability - 1
  /\ step' = "done"
  /\ UNCHANGED <<hab, rolled, total, orbit>>

Enough ==
  /\ step = "topUp" /\ total >= minTotalHabitability
  /\ step' = "done"
  /\ UNCHANGED <<hab, rolled, total, orbit>>

ContentsNext ==
  \/ \E L \in Layouts : Occupy(L)
  \/ TopUp
  \/ Enough

ContentsSpec == ContentsInit /\ [][ContentsNext]_contents

-----------------------------------------------------------------------------
(* A large system ends with a habitability of nine or more, its top-up overshoots
   by one at most, and no planet is raised past the ceiling of the base roll,
   though the top-up does not clamp. *)
ToppedUp ==
  /\ step = "done" /\ Cardinality(DOMAIN hab) >= largeSystemPlanets =>
       /\ Sum(hab) >= minTotalHabitability
       /\ Sum(hab) = Sum(rolled) \/ Sum(hab) <= minTotalHabitability + 1
  /\ \A o \in DOMAIN hab : hab[o] \in minHabitability .. maxHabitability

(* How often the walk has raised the planet of an orbit. *)
Visits(o) == (hab[o] - rolled[o]) \div Increase(o)

(* The top-up goes round: it never raises a planet twice before it has raised
   every other rocky planet and gas giant once, orbit 1 excepted; orbit 1 and the
   belts keep what they were rolled. *)
TopUpTakesTurns ==
  \A o \in DOMAIN hab :
    IF Habitable(o) /\ o # 1
    THEN \A p \in DOMAIN hab \ {1} :
           Habitable(p) => Visits(o) - Visits(p) \in -1 .. 1
    ELSE hab[o] = rolled[o]
=============================================================================
