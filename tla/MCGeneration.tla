---------------------------- MODULE MCGeneration ----------------------------
(* The generation of a world.  A behaviour is one call of one stage of Genesis, which
   are pure functions GenesisCluster calls one after the other, or the calls of
   GenerateCluster on the tables of one game.

   Setup: two seeds and three sets of knobs; rich and poor place the same systems and
   differ in their deposits, tight asks for more spacing than there is room.  On the hex
   both seeds use, they have planets in different orbits.  Genesis:
   the map is scaled down to at most seven hexes; the orbit table, the affinities and
   the deposit counts are the code's. *)
EXTENDS Setup, Placement, SystemContents, Deposits

CONSTANTS h1, h2

VARIABLE part

MCInfeasible == {1, 2} \X {"tight"}

MCPlaced == [w \in {1, 2} \X {"rich", "poor", "tight"} |->
  IF w[1] = 1 THEN {h1} ELSE {h1, h2}]

MCOccupied == [w \in {1, 2} \X {"rich", "poor", "tight"} |->
  IF w[1] = 1 THEN {<<h1, 1>>} ELSE {<<h1, 2>>, <<h2, 1>>}]

MCBaselineHexes == [dense |-> 150, average |-> 250]

MCSettings ==
  [n : 1 .. 6, density : {"dense", "average", "none"}, spacing : 0 .. 3]

(* The systems of one, two and three planets, whose orbits are fixed. *)
MCSystems ==
  {<<"asteroid belt">>, <<"asteroid belt", "gas giant">>,
   <<"rocky", "asteroid belt", "gas giant">>}

MCCountRolls == [t \in PlanetTypes |->
  CASE t = "rocky" -> {4, 7, 20}
    [] t = "gas giant" -> {23}
    [] t = "asteroid belt" -> {32, 37}]

(* For the finding about ties: the smallest system that has one. *)
MCTwoPlanets == {<<"asteroid belt", "gas giant">>}

MCTieCounts == [t \in PlanetTypes |->
  CASE t = "rocky" -> {4} [] t = "gas giant" -> {31} [] t = "asteroid belt" -> {31}]

MCEndowment == [r \in Resources |-> 1]

MCAdjustments == [a \in Abundances |-> IF a = "rich" THEN {40} ELSE {}]

(* For the finding about yields: the smallest system, and all that the dice can
   show. *)
MCBelt == {<<"asteroid belt">>}
MCAllAdjustments == Adjustments

PlacementIdle ==
  /\ settings = [n |-> 0] /\ stage = "idle" /\ radius = 0
  /\ candidates = {} /\ placed = {}

ContentsIdle ==
  step = "idle" /\ hab = <<>> /\ rolled = <<>> /\ total = 0 /\ orbit = 0

DepositsIdle ==
  /\ phase = "idle" /\ types = <<>> /\ shares = <<>> /\ amount = <<>>
  /\ count = <<>> /\ slots = <<>> /\ yield = <<>>

MCInit ==
  /\ Init
  /\ \/ part = "setup" /\ PlacementIdle /\ ContentsIdle /\ DepositsIdle
     \/ part = "placement" /\ PlacementInit /\ ContentsIdle /\ DepositsIdle
     \/ part = "contents" /\ PlacementIdle /\ ContentsInit /\ DepositsIdle
     \/ part = "deposits" /\ PlacementIdle /\ ContentsIdle /\ DepositsInit

MCVars == <<part, vars, placement, contents, depositVars>>

MCNext ==
  \/ part = "setup" /\ Next /\ UNCHANGED <<part, placement, contents, depositVars>>
  \/ part = "placement" /\ PlacementNext
       /\ UNCHANGED <<part, vars, contents, depositVars>>
  \/ part = "contents" /\ ContentsNext
       /\ UNCHANGED <<part, vars, placement, depositVars>>
  \/ part = "deposits" /\ DepositsNext
       /\ UNCHANGED <<part, vars, placement, contents>>

(* The generators are sequential functions: a loop that has started keeps taking
   its next step until it returns. *)
MCSpec ==
  /\ MCInit /\ [][MCNext]_MCVars
  /\ WF_placement(PlacementNext) /\ WF_contents(TopUp \/ Enough)

(* The two loops without a counter end: the draws, with all systems placed or with
   none left to draw, and the top-up, for every system of five or more planets,
   though it skips the belts and orbit 1. *)
LoopsReturn ==
  /\ stage = "drawing" ~> stage \in {"placed", "infeasible"}
  /\ step = "topUp" ~> step = "done"
=============================================================================
