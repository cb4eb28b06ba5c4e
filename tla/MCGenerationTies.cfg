SPECIFICATION MCSpec
CONSTANTS
  h1 = h1
  h2 = h2
  None = None
  Calls = {}
  Seeds = {1, 2}
  Knobs = {"rich", "poor", "tight"}
  Hexes = {h1, h2}
  OrbitNumbers = {1, 2}
  Infeasible <- MCInfeasible
  Placed <- MCPlaced
  Occupied <- MCOccupied
  baselineHexes <- MCBaselineHexes
  MinSystems = 2
  MaxSystems = 5
  Settings = {}
  RollBound = 1
  Systems <- MCTwoPlanets
  Faces = {1, 2, 3}
  CountRolls <- MCTieCounts
  Endowment <- MCEndowment
  AdjustmentRolls <- MCAdjustments
  Habitabilities = {0}
INVARIANT EarlierWinsTies
CHECK_DEADLOCK FALSE
