SPECIFICATION MCSpec
CONSTANTS
  h1 = h1
  h2 = h2
  None = None
  Calls = {c1, c2}
  Seeds = {1, 2}
  Knobs = {"rich", "poor", "tight"}
  Hexes = {h1, h2}
  OrbitNumbers = {1, 2}
  Infeasible <- MCInfeasible
  Placed <- MCPlaced
  Occupied <- MCOccupied
  baselineHexes <- MCBaselineHexes
  MinSystems = 2
  MaxSystems = 5
  Settings <- MCSettings
  RollBound = 1
  Systems <- MCSystems
  Faces = {1, 3}
  CountRolls <- MCCountRolls
  Endowment <- MCEndowment
  AdjustmentRolls <- MCAdjustments
  Habitabilities = {0}
INVARIANTS
  WholeClusters
  RerunsReplace
  PlacedApart
  InfeasibleMeansFull
  RadiusIsNearest
  ToppedUp
  TopUpTakesTurns
  Apportioned
PROPERTIES
  SeedsOutliveReruns
  LoopsReturn
CHECK_DEADLOCK FALSE
