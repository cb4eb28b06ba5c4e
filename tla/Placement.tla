------------------------------ MODULE Placement -----------------------------
(***************************************************************************)
(* genesis.Place: scatter N systems over a hexagonal map, no two closer    *)
(* than the spacing.  One behaviour is one call.  The shuffle's outcome is *)
(* any order of the candidates, so each Draw takes any hex not yet drawn.  *)
(* The order in which systems were placed is left out, and so is the       *)
(* difference between the result of a call and what it had placed.         *)
(***************************************************************************)
EXTENDS Integers, FiniteSets

CONSTANTS
  baselineHexes,           \* density tier -> hexes on the map per 100 systems
  MinSystems, MaxSystems,  \* the range of N
  Settings                 \* the settings a caller may pass

ASSUME PlacementAssumption ==
  /\ MinSystems \in Nat \ {0} /\ MaxSystems \in Nat
  /\ \A d \in DOMAIN baselineHexes :   \* no target is rounded to no hex at all
       baselineHexes[d] \in Nat /\ baselineHexes[d] * MinSystems >= 50
  /\ \A s \in Settings : s.n \in Int /\ s.spacing \in Int

MinSpacing == 1

VARIABLES
  settings,
  stage,      \* of the call: where it is, or how it returned
  radius,
  candidates, \* hexes of the shuffled list not drawn yet
  placed

placement == <<settings, stage, radius, candidates, placed>>

-----------------------------------------------------------------------------
(* The map. *)

abs(x) == IF x < 0 THEN -x ELSE x

Distance(a, b) ==
  LET dq == a.q - b.q
      dr == a.r - b.r
  IN  (abs(dq) + abs(dr) + abs(dq + dr)) \div 2

hexCount(r) == 1 + 3 * r * (r + 1)

HexesWithin(r) ==
  {h \in [q : -r .. r, r : -r .. r] : Distance([q |-> 0, r |-> 0], h) <= r}

(* Radius's target: math.Round(h * n / 100): halves go up. *)
Target(n, d) == (2 * baselineHexes[d] * n + 100) \div 200

(* The closed form, rounded: (sqrt((4t-1)/3) - 1) / 2 rounds to a exactly when
   a is the largest number with 2a <= sqrt((4t-1)/3).  No t makes the two sides
   equal, so the float64 arithmetic is never at a tie. *)
Approx(t) ==
  CHOOSE a \in 0 .. t : 12*a*a <= 4*t - 1 /\ 12*(a+1)*(a+1) > 4*t - 1

(* Mutant of Nearest: the scan compares with <= and keeps the last of a tie. *)
NearestLast(S, t) ==
  CHOOSE r \in S : \A s \in S :
    \/ abs(hexCount(r) - t) < abs(hexCount(s) - t)
    \/ abs(hexCount(r) - t) = abs(hexCount(s) - t) /\ r >= s

Nearest(S, t) ==
  CHOOSE r \in S : \A s \in S :
    \/ abs(hexCount(r) - t) < abs(hexCount(s) - t)
    \/ abs(hexCount(r) - t) = abs(hexCount(s) - t) /\ r <= s

(* Radius, for a target of t hexes: a window of three either side. *)
RadiusFor(t) ==
  LET approx == Approx(t)
      lo     == IF approx > 3 THEN approx - 3 ELSE 0
  IN  Nearest(lo .. approx + 3, t)

-----------------------------------------------------------------------------
Valid(s) ==
  /\ s.n \in MinSystems .. MaxSystems
  /\ s.density \in DOMAIN baselineHexes
  /\ s.spacing >= MinSpacing

(* Mutant of FarEnough: the spacing taken as the hexes that lie between. *)
FarEnoughBetween(h) == \A p \in placed : Distance(h, p) > settings.spacing - 2

(* Mutant of FarEnough: strictly farther than the spacing. *)
FarEnoughStrict(h) == \A p \in placed : Distance(h, p) > settings.spacing

FarEnough(h) == \A p \in placed : Distance(h, p) >= settings.spacing

PlacementInit ==
  /\ settings \in Settings
  /\ stage = "called" /\ radius = 0 /\ candidates = {} /\ placed = {}

RefuseSettings ==
  /\ stage = "called" /\ ~Valid(settings)
  /\ stage' = "invalid"
  /\ UNCHANGED <<settings, radius, candidates, placed>>

Shuffle ==
  /\ stage = "called" /\ Valid(settings)
  /\ radius' = RadiusFor(Target(settings.n, settings.density))
  /\ candidates' = HexesWithin(radius')
  /\ stage' = "drawing"
  /\ UNCHANGED <<settings, placed>>

Draw(h) ==
  /\ stage = "drawing" /\ h \in candidates
  /\ candidates' = candidates \ {h}
  /\ placed' = IF FarEnough(h) THEN placed \union {h} ELSE placed
  /\ stage' = IF Cardinality(placed') = settings.n THEN "placed" ELSE stage
  /\ UNCHANGED <<settings, radius>>

GiveUp ==
  /\ stage = "drawing" /\ candidates = {}
  /\ stage' = "infeasible"
  /\ UNCHANGED <<settings, radius, candidates, placed>>

PlacementNext ==
  \/ RefuseSettings
  \/ Shuffle
  \/ \E h \in candidates : Draw(h)
  \/ GiveUp

PlacementSpec == PlacementInit /\ [][PlacementNext]_placement

-----------------------------------------------------------------------------
(* Place returns N systems of the map, every two of them at least the spacing
   apart, whatever order the shuffle put the hexes in. *)
PlacedApart ==
  stage = "placed" =>
    /\ Cardinality(placed) = settings.n
    /\ placed \subseteq HexesWithin(radius)
    /\ \A a, b \in placed : a # b => Distance(a, b) >= settings.spacing

(* ErrInfeasible is never an early surrender: when Place gives up, every hex of
   the map is closer than the spacing to a system it had placed, so no further
   system could have been added. *)
InfeasibleMeansFull ==
  stage = "infeasible" =>
    /\ Cardinality(placed) < settings.n
    /\ \A h \in HexesWithin(radius) :
         \E p \in placed : Distance(h, p) < settings.spacing

(* The window Radius searches is wide enough: the radius chosen is the nearest of
   all to the target, the smaller one on a tie. *)
RadiusIsNearest ==
  stage # "called" /\ Valid(settings) =>
    \A r \in 0 .. Target(settings.n, settings.density) :
      LET t == Target(settings.n, settings.density)
      IN  /\ abs(hexCount(radius) - t) <= abs(hexCount(r) - t)
          /\ abs(hexCount(radius) - t) = abs(hexCount(r) - t) => radius <= r
=============================================================================
