------------------------------ MODULE Deposits ------------------------------
(***************************************************************************)
(* genesis.generateSystemDeposits: the planets of one system roll shares   *)
(* of each resource and a number of deposits, each planet's deposits are   *)
(* apportioned to its resources, and each deposit rolls its yield.  The    *)
(* weights and quantities of single deposits are left out, and the yield   *)
(* of one deposit stands for all, which are rolled independently.          *)
(*                                                                         *)
(* Amounts are exact: a planet's amount of a resource is the numerator     *)
(* over one denominator for the whole system.                              *)
(***************************************************************************)
EXTENDS Integers, FiniteSets, Sequences, Sums

CONSTANTS
  Systems,       \* sequences of planet types: the systems tried
  Faces,         \* the faces of the three-sided die tried
  CountRolls,    \* planet type -> the deposit counts tried
  Endowment,     \* resource -> ten-planet baseline
  AdjustmentRolls, \* abundance -> the adjustments tried
  Habitabilities   \* those of planets tried

Resources == {"fuel", "mtls", "nmtl"}
PlanetTypes == {"rocky", "asteroid belt", "gas giant"}

(* rollDepositCount: 4d10, 20 + 2d10, 30 + 1d10. *)
Counts == [t \in PlanetTypes |->
  CASE t = "rocky" -> 4 .. 40
    [] t = "gas giant" -> 22 .. 40
    [] t = "asteroid belt" -> 31 .. 40]

Abundances == {"poor", "average", "rich"}

(* rollAdjustment: -3d20, 2d12 - 13, 3d20 percent. *)
Adjustments == [a \in Abundances |->
  CASE a = "poor" -> -60 .. -3 [] a = "average" -> -11 .. 11 [] a = "rich" -> 3 .. 60]

ASSUME DepositsAssumption ==
  /\ Endowment \in [Resources -> Nat \ {0}]
  /\ Faces \subseteq 1 .. 3
  /\ \A s \in Systems : s \in Seq(PlanetTypes)
  /\ \A t \in PlanetTypes : CountRolls[t] \subseteq Counts[t]
  /\ \A a \in Abundances : AdjustmentRolls[a] \subseteq Adjustments[a]
  /\ Habitabilities \subseteq 0 .. 25

VARIABLES
  phase,    \* the last phase completed
  types,    \* of the planets, in orbit order
  shares,   \* planet -> resource -> shares
  amount,   \* planet -> resource -> amount
  count,    \* planet -> number of deposits
  slots,    \* planet -> resource -> deposits of it
  yield     \* of one of the deposits, whichever is looked at

depositVars == <<phase, types, shares, amount, count, slots, yield>>

-----------------------------------------------------------------------------
processingOrder(t) ==
  CASE t = "rocky"         -> <<"fuel", "mtls", "nmtl">>
    [] t = "asteroid belt" -> <<"mtls", "nmtl", "fuel">>
    [] t = "gas giant"     -> <<"nmtl", "fuel", "mtls">>

(* The type's first resource is the one it has a high affinity for, its second
   the normal one, its third the low one. *)
affinityOf(t, r) ==
  CHOOSE k \in 1 .. 3 : processingOrder(t)[k] = r

(* rollShares: 1d3 + 4, 1d3 + 1, 1d3 - 1. *)
rollShares(t) ==
  LET plus == <<4, 1, -1>>
  IN  {[r \in Resources |-> d[r] + plus[affinityOf(t, r)]] : d \in [Resources -> Faces]}

(* One element of F[i] for each planet i. *)
PerPlanet(F) == {f \in [DOMAIN F -> UNION {F[i] : i \in DOMAIN F}] :
                   \A i \in DOMAIN F : f[i] \in F[i]}

(* planetAmount: endowment * shares / total shares, over the product of the totals, of
   the resources that occur in the system.  The factor by which an endowment grows
   with the number of planets is common to all and left out. *)
Distribute(sh) ==
  LET total == [r \in Resources |-> Sum([i \in DOMAIN sh |-> sh[i][r]])]
      occurs == [r \in Resources |-> IF total[r] > 0 THEN total[r] ELSE 1]
      over == occurs["fuel"] * occurs["mtls"] * occurs["nmtl"]
      scale == [r \in Resources |-> Endowment[r] * (over \div occurs[r])]
  IN  [i \in DOMAIN sh |-> [r \in Resources |-> scale[r] * sh[i][r]]]

-----------------------------------------------------------------------------
(* assignSlots, on planet i. *)

Present(i) == {r \in Resources : amount[i][r] > 0}

(* Over the resources present: the others have an amount of zero. *)
TotalAmount(i) == Sum(amount[i])

Remaining(i) == count[i] - Cardinality(Present(i))

Whole(i, r) == (Remaining(i) * amount[i][r]) \div TotalAmount(i)
Fraction(i, r) == (Remaining(i) * amount[i][r]) % TotalAmount(i)

Leftover(i) ==
  Remaining(i) - Sum([r \in Resources |-> Whole(i, r)])

(* Mutant of Before: an ascending sort. *)
BeforeAscending(i, r, s) == Fraction(i, r) < Fraction(i, s)

(* Whether r comes before s when the leftover slots are given out.  Equal amounts
   have equal remainders in float64 too, and the stable sort keeps their order;
   where different amounts have equal remainders, rounding decides.  A gas giant
   with 7/9, 2/2 and 1/6 of the endowments and 28 slots to share out is due 11 1/5,
   14 2/5 and 2 2/5: in float64 the third remainder is the largest. *)
Before(i, r, s) ==
  \/ Fraction(i, r) > Fraction(i, s)
  \/ /\ amount[i][r] = amount[i][s]
     /\ affinityOf(types[i], r) < affinityOf(types[i], s)

Winners(i) ==
  {W \in SUBSET Present(i) :
     /\ Cardinality(W) = Leftover(i)
     /\ \A w \in W, r \in Present(i) \ W : ~Before(i, r, w)}

Reserved(i) == [r \in Resources |-> IF r \in Present(i) THEN 1 ELSE 0]

AssignSlots(i) ==
  IF Present(i) = {} \/ Remaining(i) <= 0
  THEN {Reserved(i)}
  ELSE {[r \in Resources |->
           IF r \in Present(i)
           THEN Reserved(i)[r] + Whole(i, r) + (IF r \in W THEN 1 ELSE 0)
           ELSE 0] : W \in Winners(i)}

-----------------------------------------------------------------------------
(* Yields, in tenths of a percent. *)

baseYieldPct(r) == CASE r = "fuel" -> 5 [] r = "mtls" -> 12 [] r = "nmtl" -> 9

(* The adjustment less five points for each point of habitability above 20. *)
Net(adj, h) == adj - (IF h > 20 THEN (h - 20) * 5 ELSE 0)

(* Where the float64 product base * (1 + net/100) * 10 is just short of the whole
   number it should be: 12 * 1.4 * 10 gives 167.99999999999997. *)
Short(r) ==
  CASE r = "fuel" -> {-80, -78, -68, -66, -56, -32, -6, 18, 36}
    [] r = "mtls" -> {-80, -65, -55, -30, -5, 40}
    [] r = "nmtl" -> {-80, -40, 20}

(* base * (1 + net/100) * 10, rounded down, and at least 1. *)
yieldTenths(r, adj, h) ==
  LET net   == Net(adj, h)
      exact == (baseYieldPct(r) * (100 + net)) \div 10
      floor == IF net \in Short(r) THEN exact - 1 ELSE exact
  IN  IF floor < 1 THEN 1 ELSE floor

-----------------------------------------------------------------------------
DepositsInit ==
  /\ types \in Systems
  /\ phase = "called" /\ shares = <<>> /\ amount = <<>> /\ count = <<>> /\ slots = <<>>
  /\ yield = <<>>

RollShares ==
  /\ phase = "called"
  /\ shares' \in PerPlanet([i \in DOMAIN types |-> rollShares(types[i])])
  /\ amount' = Distribute(shares')
  /\ phase' = "shares"
  /\ UNCHANGED <<types, count, slots, yield>>

RollCounts ==
  /\ phase = "shares"
  /\ count' \in PerPlanet([i \in DOMAIN types |-> CountRolls[types[i]]])
  /\ phase' = "counts"
  /\ UNCHANGED <<types, shares, amount, slots, yield>>

CreateDeposits ==
  /\ phase = "counts"
  /\ slots' \in PerPlanet([i \in DOMAIN types |-> AssignSlots(i)])
  /\ phase' = "slots"
  /\ UNCHANGED <<types, shares, amount, count, yield>>

(* Phase 7, for one deposit: an adjustment by its resource's abundance, and the
   penalty of its planet's habitability. *)
RollYield ==
  /\ phase = "slots"
  /\ \E i \in DOMAIN types, r \in Resources, a \in Abundances, h \in Habitabilities :
       \E adj \in AdjustmentRolls[a] :
         /\ slots[i][r] > 0
         /\ yield' = [resource |-> r, net |-> Net(adj, h), tenths |-> yieldTenths(r, adj, h)]
  /\ phase' = "yields"
  /\ UNCHANGED <<types, shares, amount, count, slots>>

DepositsNext == RollShares \/ RollCounts \/ CreateDeposits \/ RollYield

DepositsSpec == DepositsInit /\ [][DepositsNext]_depositVars

-----------------------------------------------------------------------------
(* A planet gets as many deposits as it rolled, at least one of each resource it has
   a share of.  Largest remainder does what it is chosen for: beyond the reserved
   slot, each resource has its exact share of the deposits to within one, and a
   resource the planet has more of never has fewer deposits. *)
Apportioned ==
  phase = "slots" =>
    \A i \in DOMAIN types :
      /\ Sum(slots[i]) = count[i]
      /\ \A r \in Resources : slots[i][r] > 0 <=> shares[i][r] > 0
      /\ \A r \in Present(i) :
           /\ (slots[i][r] - 1) * TotalAmount(i) - Remaining(i) * amount[i][r]
                \in 1 - TotalAmount(i) .. TotalAmount(i) - 1
           /\ \A s \in Present(i) :
                amount[i][r] > amount[i][s] => slots[i][r] >= slots[i][s]

(* "floor(unrounded yield % * 10)" with "unrounded yield % = baseYield * (1 +
   net/100)", and at least a tenth (yieldTenths). *)
YieldIsRoundedDown ==
  phase = "yields" =>
    LET floor == (baseYieldPct(yield.resource) * (100 + yield.net)) \div 10
    IN  yield.tenths = IF floor < 1 THEN 1 ELSE floor

(* "Equal remainders broken in favor of the earlier resource in order (never by
   float equality)" (deposits.go): of two resources with equal remainders the later
   does not get a leftover slot that the earlier goes without. *)
EarlierWinsTies ==
  phase = "slots" =>
    \A i \in DOMAIN types : \A r, s \in Present(i) :
      /\ Fraction(i, r) = Fraction(i, s)
      /\ affinityOf(types[i], r) < affinityOf(types[i], s)
      => slots[i][s] - Whole(i, s) <= slots[i][r] - Whole(i, r)
=============================================================================
