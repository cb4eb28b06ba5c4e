------------------------------- MODULE Roster -------------------------------
(***************************************************************************)
(* What the seats of a game promise (ADR-0003): a seating gives an account *)
(* that has none the next id, in one indivisible step; nobody ever loses,  *)
(* changes or reuses one.                                                  *)
(***************************************************************************)
EXTENDS Integers

CONSTANTS Games, Accounts, MaxSeats, None
VARIABLE holder   \* holder[g][n]: the account on seat n

Init == holder = [g \in Games |-> [n \in 1 .. MaxSeats |-> None]]

(* Whoever gets seat n of the game. *)
Seating(g, n) ==
  /\ holder[g][n] = None /\ holder'[g][n] \in Accounts
  /\ \A m \in 1 .. MaxSeats : m < n <=> holder[g][m] # None
  /\ \A m \in 1 .. MaxSeats : holder[g][m] # holder'[g][n]
  /\ holder' = [holder EXCEPT ![g][n] = holder'[g][n]]

Next == \E g \in Games, n \in 1 .. MaxSeats : Seating(g, n)

Spec == Init /\ [][Next]_holder
=============================================================================
