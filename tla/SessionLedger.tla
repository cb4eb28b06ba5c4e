---------------------------- MODULE SessionLedger ---------------------------
(***************************************************************************)
(* What the server promises about sessions, whatever rows it keeps of them *)
(* and whenever it cleans up.  An id is issued once, to one account and    *)
(* for a time that never changes.  It is over when that time has come or   *)
(* when the sessions of its account, one of them or several at once, are   *)
(* ended, and what is over is never issued again.                          *)
(***************************************************************************)
EXTENDS Naturals

CONSTANTS Accounts, SessionIds, None

VARIABLES ledger, time

Unissued == [state |-> "unissued"]
Over == [state |-> "over"]
Ticket == [state: {"open"}, account: Accounts, actor: Accounts \cup {None}, until: Nat]

OpenOf(a) == {s \in SessionIds : ledger[s] \in Ticket /\ ledger[s].account = a}

Init ==
  /\ ledger = [s \in SessionIds |-> Unissued]
  /\ time = 0

(* A login takes its time: the session may be over when it is issued. *)
Issue(s) ==
  /\ ledger[s] = Unissued
  /\ ledger' = [ledger EXCEPT ![s] = ledger'[s]]
  /\ \/ ledger'[s] = Over
     \/ ledger'[s] \in Ticket /\ ledger'[s].until > time
  /\ UNCHANGED time

End(a) ==
  /\ \E S \in SUBSET OpenOf(a) :
       ledger' = [s \in SessionIds |-> IF s \in S THEN Over ELSE ledger[s]]
  /\ UNCHANGED time

Tick ==
  /\ time' = time + 1
  /\ ledger' = [s \in SessionIds |->
       IF ledger[s] \in Ticket /\ ledger[s].until <= time' THEN Over ELSE ledger[s]]

Next ==
  \/ Tick
  \/ \E s \in SessionIds : Issue(s)
  \/ \E a \in Accounts : End(a)

Spec == Init /\ [][Next]_<<ledger, time>>
=============================================================================
