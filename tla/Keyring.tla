------------------------------- MODULE Keyring ------------------------------
(***************************************************************************)
(* What earl's token file promises to any number of invocations that share *)
(* it without a lock.  Each reads the whole file and may later replace it  *)
(* by what it read with one identity saved or forgotten: the file is never *)
(* seen half-written, and a token is only ever kept under the account it   *)
(* was minted for.  What other invocations saved in between is lost.       *)
(***************************************************************************)
CONSTANTS Invocations, Keys, Token, None

VARIABLES file, seen   \* seen[c]: what invocation c read and may still write back

Init ==
  /\ file = [k \in Keys |-> None]
  /\ seen = [c \in Invocations |-> None]

Read(c) == seen' = [seen EXCEPT ![c] = file] /\ UNCHANGED file

Leave(c) == seen' = [seen EXCEPT ![c] = None] /\ UNCHANGED file

Write(c) ==
  /\ seen[c] # None
  /\ \/ \E t \in Token : file' = [seen[c] EXCEPT ![t.key] = t]
     \/ \E k \in Keys : file' = [seen[c] EXCEPT ![k] = None]
  /\ seen' = [seen EXCEPT ![c] = None]

Next == \E c \in Invocations : Read(c) \/ Leave(c) \/ Write(c)

Spec == Init /\ [][Next]_<<file, seen>>
=============================================================================
