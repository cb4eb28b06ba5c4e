----------------------------- MODULE MCDatabase -----------------------------
(* An old build that knows one migration, and a new one that knows two more. *)
EXTENDS Database

CONSTANTS old, new

MCExpectedVersion == [b \in Builds |-> IF b = old THEN 1 ELSE 3]
=============================================================================
