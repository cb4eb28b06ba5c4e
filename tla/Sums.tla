-------------------------------- MODULE Sums --------------------------------
(* The totals the stages of Genesis keep: over the orbits of a system, the resources
   of a planet, the planets of a system. *)
EXTENDS Integers, FiniteSetsExt

(* Of a function's values. *)
Sum(f) == MapThenSumSet(LAMBDA x : f[x], DOMAIN f)
=============================================================================
