------------------------------- MODULE MCGames ------------------------------
(* A small catalogue: one game, an admin and a user, who may come to be a
   member or the GM. *)
EXTENDS Games, TLC

CONSTANTS ann, bob, r1, r2

MCCallers == {<<ann, TRUE>>, <<bob, FALSE>>}
MCMoves == {"recruiting", "archived"}
MCSymmetry == Permutations({r1, r2})
=============================================================================
