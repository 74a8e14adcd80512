--------------------------- MODULE MCRecipeCache ---------------------------
(* Two machines, or one before and after an upgrade, the first of them with   *)
(* two memory configurations.                                                 *)
EXTENDS RecipeCache, TLC

CONSTANTS s1, s1m, s2, h1, h2, m1, m2

MCSystem == {s1, s1m, s2}
MCHwOf == (s1 :> h1) @@ (s1m :> h1) @@ (s2 :> h2)
MCMemOf == (s1 :> m1) @@ (s1m :> m2) @@ (s2 :> m1)
=============================================================================
