----------------------------- MODULE MCStartup ------------------------------
(* A small instance of Startup for TLC.                                    *)
EXTENDS Startup, TLC

CONSTANTS k1, k2, k3, c1, c2, c3

ThreeKeys  == {k1, k2, k3}
ThreeCodes == {c1, c2, c3}

(* Keys, and codes, are told apart only by being different.                *)
Alike == Permutations(ThreeKeys) \cup Permutations(ThreeCodes)
=============================================================================
