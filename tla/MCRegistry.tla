----------------------------- MODULE MCRegistry -----------------------------
(* Small instances of Registry for TLC.                                    *)
EXTENDS Registry

Three == {1, 3, 4}

(* Two spellings of one name, and two other names.                         *)
FourNames == {"ann", "Ann", "bob", "cat"}
Lower == [n \in FourNames |-> IF n = "Ann" THEN "ann" ELSE n]
=============================================================================
