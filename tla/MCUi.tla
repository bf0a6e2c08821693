-------------------------------- MODULE MCUi --------------------------------
(* A small instance of Ui for TLC.                                         *)
EXTENDS Ui

OneOrFour == {1, 4}
=============================================================================
