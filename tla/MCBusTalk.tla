------------------------------ MODULE MCBusTalk -----------------------------
(***************************************************************************)
(* BusTalk for TLC, at the edge of what its lateness may be: two channels, *)
(* answers of the board up to two requests late, of the pump up to one.    *)
(***************************************************************************)
EXTENDS BusTalk

MCMaxLate == [relay |-> 2, pump |-> 1]

=============================================================================
