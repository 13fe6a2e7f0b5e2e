---------------------------- MODULE MCWaterTemp -----------------------------
(***************************************************************************)
(* WaterTemp for TLC: a sensor that is grounded or at celsius_min; the     *)
(* limits are those of the default configuration.                          *)
(***************************************************************************)
EXTENDS WaterTemp

MCRaws == {-2, 30051}

=============================================================================
