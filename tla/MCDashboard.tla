---------------------------- MODULE MCDashboard -----------------------------
(***************************************************************************)
(* Dashboard for TLC: two relays, i32 scaled down to eight bits, values of *)
(* every kind, under one key or two.                                       *)
(***************************************************************************)
EXTENDS Dashboard

MCRelayKeys == <<"r1", "r2">>
MCIntMin == -128

MCModes    == {Number(0), Number(1000), Fraction(0), Boolean(TRUE), Text("x"), Null}
MCSpeeds   == {Number(-1000), Number(7), Number(36), Number(1000), Fraction(0), Text("20"),
               Text("true"), Null}
MCSwitches == {Number(0), Number(-2), Fraction(0), Boolean(FALSE), Text("1"), Text("20"), Null}

Object1(key, values) == {[k \in {key} |-> v] : v \in values}
Object2(key1, values1, key2, values2) ==
  {[k \in {key1, key2} |-> IF k = key1 THEN v ELSE w] : v \in values1, w \in values2}

MCObjects == Object1("m", MCModes) \cup Object1("spd", MCSpeeds) \cup Object1("r1", MCSwitches)
             \cup Object2("m", {Number(0), Null}, "spt", {Number(72), Null})
             \cup Object2("spd", {Number(20), Null}, "r2", {Number(1), Null})
             \cup Object2("r1", {Number(0), Null}, "r2", {Number(0), Number(1), Null})

=============================================================================
