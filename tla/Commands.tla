------------------------------ MODULE Commands ------------------------------
(***************************************************************************)
(* What a command says and what a status shows: apply_command_json with    *)
(* the decoding of its values, to_status_json and the dashboard's view.    *)
(*                                                                         *)
(* Abstractions.  A JSON value is a record of its kind and its content; a  *)
(* number says whether it has a fraction.  The range of i32 is a constant. *)
(* The object is a function on the keys present.  Sensor readings, IP and  *)
(* version are shown as they are and left out.                             *)
(***************************************************************************)
EXTENDS SpeedScale, Sequences

CONSTANTS RelayKeys,           \* r1, r2, ... in order
          SpdMax,
          IntMin, IntMax       \* the range of i32

Relays     == {RelayKeys[i] : i \in DOMAIN RelayKeys}
NumberKeys == {"m", "spd", "sst", "spt"}

\* An i32 holds the defaults and whatever a u16 does.
ASSUME CommandsAssumption ==
  /\ RelayKeys \in Seq(STRING) /\ Relays \cap NumberKeys = {}
  /\ SpdMax \in Word
  /\ IntMin \in Int /\ IntMax \in Int /\ IntMin < 0 /\ IntMax > 104
  /\ EffectiveMax(SpdMax) =< IntMax

\* The fields a command or a status is about; relayStatus is an option.
PoolStates ==
  [mode : IntMin .. IntMax, speed : 0 .. EffectiveMax(SpdMax),
   spaTemp : IntMin .. IntMax, poolTemp : IntMin .. IntMax, relays : SUBSET Relays,
   updatePump : BOOLEAN, updateRelays : BOOLEAN, relayStatus : SUBSET SUBSET Relays]

Number(n)   == [kind |-> "number", n |-> n, fraction |-> FALSE]
Fraction(n) == [kind |-> "number", n |-> n, fraction |-> TRUE]  \* n, and something more
Boolean(b)  == [kind |-> "bool", b |-> b]
Text(s)     == [kind |-> "string", s |-> s]
Null        == [kind |-> "null"]

JsonValues == [kind : {"number"}, n : Int, fraction : BOOLEAN]
              \cup [kind : {"bool"}, b : BOOLEAN] \cup [kind : {"string"}, s : STRING] \cup {Null}

-----------------------------------------------------------------------------
(* The values; {} is an error.                                             *)

Saturated(n) == IF n < IntMin THEN IntMin ELSE IF n > IntMax THEN IntMax ELSE n

\* What str::parse makes of the texts that occur.
ParsedText(s) == CASE s = "0" -> {0} [] s = "1" -> {1} [] s = "20" -> {20} [] OTHER -> {}

\* A number beyond the range or with a fraction goes through f64: truncated
\* and saturated.
JsonAsI32(v) == CASE v.kind = "number" -> {Saturated(v.n)}
                  [] v.kind = "bool"   -> {IF v.b THEN 1 ELSE 0}
                  [] v.kind = "string" -> ParsedText(v.s)
                  [] OTHER             -> {}

JsonAsBoolish(v) == CASE v.kind = "number" -> {v.n # 0}
                      [] v.kind = "bool"   -> {v.b}
                      [] v.kind = "string" -> CASE v.s \in {"1", "true"}  -> {TRUE}
                                                [] v.s \in {"0", "false"} -> {FALSE}
                                                [] OTHER -> {}
                      [] OTHER -> {}

-----------------------------------------------------------------------------
(* apply_command_json: key after key on a draft; an error leaves no draft. *)

Put(draft, field, value) ==
  [new     |-> [draft.new EXCEPT ![field] = value],
   changed |-> draft.changed \/ draft.new[field] # value]

PutSpeed(draft, speed) ==
  [Put(draft, "speed", speed) EXCEPT
     !.new.updatePump = draft.new.updatePump \/ draft.new.speed # speed]

PutNumber(draft, key, n) ==
  CASE key = "m"   -> Put(draft, "mode", n)
    [] key = "spd" -> PutSpeed(draft, EncodeSpd(n, SpdMax))
    [] key = "sst" -> Put(draft, "spaTemp", n)
    [] key = "spt" -> Put(draft, "poolTemp", n)

\* Fault: a relay key dirties the relays when its bit moves.
PutRelayMoved(draft, key, on) ==
  LET relays == IF on THEN draft.new.relays \cup {key} ELSE draft.new.relays \ {key}
  IN  [Put(draft, "relays", relays) EXCEPT
         !.new.updateRelays = draft.new.updateRelays \/ draft.new.relays # relays]

\* A relay key dirties the relays whatever its value.
PutRelay(draft, key, on) ==
  LET relays == IF on THEN draft.new.relays \cup {key} ELSE draft.new.relays \ {key}
  IN  [Put(draft, "relays", relays) EXCEPT !.new.updateRelays = TRUE]

ApplyKey(drafts, key, obj) ==
  CASE key \notin DOMAIN obj -> drafts
    [] key \in DOMAIN obj \cap NumberKeys ->
         {PutNumber(d, key, n) : d \in drafts, n \in JsonAsI32(obj[key])}
    [] OTHER ->
         {PutRelay(d, key, on) : d \in drafts, on \in JsonAsBoolish(obj[key])}

KeysInOrder == <<"m", "spd", "sst", "spt">> \o RelayKeys

\* Fault: a key that is refused is passed over, what is before it stays.
ApplyCommandJsonPartly(state, obj) ==
  LET drafts[i \in 0 .. Len(KeysInOrder)] ==
        IF i = 0 THEN {[new |-> state, changed |-> FALSE]}
        ELSE IF ApplyKey(drafts[i - 1], KeysInOrder[i], obj) = {} THEN drafts[i - 1]
        ELSE ApplyKey(drafts[i - 1], KeysInOrder[i], obj)
  IN  drafts[Len(KeysInOrder)]

ApplyCommandJson(state, obj) ==
  LET drafts[i \in 0 .. Len(KeysInOrder)] ==
        IF i = 0 THEN {[new |-> state, changed |-> FALSE]}
        ELSE ApplyKey(drafts[i - 1], KeysInOrder[i], obj)
  IN  drafts[Len(KeysInOrder)]

-----------------------------------------------------------------------------
(* to_status_json: the settings as commanded, the relays as measured.      *)

\* Fault: the speed is published as a percentage of the maximum.
StatusJsonPercent(state) ==
  [key \in NumberKeys \cup Relays |->
     CASE key = "m"   -> Number(state.mode)
       [] key = "spd" -> Number((state.speed * 100) \div EffectiveMax(SpdMax))
       [] key = "sst" -> Number(state.spaTemp)
       [] key = "spt" -> Number(state.poolTemp)
       [] key \in Relays -> Null]

StatusJson(state) ==
  [key \in NumberKeys \cup Relays |->
     CASE key = "m"   -> Number(state.mode)
       [] key = "spd" -> Number(state.speed)
       [] key = "sst" -> Number(state.spaTemp)
       [] key = "spt" -> Number(state.poolTemp)
       [] key \in Relays ->
            IF state.relayStatus = {} THEN Null
            ELSE Number(IF \E mask \in state.relayStatus : key \in mask THEN 1 ELSE 0)]

=============================================================================
