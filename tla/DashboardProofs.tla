-------------------------- MODULE DashboardProofs --------------------------
(***************************************************************************)
(* The dashboard's side of the controller for every command object, any    *)
(* relays, every capacity and any number of lines.                         *)
(*                                                                         *)
(* That a command is applied whole or not at all is an induction over its  *)
(* keys in the order they are taken in: what the first i of them come to   *)
(* is what the part of the command under these keys means, by which the    *)
(* drafts of apply_command_json have a closed form.                        *)
(***************************************************************************)
EXTENDS Dashboard, SequenceTheorems, NumberProofs

-----------------------------------------------------------------------------
(* The ring of log lines.                                                  *)

RingInv == RingType /\ NewestLines

LEMMA RingStart == RingInit => RingInv
  BY LogAssumption DEF RingInit, RingInv, RingType, NewestLines, AtLeastOne

LEMMA PushStep == RingInv /\ Push => RingInv'
  <1> SUFFICES ASSUME RingInv, Push PROVE RingInv'
    OBVIOUS
  <1> DEFINE kept == IF Len(lines) >= capacity THEN Tail(lines) ELSE lines
  <1>1. /\ kept \in Seq(Nat) /\ Len(kept) < capacity
        /\ \A i \in 1 .. Len(kept) : kept[i] = logged - Len(kept) + i
    <2>1. CASE Len(lines) >= capacity
      <3>1. lines \in Seq(Nat) /\ lines # << >>
        BY <2>1 DEF RingInv, RingType
      <3>2. /\ Tail(lines) \in Seq(Nat) /\ Len(Tail(lines)) = Len(lines) - 1
            /\ \A i \in 1 .. Len(Tail(lines)) : Tail(lines)[i] = lines[i + 1]
        BY <3>1, HeadTailProperties
      <3>3. /\ logged \in Nat /\ capacity \in Nat /\ Len(lines) \in Nat
            /\ Len(lines) =< capacity
            /\ \A i \in 1 .. Len(lines) : lines[i] = logged - Len(lines) + i
        BY LogAssumption DEF RingInv, RingType, NewestLines
      <3>4. \A i \in 1 .. Len(Tail(lines)) : Tail(lines)[i] = logged - Len(Tail(lines)) + i
        BY <3>2, <3>3
      <3> QED
        BY <2>1, <3>2, <3>3, <3>4
    <2>2. CASE ~(Len(lines) >= capacity)
      BY <2>2, LogAssumption DEF RingInv, RingType, NewestLines
    <2> QED
      BY <2>1, <2>2
  <1>2. lines' = Append(kept, logged + 1) /\ logged' = logged + 1 /\ UNCHANGED capacity
    BY DEF Push
  <1>3. logged \in Nat /\ capacity \in Nat \ {0} /\ logged' \in 0 .. MaxLogged
    BY LogAssumption DEF Push, RingInv, RingType
  <1> HIDE DEF kept
  <1>4. lines' \in Seq(Nat) /\ Len(lines') = Len(kept) + 1
    BY <1>1, <1>2, <1>3
  <1>5. \A i \in 1 .. Len(lines') : lines'[i] = logged' - Len(lines') + i
    <2>1. ASSUME NEW i \in 1 .. Len(lines'), i # Len(lines')
          PROVE  lines'[i] = logged' - Len(lines') + i
      <3>1. i \in 1 .. Len(kept) /\ kept[i] = logged - Len(kept) + i
        BY <1>1, <1>4, <2>1
      <3>2. lines'[i] = kept[i]
        BY <1>1, <1>2, <3>1
      <3> QED
        BY <1>1, <1>2, <1>3, <1>4, <3>1, <3>2
    <2>2. lines'[Len(kept) + 1] = logged + 1
      BY <1>1, <1>2
    <2> QED
      BY <1>1, <1>2, <1>3, <1>4, <2>1, <2>2
  <1> QED
    BY <1>1, <1>2, <1>3, <1>4, <1>5 DEF RingInv, RingType, NewestLines

LEMMA CapacityStep ==
  ASSUME RingInv, NEW n \in Nat, SetCapacity(n)
  PROVE  RingInv'
  <1>1. AtLeastOne(n) \in Nat \ {0} /\ capacity' = AtLeastOne(n) /\ UNCHANGED logged
    BY DEF AtLeastOne, SetCapacity
  <1>2. CASE Len(lines) > AtLeastOne(n)
    <2>1. /\ lines' = SubSeq(lines, Len(lines) - AtLeastOne(n) + 1, Len(lines))
          /\ lines \in Seq(Nat)
      BY <1>2 DEF SetCapacity, LastLines, RingInv, RingType
    <2> DEFINE size == AtLeastOne(n)
               first == Len(lines) - size + 1
    <2>2. /\ size \in Nat \ {0} /\ Len(lines) \in Nat /\ first \in Int /\ first >= 1
          /\ Len(lines) - first + 1 = size
      BY <1>1, <1>2, <2>1
    <2> HIDE DEF size, first
    <2>3. \A i \in first .. Len(lines) : lines[i] \in Nat
      <3> SUFFICES ASSUME NEW i \in first .. Len(lines) PROVE lines[i] \in Nat
        OBVIOUS
      <3>1. i \in 1 .. Len(lines)
        BY <2>2
      <3> QED
        BY <2>1, <3>1
    <2>4. /\ SubSeq(lines, first, Len(lines)) \in Seq(Nat)
          /\ Len(SubSeq(lines, first, Len(lines))) = size
          /\ \A i \in 1 .. size : SubSeq(lines, first, Len(lines))[i] = lines[first + i - 1]
      <3>1. Len(lines) \in Int /\ first =< Len(lines)
        BY <2>2
      <3> QED
        BY <2>2, <2>3, <3>1, SubSeqProperties
    <2>5. lines' = SubSeq(lines, first, Len(lines))
      BY <2>1 DEF size, first
    <2>6. /\ logged \in Nat
          /\ \A i \in 1 .. Len(lines) : lines[i] = logged - Len(lines) + i
      BY LogAssumption DEF RingInv, RingType, NewestLines
    <2>7. \A i \in 1 .. size : lines'[i] = logged' - size + i
      <3> SUFFICES ASSUME NEW i \in 1 .. size PROVE lines'[i] = logged' - size + i
        OBVIOUS
      <3>1. lines'[i] = lines[first + i - 1] /\ first + i - 1 \in 1 .. Len(lines)
        BY <2>2, <2>4, <2>5
      <3>2. lines[first + i - 1] = logged - Len(lines) + (first + i - 1)
        BY <2>6, <3>1
      <3>0. /\ i \in Int /\ size \in Int /\ first \in Int /\ Len(lines) \in Int
            /\ logged \in Int /\ Len(lines) - first + 1 = size
        BY <2>2, <2>6
      <3>3. logged - Len(lines) + (first + i - 1) = logged - size + i
        BY <3>0
      <3>4. logged' = logged
        BY <1>1
      <3> QED
        BY <3>1, <3>2, <3>3, <3>4
    <2>8. capacity' = size /\ Len(lines') = size /\ lines' \in Seq(Nat) /\ UNCHANGED logged
      BY <1>1, <2>4, <2>5 DEF size
    <2> QED
      BY <2>2, <2>7, <2>8 DEF RingInv, RingType, NewestLines
  <1>3. CASE ~(Len(lines) > AtLeastOne(n))
    BY <1>1, <1>3 DEF SetCapacity, RingInv, RingType, NewestLines
  <1> QED
    BY <1>2, <1>3

-----------------------------------------------------------------------------
(* What the values of a command decode to.                                 *)

\* Whatever its keys, its values are JSON values.
JsonObject(obj) == \A key \in DOMAIN obj : obj[key] \in JsonValues

LEMMA Bounds ==
  /\ IntMin \in Int /\ IntMax \in Int /\ IntMin < 0 /\ IntMax > 104
  /\ SpdMax \in Word /\ EffectiveMax(SpdMax) \in Nat /\ EffectiveMax(SpdMax) =< IntMax
  <1>1. SpdMax \in Word
    BY CommandsAssumption
  <1>2. EffectiveMax(SpdMax) \in Word
    BY <1>1, EffectiveMaxType
  <1>3. \A w \in Word : w \in Nat
    BY WordWidth DEF Word
  <1> QED
    BY <1>1, <1>2, <1>3, CommandsAssumption

\* Decoding is an error or one value, and a number fits an i32.
LEMMA DecodedValues ==
  ASSUME NEW v \in JsonValues
  PROVE  /\ JsonAsI32(v) # {} => \E n \in IntMin .. IntMax : JsonAsI32(v) = {n}
         /\ JsonAsBoolish(v) \in {{}, {TRUE}, {FALSE}}
  <1>1. CASE v \in [kind : {"number"}, n : Int, fraction : BOOLEAN]
    <2>1. v.kind = "number" /\ v.n \in Int
      BY <1>1
    <2>2. JsonAsI32(v) = {Saturated(v.n)} /\ Saturated(v.n) \in IntMin .. IntMax
      BY <2>1, Bounds DEF JsonAsI32, Saturated
    <2>3. JsonAsBoolish(v) = {v.n # 0}
      BY <2>1 DEF JsonAsBoolish
    <2> QED
      BY <2>2, <2>3
  <1>2. CASE v \in [kind : {"bool"}, b : BOOLEAN]
    <2>1. v.kind = "bool" /\ v.b \in BOOLEAN
      BY <1>2
    <2>2. JsonAsI32(v) = {IF v.b THEN 1 ELSE 0} /\ JsonAsBoolish(v) = {v.b}
      BY <2>1 DEF JsonAsI32, JsonAsBoolish
    <2>3. 0 \in IntMin .. IntMax /\ 1 \in IntMin .. IntMax
      BY Bounds
    <2> QED
      BY <2>1, <2>2, <2>3
  <1>3. CASE v \in [kind : {"string"}, s : STRING]
    <2>1. v.kind = "string"
      BY <1>3
    <2>2. JsonAsI32(v) = ParsedText(v.s)
      BY <2>1 DEF JsonAsI32
    <2>3. ParsedText(v.s) \in {{0}, {1}, {20}, {}}
      BY DEF ParsedText
    <2>4. 0 \in IntMin .. IntMax /\ 1 \in IntMin .. IntMax /\ 20 \in IntMin .. IntMax
      BY Bounds
    <2>5. JsonAsBoolish(v) \in {{}, {TRUE}, {FALSE}}
      BY <2>1 DEF JsonAsBoolish
    <2> QED
      BY <2>2, <2>3, <2>4, <2>5
  <1>4. CASE v = Null
    <2>1. v.kind = "null"
      BY <1>4 DEF Null
    <2> QED
      BY <2>1 DEF JsonAsI32, JsonAsBoolish
  <1> QED
    BY <1>1, <1>2, <1>3, <1>4 DEF JsonValues

\* The number a value stands for.
Value(v) == CHOOSE n \in JsonAsI32(v) : TRUE

LEMMA ValueType ==
  ASSUME NEW v \in JsonValues, JsonAsI32(v) # {}
  PROVE  Value(v) \in IntMin .. IntMax /\ JsonAsI32(v) = {Value(v)}
  <1>1. PICK n \in IntMin .. IntMax : JsonAsI32(v) = {n}
    BY DecodedValues
  <1>2. Value(v) = n
    BY <1>1 DEF Value
  <1> QED
    BY <1>1, <1>2

\* Two states are the same when their fields are.
LEMMA SameState ==
  ASSUME NEW s \in PoolStates, NEW t \in PoolStates,
         s.mode = t.mode, s.speed = t.speed, s.spaTemp = t.spaTemp, s.poolTemp = t.poolTemp,
         s.relays = t.relays, s.updatePump = t.updatePump, s.updateRelays = t.updateRelays,
         s.relayStatus = t.relayStatus
  PROVE  s = t
BY DEF PoolStates

-----------------------------------------------------------------------------
(* The part of a command that is under the keys of S, and what it means.   *)

Part(obj, S) == [key \in DOMAIN obj \cap S |-> obj[key]]

LEMMA PartRefused ==
  ASSUME NEW obj, NEW S
  PROVE  /\ DOMAIN Part(obj, S) = DOMAIN obj \cap S
         /\ \A key \in DOMAIN obj \cap S : Part(obj, S)[key] = obj[key]
         /\ Refused(Part(obj, S)) <=>
              \E key \in DOMAIN obj \cap S :
                 \/ key \in NumberKeys /\ JsonAsI32(obj[key]) = {}
                 \/ key \in Relays /\ JsonAsBoolish(obj[key]) = {}
  <1>1. /\ DOMAIN Part(obj, S) = DOMAIN obj \cap S
        /\ \A key \in DOMAIN obj \cap S : Part(obj, S)[key] = obj[key]
    BY DEF Part
  <1> QED
    BY <1>1 DEF Refused

\* The field of a number key, as the part leaves it.
Field(obj, S, key, default) == IF key \in DOMAIN obj \cap S THEN Value(obj[key]) ELSE default

LEMMA FieldType ==
  ASSUME NEW obj, JsonObject(obj), NEW S, ~Refused(Part(obj, S)),
         NEW key \in NumberKeys, NEW default \in IntMin .. IntMax
  PROVE  /\ Field(obj, S, key, default) \in IntMin .. IntMax
         /\ Given(Part(obj, S), key, default) = Field(obj, S, key, default)
  <1>1. CASE key \in DOMAIN obj \cap S
    <2>1. obj[key] \in JsonValues /\ JsonAsI32(obj[key]) # {}
      BY <1>1, PartRefused DEF JsonObject
    <2>2. key \in DOMAIN Part(obj, S) /\ Part(obj, S)[key] = obj[key]
      BY <1>1, PartRefused
    <2> QED
      BY <1>1, <2>1, <2>2, ValueType DEF Field, Given, Value
  <1>2. CASE key \notin DOMAIN obj \cap S
    BY <1>2, PartRefused DEF Field, Given
  <1> QED
    BY <1>1, <1>2

SpeedOf(obj, S) ==
  IF "spd" \in DOMAIN obj \cap S THEN EncodeSpd(Value(obj["spd"]), SpdMax) ELSE state.speed

\* Relay by relay: what the command says of it, else what it was.
On(obj, S, r) ==
  IF r \in DOMAIN obj \cap S THEN JsonAsBoolish(obj[r]) = {TRUE} ELSE r \in state.relays

LEMMA MeantFields ==
  ASSUME state \in PoolStates, NEW obj, JsonObject(obj), NEW S, ~Refused(Part(obj, S))
  PROVE  LET M == Meant(Part(obj, S))
         IN  /\ M \in PoolStates
             /\ M.mode = Field(obj, S, "m", state.mode)
             /\ M.speed = SpeedOf(obj, S)
             /\ M.spaTemp = Field(obj, S, "sst", state.spaTemp)
             /\ M.poolTemp = Field(obj, S, "spt", state.poolTemp)
             /\ M.relays = {r \in Relays : On(obj, S, r)}
             /\ M.updatePump = (state.updatePump \/ SpeedOf(obj, S) # state.speed)
             /\ M.updateRelays = (state.updateRelays \/ DOMAIN obj \cap S \cap Relays # {})
             /\ M.relayStatus = state.relayStatus
  <1> DEFINE part == Part(obj, S)
             on == {key \in DOMAIN part \cap Relays : JsonAsBoolish(part[key]) = {TRUE}}
             speed == IF "spd" \in DOMAIN part THEN EncodeSpd(Given(part, "spd", 0), SpdMax)
                      ELSE state.speed
             mode == Given(part, "m", state.mode)
             spa == Given(part, "sst", state.spaTemp)
             pool == Given(part, "spt", state.poolTemp)
             relays == (state.relays \ DOMAIN part) \cup on
             pump == state.updatePump \/ speed # state.speed
             dirty == state.updateRelays \/ DOMAIN part \cap Relays # {}
  <1>1. Meant(part) = [state EXCEPT !.mode = mode, !.speed = speed, !.spaTemp = spa,
                                    !.poolTemp = pool, !.relays = relays,
                                    !.updatePump = pump, !.updateRelays = dirty]
    BY DEF Meant, PoolStates
  <1>2. /\ state.mode \in IntMin .. IntMax /\ state.spaTemp \in IntMin .. IntMax
        /\ state.poolTemp \in IntMin .. IntMax /\ state.speed \in 0 .. EffectiveMax(SpdMax)
        /\ state.relays \subseteq Relays /\ state.updatePump \in BOOLEAN
        /\ state.updateRelays \in BOOLEAN
    BY DEF PoolStates
  <1>3. /\ mode = Field(obj, S, "m", state.mode) /\ mode \in IntMin .. IntMax
        /\ spa = Field(obj, S, "sst", state.spaTemp) /\ spa \in IntMin .. IntMax
        /\ pool = Field(obj, S, "spt", state.poolTemp) /\ pool \in IntMin .. IntMax
    <2>1. "m" \in NumberKeys /\ "sst" \in NumberKeys /\ "spt" \in NumberKeys
      BY DEF NumberKeys
    <2> QED
      BY <1>2, <2>1, FieldType
  <1>4. speed = SpeedOf(obj, S) /\ speed \in 0 .. EffectiveMax(SpdMax)
    <2>1. CASE "spd" \in DOMAIN obj \cap S
      <3>1. "spd" \in NumberKeys /\ 0 \in IntMin .. IntMax
        BY Bounds DEF NumberKeys
      <3>2. Given(part, "spd", 0) = Value(obj["spd"]) /\ Value(obj["spd"]) \in IntMin .. IntMax
        BY <2>1, <3>1, FieldType DEF Field
      <3>3. "spd" \in DOMAIN part
        BY <2>1, PartRefused
      <3>4. speed = EncodeSpd(Value(obj["spd"]), SpdMax)
        BY <3>2, <3>3
      <3>5. Value(obj["spd"]) \in Int
        BY <3>2, Bounds
      <3>6. EncodeSpd(Value(obj["spd"]), SpdMax) \in 0 .. EffectiveMax(SpdMax)
        BY <3>5, Bounds, EncodeRange
      <3> QED
        BY <2>1, <3>4, <3>6 DEF SpeedOf
    <2>2. CASE "spd" \notin DOMAIN obj \cap S
      BY <1>2, <2>2, PartRefused DEF SpeedOf
    <2> QED
      BY <2>1, <2>2
  <1>5. relays = {r \in Relays : On(obj, S, r)}
    <2>1. ASSUME NEW r \in Relays
          PROVE  r \in relays <=> On(obj, S, r)
      <3>1. CASE r \in DOMAIN obj \cap S
        <4>1. r \in DOMAIN part /\ part[r] = obj[r]
          BY <3>1, PartRefused
        <4> QED
          BY <3>1, <4>1 DEF On
      <3>2. CASE r \notin DOMAIN obj \cap S
        <4>1. r \notin DOMAIN part
          BY <3>2, PartRefused
        <4> QED
          BY <3>2, <4>1 DEF On
      <3> QED
        BY <3>1, <3>2
    <2>2. relays \subseteq Relays
      BY <1>2
    <2> HIDE DEF relays
    <2> QED
      BY <2>1, <2>2
  <1>6. relays \subseteq Relays /\ pump \in BOOLEAN /\ dirty \in BOOLEAN
    BY <1>2
  <1>7. dirty = (state.updateRelays \/ DOMAIN obj \cap S \cap Relays # {})
    BY PartRefused
  <1>8. pump = (state.updatePump \/ SpeedOf(obj, S) # state.speed)
    BY <1>4
  <1>10. state.relayStatus \in SUBSET SUBSET Relays
    BY DEF PoolStates
  <1> HIDE DEF mode, spa, pool, speed, relays, dirty, pump
  <1>9. /\ Meant(part) \in PoolStates
        /\ Meant(part).mode = mode /\ Meant(part).speed = speed
        /\ Meant(part).spaTemp = spa /\ Meant(part).poolTemp = pool
        /\ Meant(part).relays = relays /\ Meant(part).updatePump = pump
        /\ Meant(part).updateRelays = dirty /\ Meant(part).relayStatus = state.relayStatus
    <2>1. DOMAIN state = {"mode", "speed", "spaTemp", "poolTemp", "relays", "updatePump",
                          "updateRelays", "relayStatus"}
      BY DEF PoolStates
    <2> DEFINE M == Meant(part)
    <2>2. /\ M.mode = mode /\ M.speed = speed /\ M.spaTemp = spa /\ M.poolTemp = pool
          /\ M.relays = relays /\ M.updatePump = pump
          /\ M.updateRelays = dirty /\ M.relayStatus = state.relayStatus
      BY <1>1, <2>1
    <2>3. M = [mode |-> mode, speed |-> speed, spaTemp |-> spa, poolTemp |-> pool,
               relays |-> relays, updatePump |-> pump, updateRelays |-> dirty,
               relayStatus |-> state.relayStatus]
      BY <1>1, <2>1
    <2>4. M \in PoolStates
      BY <1>3, <1>4, <1>6, <1>10, <2>3 DEF PoolStates
    <2> QED
      BY <2>2, <2>4
  <1> QED
    BY <1>3, <1>4, <1>5, <1>7, <1>8, <1>9
-----------------------------------------------------------------------------
(* Key by key.                                                             *)

\* A commanded field is not what it was.
Moved(s) == Commanded(s) # Commanded(state)

LEMMA MovedFields ==
  ASSUME NEW s
  PROVE  Moved(s) <=> \/ s.mode # state.mode \/ s.speed # state.speed
                      \/ s.spaTemp # state.spaTemp \/ s.poolTemp # state.poolTemp
                      \/ s.relays # state.relays
BY DEF Moved, Commanded

\* The draft once the keys of S are done.
DraftOf(obj, S) ==
  [new |-> Meant(Part(obj, S)), changed |-> Moved(Meant(Part(obj, S)))]

\* One more key of the command: what it puts into the draft is the draft of
\* the part with that key.
LEMMA NumberStep ==
  ASSUME state \in PoolStates, NEW obj, JsonObject(obj), NEW S, NEW key \in NumberKeys \cap DOMAIN obj,
         ~Refused(Part(obj, S)), ~Refused(Part(obj, S \cup {key}))
  PROVE  PutNumber(DraftOf(obj, S), key, Value(obj[key])) = DraftOf(obj, S \cup {key})
  <1> DEFINE n == Value(obj[key])
             M == Meant(Part(obj, S))
             N == Meant(Part(obj, S \cup {key}))
  <1>1. /\ M \in PoolStates
        /\ M.mode = Field(obj, S, "m", state.mode)
        /\ M.speed = SpeedOf(obj, S)
        /\ M.spaTemp = Field(obj, S, "sst", state.spaTemp)
        /\ M.poolTemp = Field(obj, S, "spt", state.poolTemp)
        /\ M.relays = {r \in Relays : On(obj, S, r)}
        /\ M.updatePump = (state.updatePump \/ SpeedOf(obj, S) # state.speed)
        /\ M.updateRelays = (state.updateRelays \/ DOMAIN obj \cap S \cap Relays # {})
        /\ M.relayStatus = state.relayStatus
    BY MeantFields
  <1>2. /\ N \in PoolStates
        /\ N.mode = Field(obj, S \cup {key}, "m", state.mode)
        /\ N.speed = SpeedOf(obj, S \cup {key})
        /\ N.spaTemp = Field(obj, S \cup {key}, "sst", state.spaTemp)
        /\ N.poolTemp = Field(obj, S \cup {key}, "spt", state.poolTemp)
        /\ N.relays = {r \in Relays : On(obj, S \cup {key}, r)}
        /\ N.updatePump = (state.updatePump \/ SpeedOf(obj, S \cup {key}) # state.speed)
        /\ N.updateRelays = (state.updateRelays \/ DOMAIN obj \cap (S \cup {key}) \cap Relays # {})
        /\ N.relayStatus = state.relayStatus
    BY MeantFields
  <1>3. key \notin Relays
    BY CommandsAssumption
  <1>4. N.relays = M.relays /\ N.updateRelays = M.updateRelays /\ N.relayStatus = M.relayStatus
    <2>1. \A r \in Relays : On(obj, S \cup {key}, r) <=> On(obj, S, r)
      BY <1>3 DEF On
    <2>2. DOMAIN obj \cap (S \cup {key}) \cap Relays = DOMAIN obj \cap S \cap Relays
      BY <1>3
    <2> QED
      BY <1>1, <1>2, <2>1, <2>2
  <1>5. /\ key # "m"   => N.mode = M.mode
        /\ key # "spd" => N.speed = M.speed
        /\ key # "sst" => N.spaTemp = M.spaTemp
        /\ key # "spt" => N.poolTemp = M.poolTemp
    BY <1>1, <1>2 DEF Field, SpeedOf
  <1>6. /\ key = "m"   => N.mode = n /\ M.mode \in {n, state.mode}
        /\ key = "spd" => N.speed = EncodeSpd(n, SpdMax) /\ M.speed \in {N.speed, state.speed}
        /\ key = "sst" => N.spaTemp = n /\ M.spaTemp \in {n, state.spaTemp}
        /\ key = "spt" => N.poolTemp = n /\ M.poolTemp \in {n, state.poolTemp}
    BY <1>1, <1>2 DEF Field, SpeedOf
  <1>7. /\ M.updatePump = (state.updatePump \/ M.speed # state.speed)
        /\ N.updatePump = (state.updatePump \/ N.speed # state.speed)
    BY <1>1, <1>2
  <1>8. DraftOf(obj, S) = [new |-> M, changed |-> Moved(M)]
        /\ DraftOf(obj, S \cup {key}) = [new |-> N, changed |-> Moved(N)]
    BY DEF DraftOf
  <1>9. key \in {"m", "spd", "sst", "spt"}
    BY DEF NumberKeys
  <1>10. M \in PoolStates /\ N \in PoolStates
    BY <1>1, <1>2
  <1> HIDE DEF M, N, n
  <1>11. Moved(N) <=> \/ Moved(M)
                      \/ M.mode # N.mode \/ M.speed # N.speed
                      \/ M.spaTemp # N.spaTemp \/ M.poolTemp # N.poolTemp
    BY <1>4, <1>5, <1>6, <1>9, MovedFields
  <1>12. CASE key = "m"
    <2>1. PutNumber(DraftOf(obj, S), key, n)
            = [new |-> [M EXCEPT !["mode"] = n], changed |-> Moved(M) \/ M.mode # n]
      BY <1>8, <1>12 DEF PutNumber, Put
    <2>2. [M EXCEPT !["mode"] = n] = N
      BY <1>4, <1>5, <1>6, <1>7, <1>10, <1>12 DEF PoolStates
    <2>3. (Moved(M) \/ M.mode # n) = Moved(N)
      BY <1>5, <1>6, <1>11, <1>12 DEF Moved
    <2> QED
      BY <1>8, <2>1, <2>2, <2>3 DEF n
  <1>13. CASE key = "sst"
    <2>1. PutNumber(DraftOf(obj, S), key, n)
            = [new |-> [M EXCEPT !["spaTemp"] = n], changed |-> Moved(M) \/ M.spaTemp # n]
      BY <1>8, <1>13 DEF PutNumber, Put
    <2>2. [M EXCEPT !["spaTemp"] = n] = N
      BY <1>4, <1>5, <1>6, <1>7, <1>10, <1>13 DEF PoolStates
    <2>3. (Moved(M) \/ M.spaTemp # n) = Moved(N)
      BY <1>5, <1>6, <1>11, <1>13 DEF Moved
    <2> QED
      BY <1>8, <2>1, <2>2, <2>3 DEF n
  <1>14. CASE key = "spt"
    <2>1. PutNumber(DraftOf(obj, S), key, n)
            = [new |-> [M EXCEPT !["poolTemp"] = n], changed |-> Moved(M) \/ M.poolTemp # n]
      BY <1>8, <1>14 DEF PutNumber, Put
    <2>2. [M EXCEPT !["poolTemp"] = n] = N
      BY <1>4, <1>5, <1>6, <1>7, <1>10, <1>14 DEF PoolStates
    <2>3. (Moved(M) \/ M.poolTemp # n) = Moved(N)
      BY <1>5, <1>6, <1>11, <1>14 DEF Moved
    <2> QED
      BY <1>8, <2>1, <2>2, <2>3 DEF n
  <1>15. CASE key = "spd"
    <2> DEFINE speed == EncodeSpd(n, SpdMax)
    <2>1. PutNumber(DraftOf(obj, S), key, n)
            = [new |-> [[M EXCEPT !["speed"] = speed] EXCEPT
                          !.updatePump = M.updatePump \/ M.speed # speed],
               changed |-> Moved(M) \/ M.speed # speed]
      <3> DEFINE d == DraftOf(obj, S)
                 A == [M EXCEPT !["speed"] = speed]
                 c == Moved(M) \/ M.speed # speed
                 u == M.updatePump \/ M.speed # speed
      <3>1. Put(d, "speed", speed) = [new |-> A, changed |-> c]
        BY <1>8 DEF Put
      <3>2. PutNumber(d, key, n) = [Put(d, "speed", speed) EXCEPT !.new.updatePump = u]
        BY <1>8, <1>15 DEF PutNumber, PutSpeed
      <3> HIDE DEF A, c, u, d
      <3>3. [[new |-> A, changed |-> c] EXCEPT !.new.updatePump = u]
              = [new |-> [A EXCEPT !.updatePump = u], changed |-> c]
        OBVIOUS
      <3> QED
        BY <3>1, <3>2, <3>3 DEF A, c, u, d
    <2>2. N.updatePump = (M.updatePump \/ M.speed # speed)
      BY <1>6, <1>7, <1>15
    <2> HIDE DEF speed
    <2>3. N.speed = speed
      BY <1>6, <1>15 DEF speed
    <2>4. [[M EXCEPT !["speed"] = speed] EXCEPT !.updatePump = M.updatePump \/ M.speed # speed] = N
      BY <1>4, <1>5, <1>10, <1>15, <2>2, <2>3 DEF PoolStates
    <2>5. (Moved(M) \/ M.speed # speed) = Moved(N)
      BY <1>5, <1>11, <1>15, <2>3 DEF Moved
    <2> QED
      BY <1>8, <2>1, <2>4, <2>5 DEF n
  <1> QED
    BY <1>9, <1>12, <1>13, <1>14, <1>15 DEF n

\* The same for a relay: that a command has moved the relays is not lost, nor
\* made up, when several keys of it are about relays.
LEMMA RelayStep ==
  ASSUME state \in PoolStates, NEW obj, JsonObject(obj), NEW S, NEW key \in Relays \cap DOMAIN obj,
         ~Refused(Part(obj, S)), ~Refused(Part(obj, S \cup {key})),
         NEW on \in BOOLEAN, JsonAsBoolish(obj[key]) = {on}
  PROVE  PutRelay(DraftOf(obj, S), key, on) = DraftOf(obj, S \cup {key})
  <1> DEFINE M == Meant(Part(obj, S))
             N == Meant(Part(obj, S \cup {key}))
             relays == IF on THEN M.relays \cup {key} ELSE M.relays \ {key}
  <1>1. /\ M \in PoolStates
        /\ M.mode = Field(obj, S, "m", state.mode)
        /\ M.speed = SpeedOf(obj, S)
        /\ M.spaTemp = Field(obj, S, "sst", state.spaTemp)
        /\ M.poolTemp = Field(obj, S, "spt", state.poolTemp)
        /\ M.relays = {r \in Relays : On(obj, S, r)}
        /\ M.updatePump = (state.updatePump \/ SpeedOf(obj, S) # state.speed)
        /\ M.relayStatus = state.relayStatus
    BY MeantFields
  <1>2. /\ N \in PoolStates
        /\ N.mode = Field(obj, S \cup {key}, "m", state.mode)
        /\ N.speed = SpeedOf(obj, S \cup {key})
        /\ N.spaTemp = Field(obj, S \cup {key}, "sst", state.spaTemp)
        /\ N.poolTemp = Field(obj, S \cup {key}, "spt", state.poolTemp)
        /\ N.relays = {r \in Relays : On(obj, S \cup {key}, r)}
        /\ N.updatePump = (state.updatePump \/ SpeedOf(obj, S \cup {key}) # state.speed)
        /\ N.updateRelays = (state.updateRelays \/ DOMAIN obj \cap (S \cup {key}) \cap Relays # {})
        /\ N.relayStatus = state.relayStatus
    BY MeantFields
  <1>3. key \notin NumberKeys
    BY CommandsAssumption
  <1>4. /\ N.mode = M.mode /\ N.speed = M.speed /\ N.spaTemp = M.spaTemp /\ N.poolTemp = M.poolTemp
        /\ N.updatePump = M.updatePump /\ N.relayStatus = M.relayStatus
    <2>1. key # "m" /\ key # "spd" /\ key # "sst" /\ key # "spt"
      BY <1>3 DEF NumberKeys
    <2> QED
      BY <1>1, <1>2, <2>1 DEF Field, SpeedOf
  <1>5. N.updateRelays = TRUE
    <2>1. key \in DOMAIN obj \cap (S \cup {key}) \cap Relays
      OBVIOUS
    <2> QED
      BY <1>2, <2>1
  <1>6. /\ \A r \in Relays \ {key} : r \in N.relays <=> r \in M.relays
        /\ key \in N.relays <=> on
        /\ key \in M.relays => on \/ key \in state.relays
        /\ key \notin M.relays => ~on \/ key \notin state.relays
        /\ M.relays \subseteq Relays /\ N.relays \subseteq Relays
        /\ \A r \in Relays : r \notin S => (r \in M.relays <=> r \in state.relays)
    <2>1. (JsonAsBoolish(obj[key]) = {TRUE}) <=> on
      OBVIOUS
    <2> QED
      BY <1>1, <1>2, <2>1 DEF On
  <1>7. DraftOf(obj, S) = [new |-> M, changed |-> Moved(M)]
        /\ DraftOf(obj, S \cup {key}) = [new |-> N, changed |-> Moved(N)]
    BY DEF DraftOf
  <1>8. state.relays \subseteq Relays
    BY DEF PoolStates
  <1>9. N.relays = relays
    <2> HIDE DEF M, N
    <2> QED
      BY <1>6
  <1>10. M \in PoolStates /\ N \in PoolStates
    BY <1>1, <1>2
  <1> HIDE DEF M, N
  <1>11. Moved(N) <=> Moved(M) \/ M.relays # N.relays
    <2>1. M.relays # N.relays => N.relays # state.relays
      BY <1>6, <1>8
    <2>2. M.relays # state.relays => N.relays # state.relays \/ M.relays # N.relays
      OBVIOUS
    <2> QED
      BY <1>4, <2>1, <2>2, MovedFields
  <1> HIDE DEF relays
  <1>12. PutRelay(DraftOf(obj, S), key, on)
           = [new |-> [[M EXCEPT !["relays"] = relays] EXCEPT !.updateRelays = TRUE],
              changed |-> Moved(M) \/ M.relays # relays]
    <2> DEFINE d == DraftOf(obj, S)
               A == [M EXCEPT !["relays"] = relays]
               c == Moved(M) \/ M.relays # relays
               u == TRUE
    <2>1. Put(d, "relays", relays) = [new |-> A, changed |-> c]
      BY <1>7 DEF Put
    <2>2. PutRelay(d, key, on) = [Put(d, "relays", relays) EXCEPT !.new.updateRelays = u]
      BY <1>7 DEF PutRelay, relays
    <2> HIDE DEF A, c, d, u
    <2>3. [[new |-> A, changed |-> c] EXCEPT !.new.updateRelays = u]
            = [new |-> [A EXCEPT !.updateRelays = u], changed |-> c]
      OBVIOUS
    <2> QED
      BY <2>1, <2>2, <2>3 DEF A, c, d, u
  <1>13. [[M EXCEPT !["relays"] = relays] EXCEPT !.updateRelays = TRUE] = N
    BY <1>4, <1>5, <1>9, <1>10 DEF PoolStates
  <1>14. (Moved(M) \/ M.relays # relays) = Moved(N)
    BY <1>9, <1>11 DEF Moved
  <1> QED
    BY <1>7, <1>12, <1>13, <1>14

\* One more key takes the outcome of a part to that of the larger part.
LEMMA KeyStep ==
  ASSUME state \in PoolStates, NEW obj, JsonObject(obj), NEW S, NEW key \in NumberKeys \cup Relays
  PROVE  ApplyKey(Outcome(Part(obj, S)), key, obj) = Outcome(Part(obj, S \cup {key}))
  <1> DEFINE before == Part(obj, S)
             after  == Part(obj, S \cup {key})
  <1>1. /\ ~Refused(before) => Outcome(before) = {DraftOf(obj, S)}
        /\ Refused(before)  => Outcome(before) = {}
        /\ ~Refused(after)  => Outcome(after) = {DraftOf(obj, S \cup {key})}
        /\ Refused(after)   => Outcome(after) = {}
    BY DEF Outcome, DraftOf, Moved
  <1>2. Refused(after) <=> \/ Refused(before)
                           \/ key \in DOMAIN obj \cap NumberKeys /\ JsonAsI32(obj[key]) = {}
                           \/ key \in DOMAIN obj \cap Relays /\ JsonAsBoolish(obj[key]) = {}
    <2> HIDE DEF before, after
    <2>1. Refused(before) <=>
              \E k \in DOMAIN obj \cap S :
                 \/ k \in NumberKeys /\ JsonAsI32(obj[k]) = {}
                 \/ k \in Relays /\ JsonAsBoolish(obj[k]) = {}
      BY PartRefused DEF before
    <2>2. Refused(after) <=>
              \E k \in DOMAIN obj \cap (S \cup {key}) :
                 \/ k \in NumberKeys /\ JsonAsI32(obj[k]) = {}
                 \/ k \in Relays /\ JsonAsBoolish(obj[k]) = {}
      BY PartRefused DEF after
    <2> QED
      BY <2>1, <2>2
  <1>3. CASE key \notin DOMAIN obj
    <2>1. before = after
      <3>1. DOMAIN obj \cap S = DOMAIN obj \cap (S \cup {key})
        BY <1>3
      <3> QED
        BY <3>1 DEF Part
    <2> QED
      BY <1>3, <2>1 DEF ApplyKey
  <1> SUFFICES ASSUME key \in DOMAIN obj
               PROVE  ApplyKey(Outcome(before), key, obj) = Outcome(after)
    BY <1>3
  <1> HIDE DEF before, after
  <1>4. CASE key \in DOMAIN obj \cap NumberKeys
    <2>1. ApplyKey(Outcome(before), key, obj)
            = {PutNumber(d, key, n) : d \in Outcome(before), n \in JsonAsI32(obj[key])}
      BY <1>4 DEF ApplyKey
    <2>2. CASE Refused(after)
      <3>1. Outcome(before) = {} \/ JsonAsI32(obj[key]) = {}
        BY <1>1, <1>2, <1>4, <2>2, CommandsAssumption
      <3> QED
        BY <1>1, <2>1, <2>2, <3>1
    <2>3. CASE ~Refused(after)
      <3>1. ~Refused(before) /\ JsonAsI32(obj[key]) # {}
        BY <1>2, <1>4, <2>3
      <3>2. JsonAsI32(obj[key]) = {Value(obj[key])}
        BY <1>4, <3>1, ValueType DEF JsonObject
      <3>3. PutNumber(DraftOf(obj, S), key, Value(obj[key])) = DraftOf(obj, S \cup {key})
        BY <1>4, <2>3, <3>1, NumberStep DEF before, after
      <3>4. Outcome(before) = {DraftOf(obj, S)} /\ Outcome(after) = {DraftOf(obj, S \cup {key})}
        BY <1>1, <2>3, <3>1
      <3> QED
        BY <2>1, <3>2, <3>3, <3>4
    <2> QED
      BY <2>2, <2>3
  <1>5. CASE key \in DOMAIN obj \cap Relays
    <2>0. key \notin NumberKeys
      BY <1>5, CommandsAssumption
    <2>1. ApplyKey(Outcome(before), key, obj)
            = {PutRelay(d, key, on) : d \in Outcome(before), on \in JsonAsBoolish(obj[key])}
      BY <1>5, <2>0 DEF ApplyKey
    <2>2. CASE Refused(after)
      <3>1. Outcome(before) = {} \/ JsonAsBoolish(obj[key]) = {}
        BY <1>1, <1>2, <1>5, <2>0, <2>2
      <3> QED
        BY <1>1, <2>1, <2>2, <3>1
    <2>3. CASE ~Refused(after)
      <3>1. ~Refused(before) /\ JsonAsBoolish(obj[key]) # {}
        BY <1>2, <1>5, <2>3
      <3>2. PICK on \in BOOLEAN : JsonAsBoolish(obj[key]) = {on}
        BY <1>5, <3>1, DecodedValues DEF JsonObject
      <3>3. PutRelay(DraftOf(obj, S), key, on) = DraftOf(obj, S \cup {key})
        BY <1>5, <2>3, <3>1, <3>2, RelayStep DEF before, after
      <3>4. Outcome(before) = {DraftOf(obj, S)} /\ Outcome(after) = {DraftOf(obj, S \cup {key})}
        BY <1>1, <2>3, <3>1
      <3> QED
        BY <2>1, <3>2, <3>3, <3>4
    <2> QED
      BY <2>2, <2>3
  <1> QED
    BY <1>4, <1>5

LEMMA NoKeys ==
  ASSUME state \in PoolStates, NEW obj, JsonObject(obj)
  PROVE  Outcome(Part(obj, {})) = {[new |-> state, changed |-> FALSE]}
  <1> DEFINE M == Meant(Part(obj, {}))
  <1>1. ~Refused(Part(obj, {}))
    BY PartRefused
  <1>2. /\ M \in PoolStates
        /\ M.mode = Field(obj, {}, "m", state.mode)
        /\ M.speed = SpeedOf(obj, {})
        /\ M.spaTemp = Field(obj, {}, "sst", state.spaTemp)
        /\ M.poolTemp = Field(obj, {}, "spt", state.poolTemp)
        /\ M.relays = {r \in Relays : On(obj, {}, r)}
        /\ M.updatePump = (state.updatePump \/ SpeedOf(obj, {}) # state.speed)
        /\ M.updateRelays = (state.updateRelays \/ DOMAIN obj \cap {} \cap Relays # {})
        /\ M.relayStatus = state.relayStatus
    BY <1>1, MeantFields
  <1>3. state.relays \subseteq Relays /\ state.updatePump \in BOOLEAN /\ state.updateRelays \in BOOLEAN
    BY DEF PoolStates
  <1>4. M = state
    <2>1. M.relays = state.relays
      BY <1>2, <1>3 DEF On
    <2>2. M.updatePump = state.updatePump /\ M.updateRelays = state.updateRelays
      BY <1>2, <1>3 DEF SpeedOf
    <2> HIDE DEF M
    <2> QED
      BY <1>2, <2>1, <2>2, SameState DEF Field, SpeedOf
  <1> QED
    BY <1>1, <1>4 DEF Outcome

LEMMA AllKeys ==
  ASSUME state \in PoolStates, NEW obj, JsonObject(obj)
  PROVE  LET part == Part(obj, NumberKeys \cup Relays)
         IN  /\ Refused(part) <=> Refused(obj)
             /\ Meant(part) = Meant(obj)
             /\ Outcome(part) = Outcome(obj)
  <1> DEFINE S == NumberKeys \cup Relays
             part == Part(obj, S)
  <1>1. DOMAIN part = DOMAIN obj \cap S /\ \A key \in DOMAIN obj \cap S : part[key] = obj[key]
    BY PartRefused
  <1> HIDE DEF part
  <1>2. Refused(part) <=> Refused(obj)
    BY <1>1 DEF Refused
  <1>3. ASSUME NEW key \in NumberKeys, NEW default
        PROVE  Given(part, key, default) = Given(obj, key, default)
    <2>1. key \in DOMAIN part <=> key \in DOMAIN obj
      BY <1>1
    <2>2. key \in DOMAIN obj => part[key] = obj[key]
      BY <1>1
    <2>3. CASE key \in DOMAIN obj
      <3>1. part[key] = obj[key]
        BY <2>2, <2>3
      <3>2. Given(part, key, default) = CHOOSE k \in JsonAsI32(part[key]) : TRUE
        BY <2>1, <2>3 DEF Given
      <3>3. Given(obj, key, default) = CHOOSE k \in JsonAsI32(obj[key]) : TRUE
        BY <2>3 DEF Given
      <3> QED
        BY <3>1, <3>2, <3>3
    <2>4. CASE key \notin DOMAIN obj
      BY <2>1, <2>4 DEF Given
    <2> QED
      BY <2>3, <2>4
  <1>4. "m" \in NumberKeys /\ "spd" \in NumberKeys /\ "sst" \in NumberKeys /\ "spt" \in NumberKeys
    BY DEF NumberKeys
  <1>5. DOMAIN part \cap Relays = DOMAIN obj \cap Relays
    BY <1>1
  <1>6. {key \in DOMAIN part \cap Relays : JsonAsBoolish(part[key]) = {TRUE}}
          = {key \in DOMAIN obj \cap Relays : JsonAsBoolish(obj[key]) = {TRUE}}
    <2>1. \A key \in DOMAIN obj \cap Relays : part[key] = obj[key]
      BY <1>1
    <2> QED
      BY <1>5, <2>1
  <1>7. state.relays \ DOMAIN part = state.relays \ DOMAIN obj
    <2>1. state.relays \subseteq Relays
      BY DEF PoolStates
    <2> QED
      BY <1>1, <2>1
  <1>8. Meant(part) = Meant(obj)
    <2>1. "spd" \in DOMAIN part <=> "spd" \in DOMAIN obj
      BY <1>1, <1>4
    <2>2. DOMAIN state = {"mode", "speed", "spaTemp", "poolTemp", "relays", "updatePump",
                          "updateRelays", "relayStatus"}
      BY DEF PoolStates
    <2> QED
      BY <1>3, <1>4, <1>5, <1>6, <1>7, <2>1, <2>2 DEF Meant
  <1>9. Outcome(part) = Outcome(obj)
    BY <1>2, <1>8 DEF Outcome
  <1> QED
    BY <1>2, <1>8, <1>9 DEF part

\* apply_command_json on any object: its keys one after the other come to what
\* they mean together.
THEOREM CommandMeaning ==
  ASSUME state \in PoolStates, NEW obj, JsonObject(obj)
  PROVE  ApplyCommandJson(state, obj) = Outcome(obj)
  <1> DEFINE n == Len(KeysInOrder)
             Seen(i) == {KeysInOrder[j] : j \in 1 .. i}
             form == [i \in 0 .. n |-> Outcome(Part(obj, Seen(i)))]
             Recurs(f) == f = [i \in 0 .. n |->
                                 IF i = 0 THEN {[new |-> state, changed |-> FALSE]}
                                 ELSE ApplyKey(f[i - 1], KeysInOrder[i], obj)]
             drafts == CHOOSE f : Recurs(f)
  <1>1. ApplyCommandJson(state, obj) = drafts[n]
    BY DEF ApplyCommandJson
  <1>2. /\ n \in Nat
        /\ \A i \in 1 .. n : KeysInOrder[i] \in NumberKeys \cup Relays
        /\ \A key \in NumberKeys \cup Relays : \E i \in 1 .. n : KeysInOrder[i] = key
    <2>1. /\ RelayKeys \in Seq(STRING) /\ Len(RelayKeys) \in Nat
          /\ DOMAIN RelayKeys = 1 .. Len(RelayKeys)
      BY CommandsAssumption
    <2> DEFINE four == <<"m", "spd", "sst", "spt">>
    <2>2. Len(four) = 4 /\ four \in Seq(NumberKeys \cup Relays)
      <3>1. {"m", "spd", "sst", "spt"} \subseteq NumberKeys \cup Relays
        BY DEF NumberKeys
      <3>2. four \in Seq({"m", "spd", "sst", "spt"}) /\ Len(four) = 4
        OBVIOUS
      <3> HIDE DEF four
      <3> QED
        BY <3>1, <3>2
    <2>3. four[1] = "m" /\ four[2] = "spd" /\ four[3] = "sst" /\ four[4] = "spt"
      OBVIOUS
    <2>10. RelayKeys \in Seq(NumberKeys \cup Relays)
      <3>1. \A i \in 1 .. Len(RelayKeys) : RelayKeys[i] \in NumberKeys \cup Relays
        BY <2>1 DEF Relays
      <3> QED
        BY <2>1, <3>1
    <2>4. KeysInOrder = four \o RelayKeys
      BY DEF KeysInOrder
    <2> HIDE DEF four
    <2>5. n = 4 + Len(RelayKeys)
      <3>1. Len(four \o RelayKeys) = Len(four) + Len(RelayKeys)
        BY <2>2, <2>10, ConcatProperties
      <3> QED
        BY <2>2, <2>4, <3>1
    <2>6. \A i \in 1 .. n : KeysInOrder[i] = IF i =< 4 THEN four[i] ELSE RelayKeys[i - 4]
      BY <2>2, <2>10, <2>4, <2>5, ConcatProperties
    <2> HIDE DEF n
    <2>7. ASSUME NEW i \in 1 .. n PROVE KeysInOrder[i] \in NumberKeys \cup Relays
      <3>1. CASE i =< 4
        <4>1. i \in 1 .. 4
          BY <2>1, <2>5, <3>1
        <4>2. KeysInOrder[i] = four[i] /\ four[i] \in NumberKeys
          BY <2>3, <2>6, <3>1, <4>1 DEF NumberKeys
        <4> QED
          BY <4>2
      <3>2. CASE ~(i =< 4)
        <4>1. i - 4 \in DOMAIN RelayKeys /\ KeysInOrder[i] = RelayKeys[i - 4]
          BY <2>1, <2>5, <2>6, <3>2
        <4> QED
          BY <4>1 DEF Relays
      <3> QED
        BY <3>1, <3>2
    <2>8. ASSUME NEW key \in NumberKeys PROVE \E i \in 1 .. n : KeysInOrder[i] = key
      <3>1. 1 \in 1 .. n /\ 2 \in 1 .. n /\ 3 \in 1 .. n /\ 4 \in 1 .. n
        BY <2>1, <2>5
      <3>2. KeysInOrder[1] = "m" /\ KeysInOrder[2] = "spd"
            /\ KeysInOrder[3] = "sst" /\ KeysInOrder[4] = "spt"
        BY <2>3, <2>6, <3>1
      <3> QED
        BY <3>1, <3>2 DEF NumberKeys
    <2>9. ASSUME NEW key \in Relays PROVE \E i \in 1 .. n : KeysInOrder[i] = key
      <3>1. PICK j \in 1 .. Len(RelayKeys) : RelayKeys[j] = key
        BY <2>1 DEF Relays
      <3>2. j + 4 \in 1 .. n /\ ~(j + 4 =< 4) /\ (j + 4) - 4 = j
        BY <2>1, <2>5
      <3>3. KeysInOrder[j + 4] = key
        BY <2>6, <3>1, <3>2
      <3> QED
        BY <3>2, <3>3
    <2> QED
      BY <2>1, <2>5, <2>7, <2>8, <2>9
  <1> HIDE DEF n
  <1>3. Seen(0) = {}
    OBVIOUS
  <1>4. ASSUME NEW i \in 1 .. n PROVE Seen(i) = Seen(i - 1) \cup {KeysInOrder[i]}
    <2>1. 1 .. i = (1 .. i - 1) \cup {i}
      BY <1>2
    <2> QED
      BY <2>1
  <1>5. Seen(n) = NumberKeys \cup Relays
    BY <1>2
  <1> HIDE DEF Seen
  <1>6. ASSUME NEW i \in 1 .. n
        PROVE  ApplyKey(Outcome(Part(obj, Seen(i - 1))), KeysInOrder[i], obj)
                 = Outcome(Part(obj, Seen(i)))
    BY <1>2, <1>4, KeyStep
  <1>7. Outcome(Part(obj, Seen(0))) = {[new |-> state, changed |-> FALSE]}
    BY <1>3, NoKeys
  <1>8. Recurs(form)
    <2>1. ASSUME NEW i \in 0 .. n
          PROVE  form[i] = IF i = 0 THEN {[new |-> state, changed |-> FALSE]}
                           ELSE ApplyKey(form[i - 1], KeysInOrder[i], obj)
      <3>1. CASE i = 0
        BY <1>2, <1>7, <3>1
      <3>2. CASE i # 0
        <4>1. i \in 1 .. n /\ i - 1 \in 0 .. n
          BY <1>2, <3>2
        <4>2. form[i] = Outcome(Part(obj, Seen(i))) /\ form[i - 1] = Outcome(Part(obj, Seen(i - 1)))
          BY <4>1
        <4> QED
          BY <1>6, <3>2, <4>1, <4>2
      <3> QED
        BY <3>1, <3>2
    <2>2. form = [i \in 0 .. n |-> form[i]]
      OBVIOUS
    <2> HIDE DEF form
    <2>3. [i \in 0 .. n |-> form[i]]
            = [i \in 0 .. n |-> IF i = 0 THEN {[new |-> state, changed |-> FALSE]}
                                ELSE ApplyKey(form[i - 1], KeysInOrder[i], obj)]
      BY <2>1
    <2> QED
      BY <2>2, <2>3
  <1>9. Recurs(drafts)
    <2> HIDE DEF Recurs, form
    <2> QED
      BY <1>8
  <1>10. drafts[0] = {[new |-> state, changed |-> FALSE]}
         /\ \A i \in 1 .. n : drafts[i] = ApplyKey(drafts[i - 1], KeysInOrder[i], obj)
    <2>1. drafts = [i \in 0 .. n |-> IF i = 0 THEN {[new |-> state, changed |-> FALSE]}
                                    ELSE ApplyKey(drafts[i - 1], KeysInOrder[i], obj)]
      BY <1>9
    <2> DEFINE start == {[new |-> state, changed |-> FALSE]}
    <2> HIDE DEF drafts, start
    <2>2. drafts = [i \in 0 .. n |-> IF i = 0 THEN start
                                    ELSE ApplyKey(drafts[i - 1], KeysInOrder[i], obj)]
      BY <2>1 DEF start
    <2>3. 0 \in 0 .. n /\ \A i \in 1 .. n : i \in 0 .. n /\ i # 0
      BY <1>2
    <2>4. drafts[0] = start
      BY <2>2, <2>3
    <2>5. \A i \in 1 .. n : drafts[i] = ApplyKey(drafts[i - 1], KeysInOrder[i], obj)
      BY <2>2, <2>3
    <2> QED
      BY <2>4, <2>5 DEF start
  <1> HIDE DEF drafts, form, Recurs
  <1> DEFINE P == {i \in 0 .. n : drafts[i] = Outcome(Part(obj, Seen(i)))}
  <1>11. Inductive(P, n)
    <2>1. 0 \in P
      <3>1. 0 \in 0 .. n
        BY <1>2
      <3>2. drafts[0] = Outcome(Part(obj, Seen(0)))
        BY <1>7, <1>10
      <3> QED
        BY <3>1, <3>2
    <2>2. ASSUME NEW i \in 1 .. n, i - 1 \in P PROVE i \in P
      <3>1. drafts[i - 1] = Outcome(Part(obj, Seen(i - 1)))
        BY <2>2
      <3> QED
        BY <1>2, <1>6, <1>10, <3>1
    <2> QED
      BY <2>1, <2>2 DEF Inductive
  <1> HIDE DEF P
  <1>12. n \in P
    BY <1>2, <1>11, Induction
  <1>13. drafts[n] = Outcome(Part(obj, NumberKeys \cup Relays))
    BY <1>5, <1>12 DEF P
  <1> QED
    BY <1>1, <1>13, AllKeys

-----------------------------------------------------------------------------
(* The invariant, and what follows from it.                                *)

LEMMA ReceiveStep ==
  ASSUME state \in PoolStates, NEW obj \in Objects, Receive(obj)
  PROVE  state' \in PoolStates
  <1>1. JsonObject(obj)
    BY DashboardAssumption DEF JsonObject
  <1>2. PICK draft \in Outcome(obj) : state' = draft.new
    BY <1>1, CommandMeaning DEF Receive
  <1>3. ~Refused(obj) /\ state' = Meant(obj)
    BY <1>2 DEF Outcome
  <1> DEFINE part == Part(obj, NumberKeys \cup Relays)
  <1>4. ~Refused(part) /\ Meant(part) = Meant(obj)
    BY <1>1, <1>3, AllKeys
  <1>5. Meant(part) \in PoolStates
    BY <1>1, <1>4, MeantFields
  <1> QED
    BY <1>3, <1>4, <1>5

DashboardInv == RingInv /\ TypeOK

LEMMA DashboardAlways == Spec => []DashboardInv
  <1>1. Init => DashboardInv
    <2> SUFFICES ASSUME Init PROVE DashboardInv
      OBVIOUS
    <2>1. /\ 0 \in IntMin .. IntMax /\ 104 \in IntMin .. IntMax /\ 70 \in IntMin .. IntMax
          /\ 0 \in 0 .. EffectiveMax(SpdMax) /\ EffectiveMax(SpdMax) \in 0 .. EffectiveMax(SpdMax)
      BY Bounds
    <2>2. state \in PoolStates
      <3>1. /\ state.mode = 0 /\ state.speed \in {0, EffectiveMax(SpdMax)}
            /\ state.spaTemp = 104 /\ state.poolTemp = 70
            /\ state.relays = {} /\ state.relayStatus = {}
            /\ state.updatePump = FALSE /\ state.updateRelays = FALSE
        BY DEF Init
      <3>2. state = [mode |-> state.mode, speed |-> state.speed, spaTemp |-> state.spaTemp,
                     poolTemp |-> state.poolTemp, relays |-> state.relays,
                     updatePump |-> state.updatePump, updateRelays |-> state.updateRelays,
                     relayStatus |-> state.relayStatus]
        BY DEF Init
      <3>3. /\ state.mode \in IntMin .. IntMax /\ state.speed \in 0 .. EffectiveMax(SpdMax)
            /\ state.spaTemp \in IntMin .. IntMax /\ state.poolTemp \in IntMin .. IntMax
        BY <2>1, <3>1
      <3>4. /\ state.relays \in SUBSET Relays /\ state.relayStatus \in SUBSET SUBSET Relays
            /\ state.updatePump \in BOOLEAN /\ state.updateRelays \in BOOLEAN
        BY <3>1
      <3> QED
        BY <3>2, <3>3, <3>4 DEF PoolStates
    <2>3. RingInv
      BY RingStart DEF Init
    <2> QED
      BY <2>2, <2>3 DEF DashboardInv, TypeOK, Init, RingInv
  <1>2. DashboardInv /\ [Next]_vars => DashboardInv'
    <2> SUFFICES ASSUME DashboardInv, [Next]_vars PROVE DashboardInv'
      OBVIOUS
    <2>0. RingInv /\ state \in PoolStates /\ configured \in BOOLEAN
      BY DEF DashboardInv, TypeOK
    <2>1. RingInv'
      <3>1. CASE Log
        BY <2>0, <3>1, PushStep DEF Log
      <3>2. CASE Configure
        <4>1. PICK n \in Nat : SetCapacity(n)
          BY <3>2, DashboardAssumption DEF Configure
        <4> QED
          BY <2>0, <4>1, CapacityStep
      <3>3. CASE UNCHANGED ring
        BY <2>0, <3>3 DEF ring, RingInv, RingType, NewestLines
      <3> QED
        BY <3>1, <3>2, <3>3 DEF Next, Receive, Service, vars
    <2>2. state' \in PoolStates
      <3>1. ASSUME NEW obj \in Objects, Receive(obj) PROVE state' \in PoolStates
        BY <2>0, <3>1, ReceiveStep
      <3>2. CASE Service
        <4>1. PICK mask \in SUBSET Relays, pump \in BOOLEAN, relays \in BOOLEAN :
                state' = [state EXCEPT !.relayStatus = {mask},
                                       !.updatePump = @ /\ pump,
                                       !.updateRelays = @ /\ relays]
          BY <3>2 DEF Service
        <4> QED
          BY <2>0, <4>1 DEF PoolStates
      <3>3. CASE UNCHANGED state
        BY <2>0, <3>3
      <3> QED
        BY <3>1, <3>2, <3>3 DEF Next, Configure, Log, vars
    <2>3. configured' \in BOOLEAN
      BY <2>0 DEF Next, Receive, Service, Configure, Log, vars
    <2> QED
      BY <2>1, <2>2, <2>3 DEF DashboardInv, TypeOK, RingInv
  <1> QED
    BY <1>1, <1>2, PTL DEF Spec

\* Whatever is sent, the speed stays on the scale and the numbers in an i32.
THEOREM TypeCorrect == Spec => []TypeOK
  <1>1. DashboardInv => TypeOK
    BY DEF DashboardInv
  <1> QED
    BY <1>1, DashboardAlways, PTL

\* The ring holds the newest lines, in order and within its capacity.
THEOREM NewestLinesTheorem == Spec => []NewestLines
  <1>1. DashboardInv => NewestLines
    BY DEF DashboardInv, RingInv
  <1> QED
    BY <1>1, DashboardAlways, PTL

\* Any command object, with any keys, is applied whole or not at all.
THEOREM WholeTheorem == Spec => []WholeOrNothing
  <1>1. DashboardInv => WholeOrNothing
    <2> SUFFICES ASSUME DashboardInv, NEW obj \in Objects
                 PROVE  ApplyCommandJson(state, obj) = Outcome(obj)
      BY DEF WholeOrNothing
    <2>1. state \in PoolStates /\ JsonObject(obj)
      BY DashboardAssumption DEF DashboardInv, TypeOK, JsonObject
    <2> QED
      BY <2>1, CommandMeaning
  <1> QED
    BY <1>1, DashboardAlways, PTL

-----------------------------------------------------------------------------
(* PoolControl's view of a command.                                        *)

\* The channels of a set of relay keys are told apart like the keys.
LEMMA ChannelsApart ==
  ASSUME NEW A, A \subseteq Relays, NEW B, B \subseteq Relays
  PROVE  Channels(A) = Channels(B) <=> A = B
  <1>1. ASSUME Channels(A) = Channels(B), NEW r \in Relays
        PROVE  r \in A <=> r \in B
    <2>1. PICK i \in DOMAIN RelayKeys : RelayKeys[i] = r
      BY DEF Relays
    <2>2. (i \in Channels(A) <=> r \in A) /\ (i \in Channels(B) <=> r \in B)
      BY <2>1 DEF Channels
    <2> QED
      BY <1>1, <2>2
  <1> QED
    BY <1>1

\* The two modules encode a speed alike.
LEMMA CoreEncode ==
  ASSUME NEW s
  PROVE  Core!EncodeSpd(s, SpdMax) = EncodeSpd(s, SpdMax)
  BY DEF Core!EncodeSpd, EncodeSpd, Core!Lesser, Lesser, Core!EffectiveMax, EffectiveMax,
         Core!DefaultSpdMax, DefaultSpdMax, Core!U16Max, U16Max

\* A relay key of a command that is not refused asks for on or for off.
LEMMA Switches ==
  ASSUME NEW obj, JsonObject(obj), ~Refused(obj)
  PROVE  /\ \A key \in DOMAIN obj \cap Relays :
              JsonAsBoolish(obj[key]) = {FALSE} <=> ~(JsonAsBoolish(obj[key]) = {TRUE})
         /\ \A i \in DOMAIN RelayKeys, on \in BOOLEAN :
              i \in Switched(obj, on) <=> /\ RelayKeys[i] \in DOMAIN obj
                                          /\ JsonAsBoolish(obj[RelayKeys[i]]) = {on}
         /\ Switched(obj, TRUE) \cup Switched(obj, FALSE) # {} <=> DOMAIN obj \cap Relays # {}
  <1>1. ASSUME NEW key \in DOMAIN obj \cap Relays
        PROVE  JsonAsBoolish(obj[key]) \in {{TRUE}, {FALSE}}
    <2>1. obj[key] \in JsonValues /\ JsonAsBoolish(obj[key]) # {}
      BY DEF JsonObject, Refused
    <2> QED
      BY <2>1, DecodedValues
  <1>2. {TRUE} # {FALSE}
    OBVIOUS
  <1>3. ASSUME NEW key \in DOMAIN obj \cap Relays
        PROVE  JsonAsBoolish(obj[key]) = {FALSE} <=> ~(JsonAsBoolish(obj[key]) = {TRUE})
    BY <1>1, <1>2
  <1>4. \A i \in DOMAIN RelayKeys : RelayKeys[i] \in Relays
    BY DEF Relays
  <1>5. ASSUME NEW i \in DOMAIN RelayKeys, NEW on \in BOOLEAN
        PROVE  i \in Switched(obj, on) <=> /\ RelayKeys[i] \in DOMAIN obj
                                           /\ JsonAsBoolish(obj[RelayKeys[i]]) = {on}
    BY <1>4 DEF Switched, Channels
  <1>6. ASSUME NEW key \in DOMAIN obj \cap Relays
        PROVE  Switched(obj, TRUE) \cup Switched(obj, FALSE) # {}
    <2>1. PICK i \in DOMAIN RelayKeys : RelayKeys[i] = key
      BY DEF Relays
    <2>2. i \in Switched(obj, TRUE) \/ i \in Switched(obj, FALSE)
      BY <1>3, <1>5, <2>1
    <2> QED
      BY <2>2
  <1>7. ASSUME NEW on \in BOOLEAN, NEW i \in Switched(obj, on)
        PROVE  DOMAIN obj \cap Relays # {}
    BY <1>4, <1>7 DEF Switched, Channels
  <1> QED
    BY <1>3, <1>5, <1>6, <1>7

\* ApplyCommand on PoolControl's view of a command is its view of the outcome.
LEMMA CoreMeaning ==
  ASSUME state \in PoolStates, NEW obj, JsonObject(obj), ~Refused(obj)
  PROVE  LET core == Core!ApplyCommand(CoreCommand(obj))
         IN  /\ core.commanded = CoreView(Meant(obj))
             /\ core.updateRelays = Meant(obj).updateRelays
             /\ core.updatePump = Meant(obj).updatePump
  <1> DEFINE S == NumberKeys \cup Relays
             M == Meant(obj)
             c == CoreCommand(obj)
             core == Core!ApplyCommand(c)
  <1>1. /\ M.mode = Field(obj, S, "m", state.mode)
        /\ M.speed = SpeedOf(obj, S)
        /\ M.spaTemp = Field(obj, S, "sst", state.spaTemp)
        /\ M.poolTemp = Field(obj, S, "spt", state.poolTemp)
        /\ M.relays = {r \in Relays : On(obj, S, r)}
        /\ M.updatePump = (state.updatePump \/ SpeedOf(obj, S) # state.speed)
        /\ M.updateRelays = (state.updateRelays \/ DOMAIN obj \cap S \cap Relays # {})
    <2>1. ~Refused(Part(obj, S)) /\ Meant(Part(obj, S)) = M
      BY AllKeys
    <2> QED
      BY <2>1, MeantFields
  <1>2. state.relays \subseteq Relays
    BY DEF PoolStates
  <1>3. "m" \in S /\ "spd" \in S /\ "sst" \in S /\ "spt" \in S
    BY DEF NumberKeys
  <1>4. /\ c.keys = {key \in {"spd"} : key \in DOMAIN obj}
                    \cup {key \in {"setting"} : DOMAIN obj \cap {"m", "sst", "spt"} # {}}
        /\ c.spd = Given(obj, "spd", 0)
        /\ c.setting = <<Given(obj, "m", state.mode), Given(obj, "sst", state.spaTemp),
                         Given(obj, "spt", state.poolTemp)>>
        /\ c.on = Switched(obj, TRUE) /\ c.off = Switched(obj, FALSE)
    BY DEF CoreCommand
  <1>5. ASSUME NEW key \in {"m", "sst", "spt"}, NEW default
        PROVE  Given(obj, key, default) = Field(obj, S, key, default)
    BY <1>3 DEF Given, Field, Value
  <1> DEFINE speed == IF "spd" \in c.keys THEN Core!EncodeSpd(c.spd, SpdMax) ELSE state.speed
  <1>6. speed = M.speed
    <2>1. "spd" \in c.keys <=> "spd" \in DOMAIN obj
      BY <1>4
    <2>2. CASE "spd" \in DOMAIN obj
      BY <1>1, <1>3, <1>4, <2>1, <2>2, CoreEncode DEF SpeedOf, Given, Value
    <2>3. CASE "spd" \notin DOMAIN obj
      BY <1>1, <2>1, <2>3 DEF SpeedOf
    <2> QED
      BY <2>2, <2>3
  <1> DEFINE setting == IF "setting" \in c.keys THEN c.setting
                        ELSE <<state.mode, state.spaTemp, state.poolTemp>>
  <1>7. setting = <<M.mode, M.spaTemp, M.poolTemp>>
    <2>1. "setting" \in c.keys <=> DOMAIN obj \cap {"m", "sst", "spt"} # {}
      BY <1>4
    <2>2. c.setting = <<M.mode, M.spaTemp, M.poolTemp>>
      BY <1>1, <1>4, <1>5
    <2>3. CASE DOMAIN obj \cap {"m", "sst", "spt"} = {}
      <3>1. M.mode = state.mode /\ M.spaTemp = state.spaTemp /\ M.poolTemp = state.poolTemp
        BY <1>1, <2>3 DEF Field
      <3> QED
        BY <2>1, <2>3, <3>1
    <2> QED
      BY <2>1, <2>2, <2>3
  <1> DEFINE relays == (Channels(state.relays) \cup c.on) \ c.off
  <1>8. relays = Channels(M.relays)
    <2>1. relays \subseteq DOMAIN RelayKeys /\ Channels(M.relays) \subseteq DOMAIN RelayKeys
      BY <1>4 DEF Channels, Switched
    <2>2. ASSUME NEW i \in DOMAIN RelayKeys
          PROVE  i \in relays <=> i \in Channels(M.relays)
      <3> DEFINE r == RelayKeys[i]
      <3>1. r \in Relays
        BY DEF Relays
      <3>2. i \in Channels(M.relays) <=> On(obj, S, r)
        BY <1>1, <3>1 DEF Channels
      <3>3. i \in Channels(state.relays) <=> r \in state.relays
        BY DEF Channels
      <3>4. CASE r \in DOMAIN obj
        <4>1. On(obj, S, r) <=> JsonAsBoolish(obj[r]) = {TRUE}
          BY <3>1, <3>4 DEF On
        <4>2. (i \in c.on <=> On(obj, S, r)) /\ (i \in c.off <=> ~On(obj, S, r))
          <5>1. i \in Switched(obj, TRUE) <=> JsonAsBoolish(obj[r]) = {TRUE}
            BY <3>4, Switches
          <5>2. i \in Switched(obj, FALSE) <=> JsonAsBoolish(obj[r]) = {FALSE}
            BY <3>4, Switches
          <5>3. JsonAsBoolish(obj[r]) = {FALSE} <=> ~(JsonAsBoolish(obj[r]) = {TRUE})
            BY <3>1, <3>4, Switches
          <5> QED
            BY <1>4, <4>1, <5>1, <5>2, <5>3
        <4> QED
          BY <3>2, <4>2
      <3>5. CASE r \notin DOMAIN obj
        <4>1. i \notin c.on /\ i \notin c.off
          <5>1. i \notin Switched(obj, TRUE)
            BY <3>5, Switches
          <5>2. i \notin Switched(obj, FALSE)
            BY <3>5, Switches
          <5> QED
            BY <1>4, <5>1, <5>2
        <4>2. On(obj, S, r) <=> r \in state.relays
          BY <3>5 DEF On
        <4> QED
          BY <3>2, <3>3, <4>1, <4>2
      <3> QED
        BY <3>4, <3>5
    <2> QED
      BY <2>1, <2>2
  <1>9. c.on \cup c.off # {} <=> DOMAIN obj \cap S \cap Relays # {}
    BY <1>4, Switches
  <1> HIDE DEF M, c
  <1>10. /\ core.commanded = [relays |-> relays, speed |-> speed, setting |-> setting]
         /\ core.updateRelays = (state.updateRelays \/ c.on \cup c.off # {})
         /\ core.updatePump = (state.updatePump \/ speed # state.speed)
    BY DEF Core!ApplyCommand, CoreView
  <1>11. core.commanded = CoreView(M)
    BY <1>6, <1>7, <1>8, <1>10 DEF CoreView
  <1>12. core.updateRelays = M.updateRelays
    BY <1>1, <1>9, <1>10
  <1>13. core.updatePump = M.updatePump
    BY <1>1, <1>6, <1>10
  <1> QED
    BY <1>11, <1>12, <1>13 DEF M, c

\* The command step of PoolControl, on which its proofs rest, is what
\* apply_command_json does with the object: draft, flags and the mark that
\* decides whether it is saved.
THEOREM CoreTheorem == Spec => []CoreAgrees
  <1>1. DashboardInv => CoreAgrees
    <2> SUFFICES ASSUME DashboardInv, NEW obj \in Objects,
                        NEW draft \in ApplyCommandJson(state, obj)
                 PROVE  LET core == Core!ApplyCommand(CoreCommand(obj))
                        IN  /\ core.commanded    = CoreView(draft.new)
                            /\ core.updateRelays = draft.new.updateRelays
                            /\ core.updatePump   = draft.new.updatePump
                            /\ draft.changed <=> core.commanded # CoreView(state)
      BY DEF CoreAgrees
    <2> DEFINE core == Core!ApplyCommand(CoreCommand(obj))
               M == Meant(obj)
    <2>1. state \in PoolStates /\ JsonObject(obj)
      BY DashboardAssumption DEF DashboardInv, TypeOK, JsonObject
    <2>2. /\ ~Refused(obj)
          /\ draft.new = M
          /\ draft.changed = (Commanded(M) # Commanded(state))
      <3>1. draft \in Outcome(obj)
        BY <2>1, CommandMeaning
      <3> QED
        BY <3>1 DEF Outcome
    <2>3. /\ core.commanded = CoreView(M)
          /\ core.updateRelays = M.updateRelays
          /\ core.updatePump = M.updatePump
      BY <2>1, <2>2, CoreMeaning
    <2>4. M.relays \subseteq Relays /\ state.relays \subseteq Relays
      <3>1. M \in PoolStates
        BY <2>1, <2>2, AllKeys, MeantFields
      <3> QED
        BY <2>1, <3>1 DEF PoolStates
    <2> HIDE DEF M
    <2>5. CoreView(M) = CoreView(state) <=> Commanded(M) = Commanded(state)
      <3>1. CoreView(M) = CoreView(state) <=>
              /\ Channels(M.relays) = Channels(state.relays) /\ M.speed = state.speed
              /\ M.mode = state.mode /\ M.spaTemp = state.spaTemp /\ M.poolTemp = state.poolTemp
        <4> DEFINE V(s) == <<s.mode, s.spaTemp, s.poolTemp>>
        <4>1. V(M) = V(state) <=> /\ M.mode = state.mode /\ M.spaTemp = state.spaTemp
                                  /\ M.poolTemp = state.poolTemp
          OBVIOUS
        <4> HIDE DEF V
        <4>2. /\ CoreView(M) = [relays |-> Channels(M.relays), speed |-> M.speed, setting |-> V(M)]
              /\ CoreView(state) = [relays |-> Channels(state.relays), speed |-> state.speed,
                                    setting |-> V(state)]
          BY DEF CoreView, V
        <4> QED
          BY <4>1, <4>2
      <3>2. Channels(M.relays) = Channels(state.relays) <=> M.relays = state.relays
        BY <2>4, ChannelsApart
      <3>3. Commanded(M) = Commanded(state) <=>
              /\ M.mode = state.mode /\ M.speed = state.speed /\ M.spaTemp = state.spaTemp
              /\ M.poolTemp = state.poolTemp /\ M.relays = state.relays
        BY DEF Commanded
      <3> QED
        BY <3>1, <3>2, <3>3
    <2> HIDE DEF core
    <2>6. draft.changed <=> core.commanded # CoreView(state)
      BY <2>2, <2>3, <2>5
    <2> QED
      BY <2>2, <2>3, <2>6 DEF core
  <1> QED
    BY <1>1, DashboardAlways, PTL

-----------------------------------------------------------------------------
(* A status sent back.                                                     *)

LEMMA NumberValue ==
  ASSUME NEW n \in IntMin .. IntMax
  PROVE  /\ Number(n) \in JsonValues /\ JsonAsI32(Number(n)) = {n} /\ Value(Number(n)) = n
  <1>1. n \in Int /\ Saturated(n) = n
    BY Bounds DEF Saturated
  <1>2. Number(n) \in JsonValues
    BY <1>1 DEF Number, JsonValues
  <1>3. JsonAsI32(Number(n)) = {n}
    <2>1. Number(n).kind = "number" /\ Number(n).n = n
      BY DEF Number
    <2> QED
      BY <1>1, <2>1 DEF JsonAsI32
  <1> QED
    BY <1>2, <1>3 DEF Value

\* The settings a remote was shown, sent back, change nothing.
THEOREM EchoTheorem == Spec => []EchoNeutral
  <1>1. DashboardInv => EchoNeutral
    <2> SUFFICES ASSUME DashboardInv PROVE EchoNeutral
      OBVIOUS
    <2> DEFINE echo == [key \in NumberKeys |-> StatusJson(state)[key]]
               S == NumberKeys \cup Relays
               M == Meant(Part(echo, S))
    <2>0. state \in PoolStates
      BY DEF DashboardInv, TypeOK
    <2>1. /\ state.mode \in IntMin .. IntMax /\ state.spaTemp \in IntMin .. IntMax
          /\ state.poolTemp \in IntMin .. IntMax /\ state.speed \in 0 .. EffectiveMax(SpdMax)
          /\ state.relays \subseteq Relays
          /\ state.updatePump \in BOOLEAN /\ state.updateRelays \in BOOLEAN
      BY <2>0 DEF PoolStates
    <2>2. state.speed \in IntMin .. IntMax /\ EncodeSpd(state.speed, SpdMax) = state.speed
      <3>1. EffectiveMax(SpdMax) \in Word
        BY Bounds, EffectiveMaxType
      <3> QED
        BY <2>1, <3>1, Bounds, WordWidth DEF EncodeSpd, Lesser, Word
    <2>3. /\ DOMAIN echo = NumberKeys
          /\ echo["m"] = Number(state.mode) /\ echo["spd"] = Number(state.speed)
          /\ echo["sst"] = Number(state.spaTemp) /\ echo["spt"] = Number(state.poolTemp)
      <3>1. "m" \in NumberKeys /\ "spd" \in NumberKeys /\ "sst" \in NumberKeys /\ "spt" \in NumberKeys
        BY DEF NumberKeys
      <3>0. "m" \notin Relays /\ "spd" \notin Relays /\ "sst" \notin Relays /\ "spt" \notin Relays
        BY <3>1, CommandsAssumption
      <3>2. StatusJson(state)["m"] = Number(state.mode)
        BY <3>0, <3>1 DEF StatusJson
      <3>3. StatusJson(state)["spd"] = Number(state.speed)
        BY <3>0, <3>1 DEF StatusJson
      <3>4. StatusJson(state)["sst"] = Number(state.spaTemp)
        BY <3>0, <3>1 DEF StatusJson
      <3>5. StatusJson(state)["spt"] = Number(state.poolTemp)
        BY <3>0, <3>1 DEF StatusJson
      <3>6. \A key \in NumberKeys : echo[key] = StatusJson(state)[key]
        OBVIOUS
      <3>7. DOMAIN echo = NumberKeys
        OBVIOUS
      <3> HIDE DEF echo
      <3> QED
        BY <3>1, <3>2, <3>3, <3>4, <3>5, <3>6, <3>7
    <2> HIDE DEF echo
    <2>4. \A key \in NumberKeys : echo[key] \in JsonValues /\ JsonAsI32(echo[key]) # {}
      BY <2>1, <2>2, <2>3, NumberValue DEF NumberKeys
    <2>5. JsonObject(echo)
      BY <2>3, <2>4 DEF JsonObject
    <2>6. ~Refused(echo)
      BY <2>3, <2>4, CommandsAssumption DEF Refused
    <2>7. ~Refused(Part(echo, S)) /\ M = Meant(echo)
      BY <2>0, <2>5, <2>6, AllKeys
    <2>8. /\ M \in PoolStates
          /\ M.mode = Field(echo, S, "m", state.mode)
          /\ M.speed = SpeedOf(echo, S)
          /\ M.spaTemp = Field(echo, S, "sst", state.spaTemp)
          /\ M.poolTemp = Field(echo, S, "spt", state.poolTemp)
          /\ M.relays = {r \in Relays : On(echo, S, r)}
          /\ M.updatePump = (state.updatePump \/ SpeedOf(echo, S) # state.speed)
          /\ M.updateRelays = (state.updateRelays \/ DOMAIN echo \cap S \cap Relays # {})
          /\ M.relayStatus = state.relayStatus
      BY <2>0, <2>5, <2>7, MeantFields
    <2>9. /\ Field(echo, S, "m", state.mode) = state.mode
          /\ Field(echo, S, "sst", state.spaTemp) = state.spaTemp
          /\ Field(echo, S, "spt", state.poolTemp) = state.poolTemp
          /\ SpeedOf(echo, S) = state.speed
      BY <2>1, <2>2, <2>3, NumberValue DEF Field, SpeedOf, NumberKeys
    <2>10. {r \in Relays : On(echo, S, r)} = state.relays /\ DOMAIN echo \cap S \cap Relays = {}
      <3>1. DOMAIN echo \cap Relays = {}
        BY <2>3, CommandsAssumption
      <3> QED
        BY <2>1, <3>1 DEF On
    <2> HIDE DEF M
    <2>11. M = state
      <3>1. M.updatePump = state.updatePump /\ M.updateRelays = state.updateRelays
        BY <2>1, <2>8, <2>9, <2>10
      <3> QED
        BY <2>0, <2>8, <2>9, <2>10, <3>1, SameState
    <2>12. ApplyCommandJson(state, echo) = {[new |-> state, changed |-> FALSE]}
      BY <2>0, <2>5, <2>6, <2>7, <2>11, CommandMeaning DEF Outcome
    <2> QED
      BY <2>12 DEF EchoNeutral, echo
  <1> QED
    BY <1>1, DashboardAlways, PTL

\* What the dashboard asks for is the newest there is of it.
THEOREM LogsTheorem == Spec => []LogsNewest
  <1>1. DashboardInv => LogsNewest
    <2> SUFFICES ASSUME DashboardInv, NEW limit \in Limits
                 PROVE  LET n == Lesser(limit, Len(lines))
                        IN  Snapshot({limit}) = [i \in 1 .. n |-> logged - n + i]
      BY DEF LogsNewest
    <2> DEFINE n == Lesser(limit, Len(lines))
               first == Len(lines) - n + 1
    <2>1. /\ limit \in Nat /\ lines \in Seq(Nat) /\ Len(lines) \in Nat /\ logged \in Nat
          /\ \A i \in 1 .. Len(lines) : lines[i] = logged - Len(lines) + i
      BY DashboardAssumption, LogAssumption DEF DashboardInv, RingInv, RingType, NewestLines
    <2>2. n \in Nat /\ n =< Len(lines)
      BY <2>1 DEF Lesser
    <2>3. Snapshot({limit}) = LastLines(n)
      <3>1. (CHOOSE l \in {limit} : TRUE) = limit
        OBVIOUS
      <3>2. CASE limit < Len(lines)
        BY <2>1, <3>1, <3>2 DEF Snapshot, Lesser
      <3>3. CASE ~(limit < Len(lines))
        BY <2>1, <3>3 DEF Snapshot, Lesser
      <3> QED
        BY <3>2, <3>3
    <2> HIDE DEF n
    <2>4. SubSeq(lines, first, Len(lines)) = [i \in 1 .. n |-> lines[i + first - 1]]
      <3>1. first \in 1 .. Len(lines) + 1 /\ Len(lines) - first + 1 = n
        BY <2>1, <2>2
      <3>2. first \in Int /\ Len(lines) \in Int /\ first - 1 = Len(lines) - n
        BY <2>1, <2>2
      <3>3. \A i \in first .. Len(lines) : lines[i] \in Nat
        <4> SUFFICES ASSUME NEW i \in first .. Len(lines) PROVE lines[i] \in Nat
          OBVIOUS
        <4>1. i \in 1 .. Len(lines)
          BY <2>1, <3>1, <3>2
        <4> QED
          BY <2>1, <4>1
      <3> HIDE DEF first
      <3> DEFINE sub == SubSeq(lines, first, Len(lines))
      <3>4. /\ sub \in Seq(Nat)
            /\ Len(sub) = IF first =< Len(lines) THEN Len(lines) - first + 1 ELSE 0
            /\ \A i \in 1 .. Len(lines) - first + 1 : sub[i] = lines[first + i - 1]
        BY <3>2, <3>3, SubSeqProperties
      <3>5. Len(sub) = n
        BY <2>1, <2>2, <3>1, <3>2, <3>4
      <3>6. \A i \in 1 .. n : sub[i] = lines[i + first - 1]
        BY <2>2, <3>1, <3>2, <3>4
      <3>7. sub = [i \in 1 .. n |-> sub[i]]
        BY <3>4, <3>5
      <3> HIDE DEF sub
      <3>8. sub = [i \in 1 .. n |-> lines[i + first - 1]]
        BY <3>6, <3>7
      <3> QED
        BY <3>8 DEF sub
    <2>5. \A i \in 1 .. n : lines[i + first - 1] = logged - n + i
      BY <2>1, <2>2
    <2> QED
      BY <2>3, <2>4, <2>5 DEF LastLines, n
  <1> QED
    BY <1>1, DashboardAlways, PTL

=============================================================================
