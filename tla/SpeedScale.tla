----------------------------- MODULE SpeedScale -----------------------------
(***************************************************************************)
(* The arithmetic on pump speeds.  A speed travels as a percentage-like    *)
(* number in an MQTT command, as a word 0..spd_max in memory and on disk,  *)
(* and as a demand word (RPM x 4, 16 bits) on the RS485 bus.  The words    *)
(* are unsigned 16 bit in the code: the divisions truncate, and the demand *)
(* saturates at the top of the type.                                       *)
(***************************************************************************)
EXTENDS Integers

U16Max == 65535
Word   == 0 .. U16Max
DefaultSpdMax == 35          \* also the literal 35 of migrate_spd
LegacyStep == 655            \* one unit of the old x655 encoding
DemandRpmMin == 600
DemandRpmMax == 3450

Lesser(a, b) == IF a =< b THEN a ELSE b

\* A configured maximum of zero stands for the default.
EffectiveMax(spdMax) == IF spdMax = 0 THEN DefaultSpdMax ELSE spdMax

\* Fault: negative requests are not floored.
EncodeSpdUnfloored(spd, spdMax) == Lesser(Lesser(spd, U16Max), EffectiveMax(spdMax))

EncodeSpd(spd, spdMax) ==
  IF spd < 1 THEN 0
  ELSE Lesser(Lesser(spd, U16Max), EffectiveMax(spdMax))

DecodeSpd(word, spdMax) == Lesser(word, EffectiveMax(spdMax))

MigrateSpd(word) ==
  IF word > DefaultSpdMax THEN Lesser(word \div LegacyStep, DefaultSpdMax) ELSE word

DemandRpm(spd, max) ==
  IF max =< 1 THEN DemandRpmMax
  ELSE DemandRpmMin
         + ((Lesser(spd, max) - 1) * (DemandRpmMax - DemandRpmMin)) \div (max - 1)

DemandFromSpd(spd, spdMax) ==
  IF spd = 0 THEN 0 ELSE Lesser(4 * DemandRpm(spd, EffectiveMax(spdMax)), U16Max)

RpmFromSensor(raw) == raw \div 4

=============================================================================
