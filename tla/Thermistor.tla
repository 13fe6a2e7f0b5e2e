----------------------------- MODULE Thermistor -----------------------------
(***************************************************************************)
(* From the samples of the converter to a temperature: sample_average and  *)
(* raw_to_fahrenheit.                                                      *)
(*                                                                         *)
(* Abstractions.  The temperature is the raw value it is computed from:    *)
(* resistance rises and temperature falls with it, so celsius_max and      *)
(* celsius_min are the raw values HottestRaw and ColdestRaw.               *)
(***************************************************************************)
EXTENDS Integers, Sequences

CONSTANTS Raws,                    \* what the converter may deliver
          SampleCount,             \* sample_count
          RawMin, RawMax,          \* raw_min, raw_max
          FullScale,               \* ADS1115_FS_COUNTS
          HottestRaw, ColdestRaw   \* at celsius_max, at celsius_min

I16Min == -32768
I16Max == 32767
Raw    == I16Min .. I16Max

ASSUME ThermistorAssumption ==
  /\ Raws \subseteq Raw /\ SampleCount \in 0 .. 255
  /\ RawMin \in Raw /\ RawMax \in Raw /\ FullScale \in Nat
  /\ HottestRaw \in Raw /\ ColdestRaw \in Raw

\* sample_average: at least one.
Samples == [1 .. (IF SampleCount = 0 THEN 1 ELSE SampleCount) -> Raws]

Total(samples) ==
  LET sum[i \in 0 .. Len(samples)] == IF i = 0 THEN 0 ELSE sum[i - 1] + samples[i]
  IN  sum[Len(samples)]

\* Integer division of Rust: toward zero.
Quotient(n, d) == IF n < 0 THEN -((-n) \div d) ELSE n \div d

\* Fault: the sum is an i16, like the samples.
AverageRawNarrow(samples) ==
  Quotient(((Total(samples) + 32768) % 65536) - 32768, Len(samples))

AverageRaw(samples) == Quotient(Total(samples), Len(samples))

\* ads_raw_to_resistance gives a resistance.
HasResistance(raw) == RawMin =< raw /\ raw =< RawMax /\ 0 < raw /\ raw < FullScale

\* raw_to_fahrenheit gives a temperature: the average is checked, not the samples.
HasTemperature(raw) == HasResistance(raw) /\ HottestRaw =< raw /\ raw =< ColdestRaw

=============================================================================
