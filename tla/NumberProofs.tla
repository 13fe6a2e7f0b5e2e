---------------------------- MODULE NumberProofs ----------------------------
(***************************************************************************)
(* What the other proofs need of numbers, for every number: induction and  *)
(* recursion up to n, truncating division, and what the speed conversions  *)
(* promise for every word and every configured maximum.                    *)
(*                                                                         *)
(* The induction theorems of the library take a predicate, which none of   *)
(* the provers instantiates.  Here the property is the set of the numbers  *)
(* that have it, and the least number without it refutes itself.           *)
(***************************************************************************)
EXTENDS SpeedScale, WellFoundedInduction, TLAPS

-----------------------------------------------------------------------------
(* Induction and recursion.                                                *)

\* A set of natural numbers that is not empty has a least element.
LEMMA LeastElement ==
  ASSUME NEW T, T \subseteq Nat, T # {}
  PROVE  \E m \in T : \A k \in T : m =< k
  <1> DEFINE R == {ss \in Nat \X Nat : ss[1] < ss[2]}
  <1>1. IsWellFoundedOn(R, Nat)
    BY NatLessThanWellFounded DEF OpToRel
  <1>2. ASSUME NEW x \in Nat, NEW y \in Nat, <<y, x>> \notin R
        PROVE  x =< y
    BY <1>2
  <1> HIDE DEF R
  <1>3. PICK m \in T : \A k \in T : <<k, m>> \notin R
    BY <1>1, WFMin
  <1>4. ASSUME NEW k \in T PROVE m =< k
    <2>1. k \in Nat /\ m \in Nat /\ <<k, m>> \notin R
      BY <1>3
    <2> QED
      BY <2>1, <1>2
  <1> QED
    BY <1>4

\* P holds of 0, and of each of 1 .. n if it does of the one before.
Inductive(P, n) == 0 \in P /\ \A i \in 1 .. n : i - 1 \in P => i \in P

LEMMA Induction ==
  ASSUME NEW n \in Nat, NEW P, Inductive(P, n)
  PROVE  n \in P
  <1> SUFFICES ASSUME n \notin P PROVE FALSE
    OBVIOUS
  <1> DEFINE T == (0 .. n) \ P
  <1>1. T \subseteq Nat /\ T # {}
    OBVIOUS
  <1> HIDE DEF T
  <1>2. PICK m \in T : \A k \in T : m =< k
    BY <1>1, LeastElement
  <1>3. m \in 1 .. n /\ m - 1 \in 0 .. n /\ ~(m =< m - 1)
    <2>1. m \in 0 .. n /\ m \notin P /\ m # 0
      BY <1>2 DEF T, Inductive
    <2> QED
      BY <2>1
  <1>4. m - 1 \in P
    BY <1>2, <1>3 DEF T
  <1> QED
    BY <1>2, <1>3, <1>4 DEF T, Inductive

\* The functions that start with start and take one step after the other.
Iterations(n, D, start, step) ==
  {f \in [0 .. n -> D] : f[0] = start /\ \A i \in 1 .. n : f[i] = step[i][f[i - 1]]}

\* There is such a function: a recursion over 0 .. n is well defined.
LEMMA Recursion ==
  ASSUME NEW n \in Nat, NEW D, NEW start \in D, NEW step \in [1 .. n -> [D -> D]]
  PROVE  Iterations(n, D, start, step) # {}
  <1> DEFINE P == {m \in 0 .. n : Iterations(m, D, start, step) # {}}
  <1>1. 0 \in P
    <2>1. [i \in 0 .. 0 |-> start] \in Iterations(0, D, start, step)
      BY DEF Iterations
    <2> QED
      BY <2>1
  <1>2. ASSUME NEW i \in 1 .. n, i - 1 \in P PROVE i \in P
    <2>1. PICK f \in Iterations(i - 1, D, start, step) : TRUE
      BY <1>2
    <2>2. /\ f \in [0 .. i - 1 -> D] /\ f[0] = start
          /\ \A j \in 1 .. i - 1 : f[j] = step[j][f[j - 1]]
      BY <2>1 DEF Iterations
    <2>3. f[i - 1] \in D /\ step[i][f[i - 1]] \in D
      BY <2>2
    <2> DEFINE g == [j \in 0 .. i |-> IF j = i THEN step[i][f[i - 1]] ELSE f[j]]
    <2>4. g \in [0 .. i -> D] /\ g[0] = start
      BY <2>2, <2>3
    <2>5. ASSUME NEW j \in 1 .. i PROVE g[j] = step[j][g[j - 1]]
      <3>1. i \in Nat /\ j \in Nat /\ j - 1 \in 0 .. i /\ j - 1 # i
        OBVIOUS
      <3>2. CASE j = i
        <4>1. g[j] = step[i][f[i - 1]] /\ g[j - 1] = f[i - 1]
          BY <3>1, <3>2
        <4> QED
          BY <3>2, <4>1
      <3>3. CASE j # i
        BY <3>1, <3>3, <2>2
      <3> QED
        BY <3>2, <3>3
    <2> HIDE DEF g
    <2>6. g \in Iterations(i, D, start, step)
      BY <2>4, <2>5 DEF Iterations
    <2> QED
      BY <2>6
  <1>3. Inductive(P, n)
    BY <1>1, <1>2 DEF Inductive
  <1> HIDE DEF P
  <1>4. n \in P
    BY <1>3, Induction
  <1> QED
    BY <1>4 DEF P

-----------------------------------------------------------------------------
(* Speeds and divisions.                                                   *)

\* All the proofs need of the width of a word: the largest demand fits.
LEMMA WordWidth == U16Max \in Nat /\ U16Max >= 4 * DemandRpmMax
  BY DEF U16Max, DemandRpmMax

\* The configured maximum that is in force is a positive word.
LEMMA EffectiveMaxType ==
  ASSUME NEW m \in Word
  PROVE  /\ EffectiveMax(m) \in Word
         /\ EffectiveMax(m) > 0
         /\ m =< DefaultSpdMax => EffectiveMax(m) =< DefaultSpdMax
  BY WordWidth DEF EffectiveMax, Word, DefaultSpdMax, DemandRpmMax

\* encode_spd: whatever i32 arrives, the word is between 0 and the maximum,
\* and encoding it once more changes nothing.
THEOREM EncodeRange ==
  ASSUME NEW s \in Int, NEW m \in Word
  PROVE  /\ EncodeSpd(s, m) \in 0 .. EffectiveMax(m)
         /\ EncodeSpd(s, m) \in Word
         /\ EncodeSpd(EncodeSpd(s, m), m) = EncodeSpd(s, m)
  BY EffectiveMaxType, WordWidth DEF EncodeSpd, Lesser, Word

\* decode_spd is a left inverse of encode_spd on what it can produce.
THEOREM DecodeEncode ==
  ASSUME NEW s \in Int, NEW m \in Word
  PROVE  DecodeSpd(EncodeSpd(s, m), m) = EncodeSpd(s, m)
  BY EncodeRange, EffectiveMaxType, WordWidth DEF DecodeSpd, Lesser, Word

\* migrate_spd lands in 0..35 and, having landed, moves no more.
THEOREM MigrateRange ==
  ASSUME NEW w \in Word
  PROVE  /\ MigrateSpd(w) \in 0 .. DefaultSpdMax
         /\ MigrateSpd(w) \in Word
         /\ MigrateSpd(MigrateSpd(w)) = MigrateSpd(w)
  BY WordWidth DEF MigrateSpd, Lesser, Word, DefaultSpdMax, LegacyStep, DemandRpmMax

\* A speed encoded under a maximum of at most 35 is read back from disk as it
\* was written.  (Above 35 it is not: see the run spdMax40.)
THEOREM EncodedSurvives ==
  ASSUME NEW s \in Int, NEW m \in Word, m =< DefaultSpdMax
  PROVE  MigrateSpd(EncodeSpd(s, m)) = EncodeSpd(s, m)
  <1>1. EncodeSpd(s, m) \in 0 .. EffectiveMax(m)
    BY EncodeRange
  <1>2. EffectiveMax(m) \in Word /\ EffectiveMax(m) =< DefaultSpdMax
    BY EffectiveMaxType
  <1> QED
    BY <1>1, <1>2, WordWidth DEF MigrateSpd, DefaultSpdMax, Word

\* What truncating division gives, without the division.
LEMMA Division ==
  ASSUME NEW a \in Nat, NEW d \in Nat, d > 0
  PROVE  /\ a \div d \in Nat
         /\ d * (a \div d) =< a
         /\ a < d * (a \div d) + d
  OBVIOUS

LEMMA DivisionMonotone ==
  ASSUME NEW a \in Nat, NEW b \in Nat, NEW d \in Nat, d > 0, a =< b
  PROVE  a \div d =< b \div d
  <1> DEFINE p == a \div d
             q == b \div d
  <1>1. /\ p \in Nat /\ q \in Nat
        /\ d * p =< a
        /\ b < d * q + d
    BY Division
  <1> HIDE DEF p, q
  <1>2. SUFFICES ASSUME p >= q + 1 PROVE FALSE
    BY <1>1 DEF p, q
  <1>3. d * p >= d * (q + 1)
    BY <1>1, <1>2
  <1>4. d * (q + 1) = d * q + d
    BY <1>1
  <1> QED
    BY <1>1, <1>3, <1>4

LEMMA DivisionOfProduct ==
  ASSUME NEW k \in Nat, NEW d \in Nat, d > 0
  PROVE  (d * k) \div d = k
  <1> DEFINE q == (d * k) \div d
  <1>0. d * k \in Nat
    OBVIOUS
  <1>1. q \in Nat /\ d * q =< d * k /\ d * k < d * q + d
    BY <1>0, Division
  <1> HIDE DEF q
  <1>2. q =< k
    <2>1. SUFFICES ASSUME q >= k + 1 PROVE FALSE
      BY <1>1
    <2>2. d * q >= d * (k + 1) /\ d * (k + 1) = d * k + d
      BY <2>1, <1>1
    <2> QED
      BY <2>2, <1>1, <1>0
  <1>3. k =< q
    <2>1. SUFFICES ASSUME k >= q + 1 PROVE FALSE
      BY <1>1
    <2>2. d * k >= d * (q + 1) /\ d * (q + 1) = d * q + d
      BY <2>1, <1>1
    <2> QED
      BY <2>2, <1>1, <1>0
  <1> QED
    BY <1>1, <1>2, <1>3 DEF q

\* A speed between off and the maximum asks for an RPM inside the band, the
\* top of the band at the maximum, and a higher speed never asks for less.
LEMMA RpmInBand ==
  ASSUME NEW m \in Word, m > 0, NEW s \in Word, s > 0, NEW t \in Word, s =< t
  PROVE  /\ DemandRpm(s, m) \in Nat
         /\ DemandRpmMin =< DemandRpm(s, m)
         /\ DemandRpm(s, m) =< DemandRpmMax
         /\ DemandRpm(m, m) = DemandRpmMax
         /\ DemandRpm(s, m) =< DemandRpm(t, m)
  <1>1. CASE m =< 1
    BY <1>1, WordWidth DEF DemandRpm, Word, DemandRpmMin, DemandRpmMax
  <1>2. CASE m > 1
    <2> DEFINE d    == m - 1
               N(x) == (Lesser(x, m) - 1) * (DemandRpmMax - DemandRpmMin)
    <2>1. d \in Nat /\ d > 0 /\ m \in Nat /\ s \in Nat /\ t \in Nat
      BY <1>2, WordWidth DEF Word
    <2>2. /\ N(s) \in Nat /\ N(t) \in Nat /\ N(m) \in Nat
          /\ N(s) =< N(t) /\ N(s) =< N(m)
          /\ N(m) = d * (DemandRpmMax - DemandRpmMin)
      BY <2>1 DEF Lesser, DemandRpmMin, DemandRpmMax
    <2>3. DemandRpmMin \in Nat /\ DemandRpmMax - DemandRpmMin \in Nat
      BY DEF DemandRpmMin, DemandRpmMax
    <2>4. \A x \in {s, t, m} : DemandRpm(x, m) = DemandRpmMin + N(x) \div d
      BY <1>2, <2>1 DEF DemandRpm
    <2> HIDE DEF N, d
    <2>5. N(m) \div d = DemandRpmMax - DemandRpmMin
      BY <2>1, <2>2, <2>3, DivisionOfProduct
    <2>6. N(s) \div d =< N(t) \div d /\ N(s) \div d =< N(m) \div d
      BY <2>1, <2>2, DivisionMonotone
    <2>7. N(s) \div d \in Nat /\ N(t) \div d \in Nat
      BY <2>1, <2>2, Division
    <2> QED
      BY <2>3, <2>4, <2>5, <2>6, <2>7 DEF DemandRpmMin, DemandRpmMax
  <1> QED
    BY <1>1, <1>2, WordWidth DEF Word

\* demand_from_spd: only off gives the demand of a stopped pump; everything
\* else lies between 4 x 600 and 4 x 3450, so the 16 bit word never saturates,
\* the RPM read back from it is the RPM meant, and faster is never slower.
THEOREM DemandRange ==
  ASSUME NEW s \in Word, NEW t \in Word, NEW m \in Word
  PROVE  /\ DemandFromSpd(s, m) \in Word
         /\ DemandFromSpd(s, m) = 0 <=> s = 0
         /\ s > 0 => /\ 4 * DemandRpmMin =< DemandFromSpd(s, m)
                     /\ DemandFromSpd(s, m) =< 4 * DemandRpmMax
                     /\ RpmFromSensor(DemandFromSpd(s, m)) = DemandRpm(s, EffectiveMax(m))
         /\ s =< t => DemandFromSpd(s, m) =< DemandFromSpd(t, m)
  <1> DEFINE M == EffectiveMax(m)
  <1>1. M \in Word /\ M > 0
    BY EffectiveMaxType
  <1>2. s \in Nat /\ t \in Nat /\ 0 \in Word
    BY WordWidth DEF Word
  <1> HIDE DEF M
  <1>3. ASSUME NEW x \in Word, x > 0
        PROVE  /\ DemandRpm(x, M) \in Nat
               /\ DemandRpmMin =< DemandRpm(x, M)
               /\ DemandRpm(x, M) =< DemandRpmMax
               /\ DemandFromSpd(x, m) = 4 * DemandRpm(x, M)
    <2>1. /\ DemandRpm(x, M) \in Nat
          /\ DemandRpmMin =< DemandRpm(x, M)
          /\ DemandRpm(x, M) =< DemandRpmMax
      <3>1. x =< x
        BY <1>3 DEF Word
      <3> QED
        BY <1>1, <1>3, <3>1, RpmInBand
    <2> QED
      BY <1>3, <2>1, WordWidth DEF DemandFromSpd, Lesser, M, DemandRpmMax, Word
  <1>4. DemandFromSpd(0, m) = 0
    BY DEF DemandFromSpd
  <1>5. CASE s = 0
    <2>1. CASE t = 0
      BY <1>4, <1>5, <2>1, <1>2
    <2>2. CASE t > 0
      BY <1>4, <1>5, <2>2, <1>2, <1>3 DEF DemandRpmMin
    <2> QED
      BY <2>1, <2>2, <1>2
  <1>6. CASE s > 0
    <2>1. /\ DemandRpm(s, M) \in Nat
          /\ DemandRpmMin =< DemandRpm(s, M)
          /\ DemandRpm(s, M) =< DemandRpmMax
          /\ DemandFromSpd(s, m) = 4 * DemandRpm(s, M)
      BY <1>3, <1>6
    <2>2. s =< t => DemandFromSpd(s, m) =< DemandFromSpd(t, m)
      <3>1. SUFFICES ASSUME s =< t PROVE DemandFromSpd(s, m) =< DemandFromSpd(t, m)
        OBVIOUS
      <3>2. t > 0
        BY <1>2, <1>6, <3>1
      <3>3. DemandRpm(s, M) =< DemandRpm(t, M)
        BY <1>1, <1>6, <3>1, RpmInBand
      <3> QED
        BY <2>1, <3>2, <3>3, <1>3
    <2>3. RpmFromSensor(4 * DemandRpm(s, M)) = DemandRpm(s, M)
      BY <2>1 DEF RpmFromSensor
    <2>4. /\ 4 * DemandRpmMin =< DemandFromSpd(s, m)
          /\ DemandFromSpd(s, m) =< 4 * DemandRpmMax
          /\ DemandFromSpd(s, m) \in Nat
          /\ DemandFromSpd(s, m) # 0
      BY <2>1 DEF DemandRpmMin, DemandRpmMax
    <2>5. DemandFromSpd(s, m) \in Word
      BY <2>4, WordWidth DEF Word, DemandRpmMax
    <2>6. RpmFromSensor(DemandFromSpd(s, m)) = DemandRpm(s, EffectiveMax(m))
      BY <2>1, <2>3 DEF M
    <2> QED
      BY <1>2, <1>6, <2>2, <2>4, <2>5, <2>6
  <1> QED
    BY <1>2, <1>5, <1>6

=============================================================================
