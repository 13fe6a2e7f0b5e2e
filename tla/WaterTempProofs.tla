-------------------------- MODULE WaterTempProofs ---------------------------
(***************************************************************************)
(* The safety of the temperature task for every settle time, every sensor  *)
(* and any number of changes of the valve.  The reason a reading is never  *)
(* too young is the invariant SettleInv: what is left of the settle time   *)
(* and what has passed since the change was seen make up the whole.        *)
(***************************************************************************)
EXTENDS WaterTemp, NumberProofs

LEMMA ActiveLoopType ==
  ASSUME TypeOK
  PROVE  ActiveLoop \in Loops
BY DEF TypeOK, ActiveLoop, Loops

\* Every variable keeps its type.
THEOREM TypeCorrect == Spec => []TypeOK
  <1>1. Init => TypeOK
    <2> SUFFICES ASSUME Init PROVE TypeOK
      OBVIOUS
    <2>1. 0 \in 0 .. Settle /\ 0 \in 0 .. MaxFlips
      BY SettleAssumption
    <2>2. samples \in Samples \cup {<<>>}
      BY DEF Init
    <2> QED
      BY <2>1, <2>2 DEF Init, TypeOK, Loops
  <1>2. TypeOK /\ [Next]_vars => TypeOK'
    <2> SUFFICES ASSUME TypeOK, [Next]_vars PROVE TypeOK'
      OBVIOUS
    <2> USE DEF env, readings, reader, task, status, history
    <2>0. Settle \in Nat \ {0} /\ MaxFlips \in Nat /\ ActiveLoop \in Loops
      BY SettleAssumption, ActiveLoopType
    <2>1. CASE MoveValve
      <3>1. flips' \in 0 .. MaxFlips /\ sinceChange' \in 0 .. Settle /\ polled' \in BOOLEAN
        BY <2>0, <2>1 DEF MoveValve, TypeOK
      <3>2. asked' \in Loops /\ feedback' \in {{}, {"pool"}, {"spa"}}
        BY <2>1 DEF MoveValve, TypeOK, Loops
      <3> QED
        BY <2>1, <3>1, <3>2 DEF MoveValve, TypeOK
    <2>2. CASE Elapse
      <3>1. settleLeft' \subseteq 0 .. Settle /\ \A j, k \in settleLeft' : j = k
        BY <2>0, <2>2 DEF Elapse, TypeOK
      <3>2. sinceChange' \in 0 .. Settle /\ sinceSeen' \in 0 .. Settle
        BY <2>0, <2>2 DEF Elapse, Later, TypeOK
      <3> QED
        BY <2>2, <3>1, <3>2 DEF Elapse, TypeOK
    <2>3. CASE BeginPoll
      <3>1. Deadline \subseteq 0 .. Settle /\ \A j, k \in Deadline : j = k
        BY <2>0 DEF Deadline, TypeOK
      <3>2. settleLeft' \subseteq 0 .. Settle /\ (\A j, k \in settleLeft' : j = k)
            /\ settling' \in BOOLEAN
        BY <2>3, <3>1 DEF BeginPoll, TypeOK
      <3>3. valid' \in SUBSET Loops /\ previousLoop' \in {{}, {"pool"}, {"spa"}}
            /\ active' \in Loops
        BY <2>0, <2>3 DEF BeginPoll, Blanked, TypeOK, Loops
      <3>4. statusPermit' \in BOOLEAN /\ sinceSeen' \in 0 .. Settle
        BY <2>0, <2>3 DEF BeginPoll, Hint, TypeOK
      <3> QED
        BY <2>3, <3>2, <3>3, <3>4 DEF BeginPoll, TypeOK
    <2>4. CASE SampleGood
      BY <2>4 DEF SampleGood, TypeOK
    <2>5. CASE SampleRejected \/ SampleFails
      <3>1. CASE SampleRejected
        BY <3>1 DEF SampleRejected, TypeOK
      <3>2. CASE SampleFails
        BY <3>2 DEF SampleFails, TypeOK
      <3> QED
        BY <2>5, <3>1, <3>2
    <2>6. CASE StoreSample
      <3>1. valid' \in SUBSET Loops /\ statusPermit' \in BOOLEAN /\ settling' \in BOOLEAN
        BY <2>6 DEF StoreSample, Hint, TypeOK
      <3>2. settleLeft' \subseteq 0 .. Settle /\ \A j, k \in settleLeft' : j = k
        BY <2>6 DEF StoreSample, TypeOK
      <3> QED
        BY <2>6, <3>1, <3>2 DEF StoreSample, TypeOK
    <2>7. CASE ClearReading
      <3>1. valid' \in SUBSET Loops /\ statusPermit' \in BOOLEAN
        BY <2>7 DEF ClearReading, Hint, TypeOK
      <3> QED
        BY <2>7, <3>1 DEF ClearReading, TypeOK
    <2>8. CASE ReportFault
      BY <2>8 DEF ReportFault, TypeOK
    <2>9. CASE WakePublisher \/ PublishStatus
      <3>1. publisher' \in {"idle", "woken"} /\ shown' \in SUBSET Loops
            /\ statusPermit' \in BOOLEAN
        BY <2>9 DEF WakePublisher, PublishStatus, TypeOK
      <3>2. UNCHANGED <<env, readings, tempOk, reader, task, faulted, history, flips>>
        BY <2>9 DEF WakePublisher, PublishStatus
      <3> QED
        BY <3>1, <3>2 DEF TypeOK
    <2>10. CASE UNCHANGED vars
      BY <2>10 DEF vars, TypeOK
    <2> QED
      BY <2>1, <2>2, <2>3, <2>4, <2>5, <2>6, <2>7, <2>8, <2>9, <2>10 DEF Next
  <1> QED
    BY <1>1, <1>2, PTL DEF Spec

-----------------------------------------------------------------------------
(* Settling and faults.                                                    *)

SettleInv ==
  /\ settling <=> settleLeft # {}
  /\ \A k \in settleLeft : k + sinceSeen >= Settle
  /\ previousLoop # {} /\ settleLeft = {} => sinceSeen = Settle
  /\ settleLeft # {} => previousLoop \cap valid = {}
  /\ previousLoop = {} => valid = {} /\ settleLeft = {}

\* The loop of a poll is the one it has found; a fault has left no reading
\* of it, and a sample about to be stored ends the fault.
FaultInv ==
  /\ poll # "idle" => previousLoop = {active}
  /\ poll = "storing" => ~faulted
  /\ FaultBlanks

TempInv == SettleInv /\ FaultInv

LEMMA TempStep ==
  ASSUME TypeOK, TempInv, [Next]_vars
  PROVE  TempInv'
  <1> USE DEF env, readings, reader, task, status, history
  <1>0. Settle \in Nat \ {0} /\ sinceSeen \in 0 .. Settle /\ settleLeft \subseteq 0 .. Settle
        /\ settling \in BOOLEAN /\ faulted \in BOOLEAN
    BY SettleAssumption DEF TypeOK
  <1>1. CASE Elapse
    <2>1. \A k \in settleLeft' : k + sinceSeen' >= Settle
      <3> SUFFICES ASSUME NEW k \in settleLeft PROVE
            (IF k > 0 THEN k - 1 ELSE 0) + sinceSeen' >= Settle
        BY <1>1 DEF Elapse
      <3>1. k \in 0 .. Settle /\ k + sinceSeen >= Settle
            /\ sinceSeen' = (IF sinceSeen < Settle THEN sinceSeen + 1 ELSE sinceSeen)
        BY <1>0, <1>1 DEF Elapse, Later, TempInv, SettleInv
      <3> QED
        BY <1>0, <3>1
    <2>2. settleLeft' = {} <=> settleLeft = {}
      BY <1>1 DEF Elapse
    <2>3. sinceSeen = Settle => sinceSeen' = Settle
      BY <1>0, <1>1 DEF Elapse, Later
    <2> QED
      BY <1>1, <2>1, <2>2, <2>3 DEF Elapse, TempInv, SettleInv, FaultInv, FaultBlanks
  <1>2. CASE BeginPoll
    <2>1. previousLoop' = {ActiveLoop} /\ active' = ActiveLoop /\ poll' = "sampling"
          /\ UNCHANGED faulted
      BY <1>2 DEF BeginPoll
    <2>2. CASE LoopChanged
      <3>1. Deadline = {Settle} /\ Deadline # {0}
        BY <1>0, <2>2 DEF Deadline
      <3>2. settleLeft' = {Settle} /\ settling' = TRUE /\ sinceSeen' = 0
            /\ valid' = valid \ {ActiveLoop}
        BY <1>2, <2>2, <3>1 DEF BeginPoll, Blanked
      <3>3. SettleInv'
        BY <1>0, <2>1, <3>2 DEF SettleInv
      <3>4. FaultInv'
        BY <2>1, <3>2 DEF FaultInv, FaultBlanks
      <3> QED
        BY <3>3, <3>4 DEF TempInv
    <2>3. CASE ~LoopChanged
      <3>1. previousLoop' = previousLoop /\ UNCHANGED <<valid, sinceSeen>>
        BY <1>2, <2>1, <2>3 DEF BeginPoll, Blanked, LoopChanged
      <3>2. CASE settleLeft = {0}
        <4>1. settleLeft' = {} /\ settling' = FALSE
          BY <1>2, <2>3, <3>2 DEF BeginPoll, Deadline
        <4>2. sinceSeen = Settle
          BY <1>0, <3>2 DEF TempInv, SettleInv
        <4> QED
          BY <2>1, <3>1, <4>1, <4>2 DEF TempInv, SettleInv, FaultInv, FaultBlanks
      <3>3. CASE settleLeft # {0}
        <4>1. settleLeft' = settleLeft /\ settling' = settling
          BY <1>0, <1>2, <2>3, <3>3 DEF BeginPoll, Deadline
        <4> QED
          BY <2>1, <3>1, <4>1 DEF TempInv, SettleInv, FaultInv, FaultBlanks
      <3> QED
        BY <3>2, <3>3
    <2> QED
      BY <2>2, <2>3
  <1>3. CASE StoreSample
    <2>1. previousLoop = {active} /\ ~faulted /\ poll' = "idle"
          /\ UNCHANGED <<faulted, previousLoop, sinceSeen, active>>
      BY <1>3 DEF StoreSample, TempInv, FaultInv
    <2>2. CASE settling /\ settleLeft # {0}
      <3>1. UNCHANGED <<settling, settleLeft, valid>>
        BY <1>0, <1>3, <2>2 DEF StoreSample
      <3> QED
        BY <2>1, <3>1 DEF TempInv, SettleInv, FaultInv, FaultBlanks
    <2>3. CASE ~settling \/ settleLeft = {0}
      <3>1. settleLeft' = {} /\ settling' = FALSE
        BY <1>0, <1>3, <2>3 DEF StoreSample, TempInv, SettleInv
      <3>2. sinceSeen = Settle
        BY <1>0, <2>1, <2>3 DEF TempInv, SettleInv
      <3> QED
        BY <2>1, <3>1, <3>2 DEF TempInv, SettleInv, FaultInv, FaultBlanks
    <2> QED
      BY <2>2, <2>3
  <1>4. CASE ClearReading
    BY <1>4 DEF ClearReading, TempInv, SettleInv, FaultInv, FaultBlanks
  <1>5. CASE SampleGood \/ SampleRejected \/ SampleFails
    BY <1>5 DEF SampleGood, SampleRejected, SampleFails, TempInv, SettleInv, FaultInv, FaultBlanks
  <1>6. CASE ReportFault
    BY <1>6 DEF ReportFault, TempInv, SettleInv, FaultInv, FaultBlanks
  <1>7. CASE MoveValve \/ WakePublisher \/ PublishStatus \/ UNCHANGED vars
    <2>1. UNCHANGED <<poll, valid, settling, settleLeft, sinceSeen, previousLoop, active, faulted>>
      BY <1>7 DEF MoveValve, WakePublisher, PublishStatus, vars
    <2> QED
      BY <2>1 DEF TempInv, SettleInv, FaultInv, FaultBlanks
  <1> QED
    BY <1>1, <1>2, <1>3, <1>4, <1>5, <1>6, <1>7 DEF Next

LEMMA TempAlways == Spec => []TempInv
  <1>1. Init => TempInv
    BY DEF Init, TempInv, SettleInv, FaultInv, FaultBlanks
  <1>2. TypeOK /\ TempInv /\ [Next]_vars => TempInv'
    BY TempStep
  <1> QED
    BY <1>1, <1>2, TypeCorrect, PTL DEF Spec

\* No reading of the loop the task knows of before its water has settled.
THEOREM SettledTheorem == Spec => []SettledLongEnough
  <1>1. TempInv => SettledLongEnough
    BY DEF TempInv, SettleInv, SettledLongEnough
  <1> QED
    BY <1>1, TempAlways, PTL

\* No reading of that loop from a sensor in fault.
THEOREM FaultTheorem == Spec => []FaultBlanks
  <1>1. TempInv => FaultBlanks
    BY DEF TempInv, FaultInv
  <1> QED
    BY <1>1, TempAlways, PTL

-----------------------------------------------------------------------------
(* Publication, and the other loop.                                        *)

\* Whichever readings there are is published, or a wake-up for it pending.
THEOREM ShownTheorem == Spec => []ValidityShown
  <1>1. Init => ValidityShown
    BY DEF Init, ValidityShown
  <1>2. TypeOK /\ ValidityShown /\ [Next]_vars => ValidityShown'
    <2> SUFFICES ASSUME TypeOK, ValidityShown, [Next]_vars PROVE ValidityShown'
      OBVIOUS
    <2> USE DEF env, readings, reader, task, status, history
    <2>1. CASE BeginPoll
      BY <2>1 DEF BeginPoll, Blanked, Hint, ValidityShown, TypeOK
    <2>2. CASE StoreSample
      <3> DEFINE store == ~settling \/ settleLeft = {0}
      <3>1. PICK moved \in BOOLEAN : Hint(store /\ (active \in valid => moved))
        BY <2>2 DEF StoreSample
      <3>2. CASE store /\ active \notin valid
        BY <3>1, <3>2 DEF Hint, ValidityShown
      <3>3. CASE ~(store /\ active \notin valid)
        <4>1. valid' = valid /\ UNCHANGED <<publisher, shown>>
          BY <2>2, <3>3 DEF StoreSample
        <4> QED
          BY <3>1, <4>1 DEF Hint, ValidityShown
      <3> QED
        BY <3>2, <3>3
    <2>3. CASE ClearReading
      BY <2>3 DEF ClearReading, Hint, ValidityShown, TypeOK
    <2>4. CASE WakePublisher \/ PublishStatus
      BY <2>4 DEF WakePublisher, PublishStatus, ValidityShown
    <2>5. CASE \/ MoveValve \/ Elapse \/ SampleGood \/ SampleRejected \/ SampleFails
               \/ ReportFault \/ UNCHANGED vars
      <3>1. UNCHANGED <<valid, statusPermit, publisher, shown>>
        BY <2>5 DEF MoveValve, Elapse, SampleGood, SampleRejected, SampleFails, ReportFault, vars
      <3> QED
        BY <3>1 DEF ValidityShown
    <2> QED
      BY <2>1, <2>2, <2>3, <2>4, <2>5 DEF Next
  <1> QED
    BY <1>1, <1>2, TypeCorrect, PTL DEF Spec

\* A poll touches the reading of its own loop only.
THEOREM OtherLoopTheorem == Spec => OtherLoopKept
  <1>1. TypeOK /\ [Next]_vars =>
          [\A l \in Loops : (l \in valid) # (l \in valid') => l = active']_vars
    <2> SUFFICES ASSUME TypeOK, Next
                 PROVE \A l \in Loops : (l \in valid) # (l \in valid') => l = active'
      BY DEF vars
    <2> USE DEF env, readings, reader, task, status, history
    <2>1. CASE BeginPoll
      BY <2>1 DEF BeginPoll, Blanked
    <2>2. CASE StoreSample
      BY <2>2 DEF StoreSample
    <2>3. CASE ClearReading
      BY <2>3 DEF ClearReading
    <2>4. CASE \/ MoveValve \/ Elapse \/ SampleGood \/ SampleRejected \/ SampleFails
               \/ ReportFault \/ WakePublisher \/ PublishStatus
      <3>1. UNCHANGED valid
        BY <2>4 DEF MoveValve, Elapse, SampleGood, SampleRejected, SampleFails, ReportFault,
                    WakePublisher, PublishStatus
      <3> QED
        BY <3>1
    <2> QED
      BY <2>1, <2>2, <2>3, <2>4 DEF Next
  <1> QED
    BY <1>1, TypeCorrect, PTL DEF Spec, OtherLoopKept

-----------------------------------------------------------------------------
(* The average of the samples.                                             *)

LEMMA CancelFactor ==
  ASSUME NEW d \in Nat, d > 0, NEW a \in Int, NEW b \in Int, d * a < d * b + d
  PROVE  a =< b
  <1> SUFFICES ASSUME a >= b + 1 PROVE FALSE
    OBVIOUS
  <1>1. d * a >= d * (b + 1) /\ d * (b + 1) = d * b + d
    OBVIOUS
  <1>2. d * a \in Int /\ d * b + d \in Int
    OBVIOUS
  <1> QED
    BY <1>1, <1>2

\* Rust's division rounds toward zero ...
LEMMA QuotientTruncates ==
  ASSUME NEW t \in Int, NEW d \in Nat, d > 0
  PROVE  /\ Quotient(t, d) \in Int /\ d * Quotient(t, d) \in Int
         /\ t >= 0 => d * Quotient(t, d) =< t /\ t < d * Quotient(t, d) + d
         /\ t < 0  => d * Quotient(t, d) - d < t /\ t =< d * Quotient(t, d)
  <1>1. CASE t >= 0
    <2> DEFINE q == t \div d
    <2>1. Quotient(t, d) = q
      BY <1>1 DEF Quotient
    <2>2. q \in Nat /\ d * q =< t /\ t < d * q + d
      BY <1>1, Division
    <2> HIDE DEF q
    <2> QED
      BY <1>1, <2>1, <2>2
  <1>2. CASE t < 0
    <2> DEFINE q == (-t) \div d
    <2>1. Quotient(t, d) = -q
      BY <1>2 DEF Quotient
    <2>2. -t \in Nat
      BY <1>2
    <2>3. q \in Nat /\ d * q =< -t /\ -t < d * q + d
      BY <2>2, Division
    <2> HIDE DEF q
    <2>4. d * q \in Int /\ d * (-q) = -(d * q)
      BY <2>3
    <2> QED
      BY <1>2, <2>1, <2>3, <2>4
  <1> QED
    BY <1>1, <1>2

\* ... and keeps a total between bounds that are multiples of d.
LEMMA QuotientBetween ==
  ASSUME NEW t \in Int, NEW d \in Nat, d > 0, NEW low \in Int, NEW high \in Int,
         d * low =< t, t =< d * high
  PROVE  low =< Quotient(t, d) /\ Quotient(t, d) =< high
  <1> DEFINE q == Quotient(t, d)
  <1>1. /\ q \in Int /\ d * q \in Int
        /\ t >= 0 => d * q =< t /\ t < d * q + d
        /\ t < 0  => d * q - d < t /\ t =< d * q
    BY QuotientTruncates
  <1> HIDE DEF q
  <1>2. d * low \in Int /\ d * high \in Int
    OBVIOUS
  <1>3. d * low < d * q + d /\ d * q < d * high + d
    BY <1>1, <1>2
  <1>4. low =< q /\ q =< high
    BY <1>1, <1>3, CancelFactor
  <1> QED
    BY <1>4 DEF q

LEMMA SampleWidth ==
  /\ I16Min \in Int /\ I16Max \in Int /\ I16Min = -32768 /\ I16Max = 32767
  /\ \A raw \in Raw : raw \in Int /\ I16Min =< raw /\ raw =< I16Max
  <1>1. I16Min \in Int /\ I16Max \in Int /\ I16Min = -32768 /\ I16Max = 32767
    BY DEF I16Min, I16Max
  <1> QED
    BY <1>1 DEF Raw

\* A sequence of samples has a least and a greatest member.
LEMMA Extremes ==
  ASSUME NEW n \in Nat \ {0}, NEW s \in [1 .. n -> Raw]
  PROVE  \E low, high \in 1 .. n : \A i \in 1 .. n : s[low] =< s[i] /\ s[i] =< s[high]
  <1> DEFINE up   == {s[i] - I16Min : i \in 1 .. n}
             down == {I16Max - s[i] : i \in 1 .. n}
  <1>1. \A i \in 1 .. n : /\ s[i] \in Int
                          /\ s[i] - I16Min \in Nat
                          /\ I16Max - s[i] \in Nat
    BY SampleWidth
  <1>2. 1 \in 1 .. n
    OBVIOUS
  <1>3. PICK low \in 1 .. n : \A i \in 1 .. n : s[low] - I16Min =< s[i] - I16Min
    <2>1. up \subseteq Nat /\ up # {}
      BY <1>1, <1>2
    <2>2. PICK m \in up : \A k \in up : m =< k
      <3> HIDE DEF up, down
      <3> QED
        BY <2>1, LeastElement
    <2> QED
      BY <2>2
  <1>4. PICK high \in 1 .. n : \A i \in 1 .. n : I16Max - s[high] =< I16Max - s[i]
    <2>1. down \subseteq Nat /\ down # {}
      BY <1>1, <1>2
    <2>2. PICK m \in down : \A k \in down : m =< k
      <3> HIDE DEF up, down
      <3> QED
        BY <2>1, LeastElement
    <2> QED
      BY <2>2
  <1>5. ASSUME NEW i \in 1 .. n PROVE s[low] =< s[i] /\ s[i] =< s[high]
    <2>1. /\ s[low] \in Int /\ s[i] \in Int /\ s[high] \in Int
          /\ I16Min \in Int /\ I16Max \in Int
      BY <1>1, SampleWidth
    <2>2. s[low] - I16Min =< s[i] - I16Min /\ I16Max - s[high] =< I16Max - s[i]
      BY <1>3, <1>4
    <2> QED
      BY <2>1, <2>2
  <1> QED
    BY <1>5

\* The total of n samples lies between n times the lowest and n times the
\* highest of them.
LEMMA TotalBetween ==
  ASSUME NEW n \in Nat, NEW s \in [1 .. n -> Raw], NEW low \in Int, NEW high \in Int,
         \A i \in 1 .. n : low =< s[i] /\ s[i] =< high
  PROVE  /\ Total(s) \in Int
         /\ n * low =< Total(s) /\ Total(s) =< n * high
  <1>0. Len(s) = n /\ \A i \in 1 .. n : s[i] \in Int
    <2>1. \A i \in 1 .. n : s[i] \in Raw
      OBVIOUS
    <2>2. s \in Seq(Raw) /\ Len(s) = n
      OBVIOUS
    <2> QED
      BY <2>1, <2>2, SampleWidth
  <1> DEFINE sum == CHOOSE f : f = [i \in 0 .. n |-> IF i = 0 THEN 0 ELSE f[i - 1] + s[i]]
  <1>1. Total(s) = sum[n]
    BY <1>0 DEF Total
  <1>2. sum = [i \in 0 .. n |-> IF i = 0 THEN 0 ELSE sum[i - 1] + s[i]]
    <2> DEFINE step == [i \in 1 .. n |-> [t \in Int |-> t + s[i]]]
    <2>1. step \in [1 .. n -> [Int -> Int]]
      BY <1>0
    <2>2. 0 \in Int
      OBVIOUS
    <2>3. \A i \in 1 .. n, t \in Int : step[i][t] = t + s[i]
      OBVIOUS
    <2> HIDE DEF step
    <2>4. PICK f \in [0 .. n -> Int] : /\ f[0] = 0
                                       /\ \A i \in 1 .. n : f[i] = step[i][f[i - 1]]
      <3>1. Iterations(n, Int, 0, step) # {}
        BY <2>1, <2>2, Recursion
      <3> QED
        BY <3>1 DEF Iterations
    <2>5. ASSUME NEW i \in 1 .. n PROVE f[i] = f[i - 1] + s[i]
      BY <2>3, <2>4
    <2>6. f = [i \in 0 .. n |-> IF i = 0 THEN 0 ELSE f[i - 1] + s[i]]
      BY <2>4, <2>5
    <2> QED
      BY <2>6
  <1> HIDE DEF sum
  <1> DEFINE P == {i \in 0 .. n : /\ sum[i] \in Int
                                  /\ i * low =< sum[i] /\ sum[i] =< i * high}
  <1>3. 0 \in P
    <2>1. sum[0] = 0
      BY <1>2
    <2>2. 0 * low = 0 /\ 0 * high = 0
      OBVIOUS
    <2> QED
      BY <2>1, <2>2
  <1>4. ASSUME NEW i \in 1 .. n, i - 1 \in P PROVE i \in P
    <2>1. sum[i] = sum[i - 1] + s[i]
      BY <1>2
    <2>2. /\ sum[i - 1] \in Int /\ s[i] \in Int
          /\ (i - 1) * low =< sum[i - 1] /\ sum[i - 1] =< (i - 1) * high
          /\ low =< s[i] /\ s[i] =< high
      BY <1>0, <1>4
    <2>3. (i - 1) * low = i * low - low /\ (i - 1) * high = i * high - high
          /\ i * low \in Int /\ i * high \in Int
      OBVIOUS
    <2>4. sum[i] \in Int /\ i * low =< sum[i] /\ sum[i] =< i * high
      BY <2>1, <2>2, <2>3
    <2> QED
      BY <2>4
  <1>5. Inductive(P, n)
    BY <1>3, <1>4 DEF Inductive
  <1> HIDE DEF P
  <1>6. n \in P
    BY <1>5, Induction
  <1> QED
    BY <1>1, <1>6 DEF P

\* sample_average, for every number of samples up to 255 and every i16: the
\* average is again an i16, between the lowest and the highest sample; the
\* total it is taken of never leaves the i64 (nor an i32) of average_raw; and
\* it is rounded toward zero.
THEOREM AverageBetween ==
  ASSUME NEW s \in Samples
  PROVE  /\ AverageRaw(s) \in Raw
         /\ \E low, high \in DOMAIN s : s[low] =< AverageRaw(s) /\ AverageRaw(s) =< s[high]
         /\ Total(s) \in 255 * I16Min .. 255 * I16Max
         /\ IF Total(s) >= 0
            THEN Total(s) - Len(s) < Len(s) * AverageRaw(s) /\ Len(s) * AverageRaw(s) =< Total(s)
            ELSE Total(s) =< Len(s) * AverageRaw(s) /\ Len(s) * AverageRaw(s) < Total(s) + Len(s)
  <1> DEFINE n == IF SampleCount = 0 THEN 1 ELSE SampleCount
  <1>1. n \in Nat \ {0} /\ n =< 255 /\ s \in [1 .. n -> Raw]
    BY ThermistorAssumption DEF Samples
  <1>2. DOMAIN s = 1 .. n /\ Len(s) = n
    BY <1>1
  <1> HIDE DEF n
  <1>3. PICK low \in 1 .. n, high \in 1 .. n :
           \A i \in 1 .. n : s[low] =< s[i] /\ s[i] =< s[high]
    BY <1>1, Extremes
  <1>4. s[low] \in Raw /\ s[high] \in Raw
    BY <1>1
  <1>5. s[low] \in Int /\ s[high] \in Int
    BY <1>4, SampleWidth
  <1>6. Total(s) \in Int /\ n * s[low] =< Total(s) /\ Total(s) =< n * s[high]
    BY <1>1, <1>3, <1>5, TotalBetween
  <1>7. /\ AverageRaw(s) \in Int
        /\ s[low] =< AverageRaw(s) /\ AverageRaw(s) =< s[high]
    <2>1. n \in Nat /\ n > 0 /\ AverageRaw(s) = Quotient(Total(s), n)
      BY <1>1, <1>2 DEF AverageRaw
    <2>2. Quotient(Total(s), n) \in Int
      BY <1>6, <2>1, QuotientTruncates
    <2>3. s[low] =< Quotient(Total(s), n) /\ Quotient(Total(s), n) =< s[high]
      BY <1>5, <1>6, <2>1, QuotientBetween
    <2> QED
      BY <2>1, <2>2, <2>3
  <1>8. Total(s) \in 255 * I16Min .. 255 * I16Max
    <2>1. /\ I16Min \in Int /\ I16Max \in Int /\ I16Min =< s[low] /\ s[high] =< I16Max
          /\ I16Min =< 0 /\ I16Max >= 0
      BY <1>4, SampleWidth
    <2>2. n * I16Min =< n * s[low] /\ n * s[high] =< n * I16Max
      BY <1>1, <1>5, <2>1
    <2>3. 255 * I16Min =< n * I16Min /\ n * I16Max =< 255 * I16Max
      BY <1>1, <2>1
    <2>4. n * s[low] \in Int /\ n * s[high] \in Int
      BY <1>1, <1>5
    <2> QED
      BY <1>1, <1>6, <2>1, <2>2, <2>3, <2>4
  <1>9. AverageRaw(s) \in Raw
    <2>1. I16Min \in Int /\ I16Max \in Int /\ I16Min =< s[low] /\ s[high] =< I16Max
      BY <1>4, SampleWidth
    <2> QED
      BY <1>5, <1>7, <2>1 DEF Raw
  <1>10. IF Total(s) >= 0
         THEN Total(s) - n < n * AverageRaw(s) /\ n * AverageRaw(s) =< Total(s)
         ELSE Total(s) =< n * AverageRaw(s) /\ n * AverageRaw(s) < Total(s) + n
    <2> DEFINE t == Total(s)
    <2>1. t \in Int /\ AverageRaw(s) = Quotient(t, n) /\ n \in Nat /\ n > 0
      BY <1>1, <1>2, <1>6 DEF AverageRaw
    <2> HIDE DEF t
    <2>2. /\ n * Quotient(t, n) \in Int
          /\ t >= 0 => n * Quotient(t, n) =< t /\ t < n * Quotient(t, n) + n
          /\ t < 0  => n * Quotient(t, n) - n < t /\ t =< n * Quotient(t, n)
      BY <2>1, QuotientTruncates
    <2>3. IF t >= 0 THEN t - n < n * Quotient(t, n) /\ n * Quotient(t, n) =< t
                    ELSE t =< n * Quotient(t, n) /\ n * Quotient(t, n) < t + n
      BY <1>1, <2>1, <2>2
    <2> QED
      BY <2>1, <2>3 DEF t
  <1> QED
    BY <1>2, <1>7, <1>8, <1>9, <1>10

\* What is stored is an average of its samples and within the limits.
THEOREM AverageTheorem == Spec => []AverageOfSamples
  <1> DEFINE Held == poll = "storing" => samples \in Samples /\ HasTemperature(AverageRaw(samples))
  <1>1. Init => Held
    BY DEF Init
  <1>2. Held /\ [Next]_vars => Held'
    <2> SUFFICES ASSUME Held, [Next]_vars PROVE Held'
      OBVIOUS
    <2> USE DEF env, readings, reader, task, status, history
    <2>1. CASE SampleGood
      BY <2>1 DEF SampleGood
    <2>2. CASE \/ BeginPoll \/ SampleRejected \/ SampleFails \/ StoreSample \/ ClearReading
               \/ ReportFault
      BY <2>2 DEF BeginPoll, SampleRejected, SampleFails, StoreSample, ClearReading, ReportFault
    <2>3. CASE MoveValve \/ Elapse \/ WakePublisher \/ PublishStatus \/ UNCHANGED vars
      BY <2>3 DEF MoveValve, Elapse, WakePublisher, PublishStatus, vars
    <2> QED
      BY <2>1, <2>2, <2>3 DEF Next
  <1>3. Held => AverageOfSamples
    <2> SUFFICES ASSUME Held, poll = "storing"
                 PROVE  LET raw == AverageRaw(samples)
                        IN  /\ \E low, high \in DOMAIN samples :
                                  samples[low] =< raw /\ raw =< samples[high]
                            /\ raw \in (RawMin .. RawMax) \cap (HottestRaw .. ColdestRaw)
      BY DEF AverageOfSamples
    <2> DEFINE raw == AverageRaw(samples)
    <2>1. samples \in Samples /\ HasTemperature(raw)
      OBVIOUS
    <2>2. /\ raw \in Int
          /\ \E low, high \in DOMAIN samples : samples[low] =< raw /\ raw =< samples[high]
      <3>1. raw \in Raw /\ \E low, high \in DOMAIN samples :
                             samples[low] =< raw /\ raw =< samples[high]
        BY <2>1, AverageBetween
      <3> QED
        BY <3>1, SampleWidth
    <2>3. RawMin \in Int /\ RawMax \in Int /\ HottestRaw \in Int /\ ColdestRaw \in Int
      BY ThermistorAssumption, SampleWidth
    <2> HIDE DEF raw
    <2>4. raw \in (RawMin .. RawMax) \cap (HottestRaw .. ColdestRaw)
      BY <2>1, <2>2, <2>3 DEF HasTemperature, HasResistance
    <2> QED
      BY <2>2, <2>4 DEF raw
  <1> QED
    BY <1>1, <1>2, <1>3, PTL DEF Spec

=============================================================================
