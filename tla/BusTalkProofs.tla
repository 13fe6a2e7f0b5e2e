--------------------------- MODULE BusTalkProofs ----------------------------
(***************************************************************************)
(* Theorems about BusTalk for every number of channels, every set of       *)
(* speeds, any number of commits, losses and resets, and any lateness up   *)
(* to the bound each of them names.                                        *)
(*                                                                         *)
(* The arguments count requests: an answer ages with every request that    *)
(* is sent after its own.  Between two reads of a writing run lie all its  *)
(* writes (RelayInv); no two requests in succession of a pump run have the *)
(* same function code, the sensor reads apart (PumpInv, ReadingInv).       *)
(***************************************************************************)
EXTENDS BusTalk, TLAPS

-----------------------------------------------------------------------------
(* Types.                                                                  *)

\* After a request every answer on its way is its own or one request older.
LEMMA TransmitShape ==
  ASSUME NEW answers, Transmit(answers)
  PROVE  /\ input' = {}
         /\ \A b \in inflight' :
              \/ b \in answers
              \/ \E a \in inflight :
                   /\ b.fc = a.fc /\ b.value = a.value /\ b.age = a.age + 1
                   /\ a.age < MaxLate[Device(a.fc)]
  BY DEF Transmit, Older

LEMMA ChargeType ==
  ASSUME faults \in 0 .. MaxFaults, NEW ok, Charge(ok)
  PROVE  faults' \in 0 .. MaxFaults
  BY BusAssumption DEF Charge

LEMMA AnswersShape ==
  ASSUME NEW answered, NEW fc, NEW value, NEW b \in Answers(answered, fc, value)
  PROVE  answered /\ b.fc = fc /\ b.value = value /\ b.age = 0
  BY DEF Answers, Answer

\* A request of well typed answers leaves well typed answers.
LEMMA RequestType ==
  ASSUME TypeOK, NEW answered, NEW fc \in Codes, NEW value, NEW ok,
         fc = "read" => value \in SUBSET Relays,
         fc = "sensor" => value \in SUBSET Sensors,
         Request(Answers(answered, fc, value), ok)
  PROVE  /\ \A a \in (inflight \cup input)' : Answered(a)
         /\ faults' \in 0 .. MaxFaults
         /\ waiting' \in BOOLEAN
         /\ UNCHANGED <<shared, at, locals, received>>
  <1>1. \A b \in inflight' : Answered(b)
    <2> SUFFICES ASSUME NEW b \in inflight' PROVE Answered(b)
      OBVIOUS
    <2>1. CASE b \in Answers(answered, fc, value)
      BY <2>1, AnswersShape DEF Answered
    <2>2. CASE b \notin Answers(answered, fc, value)
      <3>1. PICK a \in inflight : b.fc = a.fc /\ b.value = a.value /\ b.age = a.age + 1
        BY <2>2, TransmitShape DEF Request
      <3> QED
        BY <3>1 DEF TypeOK, Answered
    <2> QED
      BY <2>1, <2>2
  <1>2. input' = {}
    BY TransmitShape DEF Request
  <1>3. faults' \in 0 .. MaxFaults
    BY ChargeType DEF Request, TypeOK
  <1> QED
    BY <1>1, <1>2, <1>3 DEF Request

LEMMA OutcomeType ==
  ASSUME TypeOK, Outcome
  PROVE  /\ \A a \in (inflight \cup input)' : Answered(a)
         /\ faults' \in 0 .. MaxFaults
         /\ waiting' \in BOOLEAN
  BY ChargeType DEF Outcome, TypeOK

LEMMA TypeInit == Init => TypeOK
  <1> SUFFICES ASSUME Init PROVE TypeOK
    OBVIOUS
  <1>1. NoReading \in [Sensors -> SUBSET Sensors]
    BY DEF NoReading
  <1>2. channel \in Relays /\ received \in 0 .. MaxCommands /\ faults \in 0 .. MaxFaults
    BY BusAssumption DEF Init, Relays
  <1> QED
    BY <1>1, <1>2, BusAssumption DEF Init, TypeOK, States, Snapshots

LEMMA AfterRelayState == AfterRelay \in {"idle", "demand", "status"}
  BY DEF AfterRelay, PumpEntry

\* Every step keeps the types.
LEMMA TypeStep == TypeOK /\ [Next]_vars => TypeOK'
  <1> SUFFICES ASSUME TypeOK, [Next]_vars PROVE TypeOK'
    OBVIOUS
  <1> USE DEF shared, control, locals, field, link
  <1>1. CASE Commit
    <2>1. received' \in 0 .. MaxCommands
      BY <1>1, BusAssumption DEF Commit, TypeOK
    <2> QED
      BY <1>1, <2>1 DEF Commit, TypeOK
  <1>2. CASE ResetBoard
    BY <1>2, ChargeType DEF ResetBoard, TypeOK
  <1>3. CASE Receive
    BY <1>3 DEF Receive, Arrive, TypeOK
  <1>4. CASE Wake \/ RelayTick \/ PumpTick
    <2>1. PICK r \in BOOLEAN, p \in BOOLEAN : BeginRun(r, p)
      BY <1>4 DEF Wake, RelayTick, PumpTick, TypeOK
    <2>2. snap' \in Snapshots /\ 1 \in Relays
      BY <2>1, BusAssumption DEF BeginRun, TypeOK, Snapshots, Relays
    <2>3. at' \in States
      BY <2>1 DEF BeginRun, PumpEntry, States
    <2> QED
      BY <2>1, <2>2, <2>3 DEF BeginRun, TypeOK, NoReading
  <1>5. CASE AskCoil
    <2>1. PICK acts \in BOOLEAN, answered \in BOOLEAN :
            /\ Request(Answers(answered, "write", {}), acts /\ answered)
            /\ coils' = IF ~acts THEN coils
                        ELSE IF channel \in snap.relays THEN coils \cup {channel}
                        ELSE coils \ {channel}
      BY <1>5 DEF AskCoil
    <2>2. "write" \in Codes
      BY DEF Codes
    <2> QED
      BY <1>5, <2>1, <2>2, RequestType DEF AskCoil, TypeOK
  <1>6. CASE AskRead
    <2>1. PICK answered \in BOOLEAN :
            /\ Request(Answers(answered, "read", coils), answered)
            /\ resetSince' = (resetSince /\ ~(snap.updateRelays /\ answered))
      BY <1>6 DEF AskRead
    <2>2. "read" \in Codes /\ coils \in SUBSET Relays
      BY DEF Codes, TypeOK
    <2> QED
      BY <1>6, <2>1, <2>2, RequestType DEF AskRead, TypeOK
  <1>7. CASE AskDemand
    <2>1. PICK acts \in BOOLEAN, answered \in BOOLEAN :
            /\ Request(Answers(answered, "demand", {}), answered)
            /\ pump' = IF acts THEN [pump EXCEPT !.demand = snap.speed] ELSE pump
      BY <1>7 DEF AskDemand
    <2>2. pump' \in [demand : Speeds, running : BOOLEAN]
      BY <2>1 DEF TypeOK, Snapshots
    <2>3. /\ \A a \in (inflight \cup input)' : Answered(a)
          /\ faults' \in 0 .. MaxFaults
          /\ waiting' \in BOOLEAN
          /\ UNCHANGED <<shared, at, locals, received>>
      BY <2>1, RequestType DEF Codes
    <2> QED
      BY <1>7, <2>2, <2>3 DEF AskDemand, TypeOK
  <1>8. CASE AskGo
    <2>1. PICK acts \in BOOLEAN, answered \in BOOLEAN :
            /\ Request(Answers(answered, GoCode, {}), answered)
            /\ pump' = IF acts THEN [pump EXCEPT !.running = snap.speed # 0] ELSE pump
      BY <1>8 DEF AskGo
    <2>2. GoCode \in Codes /\ GoCode \notin {"read", "sensor"}
      BY DEF GoCode, Codes
    <2>3. pump' \in [demand : Speeds, running : BOOLEAN]
      BY <2>1 DEF TypeOK
    <2>4. /\ \A a \in (inflight \cup input)' : Answered(a)
          /\ faults' \in 0 .. MaxFaults
          /\ waiting' \in BOOLEAN
          /\ UNCHANGED <<shared, at, locals, received>>
      BY <2>1, <2>2, RequestType
    <2> QED
      BY <1>8, <2>3, <2>4 DEF AskGo, TypeOK
  <1>9. CASE AskStatus
    <2>1. "status" \in Codes
      BY DEF Codes
    <2> QED
      BY <1>9, <2>1, RequestType DEF AskStatus, TypeOK
  <1>10. CASE AskSensor
    <2>1. "sensor" \in Codes /\ {at} \in SUBSET Sensors
      BY <1>10 DEF Codes, AskSensor
    <2>2. PICK answered \in BOOLEAN : Request(Answers(answered, "sensor", {at}), answered)
      BY <1>10 DEF AskSensor
    <2>3. /\ \A a \in (inflight \cup input)' : Answered(a)
          /\ faults' \in 0 .. MaxFaults
          /\ waiting' \in BOOLEAN
          /\ UNCHANGED <<shared, at, locals, received>>
      BY <2>1, <2>2, RequestType
    <2> QED
      BY <1>10, <2>3 DEF AskSensor, TypeOK
  <1>11. CASE CoilOutcome
    <2>1. channel' \in Relays /\ at' \in States
      BY <1>11, BusAssumption, AfterRelayState DEF CoilOutcome, TypeOK, Relays, States
    <2> QED
      BY <1>11, <2>1, OutcomeType DEF CoilOutcome, TypeOK
  <1>12. CASE ReadOutcome
    <2>1. \A a \in Accepted("read") : a.value \in SUBSET Relays
      BY DEF Accepted, TypeOK, Answered
    <2>2. measured' \in SUBSET Relays
      BY <1>12, <2>1 DEF ReadOutcome, TypeOK
    <2>4. channel' \in Relays /\ attempt' \in {1, 2}
      BY <1>12, BusAssumption DEF ReadOutcome, TypeOK, Relays
    <2>3. at' \in States
      BY <1>12, AfterRelayState DEF ReadOutcome, States
    <2> QED
      BY <1>12, <2>2, <2>3, <2>4, OutcomeType DEF ReadOutcome, TypeOK
  <1>13. CASE FinishRelays
    BY <1>13, AfterRelayState DEF FinishRelays, TypeOK, States
  <1>14. CASE DemandOutcome
    BY <1>14, OutcomeType DEF DemandOutcome, TypeOK, States
  <1>15. CASE GoOutcome
    BY <1>15, OutcomeType DEF GoOutcome, TypeOK, States
  <1>16. CASE StatusOutcome
    BY <1>16, OutcomeType DEF StatusOutcome, TypeOK, States, Sensors
  <1>17. CASE SensorOutcome
    <2>1. UNION {a.value : a \in Accepted("sensor")} \in SUBSET Sensors
      BY DEF Accepted, TypeOK, Answered
    <2>2. got' \in [Sensors -> SUBSET Sensors]
      BY <1>17, <2>1 DEF SensorOutcome, TypeOK
    <2>3. at' \in States
      BY <1>17 DEF SensorOutcome, AfterSensor, States, Sensors
    <2> QED
      BY <1>17, <2>2, <2>3, OutcomeType DEF SensorOutcome, TypeOK
  <1>18. CASE FinishPump
    <2>1. reading' \in [Sensors -> SUBSET Sensors]
      BY <1>18 DEF FinishPump, TypeOK
    <2> QED
      BY <1>18, <2>1 DEF FinishPump, TypeOK, States
  <1>19. CASE UNCHANGED vars
    BY <1>19 DEF vars, TypeOK
  <1> QED
    BY <1>1, <1>2, <1>3, <1>4, <1>5, <1>6, <1>7, <1>8, <1>9, <1>10, <1>11, <1>12,
       <1>13, <1>14, <1>15, <1>16, <1>17, <1>18, <1>19 DEF Next, Ask, Hear

\* The variables keep their types, and the answers theirs, however late.
THEOREM TypeCorrect == Spec => []TypeOK
  BY TypeInit, TypeStep, PTL DEF Spec

\* An answer is waited for only at a request.
Waits == waiting => at \notin {"idle", "relayDone", "pumpDone"}

LEMMA WaitsStep == TypeOK /\ Waits /\ [Next]_vars => Waits'
  <1> SUFFICES ASSUME TypeOK, Waits, [Next]_vars PROVE Waits'
    OBVIOUS
  <1> USE DEF shared, control, locals, field, link, Waits
  <1>1. CASE Commit \/ ResetBoard \/ Receive
    BY <1>1 DEF Commit, ResetBoard, Receive
  <1>2. CASE Wake \/ RelayTick \/ PumpTick
    BY <1>2 DEF Wake, RelayTick, PumpTick, BeginRun
  <1>3. CASE Ask
    BY <1>3 DEF Ask, AskCoil, AskRead, AskDemand, AskGo, AskStatus, AskSensor, Request, Sensors
  <1>4. CASE Hear
    BY <1>4 DEF Hear, CoilOutcome, ReadOutcome, FinishRelays, DemandOutcome, GoOutcome,
                StatusOutcome, SensorOutcome, FinishPump, Outcome
  <1>5. CASE UNCHANGED vars
    BY <1>5 DEF vars
  <1> QED
    BY <1>1, <1>2, <1>3, <1>4, <1>5 DEF Next

LEMMA WaitsAlways == Spec => [](TypeOK /\ Waits)
  <1>1. Init => Waits
    BY DEF Init, Waits
  <1> QED
    BY <1>1, WaitsStep, TypeCorrect, PTL DEF Spec

-----------------------------------------------------------------------------
(* Clean relays.                                                           *)

\* A writing run: the flag is raised until its end; reads of earlier runs
\* are as many requests old as it has written; an answer to its own read
\* shows the coils.
RelayInv ==
  /\ CleanRelaysInPlace
  /\ at = "coil" => snap.updateRelays
  /\ at \in {"coil", "read", "relayDone"} /\ snap.updateRelays => updateRelays
  /\ at = "coil" /\ ~waiting =>
       \A a \in inflight : a.fc = "read" => a.age >= channel - 1
  /\ at = "coil" /\ waiting =>
       \A a \in inflight : a.fc = "read" => a.age >= channel
  /\ at = "read" /\ snap.updateRelays /\ ~waiting =>
       \A a \in inflight : a.fc = "read" => a.age >= NumRelays
  /\ at = "read" /\ snap.updateRelays /\ waiting /\ ~resetSince =>
       \A a \in inflight \cup input : a.fc = "read" => a.value = coils
  /\ at = "relayDone" /\ snap.updateRelays /\ ~resetSince => measured = coils

LEMMA RelayStep ==
  ASSUME MaxLate["relay"] =< NumRelays, TypeOK, Waits, RelayInv, [Next]_vars
  PROVE  RelayInv'
  <1> USE DEF shared, control, locals, field, link, RelayInv, CleanRelaysInPlace
  <1>0. /\ channel \in 1 .. NumRelays /\ NumRelays \in Nat
        /\ \A a \in inflight \cup input : a.age \in Nat
    BY BusAssumption DEF TypeOK, Relays, Answered
  <1>a. AfterRelay \notin {"coil", "read", "relayDone"}
    BY AfterRelayState
  <1>1. CASE Commit
    BY <1>1 DEF Commit
  <1>2. CASE ResetBoard
    BY <1>2 DEF ResetBoard
  <1>3. CASE Receive
    BY <1>3 DEF Receive, Arrive
  <1>4. CASE Wake \/ RelayTick \/ PumpTick
    <2>1. PICK r \in BOOLEAN, p \in BOOLEAN : BeginRun(r, p)
      BY <1>4 DEF Wake, RelayTick, PumpTick, TypeOK
    <2>2. /\ channel' = 1 /\ UNCHANGED <<inflight, input, updateRelays, resetSince, coils, relays>>
          /\ at' = "coil" => updateRelays /\ snap'.updateRelays
          /\ at' = "read" => ~snap'.updateRelays
          /\ at' # "relayDone" /\ ~waiting'
      BY <2>1 DEF BeginRun, PumpEntry, Waits, TypeOK, Snapshots
    <2>3. \A a \in inflight : a.age >= channel' - 1
      BY <1>0, <2>2
    <2> QED
      BY <2>2, <2>3
  <1>5. CASE AskCoil
    <2>1. PICK acts \in BOOLEAN, answered \in BOOLEAN :
            Request(Answers(answered, "write", {}), acts /\ answered)
      BY <1>5 DEF AskCoil
    <2>2. /\ at = "coil" /\ ~waiting /\ waiting'
          /\ UNCHANGED <<shared, at, locals, resetSince>>
      BY <1>5, <2>1 DEF AskCoil, Request
    <2>3. ASSUME NEW b \in inflight', b.fc = "read" PROVE b.age >= channel
      <3>1. b \notin Answers(answered, "write", {})
        BY <2>3, AnswersShape
      <3>2. PICK a \in inflight : b.fc = a.fc /\ b.age = a.age + 1
        BY <2>1, <3>1, TransmitShape DEF Request
      <3> QED
        BY <1>0, <2>2, <2>3, <3>2
    <2> QED
      BY <2>2, <2>3
  <1>6. CASE AskRead
    <2>1. PICK answered \in BOOLEAN :
            /\ Request(Answers(answered, "read", coils), answered)
            /\ resetSince' = (resetSince /\ ~(snap.updateRelays /\ answered))
      BY <1>6 DEF AskRead
    <2>2. /\ at = "read" /\ ~waiting /\ waiting' /\ input' = {}
          /\ UNCHANGED <<shared, at, locals, coils>>
      BY <1>6, <2>1, TransmitShape DEF AskRead, Request
    <2>3. ASSUME snap.updateRelays, NEW b \in inflight', b.fc = "read"
          PROVE  b.value = coils
      <3>1. CASE b \in Answers(answered, "read", coils)
        BY <3>1, AnswersShape
      <3>2. CASE b \notin Answers(answered, "read", coils)
        <4>1. PICK a \in inflight : b.fc = a.fc /\ a.age < MaxLate[Device(a.fc)]
          BY <2>1, <3>2, TransmitShape DEF Request
        <4>2. a.age < MaxLate["relay"] /\ a.age >= NumRelays
          BY <2>2, <2>3, <4>1 DEF Device
        <4>3. MaxLate["relay"] \in Nat
          BY MaxLateAssumption
        <4> QED
          BY <1>0, <4>2, <4>3
      <3> QED
        BY <3>1, <3>2
    <2>4. CleanRelaysInPlace'
      <3>1. resetSince' = resetSince \/ snap.updateRelays
        BY <2>1 DEF TypeOK
      <3> QED
        BY <2>2, <3>1
    <2> QED
      BY <2>2, <2>3, <2>4
  <1>7. CASE AskDemand \/ AskGo \/ AskStatus \/ AskSensor
    <2>1. /\ at \notin {"coil", "read", "relayDone"}
          /\ UNCHANGED <<at, updateRelays, relays, coils, resetSince>>
      BY <1>7 DEF AskDemand, AskGo, AskStatus, AskSensor, Request, Sensors
    <2> QED
      BY <2>1
  <1>8. CASE CoilOutcome
    <2>1. /\ at = "coil" /\ waiting /\ ~waiting'
          /\ UNCHANGED <<inflight, updateRelays, relays, coils, resetSince, snap>>
      BY <1>8 DEF CoilOutcome, Outcome
    <2>2. \/ at' = AfterRelay
          \/ at' = "coil" /\ channel' = channel + 1
          \/ at' = "read" /\ channel = NumRelays
      BY <1>0, <1>8 DEF CoilOutcome
    <2>3. \A a \in inflight : a.fc = "read" => a.age >= channel
      BY <2>1
    <2>4. CASE at' = AfterRelay
      BY <1>a, <2>1, <2>4
    <2>5. CASE at' = "coil" /\ channel' = channel + 1
      BY <1>0, <2>1, <2>3, <2>5
    <2>6. CASE at' = "read" /\ channel = NumRelays
      BY <1>0, <2>1, <2>3, <2>6
    <2> QED
      BY <2>2, <2>4, <2>5, <2>6
  <1>9. CASE ReadOutcome
    <2>1. /\ at = "read" /\ waiting /\ ~waiting'
          /\ UNCHANGED <<inflight, updateRelays, relays, coils, resetSince, snap>>
      BY <1>9 DEF ReadOutcome, Outcome
    <2>2. CASE Accepted("read") = {}
      <3>1. at' = AfterRelay
        BY <1>9, <2>2 DEF ReadOutcome
      <3> QED
        BY <1>a, <2>1, <3>1
    <2>3. CASE Accepted("read") # {}
      <3>1. PICK a \in Accepted("read") :
              /\ measured' = a.value
              /\ IF snap.updateRelays /\ a.value # snap.relays /\ attempt = 1
                 THEN at' = "coil" /\ channel' = 1 /\ attempt' = 2
                 ELSE at' = "relayDone" /\ UNCHANGED <<channel, attempt>>
        BY <1>9, <2>3 DEF ReadOutcome
      <3>2. a \in input /\ a.fc = "read"
        BY DEF Accepted
      <3>3. snap.updateRelays /\ ~resetSince => measured' = coils
        BY <2>1, <3>1, <3>2
      <3>4. CASE at' = "coil" /\ channel' = 1 /\ snap.updateRelays
        BY <1>0, <2>1, <3>4
      <3>5. CASE at' = "relayDone"
        BY <2>1, <3>3, <3>5
      <3> QED
        BY <3>1, <3>4, <3>5
    <2> QED
      BY <2>2, <2>3
  <1>10. CASE FinishRelays
    <2>1. at' \notin {"coil", "read", "relayDone"}
      BY <1>10, <1>a DEF FinishRelays
    <2>2. CleanRelaysInPlace'
      BY <1>10 DEF FinishRelays
    <2> QED
      BY <2>1, <2>2
  <1>11. CASE DemandOutcome \/ GoOutcome \/ StatusOutcome \/ SensorOutcome \/ FinishPump
    <2>1. /\ at' \notin {"coil", "read", "relayDone"}
          /\ UNCHANGED <<updateRelays, relays, coils, resetSince>>
      BY <1>11 DEF DemandOutcome, GoOutcome, StatusOutcome, SensorOutcome, FinishPump,
                   AfterSensor, Sensors
    <2> QED
      BY <2>1
  <1>12. CASE UNCHANGED vars
    BY <1>12 DEF vars
  <1> QED
    BY <1>1, <1>2, <1>3, <1>4, <1>5, <1>6, <1>7, <1>8, <1>9, <1>10, <1>11, <1>12
       DEF Next, Ask, Hear

\* As long as no answer of the board comes later than the writes of one run
\* take, a clear update_relays means coils as commanded: any read that a
\* writing run accepts is its own.
THEOREM CleanRelaysLate ==
  ASSUME MaxLate["relay"] =< NumRelays
  PROVE  Spec => []CleanRelaysInPlace
  <1>1. Init => RelayInv
    BY DEF Init, RelayInv, CleanRelaysInPlace
  <1>2. TypeOK /\ Waits /\ RelayInv /\ [Next]_vars => RelayInv'
    BY RelayStep
  <1>3. RelayInv => CleanRelaysInPlace
    BY DEF RelayInv
  <1> QED
    BY <1>1, <1>2, <1>3, WaitsAlways, PTL DEF Spec

-----------------------------------------------------------------------------
(* The relays shown.                                                       *)

\* In a clean state, and at the end of the run that brings it about, every
\* mask still on its way is that of the coils.
FeedbackInv ==
  /\ CleanFeedbackTrue
  /\ ~updateRelays /\ ~resetSince =>
       /\ \A a \in inflight \cup input : a.fc = "read" => a.value = coils
       /\ at = "relayDone" => measured = coils
  /\ at = "relayDone" /\ snap.updateRelays /\ ~resetSince =>
       \A a \in inflight \cup input : a.fc = "read" => a.value = coils

\* A request leaves the masks on their way as they are, or adds the coils'.
LEMMA MasksAsked ==
  ASSUME NEW answered, NEW fc, NEW value, NEW ok, Request(Answers(answered, fc, value), ok),
         fc = "read" => value = coils,
         \A a \in inflight \cup input : a.fc = "read" => a.value = coils
  PROVE  \A b \in inflight' \cup input' : b.fc = "read" => b.value = coils
  <1>1. input' = {}
    BY TransmitShape DEF Request
  <1>2. ASSUME NEW b \in inflight', b.fc = "read" PROVE b.value = coils
    <2>1. CASE b \in Answers(answered, fc, value)
      BY <1>2, <2>1, AnswersShape
    <2>2. CASE b \notin Answers(answered, fc, value)
      <3>1. PICK a \in inflight : b.fc = a.fc /\ b.value = a.value
        BY <2>2, TransmitShape DEF Request
      <3> QED
        BY <1>2, <3>1
    <2> QED
      BY <2>1, <2>2
  <1> QED
    BY <1>1, <1>2

LEMMA FeedbackStep ==
  ASSUME TypeOK, Waits, RelayInv, FeedbackInv, [Next]_vars
  PROVE  FeedbackInv'
  <1> USE DEF shared, control, locals, field, link, FeedbackInv, CleanFeedbackTrue
  <1>0. updateRelays \in BOOLEAN /\ snap.updateRelays \in BOOLEAN
    BY DEF TypeOK, Snapshots
  <1>a. AfterRelay \notin {"coil", "read", "relayDone"}
    BY AfterRelayState
  <1>b. at \in {"coil", "read", "relayDone"} /\ snap.updateRelays => updateRelays
    BY DEF RelayInv
  <1>1. CASE Commit
    BY <1>1 DEF Commit
  <1>2. CASE ResetBoard
    BY <1>2 DEF ResetBoard
  <1>3. CASE Receive
    BY <1>3 DEF Receive, Arrive
  <1>4. CASE Wake \/ RelayTick \/ PumpTick
    <2>1. PICK r \in BOOLEAN, p \in BOOLEAN : BeginRun(r, p)
      BY <1>4 DEF Wake, RelayTick, PumpTick, TypeOK
    <2>2. /\ UNCHANGED <<inflight, input, updateRelays, resetSince, coils, relayStatus>>
          /\ at' # "relayDone"
      BY <2>1 DEF BeginRun, PumpEntry
    <2> QED
      BY <2>2
  <1>5. CASE AskCoil
    <2>1. at = "coil" /\ UNCHANGED <<at, updateRelays>>
      BY <1>5 DEF AskCoil, Request
    <2>2. updateRelays /\ updateRelays'
      BY <1>b, <2>1 DEF RelayInv
    <2> QED
      BY <2>1, <2>2
  <1>6. CASE AskRead
    <2>1. PICK answered \in BOOLEAN :
            /\ Request(Answers(answered, "read", coils), answered)
            /\ resetSince' = (resetSince /\ ~(snap.updateRelays /\ answered))
      BY <1>6 DEF AskRead
    <2>2. at = "read" /\ UNCHANGED <<at, snap, updateRelays, relayStatus, coils>>
      BY <1>6, <2>1 DEF AskRead, Request
    <2>3. ASSUME ~updateRelays, ~resetSince'
          PROVE  ~resetSince /\ \A b \in inflight' \cup input' : b.fc = "read" => b.value = coils
      <3>1. ~snap.updateRelays
        BY <1>b, <2>2, <2>3
      <3>2. ~resetSince
        BY <2>1, <2>3, <3>1 DEF TypeOK
      <3>3. \A a \in inflight \cup input : a.fc = "read" => a.value = coils
        BY <2>3, <3>2
      <3> QED
        BY <2>1, <3>2, <3>3, MasksAsked
    <2> QED
      BY <2>2, <2>3
  <1>7. CASE AskDemand \/ AskGo \/ AskStatus \/ AskSensor
    <2>1. ASSUME NEW answered, NEW fc, NEW value, NEW ok,
                 Request(Answers(answered, fc, value), ok), fc # "read",
                 \A a \in inflight \cup input : a.fc = "read" => a.value = coils
          PROVE  \A b \in inflight' \cup input' : b.fc = "read" => b.value = coils
      BY <2>1, MasksAsked
    <2>2. /\ at \notin {"coil", "read", "relayDone"}
          /\ UNCHANGED <<at, updateRelays, relayStatus, coils, resetSince>>
      BY <1>7 DEF AskDemand, AskGo, AskStatus, AskSensor, Request, Sensors
    <2>3. ASSUME \A a \in inflight \cup input : a.fc = "read" => a.value = coils
          PROVE  \A b \in inflight' \cup input' : b.fc = "read" => b.value = coils
      <3>1. CASE AskDemand
        <4>1. PICK answered : Request(Answers(answered, "demand", {}), answered)
          BY <3>1 DEF AskDemand
        <4> QED
          BY <2>1, <2>3, <4>1
      <3>2. CASE AskGo
        <4>1. PICK answered : Request(Answers(answered, GoCode, {}), answered)
          BY <3>2 DEF AskGo
        <4>2. GoCode # "read"
          BY DEF GoCode
        <4> QED
          BY <2>1, <2>3, <4>1, <4>2
      <3>3. CASE AskStatus
        <4>1. PICK answered :
                Request(Answers(answered, "status", IF pump.running THEN {"running"} ELSE {}),
                        answered)
          BY <3>3 DEF AskStatus
        <4> QED
          BY <2>1, <2>3, <4>1
      <3>4. CASE AskSensor
        <4>1. PICK answered : Request(Answers(answered, "sensor", {at}), answered)
          BY <3>4 DEF AskSensor
        <4> QED
          BY <2>1, <2>3, <4>1
      <3> QED
        BY <1>7, <3>1, <3>2, <3>3, <3>4
    <2> QED
      BY <2>2, <2>3
  <1>8. CASE CoilOutcome \/ DemandOutcome \/ GoOutcome \/ StatusOutcome \/ SensorOutcome
             \/ FinishPump
    <2>1. /\ UNCHANGED <<updateRelays, relayStatus, coils, resetSince>>
          /\ inflight' \cup input' \subseteq inflight \cup input
      BY <1>8 DEF CoilOutcome, DemandOutcome, GoOutcome, StatusOutcome, SensorOutcome,
                  FinishPump, Outcome
    <2>2. at' # "relayDone"
      BY <1>8, <1>a DEF CoilOutcome, DemandOutcome, GoOutcome, StatusOutcome, SensorOutcome,
                        FinishPump, AfterSensor, Sensors
    <2> QED
      BY <2>1, <2>2
  <1>9. CASE ReadOutcome
    <2>1. /\ at = "read" /\ waiting /\ input' = {}
          /\ UNCHANGED <<inflight, snap, updateRelays, relayStatus, coils, resetSince>>
      BY <1>9 DEF ReadOutcome, Outcome
    <2>2. snap.updateRelays /\ ~resetSince =>
            \A a \in inflight \cup input : a.fc = "read" => a.value = coils
      BY <2>1 DEF RelayInv
    <2>3. ASSUME ~updateRelays, ~resetSince, at' = "relayDone" PROVE measured' = coils
      <3>1. PICK a \in Accepted("read") : measured' = a.value
        BY <1>9, <1>a, <2>3 DEF ReadOutcome
      <3>2. a \in input /\ a.fc = "read"
        BY DEF Accepted
      <3> QED
        BY <2>3, <3>1, <3>2
    <2> QED
      BY <2>1, <2>2, <2>3
  <1>10. CASE FinishRelays
    <2>1. /\ at = "relayDone" /\ at' # "relayDone" /\ relayStatus' = {measured}
          /\ updateRelays' = (updateRelays /\ ~ /\ snap.updateRelays
                                                /\ relays = snap.relays
                                                /\ measured = snap.relays)
          /\ UNCHANGED <<inflight, input, coils, resetSince>>
      BY <1>10, <1>a DEF FinishRelays
    <2>2. ASSUME ~updateRelays', ~resetSince
          PROVE  /\ measured = coils
                 /\ \A a \in inflight \cup input : a.fc = "read" => a.value = coils
      <3>1. CASE ~updateRelays
        BY <2>1, <2>2, <3>1
      <3>2. CASE updateRelays
        <4>1. snap.updateRelays
          BY <2>1, <2>2, <3>2
        <4> QED
          BY <2>1, <2>2, <4>1 DEF RelayInv
      <3> QED
        BY <3>1, <3>2
    <2> QED
      BY <2>1, <2>2
  <1>11. CASE UNCHANGED vars
    BY <1>11 DEF vars
  <1> QED
    BY <1>1, <1>2, <1>3, <1>4, <1>5, <1>6, <1>7, <1>8, <1>9, <1>10, <1>11 DEF Next, Ask, Hear

\* Under the same bound the relays shown by a clean state are those of the
\* board, whichever poll read them: no mask of an earlier run is left on its
\* way when the flag goes clear, and none but the coils' is read until it is
\* raised.
THEOREM CleanFeedbackLate ==
  ASSUME MaxLate["relay"] =< NumRelays
  PROVE  Spec => []CleanFeedbackTrue
  <1>1. Init => RelayInv /\ FeedbackInv
    BY DEF Init, RelayInv, FeedbackInv, CleanRelaysInPlace, CleanFeedbackTrue
  <1>2. TypeOK /\ Waits /\ RelayInv /\ FeedbackInv /\ [Next]_vars => RelayInv' /\ FeedbackInv'
    BY RelayStep, FeedbackStep
  <1>3. FeedbackInv => CleanFeedbackTrue
    BY DEF FeedbackInv
  <1> QED
    BY <1>1, <1>2, <1>3, WaitsAlways, PTL DEF Spec

-----------------------------------------------------------------------------
(* Clean pumps.                                                            *)

\* With a pump never more than one request late, an answer on its way after
\* a request is its own, or was on its way and becomes one request older.
LEMMA PumpRequest ==
  ASSUME TypeOK, MaxLate["pump"] =< 1, NEW answered, NEW fc, NEW value, NEW ok,
         Request(Answers(answered, fc, value), ok)
  PROVE  /\ waiting' /\ ~waiting /\ input' = {}
         /\ UNCHANGED <<relays, speed, updateRelays, updatePump, reading, at, snap, acked,
                        stopDue, got>>
         /\ \A b \in inflight' :
              \/ answered /\ b.fc = fc /\ b.value = value /\ b.age = 0
              \/ \E a \in inflight : /\ b.fc = a.fc /\ b.value = a.value /\ b.age # 0
                                     /\ Device(a.fc) = "pump" => a.age = 0
  <1>1. ASSUME NEW b \in inflight', b \notin Answers(answered, fc, value)
        PROVE  \E a \in inflight : /\ b.fc = a.fc /\ b.value = a.value /\ b.age # 0
                                   /\ Device(a.fc) = "pump" => a.age = 0
    <2>1. PICK a \in inflight :
            /\ b.fc = a.fc /\ b.value = a.value /\ b.age = a.age + 1
            /\ a.age < MaxLate[Device(a.fc)]
      BY <1>1, TransmitShape DEF Request
    <2>2. a.age \in Nat
      BY DEF TypeOK, Answered
    <2>3. MaxLate["pump"] \in Nat
      BY MaxLateAssumption
    <2>4. Device(a.fc) = "pump" => a.age = 0
      BY <2>1, <2>2, <2>3
    <2> QED
      BY <2>1, <2>2, <2>4
  <1>2. \A b \in Answers(answered, fc, value) :
          answered /\ b.fc = fc /\ b.value = value /\ b.age = 0
    BY AnswersShape
  <1>3. waiting' /\ ~waiting /\ input' = {}
    BY TransmitShape DEF Request
  <1> QED
    BY <1>1, <1>2, <1>3 DEF Request, shared, locals

\* A pump run: a half is in place once something is acknowledged, and nothing
\* that acknowledges the request of now is older than it.
DemandOnItsWay == (at = "demand" /\ waiting) \/ (at = "go" /\ ~waiting)

PumpInv ==
  /\ CleanPumpHalfInPlace
  /\ at # "idle" => snap.speed = speed \/ updatePump
  /\ at \in {"coil", "read", "relayDone", "demand"} => ~acked
  /\ at \in {"status"} \cup Sensors /\ ~Drives(snap) => ~acked
  /\ at \in Sensors /\ stopDue => ~Drives(snap)
  /\ at \in {"go", "status", "pumpDone"} \cup Sensors /\ acked =>
       pump.demand = snap.speed \/ pump.running = (snap.speed # 0)
  /\ ~DemandOnItsWay => \A a \in inflight : a.fc = "demand" => a.age # 0
  /\ DemandOnItsWay => \A a \in inflight : a.age = 0 => a.fc = "demand"
  /\ at = "demand" /\ waiting =>
       \A a \in inflight \cup input : a.fc = "demand" => pump.demand = snap.speed
  /\ at = "go" /\ waiting =>
       \A a \in inflight \cup input : a.fc = GoCode => pump.running = (snap.speed # 0)

LEMMA PumpStep ==
  ASSUME MaxLate["pump"] =< 1, TypeOK, Waits, PumpInv, [Next]_vars
  PROVE  PumpInv'
  <1> USE DEF shared, control, locals, field, link, PumpInv, CleanPumpHalfInPlace,
              DemandOnItsWay, Drives
  <1>0. /\ \A a \in inflight \cup input : a.age \in Nat
        /\ acked \in BOOLEAN /\ waiting \in BOOLEAN /\ updatePump \in BOOLEAN
        /\ pump \in [demand : Speeds, running : BOOLEAN]
        /\ snap.updatePump \in BOOLEAN /\ stopDue \in BOOLEAN
    BY DEF TypeOK, Answered, Snapshots
  <1>a. AfterRelay \in {"idle", "demand", "status"} /\ (AfterRelay = "status" => ~Drives(snap))
    BY DEF AfterRelay, PumpEntry
  <1>1. CASE Commit
    BY <1>1 DEF Commit, Sensors, GoCode
  <1>2. CASE ResetBoard
    BY <1>2 DEF ResetBoard, Sensors, GoCode
  <1>3. CASE Receive
    <2>1. /\ inflight' \subseteq inflight /\ input' \subseteq input \cup inflight
          /\ UNCHANGED <<shared, control, locals, field>>
      BY <1>3 DEF Receive, Arrive
    <2> QED
      BY <2>1 DEF Sensors, GoCode
  <1>4. CASE Wake \/ RelayTick \/ PumpTick
    <2>1. PICK r \in BOOLEAN, p \in BOOLEAN : BeginRun(r, p)
      BY <1>4 DEF Wake, RelayTick, PumpTick, TypeOK
    <2>2. /\ snap'.speed = speed /\ ~acked' /\ ~stopDue'
          /\ UNCHANGED <<inflight, input, updatePump, speed, pump>>
          /\ at = "idle" /\ at' \in {"coil", "read", "demand", "status"}
          /\ ~waiting /\ ~waiting'
      BY <2>1 DEF BeginRun, PumpEntry, Waits
    <2> QED
      BY <2>2 DEF Sensors
  <1>5. CASE AskCoil
    <2>1. PICK acts \in BOOLEAN, answered \in BOOLEAN :
            Request(Answers(answered, "write", {}), acts /\ answered)
      BY <1>5 DEF AskCoil
    <2>2. at = "coil" /\ UNCHANGED pump
      BY <1>5 DEF AskCoil
    <2>3. \A b \in inflight' : b.fc = "demand" => b.age # 0
      BY <2>1, PumpRequest
    <2>4. waiting' /\ ~waiting
          /\ UNCHANGED <<speed, updatePump, at, snap, acked, stopDue>>
      BY <2>1, PumpRequest
    <2> QED
      BY <2>2, <2>3, <2>4 DEF Sensors
  <1>6. CASE AskRead
    <2>1. PICK answered \in BOOLEAN : Request(Answers(answered, "read", coils), answered)
      BY <1>6 DEF AskRead
    <2>2. at = "read" /\ UNCHANGED pump
      BY <1>6 DEF AskRead
    <2>3. \A b \in inflight' : b.fc = "demand" => b.age # 0
      BY <2>1, PumpRequest
    <2>4. waiting' /\ ~waiting
          /\ UNCHANGED <<speed, updatePump, at, snap, acked, stopDue>>
      BY <2>1, PumpRequest
    <2> QED
      BY <2>2, <2>3, <2>4 DEF Sensors
  <1>7. CASE AskDemand
    <2>1. PICK acts \in BOOLEAN, answered \in BOOLEAN :
            /\ answered => acts
            /\ Request(Answers(answered, "demand", {}), answered)
            /\ pump' = IF acts THEN [pump EXCEPT !.demand = snap.speed] ELSE pump
      BY <1>7 DEF AskDemand
    <2>2. /\ waiting' /\ ~waiting /\ input' = {} /\ at = "demand"
          /\ UNCHANGED <<speed, updatePump, at, snap, acked, stopDue>>
      BY <1>7, <2>1, PumpRequest DEF AskDemand
    <2>3. pump'.demand = snap.speed \/ pump' = pump
      BY <1>0, <2>1
    <2>4. pump'.running = pump.running
      BY <1>0, <2>1
    <2>5. ASSUME NEW b \in inflight'
          PROVE  /\ b.age = 0 => b.fc = "demand"
                 /\ b.fc = "demand" => pump'.demand = snap.speed
      <3>1. CASE answered /\ b.fc = "demand" /\ b.age = 0
        BY <1>0, <2>1, <3>1
      <3>2. CASE \E a \in inflight : /\ b.fc = a.fc /\ b.value = a.value /\ b.age # 0
                                     /\ Device(a.fc) = "pump" => a.age = 0
        BY <2>2, <3>2 DEF Device
      <3> QED
        BY <2>1, <3>1, <3>2, PumpRequest
    <2>6. CleanPumpHalfInPlace'
      BY <2>2, <2>3, <2>4
    <2> QED
      BY <2>2, <2>5, <2>6 DEF Sensors
  <1>8. CASE AskGo
    <2>1. PICK acts \in BOOLEAN, answered \in BOOLEAN :
            /\ answered => acts
            /\ Request(Answers(answered, GoCode, {}), answered)
            /\ pump' = IF acts THEN [pump EXCEPT !.running = snap.speed # 0] ELSE pump
      BY <1>8 DEF AskGo
    <2>2. /\ waiting' /\ ~waiting /\ input' = {} /\ at = "go"
          /\ UNCHANGED <<speed, updatePump, at, snap, acked, stopDue>>
      BY <1>8, <2>1, PumpRequest DEF AskGo
    <2>3. pump'.running = (snap.speed # 0) \/ pump' = pump
      BY <1>0, <2>1
    <2>4. pump'.demand = pump.demand
      BY <1>0, <2>1
    <2>5. GoCode' = GoCode /\ GoCode \in {"go", "stop"}
      BY <2>2 DEF GoCode
    <2>6. ASSUME NEW b \in inflight'
          PROVE  /\ b.fc = "demand" => b.age # 0
                 /\ b.fc = GoCode => pump'.running = (snap.speed # 0)
      <3>1. CASE answered /\ b.fc = GoCode /\ b.age = 0
        BY <1>0, <2>1, <2>5, <3>1
      <3>2. CASE \E a \in inflight : /\ b.fc = a.fc /\ b.value = a.value /\ b.age # 0
                                     /\ Device(a.fc) = "pump" => a.age = 0
        BY <2>2, <2>5, <3>2 DEF Device
      <3> QED
        BY <2>1, <3>1, <3>2, PumpRequest
    <2>7. CleanPumpHalfInPlace'
      BY <2>2, <2>3, <2>4
    <2>8. acked => pump'.demand = snap.speed \/ pump'.running = (snap.speed # 0)
      BY <2>2, <2>3, <2>4
    <2> QED
      BY <2>2, <2>5, <2>6, <2>7, <2>8 DEF Sensors
  <1>9. CASE AskStatus \/ AskSensor
    <2>1. PICK answered \in BOOLEAN, fc \in {"status", "sensor"},
               value \in SUBSET (Sensors \cup {"running"}) :
            Request(Answers(answered, fc, value), answered)
      BY <1>9 DEF AskStatus, AskSensor, Sensors
    <2>2. at \in {"status"} \cup Sensors /\ UNCHANGED pump
      BY <1>9 DEF AskStatus, AskSensor
    <2>3. \A b \in inflight' : b.fc = "demand" => b.age # 0
      BY <2>1, PumpRequest
    <2>4. waiting' /\ ~waiting
          /\ UNCHANGED <<speed, updatePump, at, snap, acked, stopDue>>
      BY <2>1, PumpRequest
    <2> QED
      BY <2>2, <2>3, <2>4 DEF Sensors
  <1>10. CASE CoilOutcome \/ ReadOutcome
    <2>1. /\ at \in {"coil", "read"} /\ waiting /\ ~waiting'
          /\ at' \in {"coil", "read", "relayDone", "idle", "demand", "status"}
          /\ at' = "status" => ~Drives(snap)
          /\ UNCHANGED <<inflight, speed, updatePump, snap, acked, stopDue, pump>>
      BY <1>10, <1>a DEF CoilOutcome, ReadOutcome, Outcome
    <2> QED
      BY <2>1 DEF Sensors
  <1>11. CASE FinishRelays
    <2>1. /\ at = "relayDone" /\ ~waiting' /\ at' \in {"idle", "demand", "status"}
          /\ at' = "status" => ~Drives(snap)
          /\ UNCHANGED <<inflight, speed, updatePump, snap, acked, stopDue, pump>>
      BY <1>11, <1>a DEF FinishRelays, Waits
    <2> QED
      BY <2>1 DEF Sensors
  <1>12. CASE DemandOutcome
    <2>1. /\ at = "demand" /\ waiting /\ ~waiting' /\ at' = "go"
          /\ UNCHANGED <<inflight, speed, updatePump, snap, stopDue, pump>>
          /\ acked' = (acked \/ Accepted("demand") # {})
      BY <1>12 DEF DemandOutcome, Outcome
    <2>2. Accepted("demand") # {} => pump.demand = snap.speed
      BY <2>1 DEF Accepted
    <2>3. acked' => pump.demand = snap.speed
      BY <2>1, <2>2
    <2> QED
      BY <2>1, <2>3 DEF Sensors
  <1>13. CASE GoOutcome
    <2>1. /\ at = "go" /\ waiting /\ ~waiting'
          /\ at' = IF Drives(snap) THEN "status" ELSE "pumpDone"
          /\ UNCHANGED <<inflight, speed, updatePump, snap, stopDue, pump>>
          /\ acked' = (acked \/ Accepted(GoCode) # {})
      BY <1>13 DEF GoOutcome, Outcome
    <2>2. Accepted(GoCode) # {} => pump.running = (snap.speed # 0)
      BY <2>1 DEF Accepted
    <2>3. acked' => pump.demand = snap.speed \/ pump.running = (snap.speed # 0)
      BY <2>1, <2>2
    <2> QED
      BY <2>1, <2>3 DEF Sensors
  <1>14. CASE StatusOutcome
    <2>1. /\ at = "status" /\ waiting /\ ~waiting' /\ at' = "watt"
          /\ stopDue' => ~Drives(snap)
          /\ UNCHANGED <<inflight, speed, updatePump, snap, acked, pump>>
      BY <1>14 DEF StatusOutcome, Outcome
    <2> QED
      BY <2>1 DEF Sensors
  <1>15. CASE SensorOutcome
    <2>1. /\ at \in Sensors /\ waiting /\ ~waiting'
          /\ at' \in {"rpm", "air", "pumpDone", "demand"}
          /\ at' = "demand" => stopDue
          /\ UNCHANGED <<inflight, speed, updatePump, snap, acked, stopDue, pump>>
      BY <1>15 DEF SensorOutcome, Outcome, AfterSensor, Sensors
    <2> QED
      BY <2>1 DEF Sensors
  <1>16. CASE FinishPump
    <2>1. /\ at = "pumpDone" /\ at' = "idle" /\ ~waiting /\ ~waiting'
          /\ UNCHANGED <<inflight, speed, snap, acked, stopDue, pump>>
          /\ updatePump' = (updatePump /\ ~(snap.updatePump /\ acked /\ speed = snap.speed))
      BY <1>16 DEF FinishPump, Waits
    <2>2. CleanPumpHalfInPlace'
      BY <2>1
    <2> QED
      BY <2>1, <2>2 DEF Sensors
  <1>17. CASE UNCHANGED vars
    BY <1>17 DEF vars, Sensors, GoCode
  <1> QED
    BY <1>1, <1>2, <1>3, <1>4, <1>5, <1>6, <1>7, <1>8, <1>9, <1>10, <1>11, <1>12,
       <1>13, <1>14, <1>15, <1>16, <1>17 DEF Next, Ask, Hear

\* As long as the pump is not later than one request, a clear update_pump
\* means that one half of the commanded speed was taken, though SET_DEMAND is
\* overtaken, GO refused, and only one acknowledgement of the two looked for.
THEOREM CleanPumpLate ==
  ASSUME MaxLate["pump"] =< 1
  PROVE  Spec => []CleanPumpHalfInPlace
  <1>1. Init => PumpInv
    BY DEF Init, PumpInv, CleanPumpHalfInPlace, DemandOnItsWay, Sensors
  <1>2. TypeOK /\ Waits /\ PumpInv /\ [Next]_vars => PumpInv'
    BY PumpStep
  <1>3. PumpInv => CleanPumpHalfInPlace
    BY DEF PumpInv
  <1> QED
    BY <1>1, <1>2, <1>3, WaitsAlways, PTL DEF Spec

-----------------------------------------------------------------------------
(* Readings.                                                               *)

\* What a read of each sensor may be answered with.
Behind == [s \in Sensors |-> CASE s = "watt" -> {"watt"}
                               [] s = "rpm"  -> {"rpm", "watt"}
                               [] s = "air"  -> {"air", "rpm"}]
Before == [s \in {"rpm", "air"} |-> IF s = "rpm" THEN "watt" ELSE "rpm"]

\* The status request comes between the sensors of two runs; the answer on
\* its way when the next sensor is asked is the one of the sensor before.
ReadingInv ==
  /\ \A s \in Sensors : reading[s] \subseteq Behind[s] /\ got[s] \subseteq Behind[s]
  /\ at = "status" /\ waiting =>
       \A a \in inflight : a.fc = "sensor" => a.age # 0
  /\ at = "watt" /\ ~waiting =>
       \A a \in inflight : a.fc = "sensor" => a.age # 0
  /\ at \in {"rpm", "air"} /\ ~waiting =>
       \A a \in inflight : a.fc = "sensor" /\ a.age = 0 => a.value = {Before[at]}
  /\ at \in Sensors /\ waiting =>
       /\ \A a \in inflight : a.fc = "sensor" /\ a.age = 0 => a.value = {at}
       /\ \A a \in inflight \cup input : a.fc = "sensor" => a.value \subseteq Behind[at]

\* A value that leaves the input is one of the values in it.
LEMMA AcceptedWithin ==
  ASSUME NEW S, \A a \in input : a.fc = "sensor" => a.value \subseteq S
  PROVE  UNION {a.value : a \in Accepted("sensor")} \subseteq S
  BY DEF Accepted

LEMMA ReadingStep ==
  ASSUME MaxLate["pump"] =< 1, TypeOK, Waits, ReadingInv, [Next]_vars
  PROVE  ReadingInv'
  <1> USE DEF shared, control, locals, field, link, ReadingInv
  <1>0. /\ \A a \in inflight \cup input : a.age \in Nat
        /\ waiting \in BOOLEAN /\ got \in [Sensors -> SUBSET Sensors]
        /\ reading \in [Sensors -> SUBSET Sensors]
    BY DEF TypeOK, Answered
  <1>a. AfterRelay \in {"idle", "demand", "status"}
    BY AfterRelayState
  <1>1. CASE Commit \/ ResetBoard
    <2>1. UNCHANGED <<inflight, input, at, waiting, reading, got>>
      BY <1>1 DEF Commit, ResetBoard
    <2> QED
      BY <2>1 DEF Sensors
  <1>2. CASE Receive
    <2>1. /\ inflight' \subseteq inflight /\ input' \subseteq input \cup inflight
          /\ UNCHANGED <<at, waiting, reading, got>>
      BY <1>2 DEF Receive, Arrive
    <2> QED
      BY <2>1 DEF Sensors
  <1>3. CASE Wake \/ RelayTick \/ PumpTick
    <2>1. PICK r \in BOOLEAN, p \in BOOLEAN : BeginRun(r, p)
      BY <1>3 DEF Wake, RelayTick, PumpTick, TypeOK
    <2>2. /\ got' = NoReading /\ UNCHANGED <<inflight, input, reading>>
          /\ at' \notin Sensors /\ ~waiting'
      BY <2>1 DEF BeginRun, PumpEntry, Waits, Sensors
    <2>3. \A s \in Sensors : got'[s] = {}
      BY <2>2 DEF NoReading
    <2> QED
      BY <2>2, <2>3 DEF Sensors
  <1>4. CASE AskCoil \/ AskRead \/ AskDemand \/ AskGo
    BY <1>4 DEF AskCoil, AskRead, AskDemand, AskGo, Request, Sensors
  <1>5. CASE AskStatus
    <2>1. PICK answered \in BOOLEAN :
            Request(Answers(answered, "status", IF pump.running THEN {"running"} ELSE {}), answered)
      BY <1>5 DEF AskStatus
    <2>2. at = "status" /\ UNCHANGED <<at, reading, got>>
      BY <1>5, <2>1 DEF AskStatus, Request
    <2>3. \A b \in inflight' : b.fc = "sensor" => b.age # 0
      BY <2>1, PumpRequest
    <2> QED
      BY <2>2, <2>3 DEF Sensors
  <1>6. CASE AskSensor
    <2>1. PICK answered \in BOOLEAN : Request(Answers(answered, "sensor", {at}), answered)
      BY <1>6 DEF AskSensor
    <2>2. /\ waiting' /\ ~waiting /\ input' = {} /\ at \in Sensors
          /\ UNCHANGED <<at, reading, got>>
      BY <1>6, <2>1, PumpRequest DEF AskSensor
    <2>3. {at} \subseteq Behind[at]
      BY <2>2 DEF Sensors, Behind
    <2>4. at \in {"rpm", "air"} => {Before[at]} \subseteq Behind[at]
      BY DEF Sensors, Behind, Before
    <2>5. ASSUME NEW b \in inflight', b.fc = "sensor"
          PROVE  /\ b.age = 0 => b.value = {at}
                 /\ b.value \subseteq Behind[at]
      <3>1. CASE b.value = {at}
        BY <2>3, <3>1
      <3>2. CASE \E a \in inflight : /\ b.fc = a.fc /\ b.value = a.value /\ b.age # 0
                                     /\ Device(a.fc) = "pump" => a.age = 0
        <4>1. PICK a \in inflight : /\ a.fc = "sensor" /\ b.value = a.value /\ b.age # 0
                                    /\ a.age = 0
          BY <2>5, <3>2 DEF Device
        <4>2. at \in {"rpm", "air"} /\ a.value = {Before[at]}
          BY <2>2, <4>1 DEF Sensors
        <4> QED
          BY <2>4, <4>1, <4>2
      <3> QED
        BY <2>1, <3>1, <3>2, PumpRequest
    <2> QED
      BY <2>2, <2>5 DEF Sensors
  <1>7. CASE CoilOutcome \/ ReadOutcome \/ FinishRelays
    <2>1. at' \notin Sensors /\ ~waiting' /\ UNCHANGED <<reading, got>>
      <3>1. CASE CoilOutcome
        BY <1>a, <3>1 DEF CoilOutcome, Outcome, Sensors
      <3>2. CASE ReadOutcome
        BY <1>a, <3>2 DEF ReadOutcome, Outcome, Sensors
      <3>3. CASE FinishRelays
        BY <1>a, <3>3 DEF FinishRelays, Waits, Sensors
      <3> QED
        BY <1>7, <3>1, <3>2, <3>3
    <2> QED
      BY <2>1 DEF Sensors
  <1>8. CASE DemandOutcome \/ GoOutcome
    <2>1. at' \notin Sensors /\ ~waiting' /\ UNCHANGED <<reading, got>>
      BY <1>8 DEF DemandOutcome, GoOutcome, Outcome, Sensors
    <2> QED
      BY <2>1 DEF Sensors
  <1>9. CASE StatusOutcome
    <2>1. /\ at = "status" /\ waiting /\ at' = "watt" /\ ~waiting'
          /\ UNCHANGED <<inflight, reading, got>>
      BY <1>9 DEF StatusOutcome, Outcome
    <2> QED
      BY <2>1
  <1>10. CASE SensorOutcome
    <2>1. /\ at \in Sensors /\ waiting /\ ~waiting' /\ at' = AfterSensor
          /\ UNCHANGED <<inflight, reading>>
          /\ got' = [got EXCEPT ![at] = UNION {a.value : a \in Accepted("sensor")}]
      BY <1>10 DEF SensorOutcome, Outcome
    <2>2. UNION {a.value : a \in Accepted("sensor")} \subseteq Behind[at]
      BY <2>1, AcceptedWithin
    <2>3. \A s \in Sensors : got'[s] \subseteq Behind[s]
      BY <1>0, <2>1, <2>2
    <2>4. /\ at' \in {"rpm", "air"} => Before[at'] = at
          /\ at' # "watt"
      BY <2>1 DEF AfterSensor, Before, Sensors
    <2>5. \A a \in inflight : a.fc = "sensor" /\ a.age = 0 => a.value = {at}
      BY <2>1
    <2> QED
      BY <2>1, <2>3, <2>4, <2>5
  <1>11. CASE FinishPump
    <2>1. /\ at' = "idle" /\ UNCHANGED got
          /\ reading' = [s \in Sensors |-> IF got[s] = {} THEN reading[s] ELSE got[s]]
      BY <1>11 DEF FinishPump
    <2> QED
      BY <2>1 DEF Sensors
  <1>12. CASE UNCHANGED vars
    BY <1>12 DEF vars
  <1> QED
    BY <1>1, <1>2, <1>3, <1>4, <1>5, <1>6, <1>7, <1>8, <1>9, <1>10, <1>11, <1>12
       DEF Next, Ask, Hear

\* As long as the pump is not later than one request, no reading shows more
\* than the sensor asked just before its own.
THEOREM ReadingsLate ==
  ASSUME MaxLate["pump"] =< 1
  PROVE  Spec => []ReadingsOneBehind
  <1>1. Init => ReadingInv
    BY DEF Init, ReadingInv, NoReading, Sensors
  <1>2. TypeOK /\ Waits /\ ReadingInv /\ [Next]_vars => ReadingInv'
    BY ReadingStep
  <1>3. ReadingInv => ReadingsOneBehind
    BY DEF ReadingInv, ReadingsOneBehind, Behind, Sensors
  <1> QED
    BY <1>1, <1>2, <1>3, WaitsAlways, PTL DEF Spec

=============================================================================
