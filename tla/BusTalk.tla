------------------------------ MODULE BusTalk -------------------------------
(***************************************************************************)
(* What the Modbus task says on the bus and what it makes of the answers,  *)
(* when these may be late: service_bus with run_relay, run_pump and the    *)
(* request functions under them, each request and its outcome a step of    *)
(* its own.  Commands commit meanwhile, and the relay board may lose power.*)
(*                                                                         *)
(* Abstractions.  A commit is one step and a wake-up may come whenever     *)
(* something is dirty (PoolControl has both in full); a speed stands for   *)
(* its demand word (SpeedScale); a reading is the sensor it was taken by;  *)
(* the publication hints are left out.                                     *)
(***************************************************************************)
EXTENDS RtuLink

CONSTANTS NumRelays, Speeds,
          MaxCommands,   \* bound: commits
          MaxFaults      \* bound: frames lost, answers overtaken, resets

ASSUME BusAssumption ==
  /\ NumRelays \in Nat \ {0}
  /\ 0 \in Speeds
  /\ MaxCommands \in Nat /\ MaxFaults \in Nat

Relays  == 1 .. NumRelays
Sensors == {"watt", "rpm", "air"}

VARIABLES
  \* the shared state
  relays, speed, updateRelays, updatePump, relayStatus, reading,
  \* the Modbus task: the request it is at, and whether it is sent
  at, waiting,
  \* the locals of service_bus, run_relay and run_pump
  doPump, snap, channel, attempt, measured, acked, stopDue, got,
  \* the devices (external); resetSince is a history: the board has lost
  \* power since it was last read back by a run that writes
  coils, pump, resetSince,
  \* bounds
  received, faults

shared  == <<relays, speed, updateRelays, updatePump, relayStatus, reading>>
control == <<at, waiting>>
locals  == <<doPump, snap, channel, attempt, measured, acked, stopDue, got>>
field   == <<coils, pump, resetSince>>
vars == <<link, shared, control, locals, field, received, faults>>

NoReading == [s \in Sensors |-> {}]

\* A fresh installation, marked dirty by the start of the task.
Init ==
  /\ inflight = {} /\ input = {}
  /\ relays = {} /\ speed = 0
  /\ updateRelays = TRUE /\ updatePump = TRUE
  /\ relayStatus = {} /\ reading = NoReading
  /\ at = "idle" /\ waiting = FALSE
  /\ doPump = FALSE
  /\ snap = [updateRelays |-> FALSE, updatePump |-> FALSE, relays |-> {}, speed |-> 0]
  /\ channel = 1 /\ attempt = 1 /\ measured = {} /\ acked = FALSE /\ stopDue = FALSE
  /\ got = NoReading
  /\ coils \in SUBSET Relays /\ pump = [demand |-> 0, running |-> FALSE] /\ resetSince = FALSE
  /\ received = 0 /\ faults = 0

Charge(ok) == \/ ok /\ UNCHANGED faults
              \/ ~ok /\ faults < MaxFaults /\ faults' = faults + 1

-----------------------------------------------------------------------------
\* A command is committed, with the flags for what it moves.
Commit ==
  /\ received < MaxCommands /\ received' = received + 1
  /\ \/ relays' \in SUBSET Relays /\ updateRelays' = TRUE /\ UNCHANGED <<speed, updatePump>>
     \/ speed' \in Speeds \ {speed} /\ updatePump' = TRUE /\ UNCHANGED <<relays, updateRelays>>
  /\ UNCHANGED <<link, relayStatus, reading, control, locals, field, faults>>

\* The relay board loses power and comes back with everything off.
ResetBoard ==
  /\ coils # {}
  /\ Charge(FALSE)
  /\ coils' = {} /\ resetSince' = TRUE
  /\ UNCHANGED <<link, shared, control, locals, pump, received>>

\* An answer comes in, wanted or not.
Receive == Arrive /\ UNCHANGED <<shared, control, locals, field, received, faults>>

-----------------------------------------------------------------------------
(* service_bus: the snapshot, and which requests follow.                   *)

\* The pump is driven on a dirty flag and while it should run.
Drives(s) == s.updatePump \/ s.speed # 0

PumpEntry(s) == IF Drives(s) THEN "demand" ELSE "status"
AfterRelay   == IF doPump THEN PumpEntry(snap) ELSE "idle"

BeginRun(relayToo, pumpToo) ==
  /\ at = "idle"
  /\ snap' = [updateRelays |-> updateRelays, updatePump |-> updatePump,
              relays |-> relays, speed |-> speed]
  /\ doPump' = pumpToo
  /\ channel' = 1 /\ attempt' = 1 /\ acked' = FALSE /\ stopDue' = FALSE
  /\ got' = NoReading
  /\ at' = IF relayToo THEN (IF updateRelays THEN "coil" ELSE "read") ELSE PumpEntry(snap')
  /\ UNCHANGED <<link, shared, waiting, measured, field, received, faults>>

Wake      == (updateRelays \/ updatePump) /\ BeginRun(updateRelays, updatePump)
RelayTick == BeginRun(TRUE, FALSE)
PumpTick  == BeginRun(FALSE, TRUE)

-----------------------------------------------------------------------------
(* The requests.  A device may miss one, or act and not be heard.          *)

\* A frame lost, or not acted on, is a fault.
Request(answers, ok) ==
  /\ ~waiting /\ waiting' = TRUE
  /\ Transmit(answers)
  /\ Charge(ok)
  /\ UNCHANGED <<shared, at, locals, received>>

Answers(answered, fc, value) == IF answered THEN {Answer(fc, value)} ELSE {}

\* The board may also echo a write and not act.
AskCoil ==
  /\ at = "coil"
  /\ \E acts, answered \in BOOLEAN :
       /\ Request(Answers(answered, "write", {}), acts /\ answered)
       /\ coils' = IF ~acts THEN coils
                   ELSE IF channel \in snap.relays THEN coils \cup {channel}
                   ELSE coils \ {channel}
  /\ UNCHANGED <<pump, resetSince>>

AskRead ==
  /\ at = "read"
  /\ \E answered \in BOOLEAN :
       /\ Request(Answers(answered, "read", coils), answered)
       /\ resetSince' = (resetSince /\ ~(snap.updateRelays /\ answered))
  /\ UNCHANGED <<coils, pump>>

AskDemand ==
  /\ at = "demand"
  /\ \E acts, answered \in BOOLEAN :
       /\ answered => acts
       /\ Request(Answers(answered, "demand", {}), answered)
       /\ pump' = IF acts THEN [pump EXCEPT !.demand = snap.speed] ELSE pump
  /\ UNCHANGED <<coils, resetSince>>

GoCode == IF snap.speed = 0 THEN "stop" ELSE "go"

AskGo ==
  /\ at = "go"
  /\ \E acts, answered \in BOOLEAN :
       /\ answered => acts
       /\ Request(Answers(answered, GoCode, {}), answered)
       /\ pump' = IF acts THEN [pump EXCEPT !.running = snap.speed # 0] ELSE pump
  /\ UNCHANGED <<coils, resetSince>>

AskStatus ==
  /\ at = "status"
  /\ \E answered \in BOOLEAN :
       Request(Answers(answered, "status", IF pump.running THEN {"running"} ELSE {}), answered)
  /\ UNCHANGED field

AskSensor ==
  /\ at \in Sensors
  /\ \E answered \in BOOLEAN : Request(Answers(answered, "sensor", {at}), answered)
  /\ UNCHANGED field

-----------------------------------------------------------------------------
(* Their outcomes.                                                         *)

\* The wait is over: with an input, or by the timeout.  That the answer to
\* this request is still on its way is a fault.
Outcome ==
  /\ waiting /\ waiting' = FALSE
  /\ input' = {} /\ UNCHANGED inflight
  /\ Charge(\A a \in inflight : a.age # 0)

\* An error ends the relay part; the last echo leads to the read back.
CoilOutcome ==
  /\ at = "coil" /\ Outcome
  /\ \/ /\ Accepted("write") = {}
        /\ at' = AfterRelay
        /\ UNCHANGED channel
     \/ /\ Accepted("write") # {}
        /\ at' = IF channel < NumRelays THEN "coil" ELSE "read"
        /\ channel' = IF channel < NumRelays THEN channel + 1 ELSE channel
  /\ UNCHANGED <<shared, doPump, snap, attempt, measured, acked, stopDue, got, field, received>>

\* A written run that reads something else than it wrote writes once more.
ReadOutcome ==
  /\ at = "read" /\ Outcome
  /\ \/ /\ Accepted("read") = {}
        /\ at' = AfterRelay
        /\ UNCHANGED <<channel, attempt, measured>>
     \/ \E a \in Accepted("read") :
          /\ measured' = a.value
          /\ IF snap.updateRelays /\ a.value # snap.relays /\ attempt = 1
             THEN at' = "coil" /\ channel' = 1 /\ attempt' = 2
             ELSE at' = "relayDone" /\ UNCHANGED <<channel, attempt>>
  /\ UNCHANGED <<shared, doPump, snap, acked, stopDue, got, field, received>>

\* Fault: the run is taken to have done what it was to do.
FinishRelaysUnmeasured ==
  /\ at = "relayDone"
  /\ relayStatus' = {measured}
  /\ updateRelays' = (updateRelays /\ ~(snap.updateRelays /\ relays = snap.relays))
  /\ at' = AfterRelay
  /\ UNCHANGED <<link, relays, speed, updatePump, reading, waiting, locals, field, received,
                 faults>>

\* Fault: an idle poll does not store what it reads.
FinishRelaysUnpolled ==
  /\ at = "relayDone"
  /\ relayStatus' = IF snap.updateRelays THEN {measured} ELSE relayStatus
  /\ updateRelays' = (updateRelays /\ ~ /\ snap.updateRelays
                                        /\ relays = snap.relays
                                        /\ measured = snap.relays)
  /\ at' = AfterRelay
  /\ UNCHANGED <<link, relays, speed, updatePump, reading, waiting, locals, field, received,
                 faults>>

\* Fault: a run that writes stores no feedback, the next idle poll will.
FinishRelaysUnstored ==
  /\ at = "relayDone"
  /\ relayStatus' = IF snap.updateRelays THEN relayStatus ELSE {measured}
  /\ updateRelays' = (updateRelays /\ ~ /\ snap.updateRelays
                                        /\ relays = snap.relays
                                        /\ measured = snap.relays)
  /\ at' = AfterRelay
  /\ UNCHANGED <<link, relays, speed, updatePump, reading, waiting, locals, field, received,
                 faults>>

\* Feedback is stored; the flag goes clear when written, measured and
\* commanded masks agree.
FinishRelays ==
  /\ at = "relayDone"
  /\ relayStatus' = {measured}
  /\ updateRelays' = (updateRelays /\ ~ /\ snap.updateRelays
                                        /\ relays = snap.relays
                                        /\ measured = snap.relays)
  /\ at' = AfterRelay
  /\ UNCHANGED <<link, relays, speed, updatePump, reading, waiting, locals, field, received,
                 faults>>

\* apply_spd goes on to GO or STOP whatever became of SET_DEMAND, and any
\* acknowledgement will do.
DemandOutcome ==
  /\ at = "demand" /\ Outcome
  /\ acked' = (acked \/ Accepted("demand") # {})
  /\ at' = "go"
  /\ UNCHANGED <<shared, doPump, snap, channel, attempt, measured, stopDue, got, field,
                 received>>

GoOutcome ==
  /\ at = "go" /\ Outcome
  /\ acked' = (acked \/ Accepted(GoCode) # {})
  /\ at' = IF Drives(snap) THEN "status" ELSE "pumpDone"
  /\ UNCHANGED <<shared, doPump, snap, channel, attempt, measured, stopDue, got, field,
                 received>>

\* A pump that should be off is stopped unless its status says OFF.
StatusOutcome ==
  /\ at = "status" /\ Outcome
  /\ stopDue' = (~Drives(snap) /\ \A a \in Accepted("status") : a.value # {})
  /\ at' = "watt"
  /\ UNCHANGED <<shared, doPump, snap, channel, attempt, measured, acked, got, field,
                 received>>

AfterSensor == CASE at = "watt" -> "rpm"
                 [] at = "rpm"  -> "air"
                 [] at = "air"  -> IF stopDue THEN "demand" ELSE "pumpDone"

SensorOutcome ==
  /\ at \in Sensors /\ Outcome
  /\ got' = [got EXCEPT ![at] = UNION {a.value : a \in Accepted("sensor")}]
  /\ at' = AfterSensor
  /\ UNCHANGED <<shared, doPump, snap, channel, attempt, measured, acked, stopDue, field,
                 received>>

\* Fault: the run is taken for the speed commanded by now.
FinishPumpUnchecked ==
  /\ at = "pumpDone"
  /\ updatePump' = (updatePump /\ ~(snap.updatePump /\ acked))
  /\ reading' = [s \in Sensors |-> IF got[s] = {} THEN reading[s] ELSE got[s]]
  /\ at' = "idle"
  /\ UNCHANGED <<link, relays, speed, updateRelays, relayStatus, waiting, locals, field,
                 received, faults>>

\* Fault: a reading is stored once and for all.
FinishPumpOnce ==
  /\ at = "pumpDone"
  /\ updatePump' = (updatePump /\ ~(snap.updatePump /\ acked /\ speed = snap.speed))
  /\ reading' = [s \in Sensors |-> IF reading[s] = {} THEN got[s] ELSE reading[s]]
  /\ at' = "idle"
  /\ UNCHANGED <<link, relays, speed, updateRelays, relayStatus, waiting, locals, field,
                 received, faults>>

\* Clean when something was acknowledged and the speed is still the one of
\* the snapshot; what was read is stored, the rest keeps its last value.
FinishPump ==
  /\ at = "pumpDone"
  /\ updatePump' = (updatePump /\ ~(snap.updatePump /\ acked /\ speed = snap.speed))
  /\ reading' = [s \in Sensors |-> IF got[s] = {} THEN reading[s] ELSE got[s]]
  /\ at' = "idle"
  /\ UNCHANGED <<link, relays, speed, updateRelays, relayStatus, waiting, locals, field,
                 received, faults>>

-----------------------------------------------------------------------------
Ask == AskCoil \/ AskRead \/ AskDemand \/ AskGo \/ AskStatus \/ AskSensor
Hear == \/ CoilOutcome \/ ReadOutcome \/ FinishRelays \/ DemandOutcome \/ GoOutcome
        \/ StatusOutcome \/ SensorOutcome \/ FinishPump

Next == \/ Commit \/ ResetBoard \/ Receive
        \/ Wake \/ RelayTick \/ PumpTick
        \/ Ask \/ Hear

Spec == Init /\ [][Next]_vars

\* The task runs on, answers come in, and neither ticker is passed over for
\* ever (the select! starts at random, an elapsed tick waits).
FairSpec == /\ Spec
            /\ WF_vars(Ask \/ Hear) /\ WF_vars(Receive)
            /\ SF_vars(RelayTick) /\ SF_vars(PumpTick)

-----------------------------------------------------------------------------
(* Properties.                                                             *)

\* The types of the variables, and of the answers by what they carry.
States == {"idle", "coil", "read", "relayDone", "demand", "go", "status", "pumpDone"} \cup Sensors

Codes == {"write", "read", "demand", "go", "stop", "status", "sensor"}

Answered(a) == /\ a.fc \in Codes /\ a.age \in Nat
               /\ a.fc = "read" => a.value \in SUBSET Relays
               /\ a.fc = "sensor" => a.value \in SUBSET Sensors

Snapshots == [updateRelays : BOOLEAN, updatePump : BOOLEAN, relays : SUBSET Relays,
              speed : Speeds]

TypeOK ==
  /\ \A a \in inflight \cup input : Answered(a)
  /\ relays \in SUBSET Relays /\ speed \in Speeds
  /\ updateRelays \in BOOLEAN /\ updatePump \in BOOLEAN
  /\ relayStatus \subseteq SUBSET Relays /\ reading \in [Sensors -> SUBSET Sensors]
  /\ at \in States /\ waiting \in BOOLEAN
  /\ doPump \in BOOLEAN /\ snap \in Snapshots
  /\ channel \in Relays /\ attempt \in {1, 2} /\ measured \in SUBSET Relays
  /\ acked \in BOOLEAN /\ stopDue \in BOOLEAN /\ got \in [Sensors -> SUBSET Sensors]
  /\ coils \in SUBSET Relays /\ pump \in [demand : Speeds, running : BOOLEAN]
  /\ resetSince \in BOOLEAN
  /\ received \in 0 .. MaxCommands /\ faults \in 0 .. MaxFaults

\* Late answers do not make clean relays a lie: though an echo counts for any
\* write and a mask for any read, a clear update_relays still means coils as
\* commanded (a board that has lost power since apart), as long as no answer
\* of the board is later than the writes of one run.
CleanRelaysInPlace == ~updateRelays /\ ~resetSince => coils = relays

\* Nor the relays shown: what a clean state shows is what the coils are, though
\* an idle poll takes whatever mask comes in.
CleanFeedbackTrue == ~updateRelays /\ ~resetSince => relayStatus = {coils}

\* Nor clean pumps: one half of the commanded speed was taken, as long as no
\* answer of the pump is later than one request.
CleanPumpHalfInPlace ==
  ~updatePump => pump.demand = speed \/ pump.running = (speed # 0)

\* The worst a late answer of the pump does to the readings: the rpm shown may
\* be the watts, the air temperature the rpm.  The watts are never another
\* sensor's, and nothing is ever shown for a sensor two reads away.
ReadingsOneBehind ==
  /\ reading["watt"] \subseteq {"watt"}
  /\ reading["rpm"]  \subseteq {"rpm", "watt"}
  /\ reading["air"]  \subseteq {"air", "rpm"}

\* When commands and faults have ceased the feedback published is what the
\* coils are, also when the board has lost power behind a clear flag.
FeedbackSettles == <>[](relayStatus = {coils})

\* And every reading is its own sensor's: the answers fall back into step.
ReadingsSettle == <>[](\A s \in Sensors : reading[s] = {s})

=============================================================================
