---------------------------- MODULE PoolControl -----------------------------
(***************************************************************************)
(* The command path of the controller: the MQTT task turns a command into  *)
(* a draft, persists it and commits it to the shared state; the Modbus     *)
(* task, sole owner of the RS485 bus, takes one snapshot of that state per *)
(* service run and drives the relay board and the pump from it, frame by   *)
(* frame, without holding the lock.  The process may be killed at any      *)
(* moment and starts again from the file.                                  *)
(*                                                                         *)
(* An action is what one task does between two points where the other can  *)
(* act: a lock taken and released, a save, a frame on the bus.             *)
(*                                                                         *)
(* Abstractions.  A relay mask is the set of channels that are on.  Mode   *)
(* and the two set temperatures, which dirty nothing and are only stored,  *)
(* are one field, setting.  Sensor readings, publication and the serial    *)
(* framing change nothing that these actions read and are left out.        *)
(***************************************************************************)
EXTENDS Integers, SpeedScale

CONSTANTS NumRelays,       \* channels of the relay board, written in order
          SpdMax,          \* [modbus].spd_max
          DefaultSetting,  \* the stored setting of a fresh installation
          Commands,        \* the commands the broker may deliver
          MaxCommands,     \* bound: commands delivered in a behaviour
          MaxFaults        \* bound: frames lost, saves failed, crashes

Relays == 1 .. NumRelays
Keys   == {"spd", "setting"}

\* A parsed JSON command object: the keys present, their values, and the
\* relay keys that ask for on and for off.
CommandObject == [keys : SUBSET Keys, spd : Int, setting : Int,
                  on : SUBSET Relays, off : SUBSET Relays]

ASSUME ConstantsAssumption ==
  /\ NumRelays \in Nat \ {0}
  /\ SpdMax \in Word
  /\ DefaultSetting \in Int
  /\ Commands \subseteq CommandObject
  /\ MaxCommands \in Nat
  /\ MaxFaults \in Nat

CommandedState == [relays : SUBSET Relays, speed : Word, setting : Int]
Default == [relays |-> {}, speed |-> 0, setting |-> DefaultSetting]

VARIABLES
  \* the shared PoolState, behind its RwLock, and the bus_notify permit
  commanded, updateRelays, updatePump, relayStatus, busPermit,
  \* the file: {} when missing, {document} otherwise; and whether this
  \* process could not read it and nothing has been saved since
  disk, unread,
  \* the MQTT task
  mqtt, draft,
  \* the Modbus task: where it is, what the run does, what it has seen
  bus, doRelay, doPump, snap, channel, attempt, measured, acked,
  \* the hardware (external)
  coils, pump,
  \* bounds
  received, faults

shared == <<commanded, updateRelays, updatePump, relayStatus, busPermit>>
file   == <<disk, unread>>
client == <<mqtt, draft>>
run    == <<doRelay, doPump, snap, channel, attempt, measured, acked>>
field  == <<coils, pump>>
vars   == <<shared, file, client, bus, run, field, received, faults>>

-----------------------------------------------------------------------------
\* Anything but a success uses up one of the faults allowed.
Charge(ok) == \/ ok /\ UNCHANGED faults
              \/ ~ok /\ faults < MaxFaults /\ faults' = faults + 1

NoDraft == [commanded |-> Default, updateRelays |-> FALSE, updatePump |-> FALSE]
NoSnap  == [updateRelays |-> FALSE, updatePump |-> FALSE, relays |-> {}, speed |-> 0]

\* The state App::new leaves behind: dirty flags clear, nothing measured.
Boot(cmd) ==
  /\ commanded' = cmd
  /\ updateRelays' = FALSE /\ updatePump' = FALSE
  /\ relayStatus' = {} /\ busPermit' = FALSE

\* What a local variable holds before a run sets it; none is read before.
FreshRun == /\ doRelay' = FALSE /\ doPump' = FALSE /\ snap' = NoSnap
            /\ channel' = 1 /\ attempt' = 1 /\ measured' = {} /\ acked' = FALSE

Init ==
  /\ commanded = Default /\ updateRelays = FALSE /\ updatePump = FALSE
  /\ relayStatus = {} /\ busPermit = FALSE
  /\ disk = {} /\ unread = FALSE
  /\ mqtt = "idle" /\ draft = NoDraft
  /\ bus = "start"
  /\ doRelay = FALSE /\ doPump = FALSE /\ snap = NoSnap
  /\ channel = 1 /\ attempt = 1 /\ measured = {} /\ acked = FALSE
  /\ coils \in SUBSET Relays
  /\ pump \in [demand : {0, DemandFromSpd(SpdMax, SpdMax)}, running : BOOLEAN]
  /\ received = 0 /\ faults = 0

-----------------------------------------------------------------------------
(* The MQTT task: handle_command.                                          *)

\* apply_command_json on a clone of the shared state.  A relay key dirties
\* the relays whatever its value, a speed only when the encoded word moves.
ApplyCommand(c) ==
  LET speed == IF "spd" \in c.keys THEN EncodeSpd(c.spd, SpdMax) ELSE commanded.speed
  IN  [commanded    |-> [relays  |-> (commanded.relays \cup c.on) \ c.off,
                         speed   |-> speed,
                         setting |-> IF "setting" \in c.keys THEN c.setting
                                     ELSE commanded.setting],
       updateRelays |-> updateRelays \/ c.on \cup c.off # {},
       updatePump   |-> updatePump \/ speed # commanded.speed]

\* The clone under the read lock; a command that changes nothing is not saved.
ReceiveCommand(c) ==
  /\ mqtt = "idle"
  /\ received < MaxCommands
  /\ received' = received + 1
  /\ draft' = ApplyCommand(c)
  /\ mqtt' = IF draft'.commanded # commanded THEN "save" ELSE "commit"
  /\ UNCHANGED <<shared, file, bus, run, field, faults>>

\* The save is a write beside the file and a rename: it happens or it does not.
SaveDraft ==
  /\ mqtt = "save"
  /\ disk' = {draft.commanded}
  /\ unread' = FALSE
  /\ mqtt' = "commit"
  /\ UNCHANGED <<shared, draft, bus, run, field, received, faults>>

\* Fault: the early return after a failed save is missing.
SaveFailsUnnoticed ==
  /\ mqtt = "save"
  /\ Charge(FALSE)
  /\ mqtt' = "commit"
  /\ UNCHANGED <<shared, file, draft, bus, run, field, received>>

\* A failed save abandons the command: the shared state is left alone.
SaveFails ==
  /\ mqtt = "save"
  /\ Charge(FALSE)
  /\ mqtt' = "idle"
  /\ draft' = NoDraft
  /\ UNCHANGED <<shared, file, bus, run, field, received>>

\* Fault: the flags of the clone are assigned, not or-ed in.
CommitDraftAssigning ==
  /\ mqtt = "commit"
  /\ commanded' = draft.commanded
  /\ updateRelays' = draft.updateRelays
  /\ updatePump' = draft.updatePump
  /\ mqtt' = "notify"
  /\ UNCHANGED <<relayStatus, busPermit, file, draft, bus, run, field, received, faults>>

\* Under the write lock: the flags are only ever raised here.
CommitDraft ==
  /\ mqtt = "commit"
  /\ commanded' = draft.commanded
  /\ updateRelays' = (updateRelays \/ draft.updateRelays)
  /\ updatePump' = (updatePump \/ draft.updatePump)
  /\ mqtt' = "notify"
  /\ UNCHANGED <<relayStatus, busPermit, file, draft, bus, run, field, received, faults>>

\* Fault: notify_waiters, which wakes a waiter and stores no permit.
NotifyBusWaiting ==
  /\ mqtt = "notify"
  /\ busPermit' = (busPermit \/ (bus = "idle" /\ (draft.updateRelays \/ draft.updatePump)))
  /\ mqtt' = "idle"
  /\ draft' = NoDraft
  /\ UNCHANGED <<commanded, updateRelays, updatePump, relayStatus, file, bus, run,
                 field, received, faults>>

\* notify_one stores the permit if nobody waits for it.
NotifyBus ==
  /\ mqtt = "notify"
  /\ busPermit' = (busPermit \/ draft.updateRelays \/ draft.updatePump)
  /\ mqtt' = "idle"
  /\ draft' = NoDraft
  /\ UNCHANGED <<commanded, updateRelays, updatePump, relayStatus, file, bus, run,
                 field, received, faults>>

-----------------------------------------------------------------------------
(* The Modbus task: start, and the select loop between service runs.       *)

\* Fault: only the notification is sent at the start, nothing is dirty.
StartBusClean ==
  /\ bus = "start"
  /\ busPermit' = TRUE
  /\ bus' = "open"
  /\ UNCHANGED <<commanded, updateRelays, updatePump, relayStatus, file, client, run,
                 field, received, faults>>

\* Everything is dirty at the start, so that what was loaded is pushed out.
StartBus ==
  /\ bus = "start"
  /\ updateRelays' = TRUE /\ updatePump' = TRUE /\ busPermit' = TRUE
  /\ bus' = "open"
  /\ UNCHANGED <<commanded, relayStatus, file, client, run, field, received, faults>>

BeginRun(relay, pumpToo) ==
  /\ doRelay' = relay /\ doPump' = pumpToo
  /\ bus' = "snapshot"
  /\ UNCHANGED <<commanded, updateRelays, updatePump, relayStatus, file, client,
                 snap, channel, attempt, measured, acked, field, received, faults>>

\* The port opens, after any number of attempts that change nothing here,
\* and is never closed again; the boot run services both devices.
OpenPort == bus = "open" /\ BeginRun(TRUE, TRUE) /\ UNCHANGED busPermit

\* A wake reads the flags to choose the devices, in a lock of its own.
WakeBus == /\ bus = "idle"
           /\ busPermit
           /\ busPermit' = FALSE
           /\ \/ /\ updateRelays \/ updatePump
                 /\ BeginRun(updateRelays, updatePump)
              \/ /\ ~updateRelays /\ ~updatePump
                 /\ UNCHANGED <<commanded, updateRelays, updatePump, relayStatus, file,
                                client, bus, run, field, received, faults>>

RelayTick == bus = "idle" /\ BeginRun(TRUE, FALSE) /\ UNCHANGED busPermit
PumpTick  == bus = "idle" /\ BeginRun(FALSE, TRUE) /\ UNCHANGED busPermit

-----------------------------------------------------------------------------
(* service_bus: one snapshot, then the relays, then the pump.              *)

\* min(spd_max), and then the demand word.
RunSpeed == Lesser(snap.speed, EffectiveMax(SpdMax))
Demand   == DemandFromSpd(RunSpeed, SpdMax)

\* The pump is driven on a dirty flag, and at every poll while it should run.
DrivesPump(s) == s.updatePump \/ Lesser(s.speed, EffectiveMax(SpdMax)) > 0
PumpEntry(s)  == IF DrivesPump(s) THEN "demand" ELSE "status"
AfterRelay    == IF doPump THEN PumpEntry(snap) ELSE "idle"

TakeSnapshot ==
  /\ bus = "snapshot"
  /\ snap' = [updateRelays |-> updateRelays, updatePump |-> updatePump,
              relays |-> commanded.relays, speed |-> commanded.speed]
  /\ channel' = 1 /\ attempt' = 1 /\ acked' = FALSE
  /\ bus' = IF doRelay THEN (IF updateRelays THEN "coil" ELSE "read") ELSE PumpEntry(snap')
  /\ UNCHANGED <<shared, file, client, doRelay, doPump, measured, field, received, faults>>

\* One write of one coil.  The board may miss the request, act and not be
\* heard, or answer without acting; an error ends the whole relay part.
WriteCoil ==
  /\ bus = "coil"
  /\ \E effect, reply \in BOOLEAN :
       /\ Charge(effect /\ reply)
       /\ coils' = IF ~effect THEN coils
                   ELSE IF channel \in snap.relays THEN coils \cup {channel}
                   ELSE coils \ {channel}
       /\ \/ /\ ~reply
             /\ bus' = AfterRelay
             /\ UNCHANGED channel
          \/ /\ reply /\ channel < NumRelays
             /\ channel' = channel + 1
             /\ UNCHANGED bus
          \/ /\ reply /\ channel = NumRelays
             /\ bus' = "read"
             /\ UNCHANGED channel
  /\ UNCHANGED <<shared, file, client, doRelay, doPump, snap, attempt, measured, acked,
                 pump, received>>

\* Reading the coils back.  A written run that reads something else than it
\* wrote writes once more.
ReadCoils ==
  /\ bus = "read"
  /\ measured' = coils
  /\ IF snap.updateRelays /\ coils # snap.relays /\ attempt = 1
     THEN attempt' = 2 /\ channel' = 1 /\ bus' = "coil"
     ELSE bus' = "relayDone" /\ UNCHANGED <<attempt, channel>>
  /\ UNCHANGED <<shared, file, client, doRelay, doPump, snap, acked, field, received, faults>>

ReadCoilsFails ==
  /\ bus = "read"
  /\ Charge(FALSE)
  /\ bus' = AfterRelay
  /\ UNCHANGED <<shared, file, client, run, field, received>>

\* Fault: the write is taken for the mask commanded by now.
FinishRelaysUnchecked ==
  /\ bus = "relayDone"
  /\ relayStatus' = {measured}
  /\ updateRelays' = (updateRelays /\ ~(snap.updateRelays /\ measured = snap.relays))
  /\ bus' = AfterRelay
  /\ UNCHANGED <<commanded, updatePump, busPermit, file, client, run, field, received, faults>>

\* Fault: feedback is stored by the idle poll only.
FinishRelaysUnmeasured ==
  /\ bus = "relayDone"
  /\ relayStatus' = IF snap.updateRelays THEN relayStatus ELSE {measured}
  /\ updateRelays' = (updateRelays /\ ~ /\ snap.updateRelays
                                        /\ commanded.relays = snap.relays
                                        /\ measured = snap.relays)
  /\ bus' = AfterRelay
  /\ UNCHANGED <<commanded, updatePump, busPermit, file, client, run, field, received, faults>>

\* Under the write lock: feedback stored; clean only when what was written,
\* what was measured and what is commanded by now are one and the same.
FinishRelays ==
  /\ bus = "relayDone"
  /\ relayStatus' = {measured}
  /\ updateRelays' = (updateRelays /\ ~ /\ snap.updateRelays
                                        /\ commanded.relays = snap.relays
                                        /\ measured = snap.relays)
  /\ bus' = AfterRelay
  /\ UNCHANGED <<commanded, updatePump, busPermit, file, client, run, field, received, faults>>

\* A pump frame: delivered or not, acknowledged or not; no acknowledgement
\* without delivery.  Any acknowledged frame counts as an actuation.
PumpFrame(delivered, ack) == /\ ack => delivered
                             /\ Charge(ack)
                             /\ acked' = (acked \/ ack)

SetDemand ==
  /\ bus = "demand"
  /\ \E delivered, ack \in BOOLEAN :
       /\ PumpFrame(delivered, ack)
       /\ pump' = IF delivered THEN [pump EXCEPT !.demand = Demand] ELSE pump
  /\ bus' = "goStop"
  /\ UNCHANGED <<shared, file, client, doRelay, doPump, snap, channel, attempt, measured,
                 coils, received>>

\* GO, or STOP for a demand of zero; sent whatever became of SET_DEMAND.
GoOrStop ==
  /\ bus = "goStop"
  /\ \E delivered, ack \in BOOLEAN :
       /\ PumpFrame(delivered, ack)
       /\ pump' = IF delivered THEN [pump EXCEPT !.running = Demand # 0] ELSE pump
  /\ bus' = IF DrivesPump(snap) THEN "status" ELSE "pumpDone"
  /\ UNCHANGED <<shared, file, client, doRelay, doPump, snap, channel, attempt, measured,
                 coils, received>>

\* Fault: the poll of a pump that should be off never stops it.
ReadStatusOnly ==
  /\ bus = "status"
  /\ \E reply \in BOOLEAN : Charge(reply)
  /\ bus' = "pumpDone"
  /\ UNCHANGED <<shared, file, client, run, field, received>>

\* GET_STATUS.  A poll of a pump that should be off stops it unless the
\* status says OFF; an unanswered status says nothing.
ReadStatus ==
  /\ bus = "status"
  /\ \E reply \in BOOLEAN :
       /\ Charge(reply)
       /\ bus' = IF ~DrivesPump(snap) /\ (reply => pump.running) THEN "demand" ELSE "pumpDone"
  /\ UNCHANGED <<shared, file, client, run, field, received>>

\* Fault: the run is taken for the speed commanded by now.
FinishPumpUnchecked ==
  /\ bus = "pumpDone"
  /\ updatePump' = (updatePump /\ ~(snap.updatePump /\ acked))
  /\ bus' = "idle"
  /\ UNCHANGED <<commanded, updateRelays, relayStatus, busPermit, file, client, run, field,
                 received, faults>>

\* Under the write lock, for a dirty run: clean when something was
\* acknowledged and the speed is still the one of the snapshot.
FinishPump ==
  /\ bus = "pumpDone"
  /\ updatePump' = (updatePump /\ ~ /\ snap.updatePump
                                    /\ acked
                                    /\ commanded.speed = snap.speed)
  /\ bus' = "idle"
  /\ UNCHANGED <<commanded, updateRelays, relayStatus, busPermit, file, client, run, field,
                 received, faults>>

-----------------------------------------------------------------------------
(* The process dies and comes back.                                        *)

Crash ==
  /\ mqtt # "down"
  /\ Charge(FALSE)
  /\ mqtt' = "down" /\ bus' = "down"
  /\ Boot(Default) /\ FreshRun /\ draft' = NoDraft
  /\ UNCHANGED <<file, field, received>>

\* load_into: a document is migrated to the 0..35 scale; no document, defaults.
Loads(f) == IF f = {} THEN {Default}
            ELSE {[d EXCEPT !.speed = MigrateSpd(@)] : d \in f}

\* A migrated speed is written back, which may fail and is then forgotten.
Restart ==
  /\ mqtt = "down"
  /\ \E cmd \in Loads(disk) : Boot(cmd)
  /\ \/ /\ disk' = IF disk = {} THEN disk ELSE {commanded'}
        /\ UNCHANGED faults
     \/ /\ disk # {} /\ disk # {commanded'}
        /\ Charge(FALSE)
        /\ UNCHANGED disk
  /\ unread' = FALSE
  /\ mqtt' = "idle" /\ bus' = "start"
  /\ UNCHANGED <<draft, run, field, received>>

\* The file is there and cannot be read: the defaults are used instead.
RestartUnread ==
  /\ mqtt = "down" /\ disk # {}
  /\ Charge(FALSE)
  /\ Boot(Default)
  /\ unread' = TRUE
  /\ mqtt' = "idle" /\ bus' = "start"
  /\ UNCHANGED <<disk, draft, run, field, received>>

-----------------------------------------------------------------------------
ServeClient == SaveDraft \/ CommitDraft \/ NotifyBus

ServeBus == \/ StartBus \/ OpenPort \/ TakeSnapshot \/ WriteCoil \/ ReadCoils
            \/ ReadCoilsFails \/ FinishRelays \/ SetDemand \/ GoOrStop \/ ReadStatus
            \/ FinishPump

Next == \/ \E c \in Commands : ReceiveCommand(c)
        \/ ServeClient \/ SaveFails
        \/ WakeBus \/ RelayTick \/ PumpTick
        \/ ServeBus
        \/ Crash \/ Restart \/ RestartUnread

Spec == Init /\ [][Next]_vars

\* Both tasks run on.  The select! of modbus_task polls its branches from a
\* random start, and a permit or an elapsed tick waits until it is taken, so
\* no branch is passed over for ever.  The service manager restarts the
\* process.  The port opens in the end: that one is an assumption.
TaskFairness == WF_vars(ServeClient) /\ WF_vars(ServeBus) /\ WF_vars(Restart)
FairSpec == /\ Spec
            /\ TaskFairness
            /\ SF_vars(WakeBus) /\ SF_vars(RelayTick) /\ SF_vars(PumpTick)

-----------------------------------------------------------------------------
(* Properties.                                                             *)

BusStates == {"start", "open", "idle", "snapshot", "coil", "read", "relayDone",
              "demand", "goStop", "status", "pumpDone", "down"}

DraftType == [commanded : CommandedState, updateRelays : BOOLEAN, updatePump : BOOLEAN]
SnapType  == [updateRelays : BOOLEAN, updatePump : BOOLEAN,
              relays : SUBSET Relays, speed : Word]

Option(o, S) == o \subseteq S /\ \A x, y \in o : x = y

\* The types of the variables; relayStatus and disk are options.
TypeOK ==
  /\ commanded \in CommandedState
  /\ updateRelays \in BOOLEAN /\ updatePump \in BOOLEAN /\ busPermit \in BOOLEAN
  /\ Option(relayStatus, SUBSET Relays) /\ Option(disk, CommandedState)
  /\ unread \in BOOLEAN
  /\ mqtt \in {"idle", "save", "commit", "notify", "down"}
  /\ draft \in DraftType
  /\ bus \in BusStates
  /\ doRelay \in BOOLEAN /\ doPump \in BOOLEAN
  /\ snap \in SnapType
  /\ channel \in Relays /\ attempt \in {1, 2}
  /\ measured \in SUBSET Relays /\ acked \in BOOLEAN
  /\ coils \in SUBSET Relays
  /\ pump \in [demand : Word, running : BOOLEAN]
  /\ received \in 0 .. MaxCommands /\ faults \in 0 .. MaxFaults

\* The Modbus task has marked everything dirty for this process.
Started == bus \notin {"start", "down"}

\* Once the Modbus task has started, clean relays are relays in place: with
\* update_relays clear, every coil is what the latest committed command asks,
\* whatever was committed, lost or half written while a run was under way
\* with an older snapshot.
CleanRelaysInPlace == Started /\ ~updateRelays => coils = commanded.relays

\* And the feedback published for them is true: state.rs:137, "Status r1-r8
\* come from this only - never from commanded".
CleanFeedbackTrue == Started /\ ~updateRelays => relayStatus = {coils}

PumpDemand(speed) == DemandFromSpd(Lesser(speed, EffectiveMax(SpdMax)), SpdMax)
DemandInPlace  == pump.demand = PumpDemand(commanded.speed)
RunningInPlace == pump.running = (PumpDemand(commanded.speed) # 0)
PumpInPlace    == RunningInPlace /\ (pump.running => DemandInPlace)

\* A clean pump has taken at least one half of the latest speed, its demand
\* or its GO/STOP: update_pump never goes clear on a superseded speed or on
\* silence.
CleanPumpHalfInPlace ==
  Started /\ ~updatePump => DemandInPlace \/ RunningInPlace

\* The comment of modbus/mod.rs:306, "Clear dirty only after demand+GO/STOP got
\* an ACK": a clean pump has taken both halves.
CleanPumpInPlace == Started /\ ~updatePump => PumpInPlace

\* What a restart would load is what is commanded, or is about to be
\* committed: state.rs:101, "Commanded settings that survive reboot".  No
\* command is acted on before it is on disk, none on disk is dropped.
CommandsSurvive ==
  mqtt # "down" /\ ~unread =>
    \/ commanded \in Loads(disk)
    \/ mqtt = "commit" /\ draft.commanded \in Loads(disk)

\* When commands and faults have ceased, the relays come to rest as
\* commanded, and clean: whatever was lost, refused or half written, and
\* whenever the process died.
RelaysSettle == <>[](~updateRelays /\ coils = commanded.relays)

\* The pump comes to rest as commanded, and clean, even after a run that
\* was acknowledged by halves: the poll refreshes a running pump and stops
\* one that should be off.
PumpSettles == <>[](~updatePump /\ PumpInPlace)

\* No wake-up is lost: while no frame has failed, something dirty never waits
\* for a ticker.  A bus task at rest has the permit, or is about to be given
\* it, though one permit stands for any number of commands and may be taken
\* before the flags of the next one are raised.
NoWakeLost ==
  bus = "idle" /\ (updateRelays \/ updatePump) /\ faults = 0 =>
    busPermit \/ mqtt = "notify"

\* The relays keep the promise of RelayRegister: what the Modbus task calls
\* clean is claimed, and the coils are driven only without that claim.
Register == INSTANCE RelayRegister
              WITH wanted <- commanded.relays, field <- coils,
                   settled <- Started /\ ~updateRelays
ImplementsRegister == Register!Spec

=============================================================================
