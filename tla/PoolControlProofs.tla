------------------------- MODULE PoolControlProofs --------------------------
(***************************************************************************)
(* Theorems about PoolControl for every number of channels, every set of   *)
(* commands and any number of commands and faults.                         *)
(*                                                                         *)
(* Four inductive invariants, one for each promise: a relay run that       *)
(* writes keeps the flag raised until what it measured is what is          *)
(* commanded (RelayInv); a pump run works for the commanded speed or the   *)
(* pump is dirty (PumpInv); the file is one step ahead of memory or level  *)
(* with it (FileInv); what is dirty without a wake-up is in the hands of   *)
(* the run under way (WakeInv).                                            *)
(***************************************************************************)
EXTENDS PoolControl, NumberProofs

-----------------------------------------------------------------------------
(* Types.                                                                  *)

\* The demand word of any speed of the state is a word.
LEMMA DemandType ==
  ASSUME NEW s \in Word
  PROVE  /\ Lesser(s, EffectiveMax(SpdMax)) \in Word
         /\ PumpDemand(s) \in Word
  <1>1. SpdMax \in Word /\ EffectiveMax(SpdMax) \in Word
    BY ConstantsAssumption, EffectiveMaxType
  <1>2. Lesser(s, EffectiveMax(SpdMax)) \in Word
    BY <1>1 DEF Lesser
  <1> QED
    BY <1>1, <1>2, DemandRange DEF PumpDemand

LEMMA ZeroIsWord == 0 \in Word
  BY WordWidth DEF Word

LEMMA DefaultTypes ==
  Default \in CommandedState /\ NoDraft \in DraftType /\ NoSnap \in SnapType
  BY ZeroIsWord, ConstantsAssumption
     DEF Default, NoDraft, NoSnap, CommandedState, DraftType, SnapType

\* A command leaves a well typed draft, whose commanded fields follow the
\* flags: nothing the hardware sees moves without its flag.
LEMMA ApplyCommandType ==
  ASSUME TypeOK, NEW c \in Commands
  PROVE  /\ ApplyCommand(c) \in DraftType
         /\ \/ ApplyCommand(c).commanded.relays = commanded.relays
            \/ ApplyCommand(c).updateRelays
         /\ \/ ApplyCommand(c).commanded.speed = commanded.speed
            \/ ApplyCommand(c).updatePump
         /\ ApplyCommand(c).commanded.speed \in {commanded.speed, EncodeSpd(c.spd, SpdMax)}
  <1>1. c \in CommandObject /\ SpdMax \in Word
    BY ConstantsAssumption
  <1>2. /\ c.spd \in Int /\ c.setting \in Int
        /\ c.on \in SUBSET Relays /\ c.off \in SUBSET Relays
    BY <1>1 DEF CommandObject
  <1>3. EncodeSpd(c.spd, SpdMax) \in Word
    BY <1>1, <1>2, EncodeRange
  <1>4. commanded \in CommandedState /\ updateRelays \in BOOLEAN /\ updatePump \in BOOLEAN
    BY DEF TypeOK
  <1> QED
    BY <1>2, <1>3, <1>4 DEF ApplyCommand, DraftType, CommandedState

LEMMA LoadsType ==
  ASSUME NEW f \in SUBSET CommandedState
  PROVE  Loads(f) \subseteq CommandedState
  <1>1. \A d \in f : d.speed \in Word /\ MigrateSpd(d.speed) \in Word
    BY MigrateRange DEF CommandedState
  <1>2. \A d \in f : [d EXCEPT !.speed = MigrateSpd(@)] \in CommandedState
    BY <1>1 DEF CommandedState
  <1> QED
    BY <1>2, DefaultTypes DEF Loads

\* A document whose speed is on the 0..35 scale is loaded as it stands.
LEMMA LoadsLevel ==
  ASSUME NEW d \in CommandedState, d.speed =< DefaultSpdMax
  PROVE  Loads({d}) = {d}
  <1>1. MigrateSpd(d.speed) = d.speed
    BY WordWidth DEF MigrateSpd, CommandedState, Word, DefaultSpdMax
  <1>2. [d EXCEPT !.speed = MigrateSpd(@)] = d
    BY <1>1 DEF CommandedState
  <1> QED
    BY <1>2 DEF Loads

LEMMA DefaultScale == Default.speed =< DefaultSpdMax
  BY DEF Default, DefaultSpdMax

\* What has been loaded is on that scale.
LEMMA LoadsScale ==
  ASSUME NEW f \in SUBSET CommandedState, NEW d \in Loads(f)
  PROVE  d \in CommandedState /\ d.speed =< DefaultSpdMax
  <1>1. d \in CommandedState
    BY LoadsType
  <1>2. CASE f = {}
    <2>1. Loads(f) = {Default}
      BY <1>2 DEF Loads
    <2>2. d = Default
      BY <2>1
    <2> QED
      BY <1>1, <2>2, DefaultScale
  <1>3. CASE f # {}
    <2>1. PICK e \in f : d = [e EXCEPT !.speed = MigrateSpd(@)]
      BY <1>3 DEF Loads
    <2>2. e.speed \in Word /\ d.speed = MigrateSpd(e.speed)
      BY <2>1 DEF CommandedState
    <2> QED
      BY <1>1, <2>2, MigrateRange DEF DefaultSpdMax
  <1> QED
    BY <1>2, <1>3

LEMMA TypeInit == Init => TypeOK
  <1> SUFFICES ASSUME Init PROVE TypeOK
    OBVIOUS
  <1>1. DemandFromSpd(SpdMax, SpdMax) \in Word
    BY DemandRange, ConstantsAssumption
  <1>2. pump \in [demand : Word, running : BOOLEAN]
    BY <1>1, ZeroIsWord DEF Init
  <1>3. channel \in Relays /\ received \in 0 .. MaxCommands /\ faults \in 0 .. MaxFaults
    BY ConstantsAssumption DEF Init, Relays
  <1> QED
    BY <1>2, <1>3, DefaultTypes DEF Init, TypeOK, Option, BusStates

\* A step charged for keeps the count of faults within its bound.
LEMMA ChargeType ==
  ASSUME faults \in 0 .. MaxFaults, NEW ok, Charge(ok)
  PROVE  faults' \in 0 .. MaxFaults
  BY ConstantsAssumption DEF Charge

\* Every step keeps the types.
LEMMA TypeStep == TypeOK /\ [Next]_vars => TypeOK'
  <1> SUFFICES ASSUME TypeOK, [Next]_vars PROVE TypeOK'
    OBVIOUS
  <1> USE DEF shared, file, client, run, field
  <1>1. ASSUME NEW c \in Commands, ReceiveCommand(c) PROVE TypeOK'
    <2>1. draft' \in DraftType
      BY <1>1, ApplyCommandType DEF ReceiveCommand
    <2>2. received' \in 0 .. MaxCommands
      BY <1>1, ConstantsAssumption DEF ReceiveCommand, TypeOK
    <2> QED
      BY <1>1, <2>1, <2>2 DEF ReceiveCommand, TypeOK, Option
  <1>2. CASE SaveDraft
    BY <1>2 DEF SaveDraft, TypeOK, Option, DraftType
  <1>3. CASE SaveFails
    <2>1. faults' \in 0 .. MaxFaults
      BY <1>3, ChargeType DEF SaveFails, TypeOK
    <2> QED
      BY <1>3, <2>1, DefaultTypes DEF SaveFails, TypeOK, Option
  <1>4. CASE CommitDraft
    BY <1>4 DEF CommitDraft, TypeOK, Option, DraftType
  <1>5. CASE NotifyBus
    BY <1>5, DefaultTypes DEF NotifyBus, TypeOK, Option, DraftType
  <1>6. CASE StartBus
    BY <1>6 DEF StartBus, TypeOK, Option, BusStates
  <1>7. CASE OpenPort
    BY <1>7 DEF OpenPort, BeginRun, TypeOK, Option, BusStates
  <1>8. CASE WakeBus
    BY <1>8 DEF WakeBus, BeginRun, TypeOK, Option, BusStates
  <1>9. CASE RelayTick \/ PumpTick
    <2>1. \E relayToo, pumpToo \in BOOLEAN : BeginRun(relayToo, pumpToo)
      BY <1>9 DEF RelayTick, PumpTick
    <2> QED
      BY <1>9, <2>1 DEF RelayTick, PumpTick, BeginRun, TypeOK, Option, BusStates
  <1>10. CASE TakeSnapshot
    <2>1. snap' \in SnapType
      BY <1>10 DEF TakeSnapshot, TypeOK, SnapType, CommandedState
    <2>2. bus' \in BusStates /\ channel' \in Relays
      BY <1>10, ConstantsAssumption DEF TakeSnapshot, PumpEntry, BusStates, Relays
    <2> QED
      BY <1>10, <2>1, <2>2 DEF TakeSnapshot, TypeOK, Option
  <1>11. CASE WriteCoil
    <2>1. bus' \in BusStates
      BY <1>11 DEF WriteCoil, AfterRelay, PumpEntry, BusStates, TypeOK
    <2>2. channel' \in Relays /\ coils' \in SUBSET Relays
      BY <1>11, ConstantsAssumption DEF WriteCoil, TypeOK, Relays
    <2>3. faults' \in 0 .. MaxFaults
      BY <1>11, ChargeType DEF WriteCoil, TypeOK
    <2> QED
      BY <1>11, <2>1, <2>2, <2>3 DEF WriteCoil, TypeOK, Option
  <1>12. CASE ReadCoils
    BY <1>12, ConstantsAssumption DEF ReadCoils, TypeOK, Option, BusStates, Relays
  <1>13. CASE ReadCoilsFails
    <2>1. faults' \in 0 .. MaxFaults
      BY <1>13, ChargeType DEF ReadCoilsFails, TypeOK
    <2>2. bus' \in BusStates
      BY <1>13 DEF ReadCoilsFails, AfterRelay, PumpEntry, BusStates
    <2> QED
      BY <1>13, <2>1, <2>2 DEF ReadCoilsFails, TypeOK, Option
  <1>14. CASE FinishRelays
    BY <1>14 DEF FinishRelays, AfterRelay, PumpEntry, TypeOK, Option, BusStates
  <1>15. CASE SetDemand \/ GoOrStop
    <2>1. Demand \in Word
      <3>1. snap.speed \in Word
        BY DEF TypeOK, SnapType
      <3> QED
        BY <3>1, DemandType DEF Demand, RunSpeed, PumpDemand
    <2>2. acked' \in BOOLEAN /\ faults' \in 0 .. MaxFaults
      BY <1>15, ChargeType DEF SetDemand, GoOrStop, PumpFrame, TypeOK
    <2>3. pump' \in [demand : Word, running : BOOLEAN]
      BY <1>15, <2>1 DEF SetDemand, GoOrStop, TypeOK
    <2> QED
      BY <1>15, <2>2, <2>3 DEF SetDemand, GoOrStop, TypeOK, Option, BusStates
  <1>16. CASE ReadStatus
    BY <1>16, ChargeType DEF ReadStatus, TypeOK, Option, BusStates
  <1>17. CASE FinishPump
    BY <1>17 DEF FinishPump, TypeOK, Option, BusStates
  <1>18. CASE Crash
    <2>1. faults' \in 0 .. MaxFaults
      BY <1>18, ChargeType DEF Crash, TypeOK
    <2>2. 1 \in Relays
      BY ConstantsAssumption DEF Relays
    <2> QED
      BY <1>18, <2>1, <2>2, DefaultTypes
         DEF Crash, Boot, FreshRun, TypeOK, Option, BusStates
  <1>19. CASE Restart
    <2>1. commanded' \in CommandedState
      BY <1>19, LoadsType DEF Restart, Boot, TypeOK, Option
    <2>2. faults' \in 0 .. MaxFaults
      BY <1>19, ChargeType DEF Restart, TypeOK
    <2>3. Option(disk', CommandedState)
      BY <1>19, <2>1 DEF Restart, Option, TypeOK
    <2> QED
      BY <1>19, <2>1, <2>2, <2>3 DEF Restart, Boot, TypeOK, Option, BusStates
  <1>20. CASE RestartUnread
    BY <1>20, DefaultTypes, ChargeType DEF RestartUnread, Boot, TypeOK, Option, BusStates
  <1>21. CASE UNCHANGED vars
    BY <1>21 DEF vars, TypeOK, Option
  <1> QED
    BY <1>1, <1>2, <1>3, <1>4, <1>5, <1>6, <1>7, <1>8, <1>9, <1>10, <1>11, <1>12,
       <1>13, <1>14, <1>15, <1>16, <1>17, <1>18, <1>19, <1>20, <1>21
       DEF Next, ServeClient, ServeBus

\* The variables keep their types, for any commands and any faults.
THEOREM TypeCorrect == Spec => []TypeOK
  BY TypeInit, TypeStep, PTL DEF Spec

-----------------------------------------------------------------------------
(* Inductive invariants.                                                   *)

\* A draft that moves what the hardware sees carries the flag for it.
DraftFlagged ==
  mqtt \in {"save", "commit"} =>
    /\ draft.commanded.relays = commanded.relays \/ draft.updateRelays
    /\ draft.commanded.speed = commanded.speed \/ draft.updatePump

\* Coils are written only under a raised flag, that stays raised until the
\* read back; and what was measured stays what the coils are.
RelayInv ==
  /\ CleanRelaysInPlace
  /\ CleanFeedbackTrue
  /\ bus = "coil" => snap.updateRelays
  /\ bus \in {"coil", "read", "relayDone"} /\ snap.updateRelays => updateRelays
  /\ bus = "relayDone" => measured = coils

\* A run works for the commanded speed, or the pump is dirty.
RunStates == {"coil", "read", "relayDone", "demand", "goStop", "status", "pumpDone"}
RunSpeedIsCurrent == bus \in RunStates => snap.speed = commanded.speed \/ updatePump

\* An acknowledgement counted stands for one half of the speed in place.
AckedHalfInPlace ==
  /\ bus \in {"coil", "read", "relayDone", "demand"} => ~acked
  /\ bus = "status" /\ ~DrivesPump(snap) => ~acked
  /\ bus \in {"goStop", "status", "pumpDone"} /\ acked =>
       pump.demand = Demand \/ pump.running = (Demand # 0)

PumpInv == CleanPumpHalfInPlace /\ RunSpeedIsCurrent /\ AckedHalfInPlace

\* The file is level with memory, or ahead by the draft about to be committed.
FileInv ==
  /\ CommandsSurvive
  /\ mqtt = "commit" => draft.commanded = commanded \/ draft.commanded \in Loads(disk)
  /\ mqtt = "save" /\ ~unread => commanded \in Loads(disk)
  /\ commanded.speed =< DefaultSpdMax
  /\ mqtt \in {"save", "commit"} => draft.commanded.speed =< DefaultSpdMax

\* The bus task, the crash and the restarts leave the draft and, while there
\* is one, the commanded state alone.
LEMMA DraftStep ==
  ASSUME TypeOK, DraftFlagged, [Next]_vars
  PROVE  DraftFlagged'
  <1> USE DEF shared, file, client, run, field, DraftFlagged
  <1>1. ASSUME NEW c \in Commands, ReceiveCommand(c) PROVE DraftFlagged'
    BY <1>1, ApplyCommandType DEF ReceiveCommand
  <1>2. CASE SaveDraft \/ SaveFails \/ CommitDraft \/ NotifyBus
    BY <1>2 DEF SaveDraft, SaveFails, CommitDraft, NotifyBus
  <1>3. CASE StartBus \/ OpenPort \/ WakeBus \/ RelayTick \/ PumpTick
    BY <1>3 DEF StartBus, OpenPort, WakeBus, RelayTick, PumpTick, BeginRun
  <1>4. CASE TakeSnapshot \/ WriteCoil \/ ReadCoils \/ ReadCoilsFails \/ FinishRelays
    BY <1>4 DEF TakeSnapshot, WriteCoil, ReadCoils, ReadCoilsFails, FinishRelays
  <1>5. CASE SetDemand \/ GoOrStop \/ ReadStatus \/ FinishPump
    BY <1>5 DEF SetDemand, GoOrStop, ReadStatus, FinishPump
  <1>6. CASE Crash \/ Restart \/ RestartUnread
    BY <1>6 DEF Crash, Restart, RestartUnread
  <1>7. CASE UNCHANGED vars
    BY <1>7 DEF vars
  <1> QED
    BY <1>1, <1>2, <1>3, <1>4, <1>5, <1>6, <1>7 DEF Next, ServeClient, ServeBus

\* A commit that moves the mask raises the flag (DraftFlagged), the writes
\* happen under it, and only a measured match of the mask that is commanded
\* by then clears it.
LEMMA RelayStep ==
  ASSUME TypeOK, DraftFlagged, RelayInv, [Next]_vars
  PROVE  RelayInv'
  <1> USE DEF shared, file, client, run, field, RelayInv, CleanRelaysInPlace, CleanFeedbackTrue, Started
  <1>1. ASSUME NEW c \in Commands, ReceiveCommand(c) PROVE RelayInv'
    BY <1>1 DEF ReceiveCommand
  <1>2. CASE SaveDraft \/ SaveFails \/ NotifyBus
    BY <1>2 DEF SaveDraft, SaveFails, NotifyBus
  <1>3. CASE CommitDraft
    <2>1. commanded'.relays = commanded.relays \/ updateRelays'
      BY <1>3 DEF CommitDraft, DraftFlagged
    <2>2. updateRelays => updateRelays'
      BY <1>3 DEF CommitDraft
    <2> QED
      BY <1>3, <2>1, <2>2 DEF CommitDraft
  <1>4. CASE StartBus \/ OpenPort \/ RelayTick \/ PumpTick
    BY <1>4 DEF StartBus, OpenPort, RelayTick, PumpTick, BeginRun
  <1>5. CASE WakeBus
    BY <1>5 DEF WakeBus, BeginRun
  <1>6. CASE TakeSnapshot
    BY <1>6 DEF TakeSnapshot, PumpEntry
  <1>7. CASE WriteCoil
    BY <1>7 DEF WriteCoil, AfterRelay, PumpEntry
  <1>8. CASE ReadCoils \/ ReadCoilsFails
    BY <1>8 DEF ReadCoils, ReadCoilsFails, AfterRelay, PumpEntry
  <1>9. CASE FinishRelays
    <2>1. bus' \notin {"coil", "read", "relayDone", "start", "down"}
      BY <1>9 DEF FinishRelays, AfterRelay, PumpEntry
    <2>2. ~updateRelays' => coils = commanded.relays
      BY <1>9 DEF FinishRelays
    <2> QED
      BY <1>9, <2>1, <2>2 DEF FinishRelays
  <1>10. CASE SetDemand \/ GoOrStop \/ ReadStatus \/ FinishPump
    BY <1>10 DEF SetDemand, GoOrStop, ReadStatus, FinishPump
  <1>11. CASE Crash \/ Restart \/ RestartUnread
    BY <1>11 DEF Crash, Restart, RestartUnread, Boot, FreshRun
  <1>12. CASE UNCHANGED vars
    BY <1>12 DEF vars
  <1> QED
    BY <1>1, <1>2, <1>3, <1>4, <1>5, <1>6, <1>7, <1>8, <1>9, <1>10, <1>11, <1>12
       DEF Next, ServeClient, ServeBus

\* Clean relays are relays in place, and their feedback is true, in every
\* instance of the controller.
THEOREM CleanRelaysTheorem == Spec => [](CleanRelaysInPlace /\ CleanFeedbackTrue)
  <1>1. Init => DraftFlagged /\ RelayInv
    BY DEF Init, DraftFlagged, RelayInv, CleanRelaysInPlace, CleanFeedbackTrue, Started
  <1>2. TypeOK /\ DraftFlagged /\ RelayInv /\ [Next]_vars => DraftFlagged' /\ RelayInv'
    BY DraftStep, RelayStep
  <1>3. RelayInv => CleanRelaysInPlace /\ CleanFeedbackTrue
    BY DEF RelayInv
  <1> QED
    BY <1>1, <1>2, <1>3, TypeCorrect, PTL DEF Spec

\* The feedback half of it on its own: what is published behind a clear flag
\* is what the coils are, never the mask of a run that was cut short.
THEOREM FeedbackTheorem == Spec => []CleanFeedbackTrue
  BY CleanRelaysTheorem, PTL

\* A run that is superseded by a commit leaves the pump dirty; one that is
\* not puts the commanded speed, and nothing else, on the pump.
LEMMA PumpStep ==
  ASSUME TypeOK, DraftFlagged, PumpInv, [Next]_vars
  PROVE  PumpInv'
  <1> USE DEF shared, file, client, run, field, PumpInv, CleanPumpHalfInPlace,
              RunSpeedIsCurrent, AckedHalfInPlace, Started, DemandInPlace, RunningInPlace,
              RunStates
  <1>0. Demand = PumpDemand(snap.speed)
    BY DEF Demand, RunSpeed, PumpDemand
  <1>idle. ASSUME UNCHANGED <<commanded, updatePump, bus, snap, acked, pump>>
           PROVE  PumpInv'
    <2>1. Demand' = Demand /\ DrivesPump(snap)' = DrivesPump(snap)
      BY <1>idle DEF Demand, RunSpeed, DrivesPump
    <2>2. CleanPumpHalfInPlace' /\ RunSpeedIsCurrent'
      BY <1>idle
    <2>3. AckedHalfInPlace'
      BY <1>idle, <2>1
    <2> QED
      BY <2>2, <2>3
  <1>1. ASSUME NEW c \in Commands, ReceiveCommand(c) PROVE PumpInv'
    BY <1>1, <1>idle DEF ReceiveCommand
  <1>2. CASE SaveDraft \/ SaveFails \/ NotifyBus
    BY <1>2, <1>idle DEF SaveDraft, SaveFails, NotifyBus
  <1>3. CASE CommitDraft
    <2>1. commanded'.speed = commanded.speed \/ updatePump'
      BY <1>3 DEF CommitDraft, DraftFlagged
    <2>2. updatePump => updatePump'
      BY <1>3 DEF CommitDraft
    <2> QED
      BY <1>3, <2>1, <2>2 DEF CommitDraft, Demand, RunSpeed, DrivesPump
  <1>4. CASE StartBus \/ OpenPort \/ WakeBus \/ RelayTick \/ PumpTick
    BY <1>4 DEF StartBus, OpenPort, WakeBus, RelayTick, PumpTick, BeginRun
  <1>5. CASE TakeSnapshot
    BY <1>5 DEF TakeSnapshot, PumpEntry
  <1>6. CASE WriteCoil \/ ReadCoils \/ ReadCoilsFails
    <2>1. bus \in {"coil", "read"} /\ UNCHANGED acked
      BY <1>6 DEF WriteCoil, ReadCoils, ReadCoilsFails
    <2>2. bus' \in {"coil", "read", "relayDone", "demand", "status", "idle"}
      BY <1>6 DEF WriteCoil, ReadCoils, ReadCoilsFails, AfterRelay, PumpEntry
    <2>3. ~acked /\ ~acked'
      BY <2>1
    <2> QED
      BY <1>6, <2>1, <2>2, <2>3 DEF WriteCoil, ReadCoils, ReadCoilsFails
  <1>7. CASE FinishRelays
    <2>1. ~acked /\ ~acked' /\ bus' \in {"demand", "status", "idle"}
      BY <1>7 DEF FinishRelays, AfterRelay, PumpEntry
    <2> QED
      BY <1>7, <2>1 DEF FinishRelays
  <1>8. CASE SetDemand
    <2>1. PICK delivered \in BOOLEAN, ack \in BOOLEAN :
            /\ ack => delivered
            /\ acked' = (acked \/ ack)
            /\ pump' = IF delivered THEN [pump EXCEPT !.demand = Demand] ELSE pump
      BY <1>8 DEF SetDemand, PumpFrame
    <2>2. /\ pump'.running = pump.running
          /\ pump'.demand \in {pump.demand, Demand}
          /\ ack => pump'.demand = Demand
      BY <2>1 DEF TypeOK
    <2>3. /\ ~acked
          /\ UNCHANGED <<commanded, updatePump, snap>>
          /\ bus = "demand" /\ bus' = "goStop"
      BY <1>8 DEF SetDemand
    <2>4. Demand' = Demand /\ Demand = PumpDemand(snap.speed)
      BY <2>3, <1>0 DEF Demand, RunSpeed
    <2> QED
      BY <2>1, <2>2, <2>3, <2>4
  <1>9. CASE GoOrStop
    <2>1. PICK delivered \in BOOLEAN, ack \in BOOLEAN :
            /\ ack => delivered
            /\ acked' = (acked \/ ack)
            /\ pump' = IF delivered THEN [pump EXCEPT !.running = Demand # 0] ELSE pump
      BY <1>9 DEF GoOrStop, PumpFrame
    <2>2. /\ pump'.demand = pump.demand
          /\ pump'.running = pump.running \/ pump'.running = (Demand # 0)
          /\ ack => pump'.running = (Demand # 0)
      BY <2>1 DEF TypeOK
    <2>3. /\ UNCHANGED <<commanded, updatePump, snap>>
          /\ bus = "goStop"
          /\ bus' \in {"status", "pumpDone"}
          /\ bus' = "status" => DrivesPump(snap)
      BY <1>9 DEF GoOrStop
    <2>4. /\ Demand' = Demand /\ Demand = PumpDemand(snap.speed)
          /\ DrivesPump(snap)' = DrivesPump(snap)
      BY <2>3, <1>0 DEF Demand, RunSpeed, DrivesPump
    <2>5. AckedHalfInPlace'
      BY <2>1, <2>2, <2>3, <2>4
    <2>6. CleanPumpHalfInPlace' /\ RunSpeedIsCurrent'
      BY <2>2, <2>3, <2>4
    <2> QED
      BY <2>5, <2>6
  <1>10. CASE ReadStatus
    BY <1>10 DEF ReadStatus, Demand, RunSpeed, DrivesPump
  <1>11. CASE FinishPump
    BY <1>0, <1>11 DEF FinishPump
  <1>12. CASE Crash \/ Restart \/ RestartUnread
    BY <1>12 DEF Crash, Restart, RestartUnread, Boot, FreshRun
  <1>13. CASE UNCHANGED vars
    BY <1>13, <1>idle DEF vars
  <1> QED
    BY <1>1, <1>2, <1>3, <1>4, <1>5, <1>6, <1>7, <1>8, <1>9, <1>10, <1>11, <1>12, <1>13
       DEF Next, ServeClient, ServeBus

\* A clean pump has taken one half of the commanded speed, in every instance.
THEOREM CleanPumpHalfTheorem == Spec => []CleanPumpHalfInPlace
  <1>1. Init => DraftFlagged /\ PumpInv
    BY DEF Init, DraftFlagged, PumpInv, CleanPumpHalfInPlace, Started,
           RunSpeedIsCurrent, AckedHalfInPlace, RunStates
  <1>2. TypeOK /\ DraftFlagged /\ PumpInv /\ [Next]_vars => DraftFlagged' /\ PumpInv'
    BY DraftStep, PumpStep
  <1>3. PumpInv => CleanPumpHalfInPlace
    BY DEF PumpInv
  <1> QED
    BY <1>1, <1>2, <1>3, TypeCorrect, PTL DEF Spec

\* A draft is saved before it is committed and committed only if it was
\* saved or moves nothing; with spd_max at most 35 what is saved is what a
\* restart loads.
LEMMA FileStep ==
  ASSUME SpdMax =< DefaultSpdMax, TypeOK, FileInv, [Next]_vars
  PROVE  FileInv'
  <1> USE DEF shared, file, client, run, field, FileInv, CommandsSurvive
  <1>1. ASSUME NEW c \in Commands, ReceiveCommand(c) PROVE FileInv'
    <2>1. c.spd \in Int /\ SpdMax \in Word
      BY ConstantsAssumption DEF CommandObject
    <2>2. EncodeSpd(c.spd, SpdMax) =< DefaultSpdMax
      <3>1. EncodeSpd(c.spd, SpdMax) \in 0 .. EffectiveMax(SpdMax)
        BY <2>1, EncodeRange
      <3>2. EffectiveMax(SpdMax) \in Word /\ EffectiveMax(SpdMax) =< DefaultSpdMax
        BY <2>1, EffectiveMaxType
      <3> QED
        BY <3>1, <3>2, WordWidth DEF Word, DefaultSpdMax
    <2>3. draft'.commanded.speed =< DefaultSpdMax
      BY <1>1, <2>2, ApplyCommandType DEF ReceiveCommand
    <2> QED
      BY <1>1, <2>3 DEF ReceiveCommand
  <1>2. CASE SaveDraft
    <2>1. draft.commanded \in CommandedState /\ draft.commanded.speed =< DefaultSpdMax
      BY <1>2 DEF SaveDraft, TypeOK, DraftType
    <2>2. Loads(disk') = {draft.commanded}
      BY <1>2, <2>1, LoadsLevel DEF SaveDraft
    <2> QED
      BY <1>2, <2>1, <2>2 DEF SaveDraft
  <1>3. CASE SaveFails
    BY <1>3 DEF SaveFails
  <1>4. CASE CommitDraft
    BY <1>4 DEF CommitDraft
  <1>5. CASE NotifyBus
    BY <1>5 DEF NotifyBus
  <1>6. CASE StartBus \/ OpenPort \/ WakeBus \/ RelayTick \/ PumpTick
    BY <1>6 DEF StartBus, OpenPort, WakeBus, RelayTick, PumpTick, BeginRun
  <1>7. CASE TakeSnapshot \/ WriteCoil \/ ReadCoils \/ ReadCoilsFails \/ FinishRelays
    BY <1>7 DEF TakeSnapshot, WriteCoil, ReadCoils, ReadCoilsFails, FinishRelays
  <1>8. CASE SetDemand \/ GoOrStop \/ ReadStatus \/ FinishPump
    BY <1>8 DEF SetDemand, GoOrStop, ReadStatus, FinishPump
  <1>9. CASE Crash \/ RestartUnread
    BY <1>9, DefaultScale DEF Crash, RestartUnread, Boot
  <1>10. CASE Restart
    <2>1. disk \in SUBSET CommandedState
      BY DEF TypeOK, Option
    <2>2. commanded' \in Loads(disk)
      BY <1>10 DEF Restart, Boot
    <2>3. commanded' \in CommandedState /\ commanded'.speed =< DefaultSpdMax
      BY <2>1, <2>2, LoadsScale
    <2>4. commanded' \in Loads(disk')
      <3>1. disk' = disk \/ disk' = {commanded'}
        BY <1>10 DEF Restart
      <3> QED
        BY <2>2, <2>3, <3>1, LoadsLevel
    <2> QED
      BY <1>10, <2>3, <2>4 DEF Restart
  <1>11. CASE UNCHANGED vars
    BY <1>11 DEF vars
  <1> QED
    BY <1>1, <1>2, <1>3, <1>4, <1>5, <1>6, <1>7, <1>8, <1>9, <1>10, <1>11
       DEF Next, ServeClient, ServeBus

\* With spd_max at most 35, a command that has been committed survives any
\* crash: the file holds it, or the one being committed.
THEOREM CommandsSurviveTheorem ==
  ASSUME SpdMax =< DefaultSpdMax
  PROVE  Spec => []CommandsSurvive
  <1>1. Init => FileInv
    BY DEF Init, FileInv, CommandsSurvive, Loads, Default, DefaultSpdMax
  <1>2. TypeOK /\ FileInv /\ [Next]_vars => FileInv'
    BY FileStep
  <1>3. FileInv => CommandsSurvive
    BY DEF FileInv
  <1> QED
    BY <1>1, <1>2, <1>3, TypeCorrect, PTL DEF Spec

-----------------------------------------------------------------------------
(* Wake-ups.                                                               *)

\* A wake-up for what is dirty is stored, or about to be.
Wakened ==
  \/ busPermit
  \/ /\ mqtt = "notify"
     /\ draft.updateRelays \/ draft.updatePump

\* While nothing has failed: what is dirty without a wake-up is what the run
\* under way took along when it began, or has in its snapshot, still current.
RelaysCovered ==
  \/ bus = "snapshot" /\ doRelay
  \/ /\ bus \in {"coil", "read", "relayDone"}
     /\ snap.updateRelays /\ snap.relays = commanded.relays

PumpCovered ==
  \/ bus = "snapshot" /\ doPump
  \/ /\ bus \in RunStates
     /\ bus \in {"coil", "read", "relayDone"} => doPump
     /\ snap.updatePump /\ snap.speed = commanded.speed

\* Without failures the coils written so far are as the snapshot says, and
\* every frame of the pump was acknowledged.
RunFaultless ==
  /\ bus = "coil" => \A c \in 1 .. channel - 1 : c \in coils <=> c \in snap.relays
  /\ bus \in {"read", "relayDone"} /\ snap.updateRelays => coils = snap.relays
  /\ bus = "relayDone" => measured = coils
  /\ bus \in {"goStop", "status", "pumpDone"} /\ DrivesPump(snap) => acked

WakeInv ==
  faults = 0 /\ bus \notin {"start", "down"} =>
    /\ RunFaultless
    /\ bus = "open" => Wakened
    /\ updateRelays => Wakened \/ RelaysCovered
    /\ updatePump => Wakened \/ PumpCovered

\* A failure once counted stays counted.
LEMMA Faultless ==
  ASSUME TypeOK, [Next]_vars, faults' = 0
  PROVE  faults = 0
  <1> USE DEF shared, file, client, run, field
  <1>0. faults \in Nat
    BY ConstantsAssumption DEF TypeOK
  <1>1. ASSUME NEW ok, Charge(ok) PROVE faults = 0
    BY <1>0, <1>1 DEF Charge
  <1>2. ASSUME NEW c \in Commands, ReceiveCommand(c) PROVE faults = 0
    BY <1>2 DEF ReceiveCommand
  <1>3. CASE SaveDraft \/ CommitDraft \/ NotifyBus \/ StartBus \/ FinishRelays \/ FinishPump
    BY <1>3 DEF SaveDraft, CommitDraft, NotifyBus, StartBus, FinishRelays, FinishPump
  <1>4. CASE OpenPort \/ WakeBus \/ RelayTick \/ PumpTick \/ TakeSnapshot \/ ReadCoils
    BY <1>4 DEF OpenPort, WakeBus, RelayTick, PumpTick, BeginRun, TakeSnapshot, ReadCoils
  <1>5. CASE SaveFails \/ ReadCoilsFails \/ Crash \/ RestartUnread
    BY <1>1, <1>5 DEF SaveFails, ReadCoilsFails, Crash, RestartUnread
  <1>6. CASE WriteCoil \/ SetDemand \/ GoOrStop \/ ReadStatus
    BY <1>1, <1>6 DEF WriteCoil, SetDemand, GoOrStop, ReadStatus, PumpFrame
  <1>7. CASE Restart
    BY <1>1, <1>7 DEF Restart
  <1>8. CASE UNCHANGED vars
    BY <1>8 DEF vars
  <1> QED
    BY <1>2, <1>3, <1>4, <1>5, <1>6, <1>7, <1>8 DEF Next, ServeClient, ServeBus

\* A commit that makes something dirty, or moves what a run works for, is
\* followed by a wake-up; a wake-up is consumed by a run that takes along all
\* that is dirty; a run without failures cleans what it covers.
LEMMA WakeStep ==
  ASSUME TypeOK, DraftFlagged, WakeInv, [Next]_vars
  PROVE  WakeInv'
  <1> SUFFICES ASSUME faults' = 0, bus' \notin {"start", "down"}
               PROVE  WakeInv'
    BY DEF WakeInv
  <1>0. faults = 0
    BY Faultless
  <1>a. ASSUME RunFaultless, UNCHANGED <<bus, channel, coils, snap, measured, acked>>
        PROVE  RunFaultless'
    BY <1>a DEF RunFaultless, DrivesPump
  <1>b. ASSUME bus' \notin {"coil", "read", "relayDone", "goStop", "status", "pumpDone"}
        PROVE  RunFaultless'
    BY <1>b DEF RunFaultless
  <1> USE <1>0 DEF shared, file, client, run, field, WakeInv, Wakened,
                   RelaysCovered, PumpCovered, RunStates
  <1>1. ASSUME NEW c \in Commands, ReceiveCommand(c) PROVE WakeInv'
    <2>1. /\ UNCHANGED <<bus, channel, coils, snap, measured, acked>>
          /\ UNCHANGED <<commanded, updateRelays, updatePump, busPermit, doRelay, doPump>>
          /\ mqtt = "idle"
      BY <1>1 DEF ReceiveCommand
    <2> QED
      BY <1>a, <2>1
  <1>2. CASE SaveDraft \/ NotifyBus
    <2>1. /\ UNCHANGED <<bus, channel, coils, snap, measured, acked>>
          /\ UNCHANGED <<commanded, updateRelays, updatePump, doRelay, doPump>>
      BY <1>2 DEF SaveDraft, NotifyBus
    <2>2. Wakened => Wakened'
      BY <1>2 DEF SaveDraft, NotifyBus, TypeOK
    <2> QED
      BY <1>a, <2>1, <2>2
  <1>3. CASE CommitDraft
    <2>1. CASE draft.updateRelays \/ draft.updatePump
      BY <1>3, <1>a, <2>1 DEF CommitDraft
    <2>2. CASE ~draft.updateRelays /\ ~draft.updatePump
      BY <1>3, <1>a, <2>2 DEF CommitDraft, DraftFlagged
    <2> QED
      BY <2>1, <2>2
  <1>4. CASE StartBus
    <2>1. bus' = "open" /\ Wakened'
      BY <1>4 DEF StartBus
    <2> QED
      BY <1>b, <2>1
  <1>5. CASE OpenPort \/ WakeBus \/ RelayTick \/ PumpTick
    BY <1>5, <1>a, <1>b DEF OpenPort, WakeBus, RelayTick, PumpTick, BeginRun
  <1>6. CASE TakeSnapshot
    <2>1. RunFaultless'
      <3>1. channel' = 1 /\ bus' \in {"coil", "read", "demand", "status"}
        BY <1>6 DEF TakeSnapshot, PumpEntry
      <3>2. bus' = "read" => ~snap'.updateRelays
        BY <1>6 DEF TakeSnapshot, PumpEntry
      <3>3. bus' = "status" => ~DrivesPump(snap')
        BY <1>6 DEF TakeSnapshot, PumpEntry
      <3> QED
        BY <3>1, <3>2, <3>3 DEF RunFaultless, DrivesPump
    <2>2. updatePump /\ ~Wakened => doPump /\ bus' \in RunStates
      BY <1>6 DEF TakeSnapshot, PumpEntry
    <2>3. updatePump' => Wakened' \/ PumpCovered'
      BY <1>6, <2>2 DEF TakeSnapshot
    <2>4. updateRelays' => Wakened' \/ RelaysCovered'
      BY <1>6 DEF TakeSnapshot
    <2> QED
      BY <1>6, <2>1, <2>3, <2>4 DEF TakeSnapshot, PumpEntry
  <1>7. CASE WriteCoil
    <2>1. PICK effect \in BOOLEAN, reply \in BOOLEAN :
            /\ Charge(effect /\ reply)
            /\ coils' = IF ~effect THEN coils
                        ELSE IF channel \in snap.relays THEN coils \cup {channel}
                        ELSE coils \ {channel}
            /\ \/ ~reply
               \/ reply /\ channel < NumRelays /\ channel' = channel + 1 /\ UNCHANGED bus
               \/ reply /\ channel = NumRelays /\ bus' = "read" /\ UNCHANGED channel
      BY <1>7 DEF WriteCoil
    <2>2. effect /\ reply
      BY <2>1 DEF Charge
    <2>3. /\ coils \subseteq Relays /\ snap.relays \subseteq Relays
          /\ channel \in 1 .. NumRelays /\ NumRelays \in Nat
      BY ConstantsAssumption DEF TypeOK, SnapType, Relays
    <2>4. \A c \in 1 .. channel : c \in coils' <=> c \in snap.relays
      BY <1>7, <2>1, <2>2, <2>3 DEF WriteCoil, RunFaultless
    <2>5. bus' = "read" => coils' = snap.relays
      BY <1>7, <2>1, <2>2, <2>3, <2>4 DEF WriteCoil, Relays
    <2>6. bus' = "coil" => channel' = channel + 1
      BY <1>7, <2>1, <2>2
    <2>7. RunFaultless'
      BY <1>7, <2>1, <2>2, <2>3, <2>4, <2>5, <2>6 DEF WriteCoil, RunFaultless
    <2> QED
      BY <1>7, <2>1, <2>2, <2>7 DEF WriteCoil
  <1>8. CASE ReadCoils
    BY <1>8 DEF ReadCoils, RunFaultless
  <1>9. CASE SaveFails \/ ReadCoilsFails \/ Crash \/ RestartUnread
    BY <1>9 DEF SaveFails, ReadCoilsFails, Crash, RestartUnread, Charge
  <1>10. CASE FinishRelays
    <2>1. bus' \in {"idle", "demand", "status"} /\ (bus' = "status" => ~DrivesPump(snap))
      BY <1>10 DEF FinishRelays, AfterRelay, PumpEntry
    <2>2. RunFaultless'
      BY <1>10, <2>1 DEF FinishRelays, RunFaultless, DrivesPump
    <2>3. updateRelays' => Wakened'
      BY <1>10 DEF FinishRelays, RunFaultless
    <2>4. doPump => bus' \in RunStates
      BY <1>10 DEF FinishRelays, AfterRelay, PumpEntry
    <2> QED
      BY <1>10, <2>1, <2>2, <2>3, <2>4 DEF FinishRelays
  <1>11. CASE SetDemand \/ GoOrStop
    <2>1. acked'
      BY <1>11 DEF SetDemand, GoOrStop, PumpFrame, Charge
    <2> QED
      BY <1>11, <2>1 DEF SetDemand, GoOrStop, RunFaultless, DrivesPump
  <1>12. CASE ReadStatus
    BY <1>12 DEF ReadStatus, RunFaultless, DrivesPump
  <1>13. CASE FinishPump
    BY <1>13 DEF FinishPump, RunFaultless, DrivesPump
  <1>14. CASE Restart
    BY <1>14 DEF Restart
  <1>15. CASE UNCHANGED vars
    BY <1>15, <1>a DEF vars
  <1> QED
    BY <1>1, <1>2, <1>3, <1>4, <1>5, <1>6, <1>7, <1>8, <1>9, <1>10, <1>11, <1>12,
       <1>13, <1>14, <1>15 DEF Next, ServeClient, ServeBus

\* While no frame has failed nothing dirty waits for a ticker, for any number
\* of commands.
THEOREM NoWakeLostTheorem == Spec => []NoWakeLost
  <1>1. Init => DraftFlagged /\ WakeInv
    BY DEF Init, DraftFlagged, WakeInv
  <1>2. TypeOK /\ DraftFlagged /\ WakeInv /\ [Next]_vars => DraftFlagged' /\ WakeInv'
    BY DraftStep, WakeStep
  <1>3. WakeInv => NoWakeLost
    BY DEF WakeInv, NoWakeLost, Wakened, RelaysCovered, PumpCovered, RunStates
  <1> QED
    BY <1>1, <1>2, <1>3, TypeCorrect, PTL DEF Spec

-----------------------------------------------------------------------------
(* The relays implement RelayRegister.                                     *)

\* The claim is made only by FinishRelays, withdrawn only by a commit, the
\* start or a crash, and the coils are driven only while it is withdrawn.
LEMMA RegisterStep ==
  ASSUME TypeOK, TypeOK', DraftFlagged, RelayInv, RelayInv', [Next]_vars
  PROVE  [Register!Next]_(Register!vars)
  <1> DEFINE settled == Started /\ ~updateRelays
  <1> USE DEF shared, file, client, run, field
  <1>0. /\ commanded'.relays \in SUBSET Relays
        /\ coils' \in SUBSET Relays
        /\ settled \in BOOLEAN /\ settled' \in BOOLEAN
    BY DEF TypeOK, CommandedState
  <1>1. CASE UNCHANGED coils /\ (settled' => settled /\ commanded'.relays = commanded.relays)
    <2>1. Register!Intend
      BY <1>0, <1>1 DEF Register!Intend
    <2> QED
      BY <2>1 DEF Register!Next
  <1>2. CASE WriteCoil
    <2>1. ~settled /\ ~settled' /\ UNCHANGED commanded
      BY <1>2 DEF WriteCoil, RelayInv
    <2>2. Register!Drive
      BY <1>0, <2>1 DEF Register!Drive
    <2> QED
      BY <2>2 DEF Register!Next
  <1>3. CASE FinishRelays
    <2>1. UNCHANGED <<coils, commanded>>
      BY <1>3 DEF FinishRelays
    <2>2. CASE settled'
      <3>1. coils = commanded.relays
        BY <2>1, <2>2 DEF RelayInv, CleanRelaysInPlace
      <3>2. Register!Claim
        BY <2>1, <2>2, <3>1 DEF Register!Claim
      <3> QED
        BY <3>2 DEF Register!Next
    <2>3. CASE ~settled'
      BY <1>1, <2>1, <2>3
    <2> QED
      BY <2>2, <2>3
  <1>4. ASSUME NEW c \in Commands, ReceiveCommand(c)
        PROVE  [Register!Next]_(Register!vars)
    BY <1>1, <1>4 DEF ReceiveCommand, Started
  <1>5. CASE SaveDraft \/ SaveFails \/ NotifyBus
    BY <1>1, <1>5 DEF SaveDraft, SaveFails, NotifyBus, Started
  <1>6. CASE CommitDraft
    <2>1. commanded'.relays = commanded.relays \/ updateRelays'
      BY <1>6 DEF CommitDraft, DraftFlagged
    <2> QED
      BY <1>1, <1>6, <2>1 DEF CommitDraft, Started
  <1>7. CASE StartBus \/ OpenPort \/ WakeBus \/ RelayTick \/ PumpTick
    BY <1>1, <1>7 DEF StartBus, OpenPort, WakeBus, RelayTick, PumpTick, BeginRun, Started
  <1>8. CASE TakeSnapshot \/ ReadCoils \/ ReadCoilsFails
    BY <1>1, <1>8 DEF TakeSnapshot, ReadCoils, ReadCoilsFails, Started
  <1>9. CASE SetDemand \/ GoOrStop \/ ReadStatus \/ FinishPump
    BY <1>1, <1>9 DEF SetDemand, GoOrStop, ReadStatus, FinishPump, Started
  <1>10. CASE Crash \/ Restart \/ RestartUnread
    BY <1>1, <1>10 DEF Crash, Restart, RestartUnread, Started
  <1>11. CASE UNCHANGED vars
    BY <1>1, <1>11 DEF vars, Started
  <1> QED
    BY <1>2, <1>3, <1>4, <1>5, <1>6, <1>7, <1>8, <1>9, <1>10, <1>11
       DEF Next, ServeClient, ServeBus

\* The relay side of the controller implements RelayRegister: no step of any
\* task, no lost frame and no crash breaks the promise.
THEOREM RegisterTheorem == Spec => ImplementsRegister
  <1>1. Init => Register!Init
    BY DEF Init, Register!Init, Started, Default
  <1>2. Init => DraftFlagged /\ RelayInv
    BY DEF Init, DraftFlagged, RelayInv, CleanRelaysInPlace, CleanFeedbackTrue, Started
  <1>3. TypeOK /\ DraftFlagged /\ RelayInv /\ [Next]_vars => DraftFlagged' /\ RelayInv'
    BY DraftStep, RelayStep
  <1>4. /\ TypeOK /\ TypeOK' /\ DraftFlagged /\ RelayInv /\ RelayInv' /\ [Next]_vars
        => [Register!Next]_(Register!vars)
    BY RegisterStep
  <1> QED
    BY <1>1, <1>2, <1>3, <1>4, TypeCorrect, PTL DEF Spec, ImplementsRegister, Register!Spec

=============================================================================
