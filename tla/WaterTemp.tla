----------------------------- MODULE WaterTemp ------------------------------
(***************************************************************************)
(* The temperature task.  One sensor serves two hydraulic loops: the       *)
(* divert valve, relay r7, decides which one it is in.  After a change of  *)
(* loop the water at the sensor is not that of the new loop until it has   *)
(* circulated for settle_secs, so the new loop's reading is blanked and    *)
(* kept blank for that long.  The task sees the valve only when it polls,  *)
(* and reads the sensor for a while without the lock.                      *)
(*                                                                         *)
(* Abstractions.  A loop either has a reading or is null: valid is the set *)
(* of loops that have one.  Whether a changed reading is worth publishing  *)
(* at once (publish_delta_f) is a choice.  Time is counted in ticks, only  *)
(* as far as the settle time.                                              *)
(***************************************************************************)
EXTENDS Thermistor

CONSTANTS Settle,     \* settle_secs, in ticks
          MaxFlips    \* bound: changes of the valve, commanded or measured

ASSUME SettleAssumption == Settle \in Nat \ {0} /\ MaxFlips \in Nat

Loops == {"pool", "spa"}

VARIABLES
  asked,         \* the loop of commanded r7
  feedback,      \* the loop of measured r7: {} until the first coil read
  valid,         \* the loops with a reading: spa_temp, pool_temp
  settling,      \* water_temp_settling
  statusPermit,  \* the permit of status_notify
  tempOk,        \* health.temp_ok
  poll,          \* the task: idle, sampling, storing, failing, reporting
  samples,       \* of the blocking read, while it is stored
  active,        \* the loop this poll works for
  previousLoop,  \* the loop of the last poll: {} before the first
  settleLeft,    \* ticks to settle_deadline: {} for none
  faulted,
  publisher,     \* the MQTT task: idle, or woken and about to read
  shown,         \* what the last published status had readings for
  sinceChange,   \* history: ticks since ActiveLoop changed, up to Settle
  polled,        \* history: a poll has begun since then
  sinceSeen,     \* history: ticks since a poll saw a change, up to Settle
  flips          \* bound

env      == <<asked, feedback>>
readings == <<valid, settling>>
task     == <<active, previousLoop, settleLeft>>
reader   == <<poll, samples>>
status   == <<publisher, shown>>
history  == <<sinceChange, polled, sinceSeen>>
vars == <<env, readings, statusPermit, tempOk, reader, task, faulted, status, history, flips>>

Init ==
  /\ asked \in Loops /\ feedback = {}
  /\ valid = {} /\ settling = FALSE
  /\ statusPermit = FALSE /\ tempOk = FALSE
  /\ poll = "idle" /\ samples = <<>> /\ active \in Loops /\ previousLoop = {} /\ settleLeft = {}
  /\ faulted = FALSE
  /\ publisher = "idle" /\ shown = {}
  /\ sinceChange = 0 /\ polled = FALSE /\ sinceSeen = 0 /\ flips = 0

-----------------------------------------------------------------------------
\* Measured relay feedback when there is any, else the commanded relays.
ActiveLoop == IF feedback = {} THEN asked ELSE CHOOSE l \in feedback : TRUE

\* Fault: every hint is taken for Silent, as the one of set_rpm is.
HintSilent(immediate) == UNCHANGED statusPermit

\* A hint of Immediate stores a permit.  It is given right after the unlock,
\* here together with it: a status read in between is published once more.
Hint(immediate) == statusPermit' = (statusPermit \/ immediate)

\* The other tasks: a command moves r7, a coil read brings it back.
MoveValve ==
  /\ flips < MaxFlips /\ flips' = flips + 1
  /\ \/ asked' \in Loops \ {asked} /\ UNCHANGED feedback
     \/ \E l \in Loops : feedback' = {l} /\ UNCHANGED asked
  /\ sinceChange' = IF ActiveLoop' = ActiveLoop THEN sinceChange ELSE 0
  /\ polled' = (polled /\ ActiveLoop' = ActiveLoop)
  /\ UNCHANGED <<readings, statusPermit, tempOk, reader, task, faulted, status, sinceSeen>>

Later(t) == IF t < Settle THEN t + 1 ELSE t

Elapse ==
  /\ settleLeft' = {IF k > 0 THEN k - 1 ELSE 0 : k \in settleLeft}
  /\ sinceChange' = Later(sinceChange) /\ sinceSeen' = Later(sinceSeen)
  /\ UNCHANGED <<env, readings, statusPermit, tempOk, reader, active, previousLoop, faulted,
                 polled, status, flips>>

-----------------------------------------------------------------------------
(* poll_once.                                                              *)

\* The loop is another one than at the last poll.
LoopChanged == previousLoop # {ActiveLoop}

\* Fault: the deadline is armed at every poll that is settling, not on edges.
DeadlineRearming == IF LoopChanged \/ settling THEN {Settle} ELSE {}

\* Fault: a new settle time is added to what is left of the last one.
DeadlineExtending == IF LoopChanged THEN {Settle + k : k \in settleLeft \cup {0}} ELSE settleLeft

\* A change of loop starts the settle time afresh.
Deadline == IF LoopChanged THEN {Settle} ELSE settleLeft

\* Fault: a change of loop leaves the old reading.
BlankedNot == valid

\* on_active_loop_changed: the new loop loses its reading, the other keeps it.
Blanked == IF LoopChanged THEN valid \ {ActiveLoop} ELSE valid

\* Under the write lock: fix the loop of this poll; on an edge blank it and
\* start the settle time; end the settle time when it is over.
BeginPoll ==
  /\ poll = "idle"
  /\ poll' = "sampling"
  /\ active' = ActiveLoop /\ polled' = TRUE
  /\ previousLoop' = {ActiveLoop}
  /\ LET done == Deadline = {0}
     IN  /\ settleLeft' = IF done THEN {} ELSE Deadline
         /\ settling' = ((LoopChanged \/ settling) /\ ~done)
  /\ valid' = Blanked
  /\ sinceSeen' = IF LoopChanged THEN 0 ELSE sinceSeen
  /\ Hint(LoopChanged)
  /\ UNCHANGED <<env, tempOk, samples, faulted, status, sinceChange, flips>>

\* The blocking read, which shares nothing, delivers all its samples.  Their
\* average is a temperature, and the health says so, ...
SampleGood ==
  /\ poll = "sampling"
  /\ \E s \in Samples : HasTemperature(AverageRaw(s)) /\ samples' = s
  /\ poll' = "storing"
  /\ faulted' = FALSE /\ tempOk' = TRUE
  /\ UNCHANGED <<env, readings, statusPermit, task, status, history, flips>>

\* ... or it is none, ...
SampleRejected ==
  /\ poll = "sampling"
  /\ \E s \in Samples : ~HasTemperature(AverageRaw(s))
  /\ poll' = "failing"
  /\ UNCHANGED <<env, readings, statusPermit, tempOk, samples, task, faulted, status, history, flips>>

\* ... or the device does not open or take its set-up, a sample is not
\* delivered, or the blocking task dies.
SampleFails ==
  /\ poll = "sampling"
  /\ poll' = "failing"
  /\ UNCHANGED <<env, readings, statusPermit, tempOk, samples, task, faulted, status, history, flips>>

\* Fault: the sample goes to the loop that is active by now.
StoreSampleLate ==
  /\ poll = "storing"
  /\ poll' = "idle" /\ samples' = <<>>
  /\ LET done  == settleLeft = {0}
         store == ~settling \/ done
     IN  /\ settleLeft' = IF done THEN {} ELSE settleLeft
         /\ settling' = (settling /\ ~done)
         /\ valid' = IF store THEN valid \cup {ActiveLoop} ELSE valid
         /\ \E moved \in BOOLEAN : Hint(store /\ (ActiveLoop \in valid => moved))
  /\ UNCHANGED <<env, tempOk, active, previousLoop, faulted, status, history, flips>>

\* Under the write lock: settled by now?  Then the sample becomes the
\* reading of the loop the poll began with; a first reading is announced.
StoreSample ==
  /\ poll = "storing"
  /\ poll' = "idle" /\ samples' = <<>>
  /\ LET done  == settleLeft = {0}
         store == ~settling \/ done
     IN  /\ settleLeft' = IF done THEN {} ELSE settleLeft
         /\ settling' = (settling /\ ~done)
         /\ valid' = IF store THEN valid \cup {active} ELSE valid
         /\ \E moved \in BOOLEAN : Hint(store /\ (active \in valid => moved))
  /\ UNCHANGED <<env, tempOk, active, previousLoop, faulted, status, history, flips>>

\* Fault: a failed sample leaves the last good reading.
ClearReadingNot ==
  /\ poll = "failing"
  /\ poll' = "reporting"
  /\ faulted' = TRUE
  /\ UNCHANGED <<env, readings, statusPermit, tempOk, samples, task, status, history, flips>>

\* handle_fault: under the write lock the reading goes, ...
ClearReading ==
  /\ poll = "failing"
  /\ poll' = "reporting"
  /\ valid' = valid \ {active}
  /\ Hint(active \in valid)
  /\ faulted' = TRUE
  /\ UNCHANGED <<env, settling, tempOk, samples, task, status, history, flips>>

\* ... and then the health says so.
ReportFault ==
  /\ poll = "reporting"
  /\ poll' = "idle"
  /\ tempOk' = FALSE
  /\ UNCHANGED <<env, readings, statusPermit, samples, task, faulted, status, history, flips>>

-----------------------------------------------------------------------------
(* The MQTT task, connected, takes the permit, waits for more, and         *)
(* publishes.                                                              *)

WakePublisher ==
  /\ publisher = "idle" /\ statusPermit
  /\ statusPermit' = FALSE
  /\ publisher' = "woken"
  /\ UNCHANGED <<env, readings, tempOk, reader, task, faulted, shown, history, flips>>

PublishStatus ==
  /\ publisher = "woken"
  /\ publisher' = "idle"
  /\ shown' = valid
  /\ UNCHANGED <<env, readings, statusPermit, tempOk, reader, task, faulted, history, flips>>

-----------------------------------------------------------------------------
Next == \/ MoveValve \/ Elapse
        \/ BeginPoll \/ SampleGood \/ SampleRejected \/ SampleFails
        \/ StoreSample \/ ClearReading \/ ReportFault
        \/ WakePublisher \/ PublishStatus

Spec == Init /\ [][Next]_vars

\* The ticker fires, the blocking read returns, time passes, the publisher
\* runs; and a sensor that is read for ever answers now and then.
FairSpec == /\ Spec
            /\ WF_vars(BeginPoll) /\ WF_vars(SampleGood \/ SampleRejected \/ SampleFails)
            /\ WF_vars(StoreSample \/ ClearReading \/ ReportFault)
            /\ WF_vars(Elapse) /\ WF_vars(WakePublisher) /\ WF_vars(PublishStatus)
            /\ SF_vars(SampleGood)

-----------------------------------------------------------------------------
(* Properties.                                                             *)

\* The types of the variables; feedback, previousLoop and settleLeft are options.
TypeOK ==
  /\ asked \in Loops /\ feedback \in {{}, {"pool"}, {"spa"}}
  /\ valid \in SUBSET Loops /\ settling \in BOOLEAN
  /\ statusPermit \in BOOLEAN /\ tempOk \in BOOLEAN
  /\ poll \in {"idle", "sampling", "storing", "failing", "reporting"}
  /\ samples \in Samples \cup {<<>>}
  /\ active \in Loops /\ previousLoop \in {{}, {"pool"}, {"spa"}}
  /\ settleLeft \subseteq 0 .. Settle /\ \A j, k \in settleLeft : j = k
  /\ faulted \in BOOLEAN
  /\ publisher \in {"idle", "woken"} /\ shown \in SUBSET Loops
  /\ polled \in BOOLEAN /\ sinceChange \in 0 .. Settle /\ sinceSeen \in 0 .. Settle
  /\ flips \in 0 .. MaxFlips

\* The loop the sensor is known to be in has a reading only once its water
\* has circulated for the whole settle time: no sample, not even one whose
\* blocking read straddles the deadline or a second change, slips in before.
SettledLongEnough == \A l \in previousLoop : l \in valid => sinceSeen = Settle

\* A sensor in fault shows nothing for the loop it is in: what is displayed
\* is never the last good value of a sensor that has stopped answering.
FaultBlanks == faulted => previousLoop \cap valid = {}

\* deploy/README.md:229, "the other field keeps its last good value": a poll
\* changes only the loop that was active when it began.
OtherLoopKept ==
  [][\A l \in Loops : (l \in valid) # (l \in valid') => l = active']_vars

\* What becomes a reading lies within the converter's limits and between the
\* lowest and the highest of its samples, however many there are and however
\* near the limits of an i16.  (That one sample beyond the limits may hide in
\* a good average is so: only the average is checked.)
AverageOfSamples ==
  poll = "storing" =>
    LET raw == AverageRaw(samples)
    IN  /\ \E low, high \in DOMAIN samples : samples[low] =< raw /\ raw =< samples[high]
        /\ raw \in (RawMin .. RawMax) \cap (HottestRaw .. ColdestRaw)

\* Which loops have a reading is never published late for want of a wake-up:
\* with no permit pending and the publisher at rest, the last status shows
\* exactly the loops that have one.
ValidityShown == ~statusPermit /\ publisher = "idle" => shown = valid

\* A valve at rest and a sensor that answers give a reading again and again.
ReadingReturns == []<>(ActiveLoop \in valid)

\* deploy/README.md:229, "After an r7 change, the active field stays JSON null
\* for [temp].settle_secs": for that long after the loop changed, it has no
\* reading, once the task has polled since.
NullAfterChange == polled /\ sinceChange < Settle => ActiveLoop \notin valid

=============================================================================
