----------------------------- MODULE Dashboard ------------------------------
(***************************************************************************)
(* What the controller takes in and what it shows of itself: commands of   *)
(* any shape on the one side, the published status and the log lines of    *)
(* the dashboard on the other, while the Modbus task and the log go on.    *)
(*                                                                         *)
(* Abstractions.  The path from a command to the bus and the file is in    *)
(* PoolControl and DurableFile; here a command is taken in one step.       *)
(***************************************************************************)
EXTENDS Commands, LogRing

CONSTANTS Objects,      \* the command objects that may be sent
          Capacities,   \* log_buffer_lines
          Limits        \* the limits a reader of the log may give

ASSUME DashboardAssumption ==
  /\ \A obj \in Objects : \A key \in DOMAIN obj : obj[key] \in JsonValues
  /\ Capacities \subseteq Nat /\ Limits \subseteq Nat

VARIABLES state,        \* the PoolState
          configured    \* the capacity of the log is set

vars == <<state, configured, ring>>

\* A document that was stored by a controller of the same spd_max.
Init ==
  /\ RingInit
  /\ state \in [mode : {0}, speed : {0, EffectiveMax(SpdMax)}, spaTemp : {104}, poolTemp : {70},
                relays : {{}}, updatePump : {FALSE}, updateRelays : {FALSE}, relayStatus : {{}}]
  /\ configured = FALSE

\* handle_command: a command that is refused leaves everything alone.
Receive(obj) ==
  /\ configured
  /\ \E draft \in ApplyCommandJson(state, obj) : state' = draft.new
  /\ UNCHANGED <<configured, ring>>

\* A run of the Modbus task: feedback, and flags that go clear or do not.
Service ==
  /\ configured
  /\ \E mask \in SUBSET Relays, pump, relays \in BOOLEAN :
       state' = [state EXCEPT !.relayStatus = {mask},
                              !.updatePump = @ /\ pump,
                              !.updateRelays = @ /\ relays]
  /\ UNCHANGED <<configured, ring>>

\* main: what is logged before the configuration is read comes first.
Configure ==
  /\ ~configured /\ configured' = TRUE
  /\ \E n \in Capacities : SetCapacity(n)
  /\ UNCHANGED state

Log == Push /\ UNCHANGED <<state, configured>>

Next == (\E obj \in Objects : Receive(obj)) \/ Service \/ Configure \/ Log

Spec == Init /\ [][Next]_vars

-----------------------------------------------------------------------------
(* Properties.                                                             *)

\* The types of the variables; the speed stays on the scale, the numbers
\* within i32, whatever was sent.
TypeOK == RingType /\ configured \in BOOLEAN /\ state \in PoolStates

\* What a command object means, its keys taken together: it is refused when
\* one of its values is, else each key present overrides its field.
Refused(obj) == \/ \E key \in DOMAIN obj \cap NumberKeys : JsonAsI32(obj[key]) = {}
                \/ \E key \in DOMAIN obj \cap Relays : JsonAsBoolish(obj[key]) = {}

Given(obj, key, default) ==
  IF key \in DOMAIN obj THEN CHOOSE n \in JsonAsI32(obj[key]) : TRUE ELSE default

Meant(obj) ==
  LET on == {key \in DOMAIN obj \cap Relays : JsonAsBoolish(obj[key]) = {TRUE}}
      speed == IF "spd" \in DOMAIN obj THEN EncodeSpd(Given(obj, "spd", 0), SpdMax)
               ELSE state.speed
  IN  [state EXCEPT !.mode = Given(obj, "m", @), !.speed = speed,
                    !.spaTemp = Given(obj, "sst", @), !.poolTemp = Given(obj, "spt", @),
                    !.relays = (@ \ DOMAIN obj) \cup on,
                    !.updatePump = @ \/ speed # state.speed,
                    !.updateRelays = @ \/ DOMAIN obj \cap Relays # {}]

Commanded(s) == <<s.mode, s.speed, s.spaTemp, s.poolTemp, s.relays>>

Outcome(obj) ==
  IF Refused(obj) THEN {}
  ELSE {[new |-> Meant(obj), changed |-> Commanded(Meant(obj)) # Commanded(state)]}

\* A command is applied whole or not at all, though its keys are taken one
\* after the other and the first error returns; and it counts as a change,
\* which is saved and answered, exactly when a commanded field moves.
WholeOrNothing == \A obj \in Objects : ApplyCommandJson(state, obj) = Outcome(obj)

\* What PoolControl sees of all this: relay keys as channels, mode and the two
\* set temperatures as one setting.  What its ApplyCommand does not read is
\* left at some value.
Channels(keys) == {i \in DOMAIN RelayKeys : RelayKeys[i] \in keys}
CoreView(s) == [relays |-> Channels(s.relays), speed |-> s.speed,
                setting |-> <<s.mode, s.spaTemp, s.poolTemp>>]

Core == INSTANCE PoolControl WITH
  NumRelays <- Len(RelayKeys), DefaultSetting <- 0, Commands <- {},
  MaxCommands <- 0, MaxFaults <- 0,
  commanded <- CoreView(state), updateRelays <- state.updateRelays,
  updatePump <- state.updatePump, relayStatus <- {}, busPermit <- FALSE,
  disk <- {}, unread <- FALSE, mqtt <- "idle", draft <- {}, bus <- "idle",
  doRelay <- FALSE, doPump <- FALSE, snap <- {}, channel <- 1, attempt <- 1,
  measured <- {}, acked <- FALSE, coils <- {}, pump <- {}, received <- 0, faults <- 0

Switched(obj, on) == Channels({key \in DOMAIN obj \cap Relays : JsonAsBoolish(obj[key]) = {on}})

CoreCommand(obj) ==
  [keys    |-> {key \in {"spd"} : key \in DOMAIN obj}
               \cup {key \in {"setting"} : DOMAIN obj \cap {"m", "sst", "spt"} # {}},
   spd     |-> Given(obj, "spd", 0),
   setting |-> <<Given(obj, "m", state.mode), Given(obj, "sst", state.spaTemp),
                 Given(obj, "spt", state.poolTemp)>>,
   on      |-> Switched(obj, TRUE),
   off     |-> Switched(obj, FALSE)]

\* The command path of PoolControl stands for this one: the draft of a command
\* that is not refused, its flags, and whether it counts as a change and is
\* saved, are the ones PoolControl works with.
CoreAgrees ==
  \A obj \in Objects : \A draft \in ApplyCommandJson(state, obj) :
    LET core == Core!ApplyCommand(CoreCommand(obj))
    IN  /\ core.commanded    = CoreView(draft.new)
        /\ core.updateRelays = draft.new.updateRelays
        /\ core.updatePump   = draft.new.updatePump
        /\ draft.changed <=> core.commanded # CoreView(state)

\* A remote that sends back the settings it was shown changes nothing: no
\* speed creeps, nothing becomes dirty, nothing is saved or answered.
EchoNeutral ==
  LET echo == [key \in NumberKeys |-> StatusJson(state)[key]]
  IN  ApplyCommandJson(state, echo) = {[new |-> state, changed |-> FALSE]}

\* The dashboard's log shows the newest lines, up to the limit it asks for.
LogsNewest ==
  \A limit \in Limits :
    LET n == Lesser(limit, Len(lines))
    IN  Snapshot({limit}) = [i \in 1 .. n |-> logged - n + i]

=============================================================================
