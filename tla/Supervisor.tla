----------------------------- MODULE Supervisor -----------------------------
(***************************************************************************)
(* main and App::run: the configuration decides which background tasks     *)
(* there are; they go into one JoinSet; a loop supervises them, and joins  *)
(* them after a shutdown has been broadcast.                               *)
(*                                                                         *)
(* Abstractions.  A task is absent, starts, runs, has returned or has      *)
(* panicked; what it does is in the other modules.  The command channel is *)
(* left out: its sender is kept and never used.  The signal handlers are   *)
(* in place as soon as the tasks are spawned.                              *)
(***************************************************************************)
EXTENDS Naturals, FiniteSets

CONSTANTS Watchers,   \* the tasks that stop when shutdown is broadcast
          Always,     \* those of them no configuration leaves out
          Default,    \* those of them the built-in defaults enable
          Dashboard,  \* those of them that have a start-up, and may give up (http)
          Signal,     \* signal_task
          MaxPanics   \* bound

ASSUME TasksAssumption == /\ Always \subseteq Default /\ Default \subseteq Watchers
                          /\ Dashboard \subseteq Watchers /\ Signal \notin Watchers

Tasks == Watchers \cup {Signal}

VARIABLES
  tasks,      \* absent, starting, running, returned or panicked
  set,        \* the JoinSet: the tasks not joined yet
  shutdown,   \* the watch channel
  main,       \* load, select, drain; returned or refused: the process exits with 0 or 1
  file,       \* the configuration file: good, absent or broken
  installed,  \* the signal handlers could be installed
  signalled   \* the system has asked the process to terminate

env  == <<file, installed, signalled>>
vars == <<tasks, set, shutdown, main, env>>

Init ==
  /\ tasks = [t \in Tasks |-> "absent"] /\ set = {}
  /\ shutdown = FALSE /\ main = "load"
  /\ file \in {"good", "absent", "broken"}
  /\ installed \in BOOLEAN /\ signalled = FALSE

Running  == {t \in Tasks : tasks[t] \in {"starting", "running"}}
Panicked == {t \in Tasks : tasks[t] = "panicked"}

Ends(t, how) == t \in Running /\ tasks' = [tasks EXCEPT ![t] = how]

-----------------------------------------------------------------------------
(* main.                                                                   *)

Spawn(enabled) ==
  /\ tasks' = [t \in Tasks |-> IF t \in enabled \cap Dashboard THEN "starting"
                              ELSE IF t \in enabled \cup {Signal} THEN "running" ELSE "absent"]
  /\ set' = enabled \cup {Signal}
  /\ main' = "select"
  /\ UNCHANGED <<shutdown, env>>

\* Any tasks may be configured away, MQTT by an empty host.
StartConfigured ==
  /\ main = "load" /\ file = "good"
  /\ \E chosen \in SUBSET (Watchers \ Always) : Spawn(Always \cup chosen)

\* Only a missing file stands for the defaults.
StartDefault ==
  /\ main = "load" /\ file = "absent"
  /\ Spawn(Default)

\* One that cannot be read or parsed ends the process with status 1.
Refuse ==
  /\ main = "load" /\ file = "broken"
  /\ main' = "refused"
  /\ UNCHANGED <<tasks, set, shutdown, env>>

-----------------------------------------------------------------------------
(* The tasks.                                                              *)

\* The system sends SIGTERM or SIGINT.
Terminate ==
  /\ ~signalled /\ installed /\ main \in {"select", "drain"}
  /\ signalled' = TRUE
  /\ UNCHANGED <<tasks, set, shutdown, main, file, installed>>

\* Fault: the task returns and tells nobody.
SignalTaskMute ==
  /\ signalled \/ ~installed
  /\ Ends(Signal, "returned")
  /\ UNCHANGED <<set, shutdown, main, env>>

\* signal_task: a signal, or no handlers, broadcasts shutdown.  It waits for
\* signals only; it does not watch the channel it sends on.
SignalTask ==
  /\ signalled \/ ~installed
  /\ Ends(Signal, "returned")
  /\ shutdown' = TRUE
  /\ UNCHANGED <<set, main, env>>

\* The shutdown branch of a task's select!.  Its receiver is older than the
\* task, so a broadcast from before the select! is seen there, too.
Stop(t) ==
  /\ shutdown /\ tasks[t] = "running" /\ Ends(t, "returned")
  /\ UNCHANGED <<set, shutdown, main, env>>

\* The dashboard has its credentials, its certificate and its addresses, ...
Serve(t) ==
  /\ tasks[t] = "starting"
  /\ tasks' = [tasks EXCEPT ![t] = "running"]
  /\ UNCHANGED <<set, shutdown, main, env>>

\* ... or gives up for want of one.
GiveUp(t) ==
  /\ tasks[t] = "starting" /\ Ends(t, "returned")
  /\ UNCHANGED <<set, shutdown, main, env>>

\* One of its two listeners fails, and takes the other with it.
ListenerFails(t) ==
  /\ tasks[t] = "running" /\ Ends(t, "returned")
  /\ UNCHANGED <<set, shutdown, main, env>>

Panic(t) ==
  /\ Cardinality(Panicked) < MaxPanics /\ Ends(t, "panicked")
  /\ UNCHANGED <<set, shutdown, main, env>>

-----------------------------------------------------------------------------
(* App::run.                                                               *)

Join(t) == t \in set \ Running /\ set' = set \ {t}

\* The first branch of the biased select!.
SeeShutdown ==
  /\ main = "select" /\ shutdown
  /\ main' = "drain"
  /\ UNCHANGED <<tasks, set, shutdown, env>>

\* A task that returned is forgotten; one that panicked ends the loop.
JoinOne ==
  /\ main = "select" /\ ~shutdown
  /\ \E t \in Tasks :
       /\ Join(t)
       /\ shutdown' = (t \in Panicked)
       /\ main' = IF t \in Panicked THEN "drain" ELSE "select"
  /\ UNCHANGED <<tasks, env>>

\* After the loop every task is joined, whatever its outcome.
Drain ==
  /\ main = "drain" /\ \E t \in Tasks : Join(t)
  /\ UNCHANGED <<tasks, shutdown, main, env>>

\* Fault: the tasks that fail are not waited for, nor are those behind them.
ReturnHasty ==
  /\ main = "drain" /\ (set = {} \/ set \cap Panicked # {})
  /\ main' = "returned"
  /\ UNCHANGED <<tasks, set, shutdown, env>>

\* Ok(()): the process exits with status 0.
Return ==
  /\ main = "drain" /\ set = {}
  /\ main' = "returned"
  /\ UNCHANGED <<tasks, set, shutdown, env>>

-----------------------------------------------------------------------------
Start     == StartConfigured \/ StartDefault \/ Refuse
Supervise == SeeShutdown \/ JoinOne \/ Drain \/ Return

Next == \/ Start \/ Terminate \/ SignalTask
        \/ \E t \in Watchers : Stop(t) \/ Panic(t)
        \/ \E t \in Dashboard : Serve(t) \/ GiveUp(t) \/ ListenerFails(t)
        \/ Supervise

Spec == Init /\ [][Next]_vars

\* Tasks and supervisor run on; nobody is obliged to signal, panic or give up.
FairSpec == /\ Spec
            /\ WF_vars(Start) /\ WF_vars(SignalTask) /\ WF_vars(Supervise)
            /\ \A t \in Watchers : WF_vars(Stop(t))
            /\ \A t \in Dashboard : WF_vars(Serve(t))

-----------------------------------------------------------------------------
(* Properties.                                                             *)

\* The process does not exit over a task that still drives the bus, writes
\* the file or says goodbye to the broker, however many of them failed.
NoneLeftBehind == main \in {"returned", "refused"} => Running = {}

\* app.rs:51, "Run until SIGINT/SIGTERM": a signal ends the run, whatever
\* panicked or gave up before or during the shutdown.
SignalEndsRun == signalled ~> main = "returned"

\* app.rs:1, "graceful shutdown", for the shutdown that the loop starts when a
\* task has failed; and deploy/rs-pool.service:11, "Restart=on-failure", which
\* waits for the process to end: a shutdown ends the run.
ShutdownEndsRun == shutdown ~> main = "returned"

=============================================================================
