-------------------------- MODULE SupervisorProofs --------------------------
(***************************************************************************)
(* For every set of tasks and any number of panics: the process ends over  *)
(* no running task.  The reason is in the JoinSet: a task leaves it only   *)
(* when it is over, and a task that is over never runs again.              *)
(***************************************************************************)
EXTENDS Supervisor, TLAPS

\* What is running is in the JoinSet; before the start nothing runs, and at
\* the end the JoinSet is empty.
JoinInv ==
  /\ DOMAIN tasks = Tasks
  /\ Running \subseteq set
  /\ main \in {"load", "refused"} => Running = {}
  /\ main = "returned" => set = {}

\* What Spawn starts is what it puts into the JoinSet.
LEMMA SpawnStep ==
  ASSUME NEW enabled, Spawn(enabled)
  PROVE  JoinInv'
BY DEF Spawn, JoinInv, Running, Tasks

\* A task that ends leaves fewer running and the JoinSet as it is.
LEMMA EndStep ==
  ASSUME JoinInv, NEW t, NEW how \in {"returned", "panicked"}, Ends(t, how),
         UNCHANGED <<set, main>>
  PROVE  JoinInv'
BY DEF Ends, JoinInv, Running

\* Joining takes a task that is not running out of the JoinSet.
LEMMA JoinStep ==
  ASSUME JoinInv, NEW t, Join(t), UNCHANGED tasks, main \in {"select", "drain"},
         main' \in {"select", "drain"}
  PROVE  JoinInv'
BY DEF Join, JoinInv, Running

\* The process does not exit over a task that still runs.
THEOREM NoneLeftBehindTheorem == Spec => []NoneLeftBehind
  <1>1. Init => JoinInv
    BY DEF Init, JoinInv, Running
  <1>2. JoinInv /\ [Next]_vars => JoinInv'
    <2> SUFFICES ASSUME JoinInv, [Next]_vars PROVE JoinInv'
      OBVIOUS
    <2>1. CASE StartConfigured \/ StartDefault
      BY <2>1, SpawnStep DEF StartConfigured, StartDefault
    <2>2. CASE Refuse
      BY <2>2 DEF Refuse, JoinInv, Running
    <2>3. CASE Terminate
      BY <2>3 DEF Terminate, JoinInv, Running
    <2>4. CASE SignalTask
      BY <2>4, EndStep DEF SignalTask
    <2>5. CASE \E t \in Watchers : Stop(t)
      BY <2>5, EndStep DEF Stop
    <2>6. CASE \E t \in Watchers : Panic(t)
      BY <2>6, EndStep DEF Panic
    <2>7. CASE \E t \in Dashboard : GiveUp(t) \/ ListenerFails(t)
      BY <2>7, EndStep DEF GiveUp, ListenerFails
    <2>8. CASE \E t \in Dashboard : Serve(t)
      BY <2>8 DEF Serve, JoinInv, Running
    <2>9. CASE SeeShutdown
      BY <2>9 DEF SeeShutdown, JoinInv, Running
    <2>10. CASE JoinOne
      BY <2>10, JoinStep DEF JoinOne
    <2>11. CASE Drain
      BY <2>11, JoinStep DEF Drain
    <2>12. CASE Return
      BY <2>12 DEF Return, JoinInv, Running
    <2>13. CASE UNCHANGED vars
      BY <2>13 DEF vars, JoinInv, Running
    <2> QED
      BY <2>1, <2>2, <2>3, <2>4, <2>5, <2>6, <2>7, <2>8, <2>9, <2>10, <2>11, <2>12, <2>13
      DEF Next, Start, Supervise
  <1>3. JoinInv => NoneLeftBehind
    BY DEF JoinInv, NoneLeftBehind
  <1> QED
    BY <1>1, <1>2, <1>3, PTL DEF Spec

=============================================================================
