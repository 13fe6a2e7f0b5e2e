------------------------------ MODULE LogRing -------------------------------
(***************************************************************************)
(* The ring of recent log lines: the tracing layer pushes, the dashboard   *)
(* takes snapshots, the start of the program sets the capacity.            *)
(*                                                                         *)
(* Abstractions.  A line is its number: the lines logged are 1, 2, 3, ...  *)
(***************************************************************************)
EXTENDS Naturals, Sequences

CONSTANTS FirstCapacity,   \* of the ring that logs until the configuration is read
          MaxLogged        \* bound: lines logged

ASSUME LogAssumption == FirstCapacity \in Nat /\ MaxLogged \in Nat

VARIABLES lines, capacity,
          logged           \* history: how many lines there have been

ring == <<lines, capacity, logged>>

AtLeastOne(n) == IF n = 0 THEN 1 ELSE n

RingInit == lines = <<>> /\ capacity = AtLeastOne(FirstCapacity) /\ logged = 0

\* The last n of the lines.
LastLines(n) == SubSeq(lines, Len(lines) - n + 1, Len(lines))

\* Fault: the lines that do not fit are left for the pushes to drop.
SetCapacityLazily(n) == capacity' = AtLeastOne(n) /\ UNCHANGED <<lines, logged>>

SetCapacity(n) ==
  /\ capacity' = AtLeastOne(n)
  /\ lines' = IF Len(lines) > AtLeastOne(n) THEN LastLines(AtLeastOne(n)) ELSE lines
  /\ UNCHANGED logged

\* One line out, if the ring is full, and one in.
Push ==
  /\ logged < MaxLogged /\ logged' = logged + 1
  /\ lines' = Append(IF Len(lines) >= capacity THEN Tail(lines) ELSE lines, logged + 1)
  /\ UNCHANGED capacity

\* Fault: the limit is taken from the front.
SnapshotOldest(limit) ==
  SubSeq(lines, 1,
         IF \E l \in limit : l < Len(lines) THEN CHOOSE l \in limit : TRUE ELSE Len(lines))

\* limit is an option: {} asks for all there are.
Snapshot(limit) ==
  LastLines(IF \E l \in limit : l < Len(lines) THEN CHOOSE l \in limit : TRUE ELSE Len(lines))

-----------------------------------------------------------------------------
(* Properties.                                                             *)

RingType == /\ lines \in Seq(Nat) /\ capacity \in Nat \ {0}
            /\ logged \in 0 .. MaxLogged

\* The ring never holds more than it may, and what it holds are the newest
\* lines in their order, none left out, whichever capacity they came in under.
NewestLines ==
  /\ Len(lines) =< capacity
  /\ \A i \in 1 .. Len(lines) : lines[i] = logged - Len(lines) + i

=============================================================================
