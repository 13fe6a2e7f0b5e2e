------------------------------ MODULE RtuLink -------------------------------
(***************************************************************************)
(* The half-duplex RS485 link between the Modbus task and its two devices: *)
(* one request at a time, and answers that may come after the request that *)
(* wanted them has timed out.  A request clears the input buffer; what is  *)
(* then still on its way falls into the time of a later request.           *)
(*                                                                         *)
(* Abstractions.  An answer is its function code and what it carries; its  *)
(* age is the number of requests sent since its own.  The function codes   *)
(* of the two devices are disjoint, so that an address tells nothing more. *)
(* An exception, a missing ACK and a corrupt frame are answers lost.       *)
(***************************************************************************)
EXTENDS Naturals

CONSTANT MaxLate   \* how many requests late an answer of each device may be

ASSUME MaxLateAssumption == MaxLate \in [{"relay", "pump"} -> Nat]

VARIABLES inflight,   \* the answers on their way: a set, ages tell them apart
          input       \* the answers in the port's input buffer

link == <<inflight, input>>

Device(fc) == IF fc \in {"read", "write"} THEN "relay" ELSE "pump"

Answer(fc, value) == [fc |-> fc, value |-> value, age |-> 0]
Older(a) == [fc |-> a.fc, value |-> a.value, age |-> a.age + 1]

\* transact, its first half: clear the input, send.  An answer that would be
\* later than MaxLate has arrived by now.
Transmit(answers) ==
  /\ \A a \in inflight : a.age < MaxLate[Device(a.fc)]
  /\ input' = {}
  /\ inflight' = {Older(a) : a \in inflight} \cup answers

\* A device answers in the order it was asked.
Arrive ==
  /\ \E a \in inflight :
       /\ \A b \in inflight : Device(b.fc) = Device(a.fc) => b.age =< a.age
       /\ input' = input \cup {a}
       /\ inflight' = inflight \ {a}

\* Fault: the function code of an answer is not compared.
AcceptedAnyCode(fc) == {a \in input : input = {a}}

\* transact, its second half, and the check of the function code by the
\* parsers: what was read up to a gap is one frame, or its CRC is wrong.
\* Neither coil, value, page nor sensor id is compared.
Accepted(fc) == {a \in input : input = {a} /\ a.fc = fc}

=============================================================================
