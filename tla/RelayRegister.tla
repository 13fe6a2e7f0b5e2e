--------------------------- MODULE RelayRegister ----------------------------
(***************************************************************************)
(* What the controller promises about a bank of relays, with nothing about *)
(* how: there is an intention, there is the state of the field, and there  *)
(* is a claim that the field has reached the intention.  The claim is made *)
(* only while it is true, is withdrawn whenever the intention moves, and   *)
(* while it stands nobody touches the field.                               *)
(***************************************************************************)
CONSTANT Relays

VARIABLES wanted, field, settled

vars == <<wanted, field, settled>>

Init == /\ wanted \in SUBSET Relays
        /\ field \in SUBSET Relays
        /\ settled = FALSE

\* A new intention, or the old one repeated.  Moving it withdraws the claim.
Intend == /\ wanted' \in SUBSET Relays
          /\ settled' \in BOOLEAN
          /\ settled' => settled /\ wanted' = wanted
          /\ UNCHANGED field

\* Driving the relays, well or badly, is allowed only without the claim.
Drive == /\ ~settled
         /\ field' \in SUBSET Relays
         /\ UNCHANGED <<wanted, settled>>

Claim == /\ field = wanted
         /\ settled' = TRUE
         /\ UNCHANGED <<wanted, field>>

Next == Intend \/ Drive \/ Claim

Spec == Init /\ [][Next]_vars

=============================================================================
