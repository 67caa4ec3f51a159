------------------------------ MODULE Register ------------------------------
(***************************************************************************)
(* A register that survives crashes: a write that returns has taken        *)
(* effect, one that raises or is cut short has or has not, and a read      *)
(* returns the value.  This is what the rest of the program takes the      *)
(* state file for; StateStore is shown to implement it.                    *)
(***************************************************************************)
EXTENDS Integers

CONSTANTS Idle   \* no write is under way

VARIABLES
  value,   \* what a read returns
  asked    \* the value being written, or Idle

Init == value \in Int /\ asked = Idle

Ask == asked = Idle /\ asked' \in Int \ {Idle} /\ UNCHANGED value

Apply == asked # Idle /\ value' = asked /\ UNCHANGED asked

Return == asked = value /\ asked' = Idle /\ UNCHANGED value

GiveUp == asked # Idle /\ asked' = Idle /\ UNCHANGED value

Next == Ask \/ Apply \/ Return \/ GiveUp

Spec == Init /\ [][Next]_<<value, asked>>

=============================================================================
