------------------------------ MODULE Delivery ------------------------------
(***************************************************************************)
(* What the outbox promises, without saying how: a message is announced    *)
(* for its targets once, handed to the platform only while it is owed,     *)
(* called sent only if the platform took it, and never touched again once  *)
(* it is over.  Outbox is shown to implement this module.                  *)
(***************************************************************************)
EXTENDS Naturals

CONSTANTS Batches, Targets

VARIABLES
  fate,   \* of each batch and target: absent, owed, sent or exhausted
  taken   \* how often the platform took the message

Fates == {"absent", "owed", "sent", "exhausted"}

TypeOK ==
  /\ fate \in [Batches -> [Targets -> Fates]]
  /\ taken \in [Batches -> [Targets -> Nat]]

\* A first file may hold messages of an earlier version of the program.
Init ==
  /\ fate \in [Batches -> [Targets -> {"absent", "exhausted"}]]
  /\ taken = [b \in Batches |-> [t \in Targets |-> 0]]

\* New batches are announced, each whole and for the same targets.
Announce(B, T) ==
  /\ \A b \in B, t \in Targets : fate[b][t] = "absent"
  /\ fate' = [b \in Batches |-> [t \in Targets |->
                IF b \in B /\ t \in T THEN "owed" ELSE fate[b][t]]]
  /\ UNCHANGED taken

Accept(b, t) ==
  /\ fate[b][t] = "owed"
  /\ taken' = [taken EXCEPT ![b][t] = @ + 1]
  /\ UNCHANGED fate

Settle(b, t, end) ==
  /\ fate[b][t] = "owed"
  /\ end = "sent" => taken[b][t] > 0
  /\ fate' = [fate EXCEPT ![b][t] = end]
  /\ UNCHANGED taken

Next ==
  \/ \E B \in SUBSET Batches, T \in SUBSET Targets : Announce(B, T)
  \/ \E b \in Batches, t \in Targets :
       \/ Accept(b, t)
       \/ \E end \in {"sent", "exhausted"} : Settle(b, t, end)

Spec == Init /\ [][Next]_<<fate, taken>>

=============================================================================
