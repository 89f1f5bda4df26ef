-------------------------- MODULE DeliveryContract --------------------------
(***************************************************************************)
(* What posting promises about messages, whoever does the work: a message  *)
(* reaches the group only after it was stored, its row says SENT only after*)
(* it reached the group, and neither the row nor a copy in the group is    *)
(* ever taken back. A row may stop saying SENT.                            *)
(***************************************************************************)
CONSTANT Messages

VARIABLES stored,   \* messages that have a row
          shown,    \* messages the group has received
          said      \* messages whose row says SENT

vars == <<stored, shown, said>>

Init == stored = {} /\ shown = {} /\ said = {}

Store(m) == /\ stored' = stored \cup {m}
            /\ UNCHANGED <<shown, said>>

Show(m) == /\ m \in stored
           /\ shown' = shown \cup {m}
           /\ UNCHANGED <<stored, said>>

\* The row of a message that was shown says so, or no longer does.
Say(m) == /\ m \in shown
          /\ said' \in {said \cup {m}, said \ {m}}
          /\ UNCHANGED <<stored, shown>>

Next == \E m \in Messages : Store(m) \/ Show(m) \/ Say(m)

Spec == Init /\ [][Next]_vars
=============================================================================
