--------------------------- MODULE MappingContract ---------------------------
(* What a group may rely on when it is mapped to a thread: it gets one     *)
(* thread, whose password never changes, and a password shown in the group *)
(* is the one that opens it.                                               *)
CONSTANTS Groups,     \* WhatsApp groups
          Passwords   \* what opens a thread

VARIABLES
    opens,  \* what opens the thread of a group: nothing while it has none
    told    \* the passwords shown in the group

contractVars == <<opens, told>>

Init ==
    /\ opens = [g \in Groups |-> {}]
    /\ told = [g \in Groups |-> {}]

MapGroup(g) ==
    /\ opens[g] = {}
    /\ \E p \in Passwords : opens' = [opens EXCEPT ![g] = {p}]
    /\ UNCHANGED told

Tell(g) ==
    /\ \E p \in opens[g] : told' = [told EXCEPT ![g] = @ \cup {p}]
    /\ UNCHANGED opens

Next == \E g \in Groups : MapGroup(g) \/ Tell(g)

Spec == Init /\ [][Next]_contractVars
=============================================================================
