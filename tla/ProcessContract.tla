--------------------------- MODULE ProcessContract ---------------------------
(* What the tasks may rely on in the process that runs them: what it could *)
(* set up when it started, it has until it is replaced, and what it could  *)
(* not, it never has. (MessageDelivery boots and recycles its workers like *)
(* this.)                                                                  *)
CONSTANTS Workers,   \* worker processes
          Outcomes   \* what a process can have set up

VARIABLE outcome     \* of each process, "starting" while it is not known

Init == outcome = [w \in Workers |-> "starting"]

Boot(w) ==
    /\ outcome[w] = "starting"
    /\ \E o \in Outcomes : outcome' = [outcome EXCEPT ![w] = o]

Replace(w) == outcome' = [outcome EXCEPT ![w] = "starting"]

Next == \E w \in Workers : Boot(w) \/ Replace(w)

Spec == Init /\ [][Next]_outcome
=============================================================================
