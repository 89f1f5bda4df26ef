--------------------------- MODULE ThreadRegister ---------------------------
(***************************************************************************)
(* What the thread row and its Redis copies promise together, and nothing  *)
(* about how: the row has a current revision, some older revisions may     *)
(* still be handed to readers, a revision that nobody can be handed any    *)
(* more never comes back, and only a commit brings a new one.              *)
(***************************************************************************)
EXTENDS Naturals

VARIABLES cur,    \* the revision of the row in Postgres (0: no row yet)
          live    \* the revisions a reader may be handed, now or later

vars == <<cur, live>>

Init == cur = 0 /\ live = {0}

\* An update of the row commits: its revision is handed out from now on.
Commit == /\ cur' = cur + 1
          /\ live' \in SUBSET (live \cup {cur'})
          /\ cur' \in live'

\* Copies expire, are deleted or are dropped by the request that held them.
Forget == /\ UNCHANGED cur
          /\ live' \in SUBSET live
          /\ cur \in live'

Next == Commit \/ Forget

Spec == Init /\ [][Next]_vars
=============================================================================
