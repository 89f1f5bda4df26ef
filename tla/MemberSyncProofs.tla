--------------------------- MODULE MemberSyncProofs ---------------------------
(***************************************************************************)
(* Theorems about MemberSync, for every group, number of tasks and bound.  *)
(***************************************************************************)
EXTENDS MemberSync, TLAPS

\* A task only knows users it was sent and whose row is committed; it marks
\* the list as changed once it has linked them.
KnownAreBacked ==
    \A s \in Syncs :
        /\ sync[s].known \subseteq sync[s].seen
        /\ sync[s].known \subseteq member
        /\ sync[s].pc = "new" => sync[s].seen = {}
        /\ Changed(s) => sync[s].pc \in {"touch", "answer", "invalidate", "done", "failed"}

IndInv == TypeOK /\ KnownAreBacked /\ LinksAreBacked /\ StaleListIsExplained

SyncIdle == [pc |-> "new", seen |-> {}, known |-> {}, list |-> "same"]

LEMMA IndInit == Init => IndInv
<1> SUFFICES ASSUME Init PROVE IndInv
  OBVIOUS
<1>1. SyncIdle \in SyncStates
  BY DEF SyncIdle, SyncStates
<1>2. sync = [s \in Syncs |-> SyncIdle]
  BY DEF Init, SyncIdle
<1>3. NoRead \in ReaderStates
  BY DEF NoRead, ReaderStates
<1>6. TypeOK
  BY <1>1, <1>2, <1>3, SyncAssumption DEF Init, TypeOK
<1>4. KnownAreBacked
  BY <1>2 DEF SyncIdle, KnownAreBacked, Changed
<1>5. LinksAreBacked /\ StaleListIsExplained
  BY DEF Init, LinksAreBacked, StaleListIsExplained
<1> QED
  BY <1>6, <1>4, <1>5 DEF IndInv
-----------------------------------------------------------------------------
(* What a step does to the tasks *)

LEMMA StateType ==
    ASSUME TypeOK, NEW s \in Syncs
    PROVE  sync[s] \in SyncStates
  BY DEF TypeOK

LEMMA GotoFrame ==
    ASSUME TypeOK, NEW s \in Syncs, NEW step, Goto(s, step),
           step \in {"link", "touch", "answer", "invalidate", "done", "failed"}
    PROVE  /\ sync' \in [Syncs -> SyncStates]
           /\ \A t \in Syncs : t # s => sync'[t] = sync[t]
           /\ sync'[s].pc = step
           /\ sync'[s].seen = sync[s].seen
           /\ sync'[s].known = sync[s].known
           /\ sync'[s].list = sync[s].list
  BY DEF Goto, TypeOK, SyncStates

LEMMA FaultFrame ==
    ASSUME TypeOK, faults' = faults \/ Fault
    PROVE  faults' \in 0 .. MaxFaults
  BY SyncAssumption DEF Fault, TypeOK

\* After a deletion that is not made every outdated copy bears its mark.
LEMMA MissedMarks ==
    ASSUME TypeOK, NEW L \in SUBSET Jids
    PROVE  /\ Missed(L) \in SUBSET Copies
           /\ \A c \in Missed(L) : c.list # L => c.missed
<1> DEFINE Mark(c) == [c EXCEPT !.missed = c.missed \/ c.list # L]
<1>1. Missed(L) = {Mark(c) : c \in copies}
  BY DEF Missed
<1>2. ASSUME NEW c \in copies
      PROVE  Mark(c) \in Copies /\ (Mark(c).list # L => Mark(c).missed)
  <2> DEFINE m == c.missed \/ c.list # L
             d == [c EXCEPT !.missed = m]
  <2>1. c \in Copies /\ m \in BOOLEAN
    BY DEF TypeOK, Copies
  <2> HIDE DEF m
  <2>2. d \in Copies /\ d.list = c.list /\ d.missed = m
    BY <2>1 DEF Copies
  <2> QED
    BY <2>2 DEF m
<1> HIDE DEF Mark
<1> QED
  BY <1>1, <1>2

\* A step that keeps the rows and the links, and whose task still has to delete
\* the copy if it had to before, or marks it.
LEMMA QuietStep ==
    ASSUME IndInv, TypeOK', NEW s \in Syncs,
           UNCHANGED <<member, linked>>,
           copies' = copies \/ copies' = Missed(linked),
           \A t \in Syncs : t # s => sync'[t] = sync[t],
           sync'[s].seen = sync[s].seen \/ sync[s].seen = {},
           sync'[s].known \subseteq sync'[s].seen,
           sync'[s].known \subseteq member,
           sync'[s].pc # "new",
           Changed(s)' =>
             sync'[s].pc \in {"touch", "answer", "invalidate", "done", "failed"},
           s \in Deleting => s \in Deleting' \/ copies' = Missed(linked)
    PROVE  IndInv'
<1> USE DEF IndInv
<1>1. KnownAreBacked'
  BY DEF KnownAreBacked, Changed
<1>2. LinksAreBacked'
  <2>1. \A t \in Syncs : sync[t].seen \subseteq sync'[t].seen
    OBVIOUS
  <2> QED
    BY <2>1 DEF LinksAreBacked
<1>3. \A t \in Syncs : t # s /\ t \in Deleting => t \in Deleting'
  BY DEF Deleting, Works, Changed
<1>4. StaleListIsExplained'
  <2>1. CASE copies' = Missed(linked)
    <3>1. \A c \in copies' : c.list # linked' => c.missed
      BY <2>1, MissedMarks DEF TypeOK
    <3> QED
      BY <3>1 DEF StaleListIsExplained
  <2>2. CASE copies' = copies /\ copies' # Missed(linked)
    <3>1. Deleting # {} => Deleting' # {}
      BY <1>3, <2>2 DEF Deleting
    <3> QED
      BY <2>2, <3>1 DEF StaleListIsExplained
  <2> QED
    BY <2>1, <2>2
<1> QED
  BY <1>1, <1>2, <1>4
-----------------------------------------------------------------------------
(* The steps *)

LEMMA SendTaskInd ==
    ASSUME IndInv, NEW s \in Syncs, SendTask(s)
    PROVE  IndInv'
<1> USE DEF IndInv
<1>0. sync[s] \in SyncStates /\ group \subseteq Jids
  BY DEF TypeOK
<1>1. [sync[s] EXCEPT !.pc = "select", !.seen = group] \in SyncStates
  BY <1>0 DEF SyncStates
<1>2. TypeOK'
  BY <1>1 DEF SendTask, TypeOK
<1>3. sync'[s] = [sync[s] EXCEPT !.pc = "select", !.seen = group]
      /\ \A t \in Syncs : t # s => sync'[t] = sync[t]
  BY DEF SendTask, TypeOK
<1>4. /\ sync'[s].pc = "select" /\ sync'[s].seen = group
      /\ sync'[s].known = sync[s].known /\ sync'[s].list = sync[s].list
  BY <1>0, <1>3 DEF SyncStates
<1>5. sync[s].seen = {} /\ sync[s].known = {} /\ ~Changed(s) /\ s \notin Deleting
  BY DEF SendTask, KnownAreBacked, Deleting
<1>6. ~Changed(s)'
  BY <1>4, <1>5 DEF Changed
<1>7. UNCHANGED <<member, linked, copies>>
  BY DEF SendTask
<1> QED
  BY <1>2, <1>3, <1>4, <1>5, <1>6, <1>7, QuietStep

LEMMA SelectInd ==
    ASSUME IndInv, NEW s \in Syncs, SelectMembers(s)
    PROVE  IndInv'
<1> USE DEF IndInv
<1>0. sync[s] \in SyncStates
  BY DEF TypeOK
<1>1. [sync[s] EXCEPT !.pc = "insert", !.known = sync[s].seen \cap member] \in SyncStates
  BY <1>0 DEF SyncStates
<1>2. TypeOK'
  BY <1>1 DEF SelectMembers, TypeOK
<1>3. sync'[s] = [sync[s] EXCEPT !.pc = "insert", !.known = sync[s].seen \cap member]
      /\ \A t \in Syncs : t # s => sync'[t] = sync[t]
  BY DEF SelectMembers, TypeOK
<1>4. /\ sync'[s].pc = "insert" /\ sync'[s].seen = sync[s].seen
      /\ sync'[s].known = sync[s].seen \cap member /\ sync'[s].list = sync[s].list
  BY <1>0, <1>3 DEF SyncStates
<1>5. ~Changed(s) /\ s \notin Deleting
  BY DEF SelectMembers, KnownAreBacked, Deleting
<1>6. ~Changed(s)'
  BY <1>4, <1>5 DEF Changed
<1>7. UNCHANGED <<member, linked, copies>>
  BY DEF SelectMembers
<1> QED
  BY <1>2, <1>3, <1>4, <1>5, <1>6, <1>7, QuietStep

\* Committing rows makes more users known, and takes none back.
LEMMA InsertInd ==
    ASSUME IndInv, NEW s \in Syncs, InsertMembers(s)
    PROVE  IndInv'
<1> USE DEF IndInv
<1>0. sync[s] \in SyncStates /\ sync[s].seen \subseteq Jids
  BY DEF TypeOK, SyncStates
<1>1. [sync[s] EXCEPT !.pc = "link", !.known = sync[s].seen] \in SyncStates
  BY <1>0 DEF SyncStates
<1>2. TypeOK'
  BY <1>0, <1>1 DEF InsertMembers, TypeOK
<1>3. sync'[s] = [sync[s] EXCEPT !.pc = "link", !.known = sync[s].seen]
      /\ \A t \in Syncs : t # s => sync'[t] = sync[t]
  BY DEF InsertMembers, TypeOK
<1>4. /\ sync'[s].pc = "link" /\ sync'[s].seen = sync[s].seen
      /\ sync'[s].known = sync[s].seen /\ sync'[s].list = sync[s].list
  BY <1>0, <1>3 DEF SyncStates
<1>5. member \subseteq member' /\ sync[s].seen \subseteq member'
  BY DEF InsertMembers, KnownAreBacked
<1>6. ~Changed(s) /\ ~Changed(s)'
  BY <1>4 DEF InsertMembers, KnownAreBacked, Changed
<1>7. KnownAreBacked'
  BY <1>3, <1>4, <1>5, <1>6 DEF KnownAreBacked, Changed
<1>8. LinksAreBacked'
  <2>1. \A t \in Syncs : sync[t].seen = sync'[t].seen
    BY <1>3, <1>4
  <2> QED
    BY <1>5, <2>1 DEF InsertMembers, LinksAreBacked
<1>9. StaleListIsExplained'
  <2>1. Deleting \subseteq Deleting'
    BY <1>3, <1>6 DEF Deleting, Works, Changed
  <2> QED
    BY <2>1 DEF InsertMembers, StaleListIsExplained
<1> QED
  BY <1>2, <1>7, <1>8, <1>9

LEMMA InsertRefusedInd ==
    ASSUME IndInv, NEW s \in Syncs, InsertRefused(s)
    PROVE  IndInv'
<1> USE DEF IndInv
<1>1. PICK step \in {"touch", "failed"} : Goto(s, step)
  BY DEF InsertRefused
<1>2. /\ sync' \in [Syncs -> SyncStates]
      /\ \A t \in Syncs : t # s => sync'[t] = sync[t]
      /\ sync'[s].pc = step /\ sync'[s].seen = sync[s].seen
      /\ sync'[s].known = sync[s].known /\ sync'[s].list = sync[s].list
  BY <1>1, GotoFrame
<1>3. faults' \in 0 .. MaxFaults
  BY FaultFrame DEF InsertRefused
<1>4. TypeOK'
  BY <1>2, <1>3 DEF InsertRefused, TypeOK
<1>5. /\ ~Changed(s) /\ s \notin Deleting
      /\ sync[s].known \subseteq sync[s].seen /\ sync[s].known \subseteq member
  BY DEF InsertRefused, KnownAreBacked, Deleting
<1>6. ~Changed(s)'
  BY <1>2, <1>5 DEF Changed
<1>7. UNCHANGED <<member, linked, copies>>
  BY DEF InsertRefused
<1> QED
  BY <1>2, <1>4, <1>5, <1>6, <1>7, QuietStep

\* New links: the task that commits them owes a deletion, or the copies are
\* marked.
LEMMA LinkInd ==
    ASSUME IndInv, NEW s \in Syncs, LinkMembers(s)
    PROVE  IndInv'
<1> USE DEF IndInv
<1>0. sync[s] \in SyncStates /\ sync[s].known \subseteq Jids
  BY DEF TypeOK, SyncStates
<1>1. /\ sync[s].known \subseteq member /\ sync[s].known \subseteq sync[s].seen
      /\ linked' = linked \cup sync[s].known
      /\ UNCHANGED <<group, member, reader, announced, losses, moves>>
  BY DEF LinkMembers, KnownAreBacked
<1>2. /\ sync' \in [Syncs -> SyncStates]
      /\ \A t \in Syncs : t # s => sync'[t] = sync[t]
      /\ sync'[s].pc = "touch" /\ sync'[s].seen = sync[s].seen
      /\ sync'[s].known = sync[s].known
      /\ \/ sync'[s].list = "changed" /\ UNCHANGED <<copies, faults>>
         \/ Fault /\ copies' = Missed(linked')
  <2>1. CASE /\ sync' = [sync EXCEPT ![s].pc = "touch", ![s].list = "changed"]
             /\ UNCHANGED <<copies, faults>>
    <3>1. [sync[s] EXCEPT !.pc = "touch", !.list = "changed"] \in SyncStates
      BY <1>0 DEF SyncStates
    <3>2. sync' \in [Syncs -> SyncStates]
      BY <2>1, <3>1 DEF TypeOK
    <3>3. sync'[s] = [sync[s] EXCEPT !.pc = "touch", !.list = "changed"]
          /\ \A t \in Syncs : t # s => sync'[t] = sync[t]
      BY <2>1 DEF TypeOK
    <3>4. /\ sync'[s].pc = "touch" /\ sync'[s].seen = sync[s].seen
          /\ sync'[s].known = sync[s].known /\ sync'[s].list = "changed"
      BY <1>0, <3>3 DEF SyncStates
    <3> QED
      BY <2>1, <3>2, <3>3, <3>4
  <2>2. CASE Goto(s, "touch") /\ Fault /\ copies' = Missed(linked')
    BY <2>2, GotoFrame
  <2> QED
    BY <2>1, <2>2 DEF LinkMembers
<1>3. linked' \in SUBSET Jids /\ faults' \in 0 .. MaxFaults
  BY <1>0, <1>1, <1>2, FaultFrame DEF TypeOK
<1>4. TypeOK'
  <2>1. copies' \in SUBSET Copies
    BY <1>2, <1>3, MissedMarks DEF TypeOK
  <2> QED
    BY <1>1, <1>2, <1>3, <2>1 DEF TypeOK
<1>5. KnownAreBacked'
  BY <1>1, <1>2 DEF KnownAreBacked, Changed
<1>6. LinksAreBacked'
  <2>1. \A t \in Syncs : sync[t].seen = sync'[t].seen
    BY <1>2
  <2>2. linked' \subseteq member'
    BY <1>1 DEF LinksAreBacked
  <2>3. linked' \subseteq UNION {sync[t].seen : t \in Syncs}
    BY <1>1 DEF LinksAreBacked
  <2> QED
    BY <2>1, <2>2, <2>3 DEF LinksAreBacked
<1>7. StaleListIsExplained'
  <2>1. sync'[s].list = "changed" => s \in Deleting'
    BY <1>2 DEF Deleting, Works, Changed
  <2>2. copies' = Missed(linked') => \A c \in copies' : c.list # linked' => c.missed
    BY <1>3, MissedMarks
  <2> QED
    BY <1>2, <2>1, <2>2 DEF StaleListIsExplained
<1> QED
  BY <1>4, <1>5, <1>6, <1>7

\* The steps that only move the task on, or end it on an error and mark the
\* copies it should have deleted.
LEMMA MoveOnInd ==
    ASSUME IndInv, NEW s \in Syncs, LinkRefused(s) \/ TouchThread(s) \/ Answer(s)
    PROVE  IndInv'
<1> USE DEF IndInv
<1>1. PICK step \in {"touch", "answer", "invalidate", "failed"} :
         Goto(s, step) /\ (IF step = "failed" THEN DropsDeletion(s) ELSE UNCHANGED copies)
  BY DEF LinkRefused, TouchThread, Answer
<1>2. /\ sync' \in [Syncs -> SyncStates]
      /\ \A t \in Syncs : t # s => sync'[t] = sync[t]
      /\ sync'[s].pc = step /\ sync'[s].seen = sync[s].seen
      /\ sync'[s].known = sync[s].known /\ sync'[s].list = sync[s].list
  BY <1>1, GotoFrame
<1>3. /\ UNCHANGED <<group, member, linked, reader, losses, moves>>
      /\ faults' = faults \/ Fault
  BY DEF LinkRefused, TouchThread, Answer
<1>4. faults' \in 0 .. MaxFaults /\ copies' \in SUBSET Copies
  BY <1>1, <1>3, FaultFrame, MissedMarks DEF DropsDeletion, TypeOK
<1>5. announced' \in SUBSET Syncs
  BY DEF LinkRefused, TouchThread, Answer, TypeOK
<1>6. TypeOK'
  BY <1>2, <1>3, <1>4, <1>5 DEF TypeOK
<1>7. /\ sync[s].known \subseteq sync[s].seen /\ sync[s].known \subseteq member
      /\ sync'[s].pc # "new"
  BY <1>2 DEF KnownAreBacked
<1>8. /\ copies' = copies \/ copies' = Missed(linked)
      /\ s \in Deleting => s \in Deleting' \/ copies' = Missed(linked)
      /\ Changed(s)' => sync'[s].pc \in {"touch", "answer", "invalidate", "done", "failed"}
  BY <1>1, <1>2 DEF Deleting, Works, Changed, DropsDeletion
<1> QED
  BY <1>2, <1>3, <1>6, <1>7, <1>8, QuietStep

\* The copy is deleted, or was not this task's to delete, or Redis failed
\* and it is marked.
LEMMA InvalidateInd ==
    ASSUME IndInv, NEW s \in Syncs, Invalidate(s)
    PROVE  IndInv'
<1> USE DEF IndInv
<1>1. /\ sync' \in [Syncs -> SyncStates]
      /\ \A t \in Syncs : t # s => sync'[t] = sync[t]
      /\ sync'[s].pc = "done" /\ sync'[s].seen = sync[s].seen
      /\ sync'[s].known = sync[s].known /\ sync'[s].list = sync[s].list
  BY GotoFrame DEF Invalidate
<1>2. /\ copies' = {} \/ (copies' = copies /\ ~Changed(s)) \/ copies' = Missed(linked)
      /\ faults' = faults \/ Fault
      /\ UNCHANGED <<group, member, linked, reader, announced, losses, moves>>
  BY DEF Invalidate, DropsDeletion
<1>3. faults' \in 0 .. MaxFaults /\ copies' \in SUBSET Copies
  BY <1>2, FaultFrame, MissedMarks DEF TypeOK
<1>4. TypeOK'
  BY <1>1, <1>2, <1>3 DEF TypeOK
<1>5. KnownAreBacked'
  BY <1>1, <1>2 DEF KnownAreBacked, Changed
<1>6. LinksAreBacked'
  <2>1. \A t \in Syncs : sync[t].seen = sync'[t].seen
    BY <1>1
  <2> QED
    BY <1>2, <2>1 DEF LinksAreBacked
<1>7. StaleListIsExplained'
  <2>1. \A t \in Deleting : t # s => t \in Deleting'
    BY <1>1 DEF Deleting, Works, Changed
  <2>2. ~Changed(s) => s \notin Deleting
    BY DEF Deleting
  <2>3. \A c \in Missed(linked) : c.list # linked => c.missed
    BY MissedMarks DEF TypeOK
  <2> QED
    BY <1>2, <2>1, <2>2, <2>3 DEF StaleListIsExplained
<1> QED
  BY <1>4, <1>5, <1>6, <1>7

LEMMA ProcessLostInd ==
    ASSUME IndInv, NEW s \in Syncs, ProcessLost(s)
    PROVE  IndInv'
<1> USE DEF IndInv
<1>0. sync[s] \in SyncStates
  BY DEF TypeOK
<1>1. [sync[s] EXCEPT !.pc = "select", !.known = {}, !.list = "same"] \in SyncStates
  BY <1>0 DEF SyncStates
<1>2. losses' \in 0 .. MaxLosses /\ copies' \in SUBSET Copies
  BY SyncAssumption, MissedMarks DEF ProcessLost, DropsDeletion, TypeOK
<1>3. TypeOK'
  BY <1>1, <1>2 DEF ProcessLost, TypeOK
<1>4. sync'[s] = [sync[s] EXCEPT !.pc = "select", !.known = {}, !.list = "same"]
      /\ \A t \in Syncs : t # s => sync'[t] = sync[t]
  BY DEF ProcessLost, TypeOK
<1>5. /\ sync'[s].pc = "select" /\ sync'[s].seen = sync[s].seen
      /\ sync'[s].known = {} /\ sync'[s].list = "same"
  BY <1>0, <1>4 DEF SyncStates
<1>6. ~Changed(s)'
  BY <1>5 DEF Changed
<1>7. /\ UNCHANGED <<member, linked>>
      /\ copies' = copies \/ copies' = Missed(linked)
      /\ s \in Deleting => copies' = Missed(linked)
  BY DEF ProcessLost, DropsDeletion, Deleting
<1> QED
  BY <1>3, <1>4, <1>5, <1>6, <1>7, QuietStep

\* A fill that comes late says so.
LEMMA FillInd ==
    ASSUME IndInv, NEW r \in Readers, FillList(r)
    PROVE  IndInv'
<1> USE DEF IndInv
<1>1. UNCHANGED <<group, member, linked, sync, announced, faults, losses, moves>>
  BY DEF FillList
<1>2. reader[r] \in ReaderStates /\ NoRead \in ReaderStates
  BY DEF TypeOK, NoRead, ReaderStates
<1> DEFINE stored == [list |-> reader[r].list, late |-> reader[r].list # linked,
                      missed |-> FALSE]
<1>3. stored \in Copies /\ (stored.list # linked => stored.late)
  BY <1>2 DEF ReaderStates, Copies
<1>4. copies' = {stored} \/ copies' = copies
  BY DEF FillList
<1>5. TypeOK'
  BY <1>1, <1>2, <1>3, <1>4 DEF FillList, TypeOK
<1>6. KnownAreBacked' /\ LinksAreBacked'
  BY <1>1 DEF KnownAreBacked, LinksAreBacked, Changed
<1>7. StaleListIsExplained'
  BY <1>1, <1>3, <1>4 DEF StaleListIsExplained, Deleting, Works, Changed
<1> QED
  BY <1>5, <1>6, <1>7

LEMMA OutsideInd ==
    ASSUME IndInv,
           \/ \E r \in Readers : SelectList(r)
           \/ Expire
           \/ \E j \in Jids : Move(j)
           \/ UNCHANGED vars
    PROVE  IndInv'
<1> USE DEF IndInv
<1>1. /\ UNCHANGED <<member, linked, sync, announced, faults, losses>>
      /\ copies' = copies \/ copies' = {}
  BY DEF SelectList, Expire, Move, vars
<1>2. group' \in SUBSET Jids /\ moves' \in 0 .. MaxMoves
  BY SyncAssumption DEF SelectList, Expire, Move, vars, TypeOK
<1>3. reader' \in [Readers -> ReaderStates]
  <2>1. [pc |-> "fill", list |-> linked] \in ReaderStates
    BY DEF TypeOK, ReaderStates
  <2> QED
    BY <2>1 DEF SelectList, Expire, Move, vars, TypeOK
<1>4. TypeOK'
  BY <1>1, <1>2, <1>3 DEF TypeOK
<1>5. KnownAreBacked' /\ LinksAreBacked'
  BY <1>1 DEF KnownAreBacked, LinksAreBacked, Changed
<1>6. StaleListIsExplained'
  BY <1>1 DEF StaleListIsExplained, Deleting, Works, Changed
<1> QED
  BY <1>4, <1>5, <1>6

LEMMA Inductive == Spec => []IndInv
<1>1. IndInv /\ [Next]_vars => IndInv'
  BY SendTaskInd, SelectInd, InsertInd, InsertRefusedInd, LinkInd, MoveOnInd,
     InvalidateInd, ProcessLostInd, FillInd, OutsideInd DEF Next, TaskStep
<1> QED
  BY <1>1, IndInit, PTL DEF Spec
-----------------------------------------------------------------------------
(* The theorems *)

\* Every variable keeps its type.
THEOREM TypeCorrect == Spec => []TypeOK
<1>1. IndInv => TypeOK
  BY DEF IndInv
<1> QED
  BY <1>1, Inductive, PTL

\* No order of tasks, rollbacks and lost processes links a user without a row
\* or one that no task was sent.
THEOREM LinksBacked == Spec => []LinksAreBacked
<1>1. IndInv => LinksAreBacked
  BY DEF IndInv
<1> QED
  BY <1>1, Inductive, PTL

\* An outdated cached member list is still to be deleted by a task, or was
\* selected before links were committed and stored afterwards, or outlives a
\* deletion lost with an error or a process.
THEOREM StaleListsExplained == Spec => []StaleListIsExplained
<1>1. IndInv => StaleListIsExplained
  BY DEF IndInv
<1> QED
  BY <1>1, Inductive, PTL
-----------------------------------------------------------------------------
(* The first task of a thread *)

\* No task but s was ever sent.
Alone(s) == \A t \in Syncs \ {s} : sync[t].pc = "new"

\* AnnouncedIsSynced does not hold: a task that meets the links or the rows of
\* another one links nobody. This is what is left of it. The first task that says
\* it succeeded has linked everybody it was sent, if the database, WhatsApp and
\* Redis had no error until then: whoever joined or left meanwhile, whoever was a
\* member of another thread already, and however often its process was lost.
AloneIsSynced ==
    \A s \in announced : Alone(s) /\ faults = 0 => sync[s].seen \subseteq linked

\* The first task has linked all it was sent, or nobody, and its rows cannot be
\* refused: nobody else inserts any.
AloneAt(s) ==
    /\ linked \in {{}, sync[s].seen}
    /\ sync[s].pc \in {"touch", "answer", "invalidate", "done", "failed"} =>
         linked = sync[s].seen
    /\ sync[s].pc = "insert" => sync[s].known = sync[s].seen \cap member
    /\ sync[s].pc = "link" => sync[s].known = sync[s].seen
    /\ s \in announced => linked = sync[s].seen /\ sync[s].pc # "new"

AloneInv == \A s \in Syncs : Alone(s) /\ faults = 0 => AloneAt(s)

\* It was the first task before the step, too, and there was no error yet.
LEMMA AloneBefore ==
    ASSUME TypeOK, [Next]_vars, NEW s \in Syncs, Alone(s)', faults' = 0
    PROVE  /\ Alone(s) /\ faults = 0
           /\ \A t \in Syncs \ {s} : ~SendTask(t) /\ ~TaskStep(t) /\ ~ProcessLost(t)
<1>1. ASSUME NEW t \in Syncs, SendTask(t) \/ TaskStep(t) \/ ProcessLost(t)
      PROVE  /\ sync'[t].pc # "new"
             /\ \A u \in Syncs \ {t} : sync'[u] = sync[u]
  <2>1. \A step : Goto(t, step) =>
          /\ sync'[t].pc = step
          /\ \A u \in Syncs \ {t} : sync'[u] = sync[u]
    BY DEF Goto, TypeOK, SyncStates
  <2>2. CASE SendTask(t) \/ ProcessLost(t)
    BY <2>2 DEF SendTask, ProcessLost, TypeOK, SyncStates
  <2>3. CASE SelectMembers(t) \/ InsertMembers(t)
    BY <2>3 DEF SelectMembers, InsertMembers, TypeOK, SyncStates
  <2>4. CASE LinkMembers(t)
    <3>1. \/ sync' = [sync EXCEPT ![t].pc = "touch", ![t].list = "changed"]
          \/ Goto(t, "touch")
      BY <2>4 DEF LinkMembers
    <3>2. ASSUME sync' = [sync EXCEPT ![t].pc = "touch", ![t].list = "changed"]
          PROVE  /\ sync'[t].pc = "touch"
                 /\ \A u \in Syncs \ {t} : sync'[u] = sync[u]
      BY <3>2 DEF TypeOK, SyncStates
    <3> QED
      BY <2>1, <3>1, <3>2
  <2>5. CASE InsertRefused(t) \/ LinkRefused(t) \/ TouchThread(t) \/ Answer(t) \/ Invalidate(t)
    BY <2>1, <2>5 DEF InsertRefused, LinkRefused, TouchThread, Answer, Invalidate
  <2> QED
    BY <1>1, <2>2, <2>3, <2>4, <2>5 DEF TaskStep
<1>2. \A t \in Syncs \ {s} : ~SendTask(t) /\ ~TaskStep(t) /\ ~ProcessLost(t)
  BY <1>1 DEF Alone
<1>3. Alone(s)
  <2>1. CASE SendTask(s) \/ TaskStep(s) \/ ProcessLost(s)
    BY <1>1, <2>1 DEF Alone
  <2>2. CASE sync' = sync
    BY <2>2 DEF Alone
  <2> QED
    BY <1>2, <2>1, <2>2 DEF Next, Move, SelectList, FillList, Expire, vars
<1>4. faults = 0
  <2>1. faults' = faults \/ Fault
    BY DEF Next, TaskStep, SendTask, ProcessLost, Move, SelectList, FillList, Expire, vars,
           SelectMembers, InsertMembers, InsertRefused, LinkMembers, LinkRefused, TouchThread, Answer,
           Invalidate
  <2> QED
    BY <2>1, SyncAssumption DEF Fault, TypeOK
<1> QED
  BY <1>2, <1>3, <1>4

LEMMA AloneSteps ==
    ASSUME IndInv, NEW s \in Syncs, Alone(s), faults = 0, AloneAt(s), faults' = 0,
           SendTask(s) \/ TaskStep(s) \/ ProcessLost(s)
    PROVE  AloneAt(s)'
<1>0. TypeOK /\ KnownAreBacked /\ LinksAreBacked /\ sync[s] \in SyncStates
  BY DEF IndInv, TypeOK
<1>1. ~Fault
  BY DEF Fault
<1>2. \A step : Goto(s, step) =>
        /\ sync'[s].pc = step
        /\ sync'[s].seen = sync[s].seen
        /\ sync'[s].known = sync[s].known
  BY <1>0 DEF Goto, TypeOK, SyncStates
<1>3. CASE SendTask(s)
  <2>1. \A t \in Syncs : sync[t].seen = {}
    BY <1>0, <1>3 DEF SendTask, Alone, KnownAreBacked
  <2>2. linked = {}
    BY <1>0, <2>1 DEF LinksAreBacked
  <2>3. sync'[s].pc = "select" /\ UNCHANGED <<linked, announced>>
    BY <1>0, <1>3 DEF SendTask, TypeOK, SyncStates
  <2>4. s \notin announced
    BY <1>3 DEF SendTask, AloneAt
  <2> QED
    BY <2>2, <2>3, <2>4 DEF AloneAt
<1>4. CASE SelectMembers(s)
  <2>1. /\ sync'[s].pc = "insert" /\ sync'[s].seen = sync[s].seen
        /\ sync'[s].known = sync[s].seen \cap member
        /\ UNCHANGED <<member, linked, announced>>
    BY <1>0, <1>4 DEF SelectMembers, TypeOK, SyncStates
  <2> QED
    BY <2>1 DEF AloneAt
<1>5. CASE InsertMembers(s)
  <2>1. /\ sync'[s].pc = "link" /\ sync'[s].seen = sync[s].seen
        /\ sync'[s].known = sync[s].seen
        /\ UNCHANGED <<linked, announced>>
    BY <1>0, <1>5 DEF InsertMembers, TypeOK, SyncStates
  <2> QED
    BY <2>1 DEF AloneAt
<1>6. ~InsertRefused(s)
  BY <1>1 DEF InsertRefused, Accepts, AloneAt
<1>7. CASE LinkMembers(s)
  <2>1. /\ sync'[s].pc = "touch" /\ sync'[s].seen = sync[s].seen
        /\ UNCHANGED announced
    BY <1>0, <1>1, <1>7 DEF LinkMembers, TypeOK, SyncStates
  <2>2. linked' = sync[s].seen
    BY <1>7 DEF LinkMembers, AloneAt
  <2> QED
    BY <2>1, <2>2 DEF AloneAt
<1>8. CASE LinkRefused(s)
  <2>1. linked = sync[s].seen
    BY <1>1, <1>8 DEF LinkRefused, Accepts, AloneAt
  <2> QED
    BY <1>2, <1>8, <2>1 DEF LinkRefused, AloneAt
<1>9. CASE TouchThread(s) \/ Invalidate(s)
  <2>1. linked = sync[s].seen
    BY <1>9 DEF TouchThread, Invalidate, AloneAt
  <2>2. \E step \in {"answer", "invalidate", "done", "failed"} : Goto(s, step)
    BY <1>9 DEF TouchThread, Invalidate
  <2> QED
    BY <1>2, <1>9, <2>1, <2>2 DEF TouchThread, Invalidate, AloneAt
<1>10. CASE Answer(s)
  <2>1. linked = sync[s].seen
    BY <1>10 DEF Answer, AloneAt
  <2> QED
    BY <1>2, <1>10, <2>1 DEF Answer, AloneAt
<1>11. CASE ProcessLost(s)
  <2>1. /\ sync'[s].pc = "select" /\ sync'[s].seen = sync[s].seen
        /\ UNCHANGED <<linked, announced>>
    BY <1>0, <1>11 DEF ProcessLost, TypeOK, SyncStates
  <2> QED
    BY <2>1 DEF AloneAt
<1> QED
  BY <1>3, <1>4, <1>5, <1>6, <1>7, <1>8, <1>9, <1>10, <1>11 DEF TaskStep

LEMMA AloneStep ==
    ASSUME IndInv, AloneInv, [Next]_vars
    PROVE  AloneInv'
<1> SUFFICES ASSUME NEW s \in Syncs, Alone(s)', faults' = 0
             PROVE  AloneAt(s)'
  BY DEF AloneInv
<1>1. TypeOK
  BY DEF IndInv
<1>2. /\ Alone(s) /\ faults = 0
      /\ \A t \in Syncs \ {s} : ~SendTask(t) /\ ~TaskStep(t) /\ ~ProcessLost(t)
  BY <1>1, AloneBefore
<1>3. AloneAt(s)
  BY <1>2 DEF AloneInv
<1>4. CASE SendTask(s) \/ TaskStep(s) \/ ProcessLost(s)
  BY <1>2, <1>3, <1>4, AloneSteps
<1>5. CASE UNCHANGED <<member, linked, sync, announced>>
  BY <1>3, <1>5 DEF AloneAt
<1> QED
  BY <1>2, <1>4, <1>5 DEF Next, Move, SelectList, FillList, Expire, vars

\* The first task that says it succeeded has linked everybody, for every group
\* and any number of lost processes.
THEOREM FirstTaskIsSynced == Spec => []AloneIsSynced
<1>1. Init => AloneInv
  BY DEF Init, AloneInv, AloneAt
<1>2. AloneInv /\ IndInv => AloneIsSynced
  BY DEF AloneInv, AloneAt, AloneIsSynced, IndInv, TypeOK
<1> QED
  BY <1>1, <1>2, AloneStep, Inductive, PTL DEF Spec
=============================================================================
