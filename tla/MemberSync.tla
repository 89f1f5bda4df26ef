----------------------------- MODULE MemberSync -----------------------------
(***************************************************************************)
(* The members of one thread, brought from its WhatsApp group by a task    *)
(* (worker/tasks/sync_thread_members.py) that /map_group and /sync-thread  *)
(* send with the participants they see at that time. The task works in     *)
(* several transactions of one session:                                    *)
(*                                                                         *)
(*   - it reads the member rows of the participants that have one;         *)
(*   - it inserts the others, all of them or none (wa_jid is unique);      *)
(*   - it inserts the links thread-member, all of them or none (the pair is*)
(*     the primary key);                                                   *)
(*   - it dates the thread's last synchronisation, answers /sync-thread in *)
(*     the group, and deletes the copies the cache keeps.                  *)
(*                                                                         *)
(* Tasks run concurrently, and the task of a lost process runs again from  *)
(* its start (task_acks_late, task_reject_on_worker_lost). Requests of the *)
(* API read the list through the cache: on a miss they select it and, in a *)
(* later step, store what they selected.                                   *)
(***************************************************************************)
EXTENDS Naturals, FiniteSets

CONSTANTS Jids,        \* WhatsApp users
          Syncs,       \* tasks
          Concurrency, \* worker processes (--concurrency)
          Commands,    \* those that /sync-thread sent: they answer
          Founders,    \* participants when the thread is created
          Readers,     \* requests that may read the member list together
          MaxFaults,   \* bound: errors of the database, WhatsApp or Redis
          MaxLosses,   \* bound: processes lost during a task
          MaxMoves     \* bound: users joining or leaving the group

ASSUME SyncAssumption ==
    /\ Commands \subseteq Syncs
    /\ Concurrency \in Nat \ {0}
    /\ Founders \subseteq Jids /\ Founders # {}
    /\ MaxFaults \in Nat /\ MaxLosses \in Nat /\ MaxMoves \in Nat

VARIABLES
    group,      \* participants of the WhatsApp group
    member,     \* users with a row in members
    linked,     \* members linked to the thread in thread_members
    copies,     \* copies of the thread's member list in the cache: none or one
    reader,     \* the requests
    sync,       \* the tasks
    announced,  \* tasks that told the group that they succeeded
    faults,     \* errors so far
    losses,     \* processes lost so far
    moves       \* changes of the group so far

vars == <<group, member, linked, copies, reader, sync, announced, faults, losses, moves>>

\* late (ghost): the list was outdated when it was stored.
\* missed (ghost): a deletion of this outdated copy was lost, or not asked for.
Copies == [list : SUBSET Jids, late : BOOLEAN, missed : BOOLEAN]

\* list: what a request that has still to fill the cache selected.
ReaderStates == [pc : {"idle", "fill"}, list : SUBSET Jids]
NoRead == [pc |-> "idle", list |-> {}]

\* seen: the participants sent with the task. known: those whose row the
\* session has. list: whether it linked any (must_invalid_thread_members_cache).
SyncStates ==
    [pc : {"new", "select", "insert", "link", "touch", "answer", "invalidate",
           "done", "failed"},
     seen : SUBSET Jids,
     known : SUBSET Jids,
     list : {"same", "changed"}]

TypeOK ==
    /\ group \in SUBSET Jids
    /\ member \in SUBSET Jids
    /\ linked \in SUBSET Jids
    /\ copies \in SUBSET Copies
    /\ reader \in [Readers -> ReaderStates]
    /\ sync \in [Syncs -> SyncStates]
    /\ announced \in SUBSET Syncs
    /\ faults \in 0 .. MaxFaults
    /\ losses \in 0 .. MaxLosses
    /\ moves \in 0 .. MaxMoves

\* Some users are members of other threads already.
Init ==
    /\ group = Founders
    /\ member \in SUBSET Jids
    /\ linked = {}
    /\ copies = {}
    /\ reader = [r \in Readers |-> NoRead]
    /\ sync = [s \in Syncs |-> [pc |-> "new", seen |-> {}, known |-> {}, list |-> "same"]]
    /\ announced = {}
    /\ faults = 0 /\ losses = 0 /\ moves = 0
-----------------------------------------------------------------------------
(* Helpers *)

Goto(s, step) == sync' = [sync EXCEPT ![s].pc = step]

Fault == faults < MaxFaults /\ faults' = faults + 1

\* Works: queued or running.
Works(s) == sync[s].pc \notin {"new", "done", "failed"}
Running(s) == Works(s) /\ sync[s].pc # "select"

Changed(s) == sync[s].list = "changed"

\* The copies once a deletion that was due is not made. list: the links then.
Missed(list) ==
    {[c EXCEPT !.missed = c.missed \/ c.list # list] : c \in copies}

\* The task ends without the deletion it may owe, its links being committed.
DropsDeletion(s) == copies' = IF Changed(s) THEN Missed(linked) ELSE copies

\* What a unique constraint accepts: all the rows, if none of them is there.
Accepts(rows, added) == rows \cap added = {}
-----------------------------------------------------------------------------
(* The group and the readers *)

Move(j) ==
    /\ moves < MaxMoves
    /\ moves' = moves + 1
    /\ group' \in {group \cup {j}, group \ {j}}
    /\ group' # {}
    /\ UNCHANGED <<member, linked, copies, reader, sync, announced, faults, losses>>

\* A request selects the list after a look-up that missed or that Redis
\* refused. (A look-up that hits changes nothing.)
SelectList(r) ==
    /\ reader[r].pc = "idle"
    /\ reader' = [reader EXCEPT ![r] = [pc |-> "fill", list |-> linked]]
    /\ UNCHANGED <<group, member, linked, copies, sync, announced, faults, losses, moves>>

\* It stores what it selected over what the cache has by now; or Redis refuses,
\* or the request stops first.
FillList(r) ==
    /\ reader[r].pc = "fill"
    /\ reader' = [reader EXCEPT ![r] = NoRead]
    /\ \/ copies' = {[list |-> reader[r].list, late |-> reader[r].list # linked,
                      missed |-> FALSE]}
       \/ UNCHANGED copies
    /\ UNCHANGED <<group, member, linked, sync, announced, faults, losses, moves>>

\* The copy reaches its time to live, twenty minutes.
Expire ==
    /\ copies # {}
    /\ copies' = {}
    /\ UNCHANGED <<group, member, linked, reader, sync, announced, faults, losses, moves>>
-----------------------------------------------------------------------------
(* The task *)

\* The command sends the task with the participants of its webhook event.
SendTask(s) ==
    /\ sync[s].pc = "new"
    /\ sync' = [sync EXCEPT ![s].pc = "select", ![s].seen = group]
    /\ UNCHANGED <<group, member, linked, copies, reader, announced, faults, losses, moves>>

\* A free worker process takes the task and reads the rows there are.
SelectMembers(s) ==
    /\ sync[s].pc = "select"
    /\ Cardinality({t \in Syncs : Running(t)}) < Concurrency
    /\ sync' = [sync EXCEPT ![s].pc = "insert",
                            ![s].known = sync[s].seen \cap member]
    /\ UNCHANGED <<group, member, linked, copies, reader, announced, faults, losses, moves>>

\* Mutant: the rows are flushed and only committed with the links.
InsertUncommitted(s) ==
    /\ sync[s].pc = "insert"
    /\ sync' = [sync EXCEPT ![s].pc = "link", ![s].known = sync[s].seen]
    /\ UNCHANGED <<group, member, linked, copies, reader, announced, faults, losses, moves>>

\* Mutant: only the rows just created are linked.
InsertForgetsExisting(s) ==
    LET added == sync[s].seen \ sync[s].known IN
    /\ sync[s].pc = "insert"
    /\ Accepts(member, added)
    /\ member' = member \cup added
    /\ sync' = [sync EXCEPT ![s].pc = "link", ![s].known = added]
    /\ UNCHANGED <<group, linked, copies, reader, announced, faults, losses, moves>>

InsertMembers(s) ==
    LET added == sync[s].seen \ sync[s].known IN
    /\ sync[s].pc = "insert"
    /\ Accepts(member, added)
    /\ member' = member \cup added
    /\ sync' = [sync EXCEPT ![s].pc = "link", ![s].known = sync[s].seen]
    /\ UNCHANGED <<group, linked, copies, reader, announced, faults, losses, moves>>

\* The rows are refused and the session rolls back, which expires the member
\* rows it had read: the next use of one of them raises. Without any, the task
\* goes on with nobody to link.
InsertRefused(s) ==
    LET added == sync[s].seen \ sync[s].known IN
    /\ sync[s].pc = "insert"
    /\ added # {}
    /\ IF Accepts(member, added) THEN Fault ELSE UNCHANGED faults
    /\ IF sync[s].known = {} THEN Goto(s, "touch") ELSE Goto(s, "failed")
    /\ UNCHANGED <<group, member, linked, copies, reader, announced, losses, moves>>

LinkMembers(s) ==
    /\ sync[s].pc = "link"
    /\ Accepts(linked, sync[s].known)
    /\ linked' = linked \cup sync[s].known
    /\ \/ /\ sync' = [sync EXCEPT ![s].pc = "touch", ![s].list = "changed"]
          /\ UNCHANGED <<copies, faults>>
       \/ Goto(s, "touch") /\ Fault /\ copies' = Missed(linked')  \* not read back
    /\ UNCHANGED <<group, member, reader, announced, losses, moves>>

\* One participant is linked already: no link is inserted, the task goes on.
LinkRefused(s) ==
    /\ sync[s].pc = "link"
    /\ IF Accepts(linked, sync[s].known) THEN Fault ELSE UNCHANGED faults
    /\ Goto(s, "touch")
    /\ UNCHANGED <<group, member, linked, copies, reader, announced, losses, moves>>

\* update_last_wa_sync_at. Its failure has no thread to go on with.
TouchThread(s) ==
    /\ sync[s].pc = "touch"
    /\ \/ /\ Goto(s, IF s \in Commands THEN "answer" ELSE "invalidate")
          /\ UNCHANGED <<copies, faults>>
       \/ Goto(s, "failed") /\ Fault /\ DropsDeletion(s)
    /\ UNCHANGED <<group, member, linked, reader, announced, losses, moves>>

\* Mutant: the participants are told, not the group.
AnswerEach(s) ==
    /\ sync[s].pc = "answer"
    /\ Goto(s, "invalidate")
    /\ announced' = announced \cup sync[s].seen
    /\ UNCHANGED <<group, member, linked, copies, reader, faults, losses, moves>>

Answer(s) ==
    /\ sync[s].pc = "answer"
    /\ \/ /\ Goto(s, "invalidate") /\ announced' = announced \cup {s}
          /\ UNCHANGED <<copies, faults>>
       \/ Goto(s, "failed") /\ UNCHANGED announced /\ Fault /\ DropsDeletion(s)
    /\ UNCHANGED <<group, member, linked, reader, losses, moves>>

\* Mutant: only the copies of the thread are deleted.
InvalidateThreadOnly(s) ==
    /\ sync[s].pc = "invalidate"
    /\ Goto(s, "done")
    /\ UNCHANGED <<group, member, linked, copies, reader, announced, faults, losses, moves>>

\* The list is deleted when links were committed; an error of Redis is logged.
Invalidate(s) ==
    /\ sync[s].pc = "invalidate"
    /\ Goto(s, "done")
    /\ \/ copies' = (IF Changed(s) THEN {} ELSE copies) /\ UNCHANGED faults
       \/ DropsDeletion(s) /\ Fault
    /\ UNCHANGED <<group, member, linked, reader, announced, losses, moves>>

\* The process is lost: the task starts again, in a new session, and finds its
\* links there: it deletes nothing any more.
ProcessLost(s) ==
    /\ Running(s)
    /\ losses < MaxLosses
    /\ losses' = losses + 1
    /\ sync' = [sync EXCEPT ![s].pc = "select", ![s].known = {}, ![s].list = "same"]
    /\ DropsDeletion(s)
    /\ UNCHANGED <<group, member, linked, reader, announced, faults, moves>>

TaskStep(s) ==
    \/ SelectMembers(s) \/ InsertMembers(s) \/ InsertRefused(s)
    \/ LinkMembers(s) \/ LinkRefused(s) \/ TouchThread(s)
    \/ Answer(s) \/ Invalidate(s)

Next ==
    \/ \E j \in Jids : Move(j)
    \/ \E r \in Readers : SelectList(r) \/ FillList(r)
    \/ Expire
    \/ \E s \in Syncs : SendTask(s) \/ TaskStep(s) \/ ProcessLost(s)

Spec == Init /\ [][Next]_vars

\* Workers take the tasks they are sent and go on with them.
FairSpec == Spec /\ \A s \in Syncs : WF_vars(TaskStep(s))
-----------------------------------------------------------------------------
(* Properties *)

\* A link never names a user without a row, and nothing links a user that no
\* task saw in the group: concurrent tasks and rollbacks included.
LinksAreBacked ==
    /\ linked \subseteq member
    /\ linked \subseteq UNION {sync[s].seen : s \in Syncs}

\* Tasks that changed the list and have still to delete the copies.
Deleting == {s \in Syncs : Works(s) /\ Changed(s)}

\* A cached list that differs from the links is either about to be deleted by a
\* task that committed links, or has one of two causes: a request selected it
\* before links were committed and stored it afterwards, or a deletion was lost
\* with an error or a process.
StaleListIsExplained ==
    \A c \in copies : c.list # linked => c.late \/ c.missed \/ Deleting # {}

\* While nobody joins or leaves and nothing fails, a task leaves every
\* participant linked, whatever tasks run with it and however often its process
\* is lost.
EverybodyLinked ==
    \A s \in Syncs : Works(s) ~> (sync[s].seen \subseteq linked \/ moves + faults > 0)

\* README.md, /sync-thread: the members of the group are synchronised with the
\* database; the task tells the group so. Checked when no task is at work.
AnnouncedIsSynced ==
    (\A s \in Syncs : ~Works(s)) =>
        \A s \in announced : sync[s].seen \subseteq linked
=============================================================================
