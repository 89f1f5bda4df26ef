---------------------------- MODULE ThreadCaching ----------------------------
(***************************************************************************)
(* One thread row in Postgres and the four Redis entries that copy it,     *)
(* read and written by three kinds of process that share no lock:          *)
(*                                                                         *)
(*   - requests of the API, which look an entry up, read the row on a miss *)
(*     and store what they read (services/thread_service.py,               *)
(*     services/auth_thread_service.py), one of them to decide whether a   *)
(*     message may be posted (services/message_service.py);                *)
(*   - command handlers of the webhook application, which find the thread  *)
(*     through its group's entry, commit an update of the row and then     *)
(*     delete entries (integrations/whatsapp/funcs/);                      *)
(*   - synchronisation tasks of the Celery worker, which stamp the row and *)
(*     delete three of the four entries (worker/tasks/).                   *)
(*                                                                         *)
(* Every await of the code is a step of its own, so that the steps of      *)
(* different processes interleave where the code lets them.                *)
(***************************************************************************)
EXTENDS Naturals, FiniteSets

CONSTANTS Requests,     \* API requests that may be in progress together
          Handlers,     \* command handlers and synchronisation tasks
          RequestOps,   \* what requests do (a subset of AllRequestOps)
          HandlerOps,   \* what handlers do (a subset of AllHandlerOps)
          MaxCommits,   \* bound: revisions of the row
          NoCopy        \* an entry that is not in Redis

AllRequestOps == {"byId", "bySlug", "list", "connect", "post"}
AllHandlerOps == {"create", "lock", "unlock", "edit", "ngl", "sync"}

\* The entries: entity:thread, thread by group, list of threads, raw thread.
Keys == {"thread", "wa_group", "list", "raw"}

\* A revision of the row. content is the revision of the last change other
\* than a synchronisation stamp: all that a reader of "raw" looks at.
Rows == [rev : Nat, content : Nat, locked : BOOLEAN]
NoRow == [rev |-> 0, content |-> 0, locked |-> FALSE]

\* late (ghost): the copy was already outdated when it was stored.
\* missed (ghost): a deletion of this outdated copy was lost.
Entries == [copy : Rows, late : BOOLEAN, missed : BOOLEAN]

ASSUME ConstantsAssumption ==
    /\ RequestOps \subseteq AllRequestOps
    /\ HandlerOps \subseteq AllHandlerOps
    /\ MaxCommits \in Nat
    /\ Requests \cap Handlers = {}
    /\ NoCopy \notin Entries

Processes == Requests \cup Handlers
Ops == AllRequestOps \cup AllHandlerOps

VARIABLES
    row,        \* the committed row (rev 0: the thread does not exist yet)
    cache,      \* [Keys -> entry or NoCopy]
    proc        \* [Processes -> local state of the operation in progress]

vars == <<row, cache, proc>>

\* Where an operation is: the await it is about to execute.
Steps == {"idle", "get", "select", "fill", "decide", "insert",
          "load", "update", "reply", "invalidate", "confirm"}

\* copy: the row as the operation read it. todo: the entries its committed
\* update still has to delete.
Locals == [op : Ops, pc : Steps, copy : Rows, todo : SUBSET Keys]

Idle == [op |-> "byId", pc |-> "idle", copy |-> NoRow, todo |-> {}]

TypeOK ==
    /\ row \in Rows
    /\ cache \in [Keys -> Entries \cup {NoCopy}]
    /\ proc \in [Processes -> Locals]

Init ==
    /\ row = NoRow
    /\ cache = [k \in Keys |-> NoCopy]
    /\ proc = [p \in Processes |-> Idle]
-----------------------------------------------------------------------------
(* Helpers *)

\* The entry an operation reads and fills.
KeyOf(op) == CASE op \in {"byId", "bySlug", "post", "create"} -> "thread"
               [] op = "list" -> "list"
               [] op = "connect" -> "raw"
               [] OTHER -> "wa_group"

\* The age of a copy as far as the readers of an entry can tell.
Version(k, r) == IF k = "raw" THEN r.content ELSE r.rev

Outdated(k, r) == Version(k, r) < Version(k, row)

\* The next step; the copy that was read is not looked at again (Goto), or is
\* (Carry).
Carry(p, step, r) == proc' = [proc EXCEPT ![p].pc = step, ![p].copy = r]
Goto(p, step) == Carry(p, step, NoRow)
Finish(p) == proc' = [proc EXCEPT ![p] = Idle]

\* The deletions of the entries in keys are lost.
Missed(keys) ==
    [k \in Keys |->
       IF k \in keys /\ cache[k] # NoCopy /\ Outdated(k, cache[k].copy)
         THEN [cache[k] EXCEPT !.missed = TRUE]
         ELSE cache[k]]

\* Mutants of Invalidates: the commands forget the group's entry; creation
\* deletes a key nobody reads.
InvalidatesWithoutGroup(op) == CASE op = "create" -> {"list"}
                                 [] OTHER -> Keys \ {"raw", "wa_group"}
InvalidatesMisspelt(op) == IF op = "create" THEN {"threads"} ELSE Keys

\* The entries a committed update of each kind deletes afterwards.
Invalidates(op) == CASE op = "create" -> {"list"}
                     [] op = "sync" -> Keys \ {"raw"}
                     [] OTHER -> Keys

\* The row committed by an update that loaded base: the session writes the
\* lock only when it differs from the one it loaded.
Updated(op, base) ==
    LET wanted == (op = "lock") IN
    [rev |-> row.rev + 1,
     content |-> IF op = "sync" THEN row.content ELSE row.rev + 1,
     locked |-> IF op \in {"lock", "unlock"} /\ base.locked # wanted
                  THEN wanted
                  ELSE row.locked]
-----------------------------------------------------------------------------
(* Reading through an entry *)

\* An operation begins. bySlug goes straight to Postgres; create and sync
\* write without reading an entry; all others look their entry up first.
Start(p, op) ==
    /\ proc[p].pc = "idle"
    /\ op = "sync" => row.rev > 0
    /\ proc' = [proc EXCEPT ![p] =
                  [Idle EXCEPT !.op = op,
                               !.pc = CASE op = "bySlug" -> "select"
                                        [] op = "create" -> "update"
                                        [] op = "sync" -> "load"
                                        [] OTHER -> "get"]]
    /\ UNCHANGED <<row, cache>>

CacheHit(p) ==
    LET k == KeyOf(proc[p].op) IN
    /\ proc[p].pc = "get"
    /\ cache[k] # NoCopy
    /\ Carry(p, "decide", cache[k].copy)
    /\ UNCHANGED <<row, cache>>

\* A miss, or an error of Redis that the cache turns into a miss.
CacheMiss(p) ==
    /\ proc[p].pc = "get"
    /\ Goto(p, "select")
    /\ UNCHANGED <<row, cache>>

\* Mutant: the row is read from a replica that lags.
SelectFromReplica(p) ==
    /\ proc[p].pc = "select"
    /\ IF row.rev = 0 THEN Finish(p)
                      ELSE Carry(p, "fill", [row EXCEPT !.rev = @ - 1])
    /\ UNCHANGED <<row, cache>>

\* The row is read (by create: read back after its commit). A missing row
\* ends the operation (404, or "this group is not connected to a thread"),
\* except that a list without the thread is a list.
Select(p) ==
    /\ proc[p].pc = "select"
    /\ IF row.rev = 0 /\ proc[p].op # "list"
         THEN Finish(p)
         ELSE Carry(p, "fill", row)
    /\ UNCHANGED <<row, cache>>

\* What was read is stored with a TTL, whatever happened to the row
\* meanwhile; an error of Redis is logged and the operation goes on.
Fill(p) ==
    LET k == KeyOf(proc[p].op)
        r == proc[p].copy IN
    /\ proc[p].pc = "fill"
    /\ \/ cache' = [cache EXCEPT ![k] = [copy |-> r,
                                        late |-> Outdated(k, r),
                                        missed |-> FALSE]]
       \/ UNCHANGED cache
    /\ IF proc[p].op = "create" THEN Goto(p, "invalidate")
                                 ELSE Carry(p, "decide", r)
    /\ UNCHANGED row

\* Mutant: a post does not look at the lock.
DecideWithoutLock(p) ==
    /\ proc[p].pc = "decide"
    /\ CASE proc[p].op = "post" -> Goto(p, "insert")
         [] proc[p].op \in {"lock", "unlock", "edit"} -> Goto(p, "load")
         [] OTHER -> Finish(p)
    /\ UNCHANGED <<row, cache>>

\* The operation acts on its copy: reads return it, a post is refused when it
\* is locked, /lock and /unlock stop when it already is in the wanted state.
Decide(p) ==
    LET op == proc[p].op
        locked == proc[p].copy.locked IN
    /\ proc[p].pc = "decide"
    /\ CASE op = "post" /\ ~locked -> Goto(p, "insert")
         [] op = "lock" /\ ~locked -> Goto(p, "load")
         [] op = "unlock" /\ locked -> Goto(p, "load")
         [] op = "edit" -> Goto(p, "load")
         [] OTHER -> Finish(p)
    /\ UNCHANGED <<row, cache>>

\* The message row is inserted: nothing looks at the thread row again.
InsertMessage(p) ==
    /\ proc[p].pc = "insert"
    /\ Finish(p)
    /\ UNCHANGED <<row, cache>>
-----------------------------------------------------------------------------
(* Updating the row *)

\* The handler's own session loads the row it is going to change.
Load(p) ==
    /\ proc[p].pc = "load"
    /\ Carry(p, "update", row)
    /\ UNCHANGED <<row, cache>>

\* The change commits. Every other update finds the thread (threads are never
\* deleted); an insert finds no other thread of the group.
CommitUpdate(p) ==
    LET op == proc[p].op IN
    /\ proc[p].pc = "update"
    /\ row.rev < MaxCommits
    /\ op = "create" => row.rev = 0
    /\ row' = Updated(op, proc[p].copy)
    /\ proc' = [proc EXCEPT ![p].pc = CASE op = "create" -> "select"
                                        [] op = "sync" -> "reply"
                                        [] OTHER -> "invalidate",
                            ![p].copy = NoRow,
                            ![p].todo = Invalidates(op)]
    /\ UNCHANGED cache

\* The database refuses the change (the slug or the group is taken) or fails:
\* the session rolls back and the group is told.
UpdateFails(p) ==
    /\ proc[p].pc = "update"
    /\ Finish(p)
    /\ UNCHANGED <<row, cache>>

\* The synchronisation tells the group that it ended, before it deletes
\* anything; when the Evolution API fails it raises, and deletes nothing.
Reply(p) ==
    /\ proc[p].pc = "reply"
    /\ \/ Goto(p, "invalidate") /\ UNCHANGED cache
       \/ Finish(p) /\ cache' = Missed(proc[p].todo)
    /\ UNCHANGED row

\* The deletions run in any order (gather), each one swallowing its errors.
Invalidate(p, k) ==
    /\ proc[p].pc = "invalidate"
    /\ k \in proc[p].todo
    /\ \/ cache' = [cache EXCEPT ![k] = NoCopy]
       \/ cache' = Missed({k})
    /\ proc' = [proc EXCEPT ![p].todo = @ \ {k}]
    /\ UNCHANGED row

Invalidated(p) ==
    /\ proc[p].pc = "invalidate"
    /\ proc[p].todo = {}
    /\ Goto(p, "confirm")
    /\ UNCHANGED <<row, cache>>

\* The group reads the outcome, or the message to it fails.
Confirm(p) ==
    /\ proc[p].pc = "confirm"
    /\ Finish(p)
    /\ UNCHANGED <<row, cache>>
-----------------------------------------------------------------------------
(* What happens to every process and to every entry *)

\* The process stops, or the client leaves and its request is cancelled: what
\* the operation had not done stays undone.
Stop(p) ==
    /\ proc[p].pc # "idle"
    /\ Finish(p)
    /\ cache' = Missed(proc[p].todo)
    /\ UNCHANGED row

\* Mutant: the list is stored without a TTL.
ExpireAllButList(k) ==
    /\ k # "list" /\ cache[k] # NoCopy
    /\ cache' = [cache EXCEPT ![k] = NoCopy]
    /\ UNCHANGED <<row, proc>>

\* The TTL of an entry ends.
Expire(k) ==
    /\ cache[k] # NoCopy
    /\ cache' = [cache EXCEPT ![k] = NoCopy]
    /\ UNCHANGED <<row, proc>>

\* What an operation does next once it has begun.
Step(p) ==
    \/ CacheHit(p) \/ CacheMiss(p) \/ Select(p) \/ Fill(p)
    \/ Decide(p) \/ InsertMessage(p)
    \/ Load(p) \/ CommitUpdate(p) \/ UpdateFails(p) \/ Reply(p)
    \/ \E k \in Keys : Invalidate(p, k)
    \/ Invalidated(p) \/ Confirm(p)

Next ==
    \/ \E p \in Requests, op \in RequestOps : Start(p, op)
    \/ \E p \in Handlers, op \in HandlerOps : Start(p, op)
    \/ \E p \in Processes : Step(p) \/ Stop(p)
    \/ \E k \in Keys : Expire(k)

Spec == Init /\ [][Next]_vars

\* An operation that began runs on until it ends or its process stops. An
\* outdated copy that nobody stores again reaches the end of its TTL; a copy
\* stored again is a fresh one, so that nothing is asked of its expiry.
Fairness ==
    /\ \A p \in Processes : WF_vars(Step(p))
    /\ \A k \in Keys : WF_vars(cache[k] # NoCopy /\ Outdated(k, cache[k].copy)
                                 /\ Expire(k))

FairSpec == Spec /\ Fairness
-----------------------------------------------------------------------------
(* Properties *)

\* A reader finds an outdated entry only while the handler that committed the
\* newer row is about to delete it, or when that deletion was lost, or when a
\* reader stored what it had read before the commit. No other operation, and
\* no update that forgets an entry, leaves one behind.
StaleCopyIsExplained ==
    \A k \in Keys :
        (cache[k] # NoCopy /\ Outdated(k, cache[k].copy)) =>
            \/ cache[k].late
            \/ cache[k].missed
            \/ \E p \in Processes : k \in proc[p].todo

\* The revisions a reader may be handed, now or later: the row's, those that
\* entries hold, and those on the way to an entry or to an answer.
InFlight(p) == proc[p].pc \in {"fill", "decide"}
Live == {row.rev}
          \cup {cache[k].copy.rev : k \in {j \in Keys : cache[j] # NoCopy}}
          \cup {proc[p].copy.rev : p \in {q \in Processes : InFlight(q)}}

\* A revision that no entry and no reader holds any more never comes back,
\* whatever the interleaving of fills, deletions, stops and commits.
Register == INSTANCE ThreadRegister WITH cur <- row.rev, live <- Live

NoResurrection == Register!Spec

\* Once updates cease, every entry that is left agrees with the row.
EventualCoherence ==
    <>[](\A k \in Keys : cache[k] # NoCopy => ~Outdated(k, cache[k].copy))

\* When the thread stays locked, posts eventually stop getting through.
LockEventuallyEnforced ==
    <>[]row.locked => <>[](\A p \in Processes : proc[p].pc # "insert")

\* thread_commands.py:254: /lock locks the thread. The update of /lock leaves
\* the row locked.
LockCommitLocks ==
    [][\A p \in Handlers :
         (proc[p].op = "lock" /\ CommitUpdate(p)) => row'.locked]_vars
=============================================================================
