--------------------------- MODULE CommandDispatch ---------------------------
(***************************************************************************)
(* The webhook receiver (webhook_app.py): it takes the events of the       *)
(* WhatsApp groups from the Evolution API, sees whether one is a command   *)
(* and whether its sender may give it, and runs the command                *)
(* (integrations/whatsapp). Each event is an HTTP request of its own, so   *)
(* that commands run concurrently, each with its own database session. An  *)
(* event may be delivered twice, and nobody delivers one again because it  *)
(* failed: every request is answered 204, whatever it raised.              *)
(*                                                                         *)
(* /map_group is modelled in full: it draws a password, inserts the row of *)
(* the thread, shows the password in the group and sends the task that     *)
(* synchronises the members (see MemberSync). What the other commands do   *)
(* to a thread is in ThreadCaching; here they matter for who may give them,*)
(* for the slug they take and for what they tell the group.                *)
(***************************************************************************)
EXTENDS Naturals, FiniteSets

CONSTANTS Groups,     \* WhatsApp groups
          Silenced,   \* groups whose events are ignored (SILENTED_GROUPS_JIDS)
          Users,      \* senders, as the event names them
          Sudo,       \* senders who may give every command (SUDO_USERS_JID)
          Handlers,   \* requests of the Evolution API at a time
          Passwords,  \* what /map_group may draw
          Settings,   \* what the other commands change in a thread
          None,       \* no thread, no event, no password
          MaxEvents   \* bound: deliveries of an event

ASSUME DispatchAssumption ==
    /\ Silenced \subseteq Groups
    /\ Sudo \subseteq Users
    /\ Settings # {}
    /\ MaxEvents \in Nat

VARIABLES
    delivered, \* deliveries so far
    client,    \* whether the receiver has an Evolution client
    handler,   \* what each request is at
    thread,    \* the thread of each group
    told,      \* passwords shown in each group
    promised,  \* groups that were told that a synchronisation is on its way
    tasks,     \* groups for which a synchronisation was sent
    cut        \* ghost: what left the command of a group half done

vars == <<delivered, client, handler, thread, told, promised, tasks, cut>>

\* edit: /lock, /unlock and the three /edit commands. other: the messages that
\* leave nothing behind (/ngl, /help, /docs, a command nobody knows, chat) and
\* the event of a group that the bot joins.
AdminCommands == {"map_group", "edit"}
Commands == AdminCommands \cup {"sync", "other"}

\* admin: whether the participants that the event carries name its sender as an
\* administrator of the group.
Events == [group : Groups, sender : Users, admin : BOOLEAN, command : Commands]

\* by: ghost, who created the thread.
Threads == [password : Passwords \cup {None}, settings : Settings, by : {"command", "api"}]

ASSUME NoneAssumption ==
    None \notin Passwords /\ None \notin Events /\ None \notin Threads

\* It starts unlocked, with a name and a slug.
NewThread(p, by) ==
    [password |-> p, settings |-> CHOOSE s \in Settings : TRUE, by |-> by]

Causes == {"refresh", "announce", "task", "stopped"}

\* The next await of a request that can leave something behind. (The last text
\* of a command, sent or not, leaves nothing.)
Steps == {"idle", "insert", "announce", "find", "update", "launch", "task"}

HandlerStates ==
    [pc : Steps, event : Events \cup {None}, password : Passwords \cup {None}]

Idle == [pc |-> "idle", event |-> None, password |-> None]

TypeOK ==
    /\ delivered \in 0 .. MaxEvents
    /\ client \in BOOLEAN
    /\ handler \in [Handlers -> HandlerStates]
    /\ \A h \in Handlers : handler[h].pc # "idle" => handler[h].event # None
    /\ thread \in [Groups -> Threads \cup {None}]
    /\ told \in [Groups -> SUBSET Passwords]
    /\ promised \in SUBSET Groups
    /\ tasks \in SUBSET Groups
    /\ cut \in [Groups -> SUBSET Causes]

\* A receiver whose start-up raises before it registers the client (settings are
\* missing) starts without one: webhook_app_lifespan prints the exception. One
\* that is registered and not connected is a client whose texts raise.
Init ==
    /\ delivered = 0
    /\ client \in BOOLEAN
    /\ handler = [h \in Handlers |-> Idle]
    /\ thread = [g \in Groups |-> None]
    /\ told = [g \in Groups |-> {}]
    /\ promised = {}
    /\ tasks = {}
    /\ cut = [g \in Groups |-> {}]
-----------------------------------------------------------------------------
(* Helpers *)

At(h, step) == handler[h].pc = step
Group(h) == handler[h].event.group

Goto(h, step) == handler' = [handler EXCEPT ![h].pc = step]
Ends(h) == handler' = [handler EXCEPT ![h] = Idle]

Cut(h, cause) == cut' = [cut EXCEPT ![Group(h)] = @ \cup {cause}]

Authorised(e) == e.admin \/ e.sender \in Sudo

\* Mutant: every participant may change the thread of the group.
AcceptedFromAnyone(e) == e.group \notin Silenced /\ client /\ e.command # "other"

\* Whether anything runs that can leave something behind. A silenced group, a
\* receiver without client and a refusal end the request (the last with a text
\* and a sticker, gathered).
Accepted(e) ==
    /\ e.group \notin Silenced /\ client
    /\ e.command # "other"
    /\ e.command \in AdminCommands => Authorised(e)
-----------------------------------------------------------------------------
(* Reception *)

\* Nothing records which events were seen: any may be delivered late or twice.
Receive(e) ==
    /\ delivered < MaxEvents
    /\ delivered' = delivered + 1
    /\ UNCHANGED <<client, thread, told, promised, tasks, cut>>

Dismiss(h, e) ==
    /\ At(h, "idle") /\ ~Accepted(e)
    /\ Receive(e)
    /\ UNCHANGED handler

\* /map_group draws its password first.
Run(h, e) ==
    /\ At(h, "idle") /\ Accepted(e)
    /\ Receive(e)
    /\ IF e.command = "map_group"
       THEN \E p \in Passwords : handler' =
               [handler EXCEPT ![h] = [pc |-> "insert", event |-> e, password |-> p]]
       ELSE handler' = [handler EXCEPT ![h] = [pc |-> "find", event |-> e, password |-> None]]
-----------------------------------------------------------------------------
(* /map_group *)

\* Mutant: no unique index on the group; the last command wins.
InsertAgain(h) ==
    /\ At(h, "insert")
    /\ Goto(h, "announce")
    /\ thread' = [thread EXCEPT ![Group(h)] = NewThread(handler[h].password, "command")]
    /\ UNCHANGED <<delivered, client, told, promised, tasks, cut>>

\* Mutant: the answer is left to the synchronisation.
InsertThenSync(h) ==
    /\ At(h, "insert") /\ thread[Group(h)] = None
    /\ Goto(h, "task")
    /\ thread' = [thread EXCEPT ![Group(h)] = NewThread(handler[h].password, "command")]
    /\ UNCHANGED <<delivered, client, told, promised, tasks, cut>>

\* The commit, then a refresh of the row that may raise: the group is then told
\* of an error although the thread exists. A group or a slug that is taken and
\* any other error leave nothing.
InsertThread(h) ==
    /\ At(h, "insert")
    /\ \/ /\ thread[Group(h)] = None
          /\ thread' = [thread EXCEPT ![Group(h)] = NewThread(handler[h].password, "command")]
          /\ \/ Goto(h, "announce") /\ UNCHANGED cut
             \/ Ends(h) /\ Cut(h, "refresh")
       \/ Ends(h) /\ UNCHANGED <<thread, cut>>
    /\ UNCHANGED <<delivered, client, told, promised, tasks>>

\* Mutant: what is shown is what the row holds (a hash).
AnnounceStored(h) ==
    /\ At(h, "announce")
    /\ Goto(h, "task")
    /\ told' = [told EXCEPT ![Group(h)] = @ \cup {thread[Group(h)]}]
    /\ UNCHANGED <<delivered, client, thread, promised, tasks, cut>>

\* Mutant: the command ends with the password.
AnnounceOnly(h) ==
    /\ At(h, "announce")
    /\ Ends(h)
    /\ told' = [told EXCEPT ![Group(h)] = @ \cup {handler[h].password}]
    /\ UNCHANGED <<delivered, client, thread, promised, tasks, cut>>

\* The password in the group. A request that raises (not sent, or sent and its
\* answer lost) ends the command.
Announce(h) ==
    /\ At(h, "announce")
    /\ \/ /\ told' = [told EXCEPT ![Group(h)] = @ \cup {handler[h].password}]
          /\ \/ Goto(h, "task") /\ UNCHANGED cut
             \/ Ends(h) /\ Cut(h, "announce")
       \/ /\ Ends(h) /\ Cut(h, "announce")
          /\ UNCHANGED told
    /\ UNCHANGED <<delivered, client, thread, promised, tasks>>

\* celery_app.send_task, the last step of /map_group and /sync-thread.
SendTask(h) ==
    /\ At(h, "task")
    /\ Ends(h)
    /\ \/ tasks' = tasks \cup {Group(h)} /\ UNCHANGED cut
       \/ Cut(h, "task") /\ UNCHANGED tasks
    /\ UNCHANGED <<delivered, client, thread, told, promised>>
-----------------------------------------------------------------------------
(* The other commands *)

\* The group's entry of the cache or the row: a thread that exists is found,
\* unless an error or what its copy says (already locked) leaves only an answer.
FindThread(h) ==
    /\ At(h, "find")
    /\ \/ /\ thread[Group(h)] # None
          /\ Goto(h, IF handler[h].event.command = "sync" THEN "launch" ELSE "update")
       \/ Ends(h)
    /\ UNCHANGED <<delivered, client, thread, told, promised, tasks, cut>>

\* What the commands change, and in which steps, is in ThreadCaching.
UpdateThread(h) ==
    /\ At(h, "update")
    /\ Ends(h)
    /\ \E s \in Settings : thread' = [thread EXCEPT ![Group(h)].settings = s]
    /\ UNCHANGED <<delivered, client, told, promised, tasks, cut>>

\* /sync-thread tells that it started, and then starts.
Launch(h) ==
    /\ At(h, "launch")
    /\ \/ /\ promised' = promised \cup {Group(h)}
          /\ \/ Goto(h, "task") /\ UNCHANGED cut
             \/ Ends(h) /\ Cut(h, "announce")
       \/ Ends(h) /\ UNCHANGED <<promised, cut>>
    /\ UNCHANGED <<delivered, client, thread, told, tasks>>
-----------------------------------------------------------------------------
(* The rest of the system *)

\* POST /threads, with or without a password of its own.
CreateThread(g) ==
    /\ thread[g] = None
    /\ \E p \in Passwords \cup {None} : thread' = [thread EXCEPT ![g] = NewThread(p, "api")]
    /\ UNCHANGED <<delivered, client, handler, told, promised, tasks, cut>>

\* The receiver stops, and starts again with or without a client. Nobody
\* delivers its events again because of that.
Restart ==
    /\ handler' = [h \in Handlers |-> Idle]
    /\ client' \in BOOLEAN
    /\ cut' = [g \in Groups |->
                IF \E h \in Handlers : /\ handler[h].pc \in {"announce", "task"}
                                       /\ Group(h) = g
                THEN cut[g] \cup {"stopped"} ELSE cut[g]]
    /\ UNCHANGED <<delivered, thread, told, promised, tasks>>
-----------------------------------------------------------------------------
Step(h) ==
    \/ InsertThread(h) \/ Announce(h) \/ SendTask(h)
    \/ FindThread(h) \/ UpdateThread(h) \/ Launch(h)

Next ==
    \/ \E h \in Handlers : Step(h) \/ \E e \in Events : Dismiss(h, e) \/ Run(h, e)
    \/ \E g \in Groups : CreateThread(g)
    \/ Restart

Spec == Init /\ [][Next]_vars

\* The event loop goes on with every request; an await ends or raises. Nobody
\* has to give a command, and no event has to be delivered.
FairSpec == Spec /\ \A h \in Handlers : WF_vars(Step(h))
-----------------------------------------------------------------------------
(* Properties *)

\* A thread that /map_group created and whose password the group was never
\* shown has a known cause: its handler is about to show it, or it failed there
\* or stopped, or the row could not be read back. (Nothing repairs it: another
\* /map_group finds the group taken, and no command changes a password.)
UnannouncedIsExplained ==
    \A g \in Groups :
        thread[g] # None /\ thread[g].by = "command" /\ told[g] = {} =>
            \/ \E h \in Handlers : At(h, "announce") /\ Group(h) = g
            \/ cut[g] \cap {"refresh", "announce", "stopped"} # {}

\* A group that was shown its password, or was told that a synchronisation is on
\* its way, gets one, unless a named failure came between: the answer of the
\* Evolution API was lost, the broker refused the task or the receiver stopped.
SyncFollowsTheText ==
    \A g \in Groups :
        told[g] # {} \/ g \in promised =>
            \/ g \in tasks
            \/ \E h \in Handlers : At(h, "task") /\ Group(h) = g
            \/ cut[g] \cap {"announce", "task", "stopped"} # {}

\* A synchronisation is only sent for a group that has a thread: the task
\* (MemberSync) takes the thread for granted.
TasksHaveThreads == \A g \in tasks : thread[g] # None

\* The receiver changes the thread of a group only for a command of that group,
\* from someone who was its administrator when the command was given, or one of
\* ours, and never in a silenced group. The administrators may have changed
\* since, and the event may be delivered late or twice.
OnlyAdministratorsChange ==
    [][\A g \in Groups :
          thread'[g] # thread[g] =>
              \/ thread[g] = None /\ thread'[g].by = "api"
              \/ /\ g \notin Silenced
                 /\ \E h \in Handlers :
                       /\ handler[h].pc \in {"insert", "update"}
                       /\ Group(h) = g
                       /\ handler[h].event.admin \/ handler[h].event.sender \in Sudo]_vars

\* Events that are delivered twice, two administrators at a time and failures in
\* the middle leave a group with one thread, and what it is shown opens it.
Contract == INSTANCE MappingContract
    WITH opens <- [g \in Groups |-> IF thread[g] = None THEN {} ELSE {thread[g].password}],
         Passwords <- Passwords \cup {None}

KeepsMapping == Contract!Spec

\* A thread that /map_group created gets its members, or a named failure came
\* between.
MappedGetsMembers ==
    \A g \in Groups :
        (thread[g] # None /\ thread[g].by = "command") ~> (g \in tasks \/ cut[g] # {})
=============================================================================
