--------------------------- MODULE WorkerLifecycle ---------------------------
(***************************************************************************)
(* The life of the Celery worker processes (worker/celery_app.py,          *)
(* AsyncLoopManager): a process is forked, sets up its resources in the    *)
(* signal worker_process_init, runs one task at a time, and is replaced    *)
(* after --max-tasks-per-child tasks, at a shutdown or when it is lost.    *)
(*                                                                         *)
(* The tasks are synchronous functions that run their coroutine in an event*)
(* loop which the process keeps from one task to the next: the browser, the*)
(* HTTP client and the database connections that a coroutine opens can only*)
(* be used from the loop they were opened on.                              *)
(***************************************************************************)
EXTENDS Naturals

CONSTANTS Workers,    \* worker processes (--concurrency)
          MaxTasks,   \* --max-tasks-per-child
          MaxWaiting  \* bound: tasks that wait in the broker

ASSUME LifecycleAssumption == MaxTasks \in Nat \ {0} /\ MaxWaiting \in Nat

VARIABLES
    process,  \* worker processes
    waiting   \* tasks that wait in the broker

vars == <<process, waiting>>

\* The await of the set-up, or what the process does after it.
Steps == {"forked", "register", "connect", "launch", "idle", "task", "gone"}

\* How far CardGenerator came: registered, Playwright, Chromium, a page.
Cards == {"none", "registered", "driver", "browser", "page"}

\* loop: the event loop of the manager, 0 for none; loops numbers those made so
\* far. started: _resources_started. client: the singleton of EvolutionAPIClient
\* exists. bound: ghost, the loops on which something open was opened. served:
\* tasks run.
Processes ==
    [pc : Steps, loop : Nat, loops : Nat, started : BOOLEAN, client : BOOLEAN,
     card : Cards, bound : SUBSET Nat, served : 0 .. MaxTasks]

\* Nothing is set up before the fork (the module only creates the manager).
Forked == [pc |-> "forked", loop |-> 0, loops |-> 0, started |-> FALSE,
           client |-> FALSE, card |-> "none", bound |-> {}, served |-> 0]

TypeOK ==
    /\ process \in [Workers -> Processes]
    /\ waiting \in Nat

Init ==
    /\ process = [w \in Workers |-> Forked]
    /\ waiting = 0
-----------------------------------------------------------------------------
(* Helpers *)

At(w, step) == process[w].pc = step

Becomes(w, p) == process' = [process EXCEPT ![w] = p]

\* AsyncLoopManager(): always the same object, and __init__ runs on it again.
NewManager(p) == [p EXCEPT !.loop = 0, !.started = FALSE]

GetLoop(p) ==
    IF p.loop = 0 THEN [p EXCEPT !.loop = p.loops + 1, !.loops = @ + 1] ELSE p

\* Something is opened on the loop of the manager.
Opens(p) == [p EXCEPT !.bound = @ \cup {p.loop}]

\* close(): nothing without a loop; otherwise what a complete set-up left, then
\* the loop.
Close(p) ==
    IF p.loop = 0 THEN p
    ELSE IF p.started
         THEN [p EXCEPT !.client = FALSE, !.card = "none", !.bound = {},
                        !.started = FALSE, !.loop = 0]
         ELSE [p EXCEPT !.loop = 0]
-----------------------------------------------------------------------------
(* The set-up: an exception ends it, and Celery logs what a handler of a   *)
(* signal raises                                                           *)

GivesUp(w) == Becomes(w, [process[w] EXCEPT !.pc = "idle"])

\* Mutant: the resources count as started before they are.
StartEagerly(w) ==
    /\ At(w, "forked")
    /\ Becomes(w, [GetLoop(NewManager(process[w])) EXCEPT !.pc = "register", !.started = TRUE])
    /\ UNCHANGED waiting

\* worker_process_init: a new manager, whose start_browser_resources runs _init
\* in a new loop. (It returns at once for resources already started: never so
\* for a new manager.)
InitWorker(w) ==
    /\ At(w, "forked")
    /\ Becomes(w, [GetLoop(NewManager(process[w])) EXCEPT !.pc = "register"])
    /\ UNCHANGED waiting

\* The client is registered before it is connected. Its settings may be missing.
RegisterClient(w) ==
    /\ At(w, "register")
    /\ \/ Becomes(w, [process[w] EXCEPT !.pc = "connect", !.client = TRUE])
       \/ GivesUp(w)
    /\ UNCHANGED waiting

\* Connected: the card generator is registered. Refused or in error: it is not,
\* but the HTTP client has been used on the loop all the same.
Connect(w) ==
    /\ At(w, "connect")
    /\ \/ Becomes(w, [Opens(process[w]) EXCEPT !.pc = "launch", !.card = "registered"])
       \/ Becomes(w, [Opens(process[w]) EXCEPT !.pc = "idle"])
    /\ UNCHANGED waiting

\* Playwright, then Chromium, then the page. What was launched before an
\* exception stays.
Launch(w) ==
    /\ At(w, "launch")
    /\ \/ /\ process[w].card = "registered"
          /\ Becomes(w, [Opens(process[w]) EXCEPT !.card = "driver"])
       \/ /\ process[w].card = "driver"
          /\ Becomes(w, [Opens(process[w]) EXCEPT !.card = "browser"])
       \/ /\ process[w].card = "browser"
          /\ Becomes(w, [Opens(process[w]) EXCEPT !.card = "page", !.started = TRUE,
                                                  !.pc = "idle"])
       \/ GivesUp(w)
    /\ UNCHANGED waiting
-----------------------------------------------------------------------------
(* Tasks *)

\* A request, /map_group, /sync-thread or a message sends a task.
SendTask ==
    /\ waiting < MaxWaiting
    /\ waiting' = waiting + 1
    /\ UNCHANGED process

\* Mutant: each task asks for the manager by its class.
RunTaskOnNewManager(w) ==
    /\ At(w, "idle") /\ waiting > 0 /\ process[w].served < MaxTasks
    /\ waiting' = waiting - 1
    /\ Becomes(w, [Opens(GetLoop(NewManager(process[w]))) EXCEPT !.pc = "task"])

\* Mutant: the last task is not the last.
RunTaskTooMany(w) ==
    /\ At(w, "idle") /\ waiting > 0 /\ process[w].served <= MaxTasks
    /\ waiting' = waiting - 1
    /\ Becomes(w, [Opens(GetLoop(process[w])) EXCEPT !.pc = "task"])

\* run_async: the task opens its connections on the loop of the manager.
RunTask(w) ==
    /\ At(w, "idle") /\ waiting > 0 /\ process[w].served < MaxTasks
    /\ waiting' = waiting - 1
    /\ Becomes(w, [Opens(GetLoop(process[w])) EXCEPT !.pc = "task"])

\* Mutant: a task that could not use the resources is not counted.
EndTaskCountingSuccess(w) ==
    /\ At(w, "task")
    /\ Becomes(w, [process[w] EXCEPT !.pc = "idle",
                     !.served = IF process[w].started THEN @ + 1 ELSE @])
    /\ UNCHANGED waiting

\* Mutant: a task closes the client when it is done (async with).
EndTaskClosing(w) ==
    /\ At(w, "task")
    /\ Becomes(w, [process[w] EXCEPT !.pc = "idle", !.served = @ + 1, !.client = FALSE])
    /\ UNCHANGED waiting

\* Done or raised, it counts.
EndTask(w) ==
    /\ At(w, "task")
    /\ Becomes(w, [process[w] EXCEPT !.pc = "idle", !.served = @ + 1])
    /\ UNCHANGED waiting
-----------------------------------------------------------------------------
(* The end of a process *)

\* worker_process_shutdown, at a shutdown of the worker.
Shutdown(w) ==
    /\ At(w, "idle")
    /\ Becomes(w, [Close(NewManager(process[w])) EXCEPT !.pc = "gone"])
    /\ UNCHANGED waiting

\* The same after the last task.
Recycle(w) == process[w].served = MaxTasks /\ Shutdown(w)

\* Killed, at any time. The broker gives its task to another process
\* (task_reject_on_worker_lost).
ProcessLost(w) ==
    /\ ~At(w, "gone")
    /\ Becomes(w, [process[w] EXCEPT !.pc = "gone"])
    /\ waiting' = IF At(w, "task") THEN waiting + 1 ELSE waiting

Fork(w) ==
    /\ At(w, "gone")
    /\ Becomes(w, Forked)
    /\ UNCHANGED waiting
-----------------------------------------------------------------------------
SetUp(w) == InitWorker(w) \/ RegisterClient(w) \/ Connect(w) \/ Launch(w)

Next ==
    \/ SendTask
    \/ \E w \in Workers :
          SetUp(w) \/ RunTask(w) \/ EndTask(w) \/ Shutdown(w) \/ ProcessLost(w) \/ Fork(w)

Spec == Init /\ [][Next]_vars

\* A process goes on with its set-up and with its task, whose awaits end or
\* raise; the pool gives a waiting task to an idle process, replaces one that ran
\* its last task, and forks another for one that is gone.
FairSpec ==
    /\ Spec
    /\ \A w \in Workers :
          /\ WF_vars(SetUp(w)) /\ WF_vars(RunTask(w)) /\ WF_vars(EndTask(w))
          /\ WF_vars(Recycle(w)) /\ WF_vars(Fork(w))
-----------------------------------------------------------------------------
(* Properties *)

Serving(p) == p.pc \in {"idle", "task"}

\* What the tasks find: no client (get_instance raises), no card generator or
\* none with a page (render raises), or both.
Outcome(p) ==
    CASE ~p.client -> "none"
      [] p.client /\ p.card = "page" -> "ready"
      [] OTHER -> "noCard"

\* A task never runs on another loop than the one on which the browser, the
\* client and the connections of earlier tasks were opened, although the manager
\* forgets its loop whenever somebody asks for one by its class.
ResourcesStayOnTheirLoop ==
    \A w \in Workers : At(w, "task") => process[w].bound = {process[w].loop}

\* The manager takes a process for started exactly when the tasks find all they
\* need: a set-up that failed halfway is not taken for a complete one.
StartedMeansReady ==
    \A w \in Workers :
        Serving(process[w]) => (process[w].started <=> Outcome(process[w]) = "ready")

\* What a process has set up never changes while it serves: nothing sets up
\* again what failed, and no task, error or signal takes away what is there.
Contract == INSTANCE ProcessContract
    WITH Outcomes <- {"none", "noCard", "ready"},
         outcome <- [w \in Workers |->
                        IF Serving(process[w]) THEN Outcome(process[w]) ELSE "starting"]

KeepsSetUp == Contract!Spec

\* A process whose set-up failed does not stay while there are tasks: the tasks
\* that it fails count, and it is replaced after the last one.
BrokenIsReplaced ==
    \A w \in Workers :
        (Serving(process[w]) /\ Outcome(process[w]) # "ready")
            ~> (~Serving(process[w]) \/ waiting = 0)
=============================================================================
