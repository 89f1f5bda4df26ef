--------------------------- MODULE MessageDelivery ---------------------------
(***************************************************************************)
(* A message on its way from a post to the WhatsApp group:                 *)
(*                                                                         *)
(*   - the request inserts the row as PENDING, commits, then sends a task  *)
(*     to the broker (services/message_service.py);                        *)
(*   - the broker (Redis) hands the task to a worker process and forgets it*)
(*     when the worker acknowledges it, after the task (task_acks_late);   *)
(*     it hands it out again when the process is lost                      *)
(*     (task_reject_on_worker_lost) or when its visibility timeout ends    *)
(*     first, under a new delivery tag;                                    *)
(*   - the worker process reads the row, renders a card, posts it through  *)
(*     the Evolution API and records SENT or FAILED                        *)
(*     (worker/tasks/send_message_to_group.py). Its Evolution client and   *)
(*     its card generator are set up once, when the process starts, and a  *)
(*     failure there is swallowed by Celery's signal.                      *)
(***************************************************************************)
EXTENDS Naturals, FiniteSets

CONSTANTS Messages,     \* messages posted
          Workers,      \* worker processes (--concurrency)
          MaxAttempts,  \* bound: deliveries of one task
          Nobody        \* the message of a worker without a task

ASSUME DeliveryAssumption ==
    /\ MaxAttempts \in Nat \ {0}
    /\ Nobody \notin Messages

VARIABLES
    request,    \* the request that posts the message
    status,     \* Message.wa_status, "none" before the row is committed
    queue,      \* tasks waiting in the broker: <<message, tag>>
    attempts,   \* deliveries of the message's task so far: the last tag
    worker,     \* worker processes
    copies,     \* copies of the message in the group
    shown,      \* ghost: the deliveries that put them there
    lost        \* ghost: messages whose outcome nothing will record

vars == <<request, status, queue, attempts, worker, copies, shown, lost>>

Tags == Nat \ {0}
Statuses == {"none", "pending", "sent", "failed"}

\* client: what the process managed to set up when it started. base: the
\* status as the session loaded it. held: the broker still waits for the ack.
WorkerStates ==
    [pc : {"init", "idle", "read", "render", "send", "sent", "failed", "ack"},
     client : {"none", "noCard", "ready"},
     msg : Messages \cup {Nobody},
     tag : Nat,
     base : Statuses,
     held : BOOLEAN]

Starting == [pc |-> "init", client |-> "none", msg |-> Nobody, tag |-> 0,
             base |-> "none", held |-> FALSE]

TypeOK ==
    /\ request \in [Messages -> {"new", "stored", "done"}]
    /\ status \in [Messages -> Statuses]
    /\ queue \in SUBSET (Messages \X Tags)
    /\ attempts \in [Messages -> Nat]
    /\ worker \in [Workers -> WorkerStates]
    /\ copies \in [Messages -> Nat]
    /\ shown \in SUBSET (Messages \X Tags)
    /\ lost \in SUBSET Messages

Init ==
    /\ request = [m \in Messages |-> "new"]
    /\ status = [m \in Messages |-> "none"]
    /\ queue = {}
    /\ attempts = [m \in Messages |-> 0]
    /\ worker = [w \in Workers |-> Starting]
    /\ copies = [m \in Messages |-> 0]
    /\ shown = {}
    /\ lost = {}
-----------------------------------------------------------------------------
(* Helpers *)

\* Mutant: the broker reuses the last tag.
DeliverStaleTag(m) ==
    /\ attempts' = [attempts EXCEPT ![m] = @ + 1]
    /\ queue' = queue \cup {<<m, attempts[m]>>}

\* The broker gets the task of m, or gets it again, under a fresh tag.
Deliver(m) ==
    /\ attempts' = [attempts EXCEPT ![m] = @ + 1]
    /\ queue' = queue \cup {<<m, attempts'[m]>>}

Goto(w, step) == worker' = [worker EXCEPT ![w].pc = step]

\* A session writes the status only when it differs from the one it loaded;
\* update_message swallows the errors of the database.
Record(w, s) ==
    LET m == worker[w].msg IN
    /\ \/ /\ status' = [status EXCEPT ![m] = IF worker[w].base = s THEN @ ELSE s]
          /\ UNCHANGED lost
       \/ /\ UNCHANGED status
          /\ lost' = lost \cup {m}
    /\ Goto(w, "ack")
    /\ UNCHANGED <<request, queue, attempts, copies, shown>>
-----------------------------------------------------------------------------
(* The request *)

\* The row is committed, with its mentions, as PENDING.
InsertMessage(m) ==
    /\ request[m] = "new"
    /\ request' = [request EXCEPT ![m] = "stored"]
    /\ status' = [status EXCEPT ![m] = "pending"]
    /\ UNCHANGED <<queue, attempts, worker, copies, shown, lost>>

\* Rate limit, content, lock, mentions or the database: nothing is stored.
Refuse(m) ==
    /\ request[m] = "new"
    /\ request' = [request EXCEPT ![m] = "done"]
    /\ UNCHANGED <<status, queue, attempts, worker, copies, shown, lost>>

SendTask(m) ==
    /\ request[m] = "stored"
    /\ request' = [request EXCEPT ![m] = "done"]
    /\ Deliver(m)
    /\ UNCHANGED <<status, worker, copies, shown, lost>>

\* The row cannot be read back, the broker cannot be reached or the API stops:
\* the row stays without a task.
TaskNotSent(m) ==
    /\ request[m] = "stored"
    /\ request' = [request EXCEPT ![m] = "done"]
    /\ lost' = lost \cup {m}
    /\ UNCHANGED <<status, queue, attempts, worker, copies, shown>>
-----------------------------------------------------------------------------
(* The worker process *)

\* worker_process_init: the client is registered before it is connected, and
\* the card generator is set up only after that.
Boot(w) ==
    /\ worker[w].pc = "init"
    /\ \E c \in {"none", "noCard", "ready"} :
         worker' = [worker EXCEPT ![w].pc = "idle", ![w].client = c]
    /\ UNCHANGED <<request, status, queue, attempts, copies, shown, lost>>

\* --max-tasks-per-child: a process between two tasks is replaced.
Recycle(w) ==
    /\ worker[w].pc = "idle"
    /\ worker' = [worker EXCEPT ![w] = Starting]
    /\ UNCHANGED <<request, status, queue, attempts, copies, shown, lost>>

\* Mutant: tasks are acknowledged when they are taken (no task_acks_late).
TakeAcksEarly(w) ==
    /\ worker[w].pc = "idle"
    /\ \E t \in queue :
         /\ queue' = queue \ {t}
         /\ worker' = [worker EXCEPT ![w].pc = "read", ![w].msg = t[1],
                                     ![w].tag = t[2]]
    /\ UNCHANGED <<request, status, attempts, copies, shown, lost>>

Take(w) ==
    /\ worker[w].pc = "idle"
    /\ \E t \in queue :
         /\ queue' = queue \ {t}
         /\ worker' = [worker EXCEPT ![w].pc = "read", ![w].msg = t[1],
                                     ![w].tag = t[2], ![w].held = TRUE]
    /\ UNCHANGED <<request, status, attempts, copies, shown, lost>>

\* The row and its thread are read. An error of the database, or no client,
\* ends the task without a trace in the row.
Read(w) ==
    LET m == worker[w].msg
        ends == Goto(w, "ack") /\ lost' = lost \cup {m} IN
    /\ worker[w].pc = "read"
    /\ \/ ends
       \/ /\ status[m] # "none" /\ worker[w].client # "none"
          /\ worker' = [worker EXCEPT ![w].pc = "render", ![w].base = status[m]]
          /\ UNCHANGED lost
    /\ UNCHANGED <<request, status, queue, attempts, copies, shown>>

\* Without a card generator there is nothing to send.
Render(w) ==
    /\ worker[w].pc = "render"
    /\ \/ worker[w].client = "ready" /\ Goto(w, "send")
       \/ Goto(w, "failed")
    /\ UNCHANGED <<request, status, queue, attempts, copies, shown, lost>>

\* Mutant: a send that timed out is tried again by the client.
ShowAgain(w) ==
    LET m == worker[w].msg IN
    /\ worker[w].pc = "send"
    /\ copies[m] < 3
    /\ copies' = [copies EXCEPT ![m] = @ + 1]
    /\ shown' = shown \cup {<<m, worker[w].tag>>}
    /\ Goto(w, "sent") \/ UNCHANGED worker
    /\ UNCHANGED <<request, status, queue, attempts, lost>>

\* The Evolution API shows the card in the group, and its answer arrives or
\* does not (timeout, unreadable answer).
Show(w) ==
    LET m == worker[w].msg IN
    /\ worker[w].pc = "send"
    /\ copies' = [copies EXCEPT ![m] = @ + 1]
    /\ shown' = shown \cup {<<m, worker[w].tag>>}
    /\ Goto(w, "sent") \/ Goto(w, "failed")
    /\ UNCHANGED <<request, status, queue, attempts, lost>>

\* Mutant: an error status of the Evolution API is taken for an answer.
SendFailsUnseen(w) ==
    /\ worker[w].pc = "send"
    /\ Goto(w, "sent")
    /\ UNCHANGED <<request, status, queue, attempts, copies, shown, lost>>

\* The Evolution API refuses, or was never reached.
SendFails(w) ==
    /\ worker[w].pc = "send"
    /\ Goto(w, "failed")
    /\ UNCHANGED <<request, status, queue, attempts, copies, shown, lost>>

\* Mutant: recording SENT raises after its commit and falls into the handler.
RecordSentRaises(w) ==
    /\ worker[w].pc = "sent"
    /\ status' = [status EXCEPT ![worker[w].msg] = "sent"]
    /\ Goto(w, "failed")
    /\ UNCHANGED <<request, queue, attempts, copies, shown, lost>>

RecordSent(w) == worker[w].pc = "sent" /\ Record(w, "sent")

RecordFailed(w) == worker[w].pc = "failed" /\ Record(w, "failed")

\* The task has returned or raised: it is acknowledged in both cases.
Ack(w) ==
    /\ worker[w].pc = "ack"
    /\ worker' = [worker EXCEPT ![w] = [Starting EXCEPT !.pc = "idle",
                                                        !.client = worker[w].client]]
    /\ UNCHANGED <<request, status, queue, attempts, copies, shown, lost>>
-----------------------------------------------------------------------------
(* Losses and redeliveries *)

\* Mutant: a lost process takes its task with it (no task_reject_on_worker_lost).
ProcessLostWithTask(w) ==
    /\ worker[w].msg # Nobody
    /\ worker' = [worker EXCEPT ![w] = Starting]
    /\ UNCHANGED <<request, status, queue, attempts, copies, shown, lost>>

\* The process is lost during a task. The broker gets the task back, unless
\* its visibility timeout had already put it back.
ProcessLost(w) ==
    LET m == worker[w].msg IN
    /\ m # Nobody
    /\ worker[w].held => attempts[m] < MaxAttempts
    /\ worker' = [worker EXCEPT ![w] = Starting]
    /\ IF worker[w].held THEN Deliver(m) ELSE UNCHANGED <<queue, attempts>>
    /\ UNCHANGED <<request, status, copies, shown, lost>>

\* The visibility timeout ends while the process still works on the task.
VisibilityTimeout(w) ==
    LET m == worker[w].msg IN
    /\ worker[w].held
    /\ attempts[m] < MaxAttempts
    /\ worker' = [worker EXCEPT ![w].held = FALSE]
    /\ Deliver(m)
    /\ UNCHANGED <<request, status, copies, shown, lost>>

RequestStep(m) == InsertMessage(m) \/ Refuse(m) \/ SendTask(m) \/ TaskNotSent(m)

WorkerStep(w) ==
    \/ Boot(w) \/ Read(w) \/ Render(w) \/ Show(w) \/ SendFails(w)
    \/ RecordSent(w) \/ RecordFailed(w) \/ Ack(w)

Next ==
    \/ \E m \in Messages : RequestStep(m)
    \/ \E w \in Workers : WorkerStep(w) \/ Take(w) \/ Recycle(w)
                            \/ ProcessLost(w) \/ VisibilityTimeout(w)

Spec == Init /\ [][Next]_vars

\* A request that stored its row goes on to the broker or fails; a worker
\* process goes on with what it does, and takes a task when there is one: being
\* recycled between two tasks, which Celery does after so many of them, does
\* not keep it from taking tasks for ever.
Fairness ==
    /\ \A m \in Messages : WF_vars(SendTask(m) \/ TaskNotSent(m))
    /\ \A w \in Workers : /\ WF_vars(WorkerStep(w))
                          /\ SF_vars(Take(w))

FairSpec == Spec /\ Fairness
-----------------------------------------------------------------------------
(* Properties *)

Working(m) == \E w \in Workers : worker[w].msg = m /\ worker[w].pc # "ack"
Waiting(m) == \E t \in queue : t[1] = m

\* A row is PENDING only while its request, its task or a worker still has to
\* act, or after one of the losses named above: no other way to be forgotten.
PendingIsExplained ==
    \A m \in Messages :
        status[m] = "pending" =>
            request[m] = "stored" \/ Waiting(m) \/ Working(m) \/ m \in lost

\* The group gets at most one copy of a message per delivery of its task: a
\* second copy takes a lost process or a visibility timeout.
CopiesBounded == \A m \in Messages : copies[m] <= attempts[m]

\* A row that says SENT is only overwritten by FAILED when the task was
\* delivered more than once.
DowngradeNeedsRedelivery ==
    [][\A m \in Messages :
         (status[m] = "sent" /\ status'[m] # "sent") => attempts[m] > 1]_vars

\* Posting keeps its contract: stored before shown, shown before SENT.
Contract == INSTANCE DeliveryContract
              WITH stored <- {m \in Messages : status[m] # "none"},
                   shown <- {m \in Messages : copies[m] > 0},
                   said <- {m \in Messages : status[m] = "sent"}

KeepsContract == Contract!Spec

\* A task that reached the broker ends: every row gets an outcome or is lost
\* in one of the named ways.
Settled(m) == status[m] \in {"sent", "failed"} \/ m \in lost

TasksSettle ==
    \A m \in Messages : (Waiting(m) \/ Working(m)) ~> Settled(m)
=============================================================================
