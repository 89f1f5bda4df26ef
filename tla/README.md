# Formal models of ngl-clone-backend

TLA+ models of the backend in `src/app`, model-checked with TLC on small
instances and, for the properties that matter most, proved with TLAPS for every
value of the constants. `PROJECT.json` lists components, runs, mutants, the map
from definitions to source lines, hazards and theorems.

## The system

Members of a WhatsApp group receive anonymous messages posted on a site. Three
programs share one Postgres database and one Redis:

| program | entry point | role |
|---|---|---|
| API | `app/main.py` | threads, connection to a thread, posting and reading messages |
| webhook receiver | `app/webhook_app.py` | events of the Evolution API: commands of group members |
| Celery worker, 2 processes | `app/worker/celery_app.py` | sends messages to the group, synchronises members |

They interact through the rows of Postgres, the entries of Redis (cache and
rate-limit counters), tasks (Redis is the broker as well) and the HTTP requests
the webhook receiver and the worker send to the Evolution API. No lock is
shared: each `await` is a point where any other operation can run, and each
program may stop at it.

### Inventory

| component | state | operations | what is hard | correct when | status |
|---|---|---|---|---|---|
| Threads and their cache | `threads` row; entries *thread*, *thread by group*, *list*, *raw* | create, read by id / slug / list, connect, `/lock`, `/unlock`, `/edit-*`, `/ngl`, synchronisation stamp | fills that race commits, swallowed Redis errors, stops between commit and deletion, decisions on copies | outdated copies have a known cause, disappear, and no revision comes back | modelled, proved |
| Message delivery | `messages.wa_status`; broker queue; worker processes | post, send task, take, render, send, record, acknowledge | acks-late redelivery, timeouts that hide a success, a database commit and a broker send that are not atomic | no message forgotten silently, SENT implies shown, copies only by redelivery | modelled, proved |
| Rate limiter | Redis counter with TTL | check (INCR, EXPIRE, compare) | two commands, fail-open, concurrent posts | window opened once, ended once, limit bounded | modelled, proved |
| Member synchronisation | `members`, `thread_members`, cached member list | task of `/map_group` and `/sync-thread`, read of the list | several transactions, all-or-nothing inserts, concurrent and repeated tasks, fills that race their commits | links are backed, participants get linked, an outdated list has a known cause | modelled, proved in part |
| Message pages and lists | `messages`; entries per cursor | read page, next, previous; deletion on post | un-awaited deletion, cursor boundaries, out-of-order commits | a walk through the pages shows each message once | pages modelled, proved; full list and single message not |
| Sessions | `sessions` row; entry | login, lookup, refresh, logout | lookup racing a logout, half-done deletions | a revoked session stops being accepted | modelled, proved |
| Worker life cycle | loop, Evolution client, card generator of each process | fork, set-up, task, recycling, shutdown, loss | singleton whose constructor forgets its state; set-ups that fail halfway and go unnoticed | tasks stay on the browser's loop, a half set-up is never taken for a whole one, broken processes are replaced | modelled, proved |
| Webhook dispatch | Evolution client; the requests in progress | receive, authorise, run a command | events delivered late or twice, two administrators at a time, a password that only one text carries, commits followed by texts and tasks that fail | administrators only, one thread per group, the shown password opens it, what was announced happens or a named failure came between | modelled, proved |
| Users, members, delivery and synchronisation logs, HTTP layer, tokens, start-up | rows and entries of one writer, or none | | | | not modelled, see `PROJECT.json` |

## Modules

| module | models |
|---|---|
| `ThreadRegister` | abstract: a row has a current revision, copies of older ones may be about, a revision nobody holds never comes back |
| `ThreadCaching` | the thread row, its four entries, requests, command handlers and synchronisation tasks |
| `ThreadCachingProofs` | theorems about `ThreadCaching` |
| `DeliveryContract` | abstract: stored before shown, shown before SENT, neither taken back |
| `MessageDelivery` | request, broker, worker processes, Evolution API, row |
| `MessageDeliveryProofs` | theorems about `MessageDelivery` |
| `RateLimiter` | the counter of one client, in ticks relative to now |
| `RateLimiterProofs` | theorems about `RateLimiter` |
| `MemberSync` | the group, member rows, links, the cached list and the requests that read it, the tasks |
| `MemberSyncProofs` | theorems about `MemberSync` |
| `MessagePages` | the messages of a thread, cursors, the cached pages, readers who turn them |
| `MessagePagesProofs` | theorems about `MessagePages` |
| `SessionCache` | the row of a session, its copy, login, lookup, logout |
| `SessionCacheProofs` | theorems about `SessionCache` |
| `MappingContract` | abstract: a group gets one thread with one password, and is only shown that one |
| `CommandDispatch` | the webhook receiver: events, authorisation, `/map_group`, `/sync-thread`, the shape of the other commands |
| `CommandDispatchProofs` | theorems about `CommandDispatch` |
| `ProcessContract` | abstract: what a process could set up it has until it is replaced |
| `WorkerLifecycle` | the worker processes from fork to end, with the loop, the client and the card generator |
| `WorkerLifecycleProofs` | theorems about `WorkerLifecycle` |
| `MCThreadCaching`, `MCMemberSync` | instances for TLC; they add the symmetry sets of the runs without liveness |

How the modules meet: the commands that `CommandDispatch` accepts are the handlers
of `ThreadCaching` (its `UpdateThread` is their `Load` to `Invalidate`), the tasks
it sends are those of `MemberSync`, which takes a thread for granted
(`TasksHaveThreads`, proved as a theorem); the posts that `RateLimiter` and the lock of `ThreadCaching`
let through are those of `MessageDelivery`; and the outcome that
`WorkerLifecycle` shows of a set-up, with its refinement of `ProcessContract`, is
what `Boot` and `Recycle` of `MessageDelivery` take for granted.

Definitions whose comment starts with *Mutant* belong to no behaviour: each is
the definition below it with a plausible bug, and shows that a property of a run
notices it.

### ThreadCaching

State: `row` (revision, revision of the last change a *raw* reader can see,
lock), `cache` (entry or `NoCopy`), `proc` (operation in progress of each
process: next await, the copy it read, the entries it still has to delete). An
operation is a path through the actions:

| operation | source | path |
|---|---|---|
| read by id, list, connect | `thread_service.py`, `auth_thread_service.py` | `Start`, `CacheHit` or `CacheMiss`/`Select`/`Fill`, `Decide` |
| read by slug | `thread_service.py:151` | `Start`, `Select`, `Fill`, `Decide` |
| post (check of the lock) | `message_service.py:238`, `thread_service.py:76` | as by id, then `Decide`, `InsertMessage` |
| create (`POST /threads`, `/map_group`) | `thread_service.py:212` | `Start`, `CommitUpdate`, `Select` (refresh), `Fill`, `Invalidate` list |
| `/lock`, `/unlock`, `/edit-*` | `thread_commands.py` | group's entry, `Decide`, `Load`, `CommitUpdate` or `UpdateFails`, four `Invalidate`, `Confirm` |
| `/ngl` | `thread_commands.py:229` | group's entry, `Decide` |
| synchronisation stamp | `sync_thread_members.py:166` | `Load`, `CommitUpdate`, `Reply`, three `Invalidate` |

`Invalidate` deletes or loses the deletion, because `ThreadCache` catches every
exception (`cache_utils.py`). `Stop` drops the rest of an operation: a process
that ends, or a request whose client left. Copies keep two ghost marks, *late*
(outdated when stored) and *missed* (a deletion was lost), which name the causes
of staleness.

`Updated` follows SQLAlchemy's unit of work: an assignment writes a column only
when its value differs from the one loaded. That is what makes the finding
about `/lock` possible.

### MessageDelivery

State: the request of each message, `status` of its row, the broker's `queue` of
`<<message, tag>>`, `attempts` (deliveries so far), the worker processes (step,
what their set-up left, message, tag, the status the session loaded, whether the
broker still waits for the acknowledgement), `copies` in the group. Ghosts:
`shown` (which delivery put a copy there) and `lost` (messages that one of the
named losses left without an outcome: the task was not sent, the task ended in
an error before its handler, the record failed).

`Take` keeps the task with the broker (`task_acks_late`), `ProcessLost` gives it
back (`task_reject_on_worker_lost`), `VisibilityTimeout` gives it out a second
time while the first process still works. `Boot` leaves one of three states:
no client, a client without card generator (the client is registered before it
is connected), or everything. Celery's signal swallows the exception, so that
the process takes tasks in all three.

### RateLimiter

Every post is INCR, then EXPIRE when the answer is 1, then the comparison. An
error of Redis lets the post pass, and a command whose answer is lost may have
been executed. Ages are counted in ticks from now, so that the model has no
clock: `admitted[a]` is the number of posts whose INCR is `a` ticks old.

The counter is assumed to survive Redis (`appendonly yes` in
`docker-compose.yml`) and the client not to repeat commands by itself
(`cache_wrapper.py`, no retry configured).

### MemberSync

State: the participants of the group, member rows, links of the thread, the
cached member list (none or one copy), the requests that read it, the tasks
(step, participants sent with the task, rows the session knows, whether it linked
any). The inserts of member
rows and of links are all-or-nothing (`Accepts`), because a unique index and a
primary key reject the whole flush. When the insert of member rows is refused
the session rolls back and expires the rows it had read: the next use raises
(`InsertRefused`). A thread never disappears, so the failure of
`update_last_wa_sync_at` is a database error and ends the task when it uses
`update_res.data`.

A read of the list that the cache does not answer is two steps,
`SelectList` and `FillList`, since `service_get_thread_members` awaits the SELECT and then
the SET: links may be committed, and the copy deleted, between the two. The SET
overwrites whatever the cache has by then (`save_list_in_cache`). The look-up before
them is no step: a hit changes nothing, and after a miss, or an error of Redis that
the cache turns into one, a SELECT may come at any time. `Expire` is the end of the
twenty minutes. A copy bears two ghosts: `late`, it was outdated when it was stored,
and `missed`, a deletion that was due was not made while it was outdated: the task
failed before it (`DropsDeletion`), Redis refused it, the process was lost (the task that
runs again finds its links there and deletes nothing), or the links were
committed and not read back, so that the task does not know of them.

### MessagePages

State: `stored` (the committed messages), `post` (where each post is: committed,
deleting with the pages its scan found, done), `cache` (for each cursor the
entry or `NoPage`), `reader` (the request or the page of each client). A message
is its place in the order `(created_at, id)` of the index; `InsertMessage` takes
the places in any order, because `created_at` is the start of the transaction.
A page is a function of its cursor and of the messages its query found, so that an
entry keeps only those (`from`); contents of messages, which the worker changes
later (`wa_status`), are left out. `Page` translates the three branches of
`get_messages_by_thread_id_paginated`, the last rows of the previous page, the
one row too many and the cursors included.

A request is `Open`, `TurnPage` or `GoBack`, then `CacheHit` or
`CacheMiss`/`Select`/`Fill`. The deletion of the pages is a task of its own
(`asyncio.gather` without `await`): `StartScan`, one `DeletePage` for each key
found, `ScanEnds`, or `DeletionLost` at any point. The ghosts of a reader collect
what it was shown on its way (`seen`), what was there when it began (`since`) and
whether an outdated page was on it (`stale`).

### SessionCache

State: `row` (none, open, revoked, deleted) and `past` (its day is over) of one
session, its copy in Redis, whether the client has the tokens, whether a logout
was confirmed, and the requests. A login is `InsertSession`, `Fill`, `FindUser`,
`Answer`; a lookup `Begin`, then `CacheHit`, or `CacheMiss`, `Select` and either
`Fill` or, for an ended session, `DeleteRow` and `DeleteEntry` in any order
(`asyncio.gather`) and `Refuse`; a logout `Load`, `RevokeRow`,
`InvalidateEntry`. A revocation gives the row the present time as its end, so
that its copies, which keep the first end, do not show it. An `UPDATE` of a row that a
lookup deleted meanwhile raises (SQLAlchemy's `StaleDataError`) and ends the
logout. Before its login was answered nobody can name a session; that its
tokens also end is left out, since a request without one does not reach the
session.

### CommandDispatch

State: `handler` (of each request: the next await that can leave something
behind, its event, the password it drew), `client` (whether the receiver has an
Evolution client), `thread` (password, settings and, as a ghost, who created it),
`told` (passwords shown in each group), `promised` (groups told that a
synchronisation started), `tasks` (groups for which one was sent) and the ghost
`cut` (which failure left a command of the group half done).

| code | actions |
|---|---|
| `webhook_app.webhook`, `WebhookHandler.handle_webhook`, `WhatsAppCommandHandler.process` | `Run`, `Dismiss` (silenced group, no client, refusal, chat, unknown command, `/ngl`, `/help`, `/docs`, the bot joins a group) |
| `map_group_handler` | `Run` (draws the password), `InsertThread`, `Announce`, `SendTask` |
| `sync_thread` | `FindThread`, `Launch`, `SendTask` |
| `/lock`, `/unlock`, `/edit-*` | `FindThread`, `UpdateThread` (the steps in between are in `ThreadCaching`) |
| `POST /threads` | `CreateThread` |
| `webhook_app_lifespan` | `Init`, `Restart` |

`InsertThread` is the whole of `insert_thread`: the commit, and the refresh after
it that may raise, in which case the group is told of an error. A text that
raises may have been shown (a timeout hides it). Every request is answered 204,
so that no event is delivered again because of a failure; but nothing records
which events were seen either, and `Run` takes any event at any time. The
administrators are those the event names.

### WorkerLifecycle

State of each process: the await of its set-up or what it does after it, the
loop of the manager (0 for none) and the number of loops made, `_resources_started`,
whether the client singleton exists, how far the card generator came, the tasks
it ran, and, as a ghost, the loops on which something was opened (`bound`).

| code | actions |
|---|---|
| `init_worker_resources`, `start_browser_resources` | `InitWorker`, `RegisterClient`, `Connect`, `Launch` (three times), each of which may raise (`GivesUp`; a refused connection has used the HTTP client on the loop) |
| the two tasks, `run_async` | `RunTask`, `EndTask` |
| `teardown_worker_resources`, `close` | `Shutdown` (`Recycle` after the last task) |
| the pool of Celery, `--max-tasks-per-child`, `task_reject_on_worker_lost` | `Fork`, `Recycle`, `ProcessLost` |

Celery logs what a handler of a signal raises, so that a process goes on to take
tasks whatever its set-up left. `AsyncLoopManager()` returns the one object of
the process and runs `__init__` on it again (`NewManager`): at the fork this is
harmless, since nothing is set up before it, and at the shutdown it means that
`close` finds no loop and closes nothing, against its docstring ("Ferme proprement
Chromium, le client HTTP, puis la boucle elle-même"). The process ends right
after, which is why no property is about it. What matters is that the tasks use
the object (`task_async_loop_manager`) and not the class
(`ResourcesStayOnTheirLoop`).

## Runs

All runs are exhaustive over their instance. Deadlock is checked except where
the system may stop (`MemberSync_*`: the tasks and the bounded errors run out;
`SessionCache_check`: a session that was stored and whose login was not answered is
of no use to anyone). `MessagePages_*` are safety only: nothing makes a client turn
a page.

| run | instance | shows |
|---|---|---|
| `ThreadCaching_check` | 1 request (list, connect, post), 1 handler (create, lock, edit, sync), 2 commits; fair | types; an outdated copy of any of the four entries is a late fill, a lost deletion or one still to come; refinement of `ThreadRegister`; entries agree with the row once updates cease; posts stop when the thread stays locked |
| `ThreadCaching_lock_commit` | violation; 1 post, 2 handlers, 6 commits | `/lock` commits an unlocked row |
| `MessageDelivery_check` | 2 messages, 2 workers, 2 deliveries of a task; fair | types, PENDING explained, copies bounded, downgrades explained, refinement of `DeliveryContract`, tasks settle |
| `RateLimiter_check` | 3 posts, maximum 2, window of 3 ticks; fair | TTL explained, window never prolonged, at most twice the maximum, recovery |
| `RateLimiter_wait` | violation | waiting is not enough |
| `MemberSync_check` | 3 users, 2 tasks, 1 reader, 2 processes, 2 errors, 1 loss, 1 move; fair | links backed; an outdated list is a late fill, a lost deletion or one still to come; participants get linked |
| `MemberSync_announced` | violation | success announced, newcomer not linked |
| `MessagePages_walk` | 1 reader, 3 messages (1 old), pages of 1, 2 entries in Redis | types; an outdated page is a late fill, a lost deletion or one still to come; the way to older messages repeats nothing and leaves out nothing without an outdated page |
| `SessionCache_check` | 2 requests; fair | after a logout only a copy stored too late or never deleted is accepted; after the day nothing is; no row comes back; a revoked session is refused in the end |
| `MessagePages_back` | violation | pages of 2: the way back leaves out a message |
| `CommandDispatch_check` | 2 groups (1 silenced), 2 senders (1 sudo), 2 requests, 2 passwords, 3 deliveries of events; fair | types; an unannounced thread and an announcement without its task have a named cause; only administrators change a thread; refinement of `MappingContract`; a mapped group gets its members or a failure came between |
| `WorkerLifecycle_check` | 2 processes, 2 tasks per process, 2 waiting; fair | types; one loop per process; started means ready; refinement of `ProcessContract`; a broken process does not stay while there are tasks |

**Bounds.** `MaxCommits` 2 gives a creation and an update, which is what it takes
for a copy to be outdated; the handler and the request race at every await, and
the races of more handlers are covered by the proofs, which bound nothing.
`LockCommitLocks` needs 6 commits and two handlers because it needs lock, unlock
and the two racing commands after a stale fill. `MaxAttempts` 2 lets the task be given
out a second time while the first process still works on it; the proofs hold for
any number. `MaxCount` stays above `Maximum`, so that refusals occur, and `Window`
3 lets two generations of the key overlap with posts in progress. In `MemberSync`
two tasks are enough for each unique constraint to be hit by the other task; one
request holds an old list across any step of both, and requests follow each other
without end (others would only do the same to `copies`).
In `MessagePages` two posts can commit in either order around an old message and
delete each other's pages; pages of 1 make every message a boundary, and
`MaxPages` 2 keeps two different pages outdated at once (it only withholds fills,
which may fail anyway). One reader fills and finds its own pages; other readers
would only do the same to `cache`. `SessionCache` needs no bound but the number of
requests at a time: two let each step of one fall between any two of the other,
and requests follow each other without end. In `CommandDispatch` three deliveries are
enough for `/map_group` twice (two requests, or one event twice) and another
command among them; the second group, silenced, is one that nothing may touch
but the API. In `WorkerLifecycle` two tasks of two (`MaxTasks`) make a first and a
last task of a process, and `MaxWaiting` 2 keeps work there for both processes;
processes follow each other without end. Symmetry is used in runs without
liveness only.

## Fairness

- `ThreadCaching`: weak fairness of each operation's next step (an event loop
  runs what is ready; every await ends or raises) and of the expiry of outdated
  entries (every fill sets a TTL). Nothing forces operations to start. A fresh
  copy need not expire.
- `MessageDelivery`: weak fairness of the step a worker process is at and of the
  request that stored a row; strong fairness of `Take`, because a process that is
  recycled between two tasks (`--max-tasks-per-child`, after a hundred tasks)
  disables it again and again without keeping the process from work. Losses and
  timeouts are not fair, and bounded by `MaxAttempts`.
- `RateLimiter`: time passes, a check that began ends. No client must post.
- `MemberSync`: tasks are taken and go on. Losses are bounded. Nothing forces reads of
  the list or the end of a copy.
- `SessionCache`: requests that began go on; an outdated copy expires (every fill
  sets a TTL of twenty minutes, and no read renews it). Nobody need log out.

- `CommandDispatch`: a request that began goes on (each await ends or raises). No
  event has to arrive, and no restart has to happen.
- `WorkerLifecycle`: set-up and task go on; the pool hands a waiting task to an idle
  process, forks another process for one that is gone and replaces one that ran
  its last task. Nothing forces tasks to come, and losses are not fair.

## What is proved

TLAPS checks these for every value of the constants that satisfies the named
assumption of each module; they need no bound on processes, commits or errors.
`LimiterAssumption` takes the set of posts in progress to be finite, as it is in any
program, so that posts can be counted; how many there are is left open.

| theorem | from |
|---|---|
| `ThreadCachingProofs`: `TypeCorrect`, `StaleCopiesExplained`, `ImplementsRegister`, `LocksLostToOthers` | `ConstantsAssumption` |
| `MessageDeliveryProofs`: `TypeCorrect`, `PendingExplained`, `CopiesAreBounded`, `DowngradesNeedRedelivery`, `ImplementsContract`, `ImplementsProcess` | `DeliveryAssumption` |
| `RateLimiterProofs`: `TypeCorrect`, `TtlExplained`, `NeverProlonged`, `TwoWindows`, `StuckForEver` | `LimiterAssumption` |
| `MemberSyncProofs`: `TypeCorrect`, `LinksBacked`, `StaleListsExplained`, `FirstTaskIsSynced` | `SyncAssumption` |
| `MessagePagesProofs`: `TypeCorrect`, `StalePagesExplained`, `WalksSkipNothing`, `WalksNeverRepeat`, `GoingBackLeavesOneOut` | `PagesAssumption` |
| `SessionCacheProofs`: `TypeCorrect`, `LogoutsAreFinal`, `EndsAreFinal`, `RowsDeletedForGood`, `RefusedForEver` | `SessionAssumption` |
| `CommandDispatchProofs`: `TypeCorrect`, `TasksTakeThreads`, `UnannouncedExplained`, `SyncFollows`, `AdministratorsChange`, `ImplementsMapping` | `DispatchAssumption`, `NoneAssumption` |
| `WorkerLifecycleProofs`: `TypeCorrect`, `ResourcesStay`, `StartedIsReady`, `ImplementsProcess` | `LifecycleAssumption` |

How the arguments go:

- *ThreadCaching.* Revisions never exceed the row's (`IndInv` strengthens the
  property by this and by what each step of an operation implies for its copy
  and its deletions). A commit makes copies outdated in the very step in which
  its handler takes on their deletion; every later step either deletes, marks
  the copy as missed or keeps the handler. The refinement maps a commit to
  `Commit` and every other step to `Forget` or a stutter, because a step only
  copies revisions that are already live. For the locks (`LoadedRows`), what an
  update loaded is the row as it is, unless its revision is older: a commit that
  writes nothing then finds a row that somebody else has changed since.
- *MessageDelivery.* The invariant ties the four places a delivery can be (queue,
  worker, `shown`, nowhere) to the tags: tags never exceed `attempts`, a tag is
  in the queue or with one worker but not both (`Tokens`, `Owned`), `copies` is
  the number of shown tags (`Counted`), SENT has a shown tag (`SentShown`), and
  with one delivery the row changes at most once (`SingleDelivery`, which
  `DowngradeNeedsRedelivery` needs). `ImplementsProcess` maps a worker to the
  outcome of its set-up: `Boot` chooses it, `Recycle` and `ProcessLost` forget it,
  and every other step keeps it, the reset of `Ack` included.
- *RateLimiter.* A post that has to EXPIRE belongs to the present key and is alone
  in that while the key has no TTL: the key cannot expire before it. Hence no
  other post ever gives a TTL to a key that has one. For `TwoWindows` the invariant
  (`TwoLives`) says that there is an age `k` that splits the last window between two
  lives of the key: on each side the posts admitted and those still to be
  decided that could be admitted (`Load`) are `Maximum` at most. An INCR adds to the younger
  side as long as its answer is within the limit, and `Tick` moves the boundary. A TTL
  is a whole window, so that when a key expires the life before it is out of sight
  and its own posts become the older side, with the boundary at 0. Ages and posts are sets
  of pairs here, so that a sum over ages is the cardinality of one set.
- *MemberSync.* `known` of a task at the links consists of committed rows, and
  `known` never exceeds `seen`. A commit of links makes the copy outdated in the step
  in which its task takes on the deletion, or marks the copy if the task does not
  learn of the commit; every later step makes the deletion, keeps the task or marks
  the copy (`MissedMarks`), and a fill that is outdated says so. A first task
  (`AloneAt`) meets no row or link but its own, so that it has linked nobody or
  everybody, and a second start of it after a loss changes neither.
- *MessagePages.* First the pages alone: a page that is not the last shows a full
  page of the newest messages beyond its cursor, so that what lies beyond and is
  not shown is older than the next cursor (`NothingSkipped`, from `HasMin` and the
  cardinality of `Newest`). Then the walk: on the way to a page all messages seen
  are at or after its cursor and all missing ones before it (`WalkAt`), which
  `Receive` turns into the two properties. Stale pages are as in *ThreadCaching*,
  with the scan as the deletion still to come. Going back, the rows returned
  are the `Limit + 1` oldest after the cursor, and the newest `Limit` of so many are
  all but one (`NewestButOne`).
- *SessionCache.* From the confirmation of a logout on, the row is over and the copy,
  if there is one, bears a mark (`Marked`): a deletion that is lost marks it, and
  every later fill is late. What is validated is open and in its day at that
  moment, and neither comes back (`Forward`), so that a request that began later
  cannot have been validated (`RequestInv`). Once the copy is gone and no request is
  past its check, only the row can grant one, which is over (`Forgotten`).

- *CommandDispatch.* What a request knows stays true while others run: no thread
  disappears and none changes its password (`ThreadsStay`), so that a request past
  its insertion or its lookup has a thread, and one about to announce holds the
  password of that thread (`HandlerInv`). Its authorisation was checked when the
  command was accepted and is kept by the event it carries. The two properties that
  explain a missing announcement or task are inductive with this: each step that
  ends a request halfway puts its cause into `cut`, from which nothing is removed.
- *WorkerLifecycle.* One invariant per step of a process (`ProcessInv`): before its
  set-up it is as forked, from then on it has one loop and everything open is on
  it; `started` is only set with a client and a page, and neither the tasks nor
  anything else of a serving process touches them.

Theorems that no run states as a property say what is left of a promise the code
breaks (`LocksLostToOthers`, `FirstTaskIsSynced`, `GoingBackLeavesOneOut`), that a
breach lasts (`StuckForEver`), that a refusal lasts (`RefusedForEver`), or that two
models agree on a contract (`MessageDelivery` and `WorkerLifecycle` on
`ProcessContract`). Each formula held on an instance of the module before it was
proved.

Model-checked only: the liveness properties (`EventualCoherence`,
`LockEventuallyEnforced`, `TasksSettle`, `BlockedRecovers`, `EverybodyLinked`,
`RevokedEventuallyRefused`, `MappedGetsMembers`, `BrokenIsReplaced`), because the proof
system here has no ENABLED and no fairness. Every invariant and every safety action
property of a run is a theorem.

## Findings

Each is a violation run; `PROJECT.json` quotes both sides.

1. `/lock` can confirm a lock it did not write (`ThreadCaching_lock_commit`); it takes
   an overlapping command (`LocksLostToOthers`).
2. A client can stay refused for ever (`RateLimiter_wait`); once the EXPIRE is lost
   and the counter is full, nothing ends it (`StuckForEver`).
3. `/sync-thread` announces success after linking nobody
   (`MemberSync_announced`); the first task of a thread does not
   (`FirstTaskIsSynced`).
4. Going back to the page before leaves out a message (`MessagePages_back`): one, and
   only on a full page (`GoingBackLeavesOneOut`).

Differences between code and documents seen on the way, which no run is about:
`README.md:174` says that `/map_group` creates *or links* a thread, and the code only
creates; `README.md:170` names an administrator role of the system besides the
group's, and the code knows a list of senders (`SUDO_USERS_JID`) instead; the help
text (`messages.py:124`) marks `/sync-thread` for administrators, and anybody may give it
(`commands_handlers.py:87`, `README.md:180`); the comment in
`docker-compose.yml:87` says that a worker process is replaced after 10 tasks, and the
command says 100; a post that begins after a confirmed `/lock` is still inserted when the
deletion of the thread's entry was lost or a late fill came back (the copies that
`StaleCopyIsExplained` names, `LockEventuallyEnforced` ends).

## Plan

Done: `ThreadCaching`, `MessageDelivery`, `RateLimiter`, `MemberSync`, `MessagePages`,
`SessionCache`, `CommandDispatch`, `WorkerLifecycle`, each with its proofs and, but for the
rate limiter, the member synchronisation, the pages and the sessions, with an
abstract specification it implements. What would come next:

1. the copy of a single message and the deprecated full list, whose `wa_status`
   nobody refreshes when the worker records an outcome (`message_service.py:75`);
2. `Posting`: composition of rate limit, lock check and delivery, refining
   `DeliveryContract` with the number of posts a window lets through, for which
   `TwoWindows` is the lemma;
3. abstract specifications of a session and of a walk through the pages, with their
   refinements: their invariants are there (`SessionInv`, `WalkInv`).

## Not modelled

Components that keep no state of their own or have one writer at a time are left
out: users and members with their caches (reads through a cache of the shape of
the thread's), the repositories of the delivery and synchronisation logs (nothing
calls them), the HTTP layer, tokens, start-up. Of the messages the copy of a single one
and the deprecated full list are left out: their entries are of the shape of those in
`ThreadCaching`, but nothing deletes the first (it expires).

Wording, HTTP statuses, validation of fields, cryptography, rendering of the
card, logging, migrations. Postgres is assumed to commit atomically and to
enforce its constraints; a transaction's reads see what is committed (READ
COMMITTED). Redis executes commands one at a time.
