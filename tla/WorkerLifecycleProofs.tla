------------------------ MODULE WorkerLifecycleProofs ------------------------
(***************************************************************************)
(* Theorems about WorkerLifecycle, for every number of processes, tasks per*)
(* process and waiting tasks.                                              *)
(***************************************************************************)
EXTENDS WorkerLifecycle, TLAPS

\* What the process p has at each of its steps. From the first await of its
\* set-up it has one loop, on which everything is opened.
ProcessInv(p) ==
    /\ p.pc = "forked" => p = Forked
    /\ p.pc \in {"register", "connect", "launch"} => ~p.started
    /\ p.pc = "register" => ~p.client /\ p.card = "none"
    /\ p.pc = "connect" => p.client /\ p.card = "none"
    /\ p.pc = "launch" => p.client /\ p.card \in {"registered", "driver", "browser"}
    /\ p.pc \notin {"forked", "gone"} => p.loop # 0 /\ p.bound \subseteq {p.loop}
    /\ p.pc \in {"idle", "task"} => (p.started <=> p.client /\ p.card = "page")
    /\ p.pc = "task" => p.loop \in p.bound /\ p.served < MaxTasks

LifecycleInv ==
    /\ TypeOK
    /\ \A w \in Workers : ProcessInv(process[w])

\* What becomes of a process p in one of its steps.
Keeps(p, q) ==
    /\ q \in Processes /\ ProcessInv(q)
    /\ p.pc \in {"idle", "task"} /\ q.pc \in {"idle", "task"}
         => q.client = p.client /\ q.card = p.card

\* A step of one process.
StepOf(w) ==
    \/ SetUp(w) \/ RunTask(w) \/ EndTask(w) \/ Shutdown(w) \/ ProcessLost(w) \/ Fork(w)
-----------------------------------------------------------------------------
LEMMA ForkedKeeps == Forked \in Processes /\ ProcessInv(Forked)
  BY LifecycleAssumption DEF Forked, Processes, Steps, Cards, ProcessInv

LEMMA GivesUpKeeps ==
    ASSUME LifecycleInv, NEW w \in Workers, GivesUp(w),
           process[w].pc \in {"register", "connect", "launch"}
    PROVE  \E q : Becomes(w, q) /\ Keeps(process[w], q)
<1> DEFINE p == process[w]
           q == [p EXCEPT !.pc = "idle"]
<1>1. p \in Processes /\ ProcessInv(p)
  BY DEF LifecycleInv, TypeOK
<1>2. q \in Processes
  BY <1>1 DEF Processes, Steps
<1>3. ProcessInv(q)
  BY <1>1 DEF Processes, ProcessInv
<1> QED
  BY <1>1, <1>2, <1>3 DEF GivesUp, Keeps

LEMMA InitType ==
    ASSUME NEW p \in Processes, p = Forked
    PROVE  Keeps(p, [GetLoop(NewManager(p)) EXCEPT !.pc = "register"])
<1> DEFINE n == [p EXCEPT !.loop = 0, !.started = FALSE]
           g == [n EXCEPT !.loop = n.loops + 1, !.loops = n.loops + 1]
           q == [g EXCEPT !.pc = "register"]
<1>1. /\ n \in Processes /\ n.loop = 0 /\ ~n.started
      /\ n.loops = p.loops /\ n.client = p.client /\ n.card = p.card /\ n.bound = p.bound
  BY DEF Processes
<1>2. GetLoop(NewManager(p)) = g
  BY <1>1 DEF GetLoop, NewManager
<1>3. /\ q \in Processes /\ q.pc = "register" /\ q.loop = p.loops + 1 /\ ~q.started
      /\ q.client = p.client /\ q.card = p.card /\ q.bound = p.bound
  <2>1. n.loops \in Nat /\ n.loops + 1 \in Nat
    BY <1>1 DEF Processes
  <2>2. /\ g \in Processes /\ g.loop = n.loops + 1 /\ g.started = n.started
        /\ g.client = n.client /\ g.card = n.card /\ g.bound = n.bound
    BY <1>1, <2>1 DEF Processes
  <2>3. /\ q \in Processes /\ q.pc = "register" /\ q.loop = g.loop /\ q.started = g.started
        /\ q.client = g.client /\ q.card = g.card /\ q.bound = g.bound
    BY <2>2 DEF Processes, Steps
  <2> QED
    BY <1>1, <2>2, <2>3
<1>4. /\ p.pc = "forked" /\ p.loops = 0 /\ p.client = FALSE /\ p.card = "none"
      /\ p.bound = {}
  BY DEF Forked
<1>5. ProcessInv(q)
  BY <1>3, <1>4 DEF ProcessInv
<1> QED
  BY <1>2, <1>3, <1>4, <1>5 DEF Keeps

LEMMA InitWorkerKeeps ==
    ASSUME LifecycleInv, NEW w \in Workers, InitWorker(w)
    PROVE  \E q : Becomes(w, q) /\ Keeps(process[w], q)
<1>1. process[w] \in Processes /\ process[w] = Forked
  BY DEF LifecycleInv, TypeOK, ProcessInv, InitWorker, At
<1> QED
  BY <1>1, InitType DEF InitWorker

LEMMA RegisterKeeps ==
    ASSUME LifecycleInv, NEW w \in Workers, RegisterClient(w)
    PROVE  \E q : Becomes(w, q) /\ Keeps(process[w], q)
<1> DEFINE p == process[w]
           q == [p EXCEPT !.pc = "connect", !.client = TRUE]
<1>1. p \in Processes /\ ProcessInv(p) /\ p.pc = "register"
  BY DEF LifecycleInv, TypeOK, RegisterClient, At
<1>2. q \in Processes /\ ProcessInv(q)
  BY <1>1 DEF Processes, Steps, ProcessInv
<1> QED
  BY <1>1, <1>2, GivesUpKeeps DEF RegisterClient, Keeps

LEMMA ConnectKeeps ==
    ASSUME LifecycleInv, NEW w \in Workers, Connect(w)
    PROVE  \E q : Becomes(w, q) /\ Keeps(process[w], q)
<1> DEFINE p == process[w]
           q == [Opens(p) EXCEPT !.pc = "launch", !.card = "registered"]
           f == [Opens(p) EXCEPT !.pc = "idle"]
<1>1. p \in Processes /\ ProcessInv(p) /\ p.pc = "connect"
  BY DEF LifecycleInv, TypeOK, Connect, At
<1>2. q \in Processes /\ ProcessInv(q)
  BY <1>1 DEF Processes, Steps, Cards, ProcessInv, Opens
<1>3. f \in Processes /\ ProcessInv(f)
  BY <1>1 DEF Processes, Steps, Cards, ProcessInv, Opens
<1>4. Keeps(p, q) /\ Keeps(p, f)
  BY <1>1, <1>2, <1>3 DEF Keeps
<1> QED
  BY <1>4 DEF Connect

LEMMA LaunchKeeps ==
    ASSUME LifecycleInv, NEW w \in Workers, Launch(w)
    PROVE  \E q : Becomes(w, q) /\ Keeps(process[w], q)
<1> DEFINE p == process[w]
           d == [Opens(p) EXCEPT !.card = "driver"]
           b == [Opens(p) EXCEPT !.card = "browser"]
           g == [Opens(p) EXCEPT !.card = "page", !.started = TRUE, !.pc = "idle"]
<1>1. p \in Processes /\ ProcessInv(p) /\ p.pc = "launch"
  BY DEF LifecycleInv, TypeOK, Launch, At
<1>2. d \in Processes /\ ProcessInv(d)
  BY <1>1 DEF Processes, Steps, Cards, ProcessInv, Opens
<1>3. b \in Processes /\ ProcessInv(b)
  BY <1>1 DEF Processes, Steps, Cards, ProcessInv, Opens
<1>4. g \in Processes /\ ProcessInv(g)
  BY <1>1 DEF Processes, Steps, Cards, ProcessInv, Opens
<1>5. Becomes(w, d) \/ Becomes(w, b) \/ Becomes(w, g) \/ GivesUp(w)
  BY DEF Launch
<1> QED
  BY <1>1, <1>2, <1>3, <1>4, <1>5, GivesUpKeeps DEF Keeps

LEMMA RunType ==
    ASSUME NEW p \in Processes, ProcessInv(p), p.pc = "idle", p.served < MaxTasks
    PROVE  Keeps(p, [Opens(GetLoop(p)) EXCEPT !.pc = "task"])
<1>1. p.loop # 0
  BY DEF ProcessInv
<1>2. GetLoop(p) = p
  BY <1>1 DEF GetLoop
<1> DEFINE r == [p EXCEPT !.bound = p.bound \cup {p.loop}, !.pc = "task"]
<1>3. [Opens(GetLoop(p)) EXCEPT !.pc = "task"] = r
  BY <1>2 DEF Opens, Processes
<1>4. r \in Processes
  BY DEF Processes, Steps
<1>5. ProcessInv(r) /\ r.client = p.client /\ r.card = p.card
  BY DEF Processes, ProcessInv
<1> QED
  BY <1>3, <1>4, <1>5 DEF Keeps

LEMMA EndType ==
    ASSUME NEW p \in Processes, ProcessInv(p), p.pc = "task"
    PROVE  Keeps(p, [p EXCEPT !.pc = "idle", !.served = @ + 1])
<1> DEFINE e == [p EXCEPT !.pc = "idle", !.served = @ + 1]
<1>1. p.served < MaxTasks /\ p.served \in 0 .. MaxTasks
  BY DEF ProcessInv, Processes
<1>2. p.served + 1 \in 0 .. MaxTasks
  BY <1>1, LifecycleAssumption
<1>3. e \in Processes
  BY <1>2 DEF Processes, Steps
<1>4. ProcessInv(e) /\ e.client = p.client /\ e.card = p.card
  BY DEF Processes, ProcessInv
<1> QED
  BY <1>3, <1>4 DEF Keeps

LEMMA TaskKeeps ==
    ASSUME LifecycleInv, NEW w \in Workers, RunTask(w) \/ EndTask(w)
    PROVE  \E q : Becomes(w, q) /\ Keeps(process[w], q)
<1>1. process[w] \in Processes /\ ProcessInv(process[w])
  BY DEF LifecycleInv, TypeOK
<1> QED
  BY <1>1, RunType, EndType DEF RunTask, EndTask, At

LEMMA GoneType ==
    ASSUME NEW p \in Processes
    PROVE  /\ Keeps(p, [Close(NewManager(p)) EXCEPT !.pc = "gone"])
           /\ Keeps(p, [p EXCEPT !.pc = "gone"])
<1> DEFINE n == [p EXCEPT !.loop = 0, !.started = FALSE]
           s == [n EXCEPT !.pc = "gone"]
           l == [p EXCEPT !.pc = "gone"]
<1>1. n \in Processes /\ n.loop = 0
  BY DEF Processes
<1>2. Close(NewManager(p)) = n
  BY <1>1 DEF Close, NewManager
<1>3. s \in Processes /\ s.pc = "gone"
  BY <1>1 DEF Processes, Steps
<1>4. l \in Processes /\ l.pc = "gone"
  BY DEF Processes, Steps
<1>5. Keeps(p, s)
  BY <1>3 DEF Keeps, ProcessInv
<1>6. Keeps(p, l)
  BY <1>4 DEF Keeps, ProcessInv
<1> QED
  BY <1>2, <1>5, <1>6

LEMMA EndKeeps ==
    ASSUME LifecycleInv, NEW w \in Workers, Shutdown(w) \/ ProcessLost(w) \/ Fork(w)
    PROVE  \E q : Becomes(w, q) /\ Keeps(process[w], q)
<1>1. process[w] \in Processes
  BY DEF LifecycleInv, TypeOK
<1>2. CASE Shutdown(w)
  BY <1>1, <1>2, GoneType DEF Shutdown
<1>3. CASE ProcessLost(w)
  BY <1>1, <1>3, GoneType DEF ProcessLost
<1>4. CASE Fork(w)
  BY <1>4, ForkedKeeps DEF Fork, At, Keeps
<1> QED
  BY <1>2, <1>3, <1>4

LEMMA StepKeeps ==
    ASSUME LifecycleInv, NEW w \in Workers, StepOf(w)
    PROVE  \E q : Becomes(w, q) /\ Keeps(process[w], q)
  BY InitWorkerKeeps, RegisterKeeps, ConnectKeeps, LaunchKeeps, TaskKeeps, EndKeeps
     DEF StepOf, SetUp

LEMMA NextSteps ==
    ASSUME [Next]_vars
    PROVE  process' = process \/ \E w \in Workers : StepOf(w)
  BY DEF Next, StepOf, SendTask, vars

LEMMA WaitingType ==
    ASSUME TypeOK, [Next]_vars
    PROVE  waiting' \in Nat
<1>1. \/ waiting' = waiting \/ waiting' = waiting + 1
      \/ waiting' = waiting - 1 /\ waiting > 0
  BY DEF Next, vars, SendTask, SetUp, InitWorker, RegisterClient, Connect, Launch,
         RunTask, EndTask, Shutdown, ProcessLost, Fork
<1> QED
  BY <1>1 DEF TypeOK

LEMMA InitInv == Init => LifecycleInv
  BY ForkedKeeps DEF Init, LifecycleInv, TypeOK

LEMMA NextInv == LifecycleInv /\ [Next]_vars => LifecycleInv'
<1> SUFFICES ASSUME LifecycleInv, [Next]_vars
             PROVE  LifecycleInv'
  OBVIOUS
<1>1. waiting' \in Nat
  BY WaitingType DEF LifecycleInv
<1>2. CASE process' = process
  BY <1>1, <1>2 DEF LifecycleInv, TypeOK
<1>3. ASSUME NEW w \in Workers, StepOf(w)
      PROVE  LifecycleInv'
  <2>1. PICK q : Becomes(w, q) /\ Keeps(process[w], q)
    BY <1>3, StepKeeps
  <2>2. /\ process' = [process EXCEPT ![w] = q]
        /\ q \in Processes /\ ProcessInv(q)
    BY <2>1 DEF Becomes, Keeps
  <2> QED
    BY <1>1, <2>2 DEF LifecycleInv, TypeOK
<1> QED
  BY <1>2, <1>3, NextSteps

LEMMA Inductive == Spec => []LifecycleInv
  BY InitInv, NextInv, PTL DEF Spec

\* Every state has its type, for any number of processes.
THEOREM TypeCorrect == Spec => []TypeOK
  BY Inductive, PTL DEF LifecycleInv

\* Tasks run on the loop on which the resources of their process were opened.
THEOREM ResourcesStay == Spec => []ResourcesStayOnTheirLoop
<1>1. LifecycleInv => ResourcesStayOnTheirLoop
  <2> SUFFICES ASSUME LifecycleInv, NEW w \in Workers, At(w, "task")
               PROVE  process[w].bound = {process[w].loop}
    BY DEF ResourcesStayOnTheirLoop
  <2> QED
    BY DEF LifecycleInv, ProcessInv, At
<1> QED
  BY <1>1, Inductive, PTL

\* The manager takes a process for started exactly when its tasks find all they
\* need.
THEOREM StartedIsReady == Spec => []StartedMeansReady
<1>1. LifecycleInv => StartedMeansReady
  <2> SUFFICES ASSUME LifecycleInv, NEW w \in Workers, Serving(process[w])
               PROVE  process[w].started <=> Outcome(process[w]) = "ready"
    BY DEF StartedMeansReady
  <2>1. /\ process[w].client \in BOOLEAN /\ process[w].started \in BOOLEAN
        /\ process[w].started <=> process[w].client /\ process[w].card = "page"
    BY DEF LifecycleInv, TypeOK, Processes, ProcessInv, Serving
  <2> QED
    BY <2>1 DEF Outcome
<1> QED
  BY <1>1, Inductive, PTL
-----------------------------------------------------------------------------
(* A process keeps what it set up *)

Seen(p) == IF Serving(p) THEN Outcome(p) ELSE "starting"

Outcomes == [w \in Workers |-> Seen(process[w])]

LEMMA OutcomeType == \A p : Outcome(p) \in {"none", "noCard", "ready"}
  BY DEF Outcome

LEMMA ContractStep ==
    LifecycleInv /\ [Next]_vars => [Contract!Next]_Outcomes
<1> SUFFICES ASSUME LifecycleInv, [Next]_vars, Outcomes' # Outcomes
             PROVE  Contract!Next
  OBVIOUS
<1>1. process' # process
  BY DEF Outcomes
<1>2. PICK w \in Workers : StepOf(w)
  BY <1>1, NextSteps
<1>3. PICK q : Becomes(w, q) /\ Keeps(process[w], q)
  BY <1>2, StepKeeps
<1>4. Outcomes' = [Outcomes EXCEPT ![w] = Seen(q)]
  BY <1>3 DEF Becomes, Outcomes, LifecycleInv, TypeOK
<1>5. CASE ~Serving(q)
  <2>1. Contract!Replace(w)
    BY <1>4, <1>5 DEF Contract!Replace, Outcomes, Seen
  <2> QED
    BY <2>1 DEF Contract!Next
<1>6. CASE Serving(q) /\ ~Serving(process[w])
  <2>1. Outcomes[w] = "starting" /\ Seen(q) \in {"none", "noCard", "ready"}
    BY <1>6, OutcomeType DEF Outcomes, Seen
  <2>2. Contract!Boot(w)
    BY <1>4, <2>1 DEF Contract!Boot, Outcomes, Seen
  <2> QED
    BY <2>2 DEF Contract!Next
<1>7. CASE Serving(q) /\ Serving(process[w])
  <2>1. Outcome(q) = Outcome(process[w])
    BY <1>3, <1>7 DEF Keeps, Serving, Outcome
  <2>2. Outcomes' = Outcomes
    BY <1>4, <1>7, <2>1 DEF Outcomes, Seen
  <2> QED
    BY <2>2
<1> QED
  BY <1>5, <1>6, <1>7

\* What a process set up, the tasks have until the process is replaced; what it
\* could not, they never have.
THEOREM ImplementsProcess == Spec => KeepsSetUp
<1>1. Init => Contract!Init
  BY DEF Init, Contract!Init, Serving, Forked
<1> QED
  BY <1>1, Inductive, ContractStep, PTL DEF Spec, KeepsSetUp, Contract!Spec, Outcomes, Seen
=============================================================================
