------------------------ MODULE CommandDispatchProofs ------------------------
(***************************************************************************)
(* Theorems about CommandDispatch, for every set of groups, senders and    *)
(* concurrent requests.                                                    *)
(***************************************************************************)
EXTENDS CommandDispatch, TLAPS

Mapped(g) == thread[g] # None

\* What a request may rely on at each of its awaits. The thread of its group is
\* still the one that it inserted or found: nothing deletes a thread or changes
\* its password.
HandlerInv(h) ==
    LET pc == handler[h].pc  e == handler[h].event  p == handler[h].password IN
    /\ pc # "idle" => e \in Events /\ e.group \notin Silenced
    /\ pc \in {"insert", "update"} => Authorised(e)
    /\ pc = "find" /\ e.command # "sync" => Authorised(e)
    /\ pc \in {"insert", "announce"} => p \in Passwords
    /\ pc = "announce" => Mapped(e.group) /\ thread[e.group].password = p
    /\ pc \in {"update", "launch", "task"} => Mapped(e.group)

DispatchInv ==
    /\ TypeOK
    /\ \A h \in Handlers : HandlerInv(h)
    /\ TasksHaveThreads

\* What a step leaves of the threads: none goes, and none is opened by another
\* password.
ThreadsStay ==
    \A g \in Groups : Mapped(g) => thread'[g] # None /\ thread'[g].password = thread[g].password
-----------------------------------------------------------------------------
(* The type invariant *)

LEMMA IdleType == Idle \in HandlerStates
  BY DEF Idle, HandlerStates, Steps

LEMMA NewThreadType ==
    ASSUME NEW p \in Passwords \cup {None}, NEW by \in {"command", "api"}
    PROVE  /\ NewThread(p, by) \in Threads
           /\ NewThread(p, by).password = p /\ NewThread(p, by).by = by
           /\ NewThread(p, by) # None
  BY DispatchAssumption, NoneAssumption DEF NewThread, Threads

LEMMA GroupType ==
    ASSUME TypeOK, NEW h \in Handlers, handler[h].pc # "idle"
    PROVE  handler[h].event \in Events /\ Group(h) \in Groups
  BY DEF TypeOK, HandlerStates, Events, Group

LEMMA GotoType ==
    ASSUME TypeOK, NEW h \in Handlers, NEW step \in Steps, Goto(h, step),
           handler[h].pc # "idle"
    PROVE  /\ handler' \in [Handlers -> HandlerStates]
           /\ \A k \in Handlers : handler'[k].pc # "idle" => handler'[k].event # None
           /\ handler'[h].pc = step /\ handler'[h].event = handler[h].event
           /\ handler'[h].password = handler[h].password
           /\ \A k \in Handlers \ {h} : handler'[k] = handler[k]
  BY DEF Goto, TypeOK, HandlerStates

LEMMA EndsType ==
    ASSUME TypeOK, NEW h \in Handlers, Ends(h)
    PROVE  /\ handler' \in [Handlers -> HandlerStates]
           /\ \A k \in Handlers : handler'[k].pc # "idle" => handler'[k].event # None
           /\ handler'[h].pc = "idle"
           /\ \A k \in Handlers \ {h} : handler'[k] = handler[k]
  BY IdleType DEF Ends, TypeOK, Idle

LEMMA CutType ==
    ASSUME TypeOK, NEW h \in Handlers, NEW cause \in Causes, Cut(h, cause)
    PROVE  cut' \in [Groups -> SUBSET Causes]
  BY DEF Cut, TypeOK

\* What every step of a request leaves: the other requests, and the type.
LEMMA StepFrame ==
    ASSUME TypeOK, NEW h \in Handlers, Step(h)
    PROVE  /\ handler[h].pc # "idle"
           /\ \/ Ends(h)
              \/ \E step \in Steps : Goto(h, step)
           /\ cut' = cut \/ \E cause \in Causes : Cut(h, cause)
           /\ delivered' = delivered /\ client' = client
<1>1. CASE InsertThread(h)
  BY <1>1 DEF InsertThread, At, Steps, Causes
<1>2. CASE Announce(h)
  BY <1>2 DEF Announce, At, Steps, Causes
<1>3. CASE SendTask(h)
  BY <1>3 DEF SendTask, At, Steps, Causes
<1>4. CASE FindThread(h)
  BY <1>4 DEF FindThread, At, Steps
<1>5. CASE UpdateThread(h)
  BY <1>5 DEF UpdateThread, At
<1>6. CASE Launch(h)
  BY <1>6 DEF Launch, At, Steps, Causes
<1> QED
  BY <1>1, <1>2, <1>3, <1>4, <1>5, <1>6 DEF Step

LEMMA StepType ==
    ASSUME TypeOK, NEW h \in Handlers, Step(h), HandlerInv(h)
    PROVE  TypeOK'
<1>1. Group(h) \in Groups /\ handler[h].password \in Passwords \cup {None}
  BY StepFrame, GroupType DEF TypeOK, HandlerStates
<1>2. /\ handler' \in [Handlers -> HandlerStates]
      /\ \A k \in Handlers : handler'[k].pc # "idle" => handler'[k].event # None
  BY StepFrame, GotoType, EndsType
<1>3. cut' \in [Groups -> SUBSET Causes]
  BY StepFrame, CutType DEF TypeOK
<1>4. delivered' \in 0 .. MaxEvents /\ client' \in BOOLEAN
  BY StepFrame DEF TypeOK
<1>5. thread' \in [Groups -> Threads \cup {None}]
  <2>1. CASE InsertThread(h)
    <3>1. NewThread(handler[h].password, "command") \in Threads
      BY <1>1, NewThreadType
    <3> QED
      BY <2>1, <3>1 DEF InsertThread, TypeOK
  <2>2. CASE UpdateThread(h)
    <3>1. thread[Group(h)] \in Threads
      BY <1>1, <2>2 DEF UpdateThread, HandlerInv, Mapped, Group, At, TypeOK
    <3>2. \A s \in Settings : [thread[Group(h)] EXCEPT !.settings = s] \in Threads
      BY <3>1 DEF Threads
    <3> QED
      BY <2>2, <3>2 DEF UpdateThread, TypeOK
  <2> QED
    BY <2>1, <2>2 DEF Step, Announce, SendTask, FindThread, Launch, TypeOK
<1>6. told' \in [Groups -> SUBSET Passwords]
  <2>1. CASE Announce(h)
    <3>1. handler[h].password \in Passwords
      BY <2>1 DEF Announce, At, HandlerInv
    <3> QED
      BY <2>1, <3>1 DEF Announce, TypeOK
  <2> QED
    BY <2>1 DEF Step, InsertThread, UpdateThread, SendTask, FindThread, Launch, TypeOK
<1>7. promised' \in SUBSET Groups
  BY <1>1 DEF Step, InsertThread, Announce, UpdateThread, SendTask, FindThread, Launch, TypeOK
<1>8. tasks' \in SUBSET Groups
  BY <1>1 DEF Step, InsertThread, Announce, UpdateThread, SendTask, FindThread, Launch, TypeOK
<1> QED
  BY <1>2, <1>3, <1>4, <1>5, <1>6, <1>7, <1>8 DEF TypeOK

LEMMA RunType ==
    ASSUME TypeOK, NEW h \in Handlers, NEW e \in Events, Run(h, e)
    PROVE  /\ TypeOK'
           /\ handler'[h].event = e /\ Accepted(e)
           /\ \/ e.command = "map_group" /\ handler'[h].pc = "insert"
                 /\ handler'[h].password \in Passwords
              \/ e.command # "map_group" /\ handler'[h].pc = "find"
           /\ \A k \in Handlers \ {h} : handler'[k] = handler[k]
<1>1. \A p \in Passwords \cup {None}, step \in {"insert", "find"} :
          [pc |-> step, event |-> e, password |-> p] \in HandlerStates
  BY DEF HandlerStates, Steps
<1>2. /\ handler' \in [Handlers -> HandlerStates]
      /\ handler'[h].event = e
      /\ \/ e.command = "map_group" /\ handler'[h].pc = "insert"
            /\ handler'[h].password \in Passwords
         \/ e.command # "map_group" /\ handler'[h].pc = "find"
      /\ \A k \in Handlers \ {h} : handler'[k] = handler[k]
  <2>1. CASE e.command = "map_group"
    <3>1. PICK p \in Passwords : handler' =
             [handler EXCEPT ![h] = [pc |-> "insert", event |-> e, password |-> p]]
      BY <2>1 DEF Run
    <3> QED
      BY <1>1, <2>1, <3>1 DEF TypeOK
  <2>2. CASE e.command # "map_group"
    <3>1. handler' = [handler EXCEPT ![h] = [pc |-> "find", event |-> e, password |-> None]]
      BY <2>2 DEF Run
    <3> QED
      BY <1>1, <2>2, <3>1 DEF TypeOK
  <2> QED
    BY <2>1, <2>2
<1>3. \A k \in Handlers : handler'[k].pc # "idle" => handler'[k].event # None
  BY <1>2, NoneAssumption DEF TypeOK
<1>4. delivered' \in 0 .. MaxEvents
  BY DispatchAssumption DEF Run, Receive, TypeOK
<1> QED
  BY <1>2, <1>3, <1>4 DEF Run, Receive, TypeOK

LEMMA DismissType ==
    ASSUME TypeOK, NEW h \in Handlers, NEW e \in Events, Dismiss(h, e)
    PROVE  TypeOK'
<1>1. delivered' \in 0 .. MaxEvents
  BY DispatchAssumption DEF Dismiss, Receive, TypeOK
<1> QED
  BY <1>1 DEF Dismiss, Receive, TypeOK

LEMMA CreateType ==
    ASSUME TypeOK, NEW g \in Groups, CreateThread(g)
    PROVE  TypeOK'
<1>1. thread' \in [Groups -> Threads \cup {None}]
  BY NewThreadType DEF CreateThread, TypeOK
<1> QED
  BY <1>1 DEF CreateThread, TypeOK

LEMMA RestartType ==
    ASSUME TypeOK, Restart
    PROVE  TypeOK'
<1>1. handler' \in [Handlers -> HandlerStates]
  BY IdleType DEF Restart
<1>2. \A h \in Handlers : handler'[h].pc = "idle"
  BY DEF Restart, Idle
<1>3. cut' \in [Groups -> SUBSET Causes]
  BY DEF Restart, TypeOK, Causes
<1> QED
  BY <1>1, <1>2, <1>3 DEF Restart, TypeOK
-----------------------------------------------------------------------------
(* The inductive invariant *)

LEMMA ThreadsStayInStep ==
    ASSUME TypeOK, [Next]_vars, \A h \in Handlers : HandlerInv(h)
    PROVE  ThreadsStay
<1>1. ASSUME NEW h \in Handlers, InsertThread(h)
      PROVE  ThreadsStay
  <2>1. Group(h) \in Groups /\ handler[h].password \in Passwords \cup {None}
    BY <1>1, GroupType DEF InsertThread, At, TypeOK, HandlerStates
  <2> QED
    BY <1>1, <2>1 DEF InsertThread, TypeOK, ThreadsStay, Mapped
<1>2. ASSUME NEW h \in Handlers, UpdateThread(h)
      PROVE  ThreadsStay
  <2>1. Group(h) \in Groups /\ thread[Group(h)] \in Threads
    BY <1>2, GroupType DEF UpdateThread, HandlerInv, Mapped, Group, At, TypeOK
  <2>2. \A s \in Settings :
            /\ [thread[Group(h)] EXCEPT !.settings = s] # None
            /\ [thread[Group(h)] EXCEPT !.settings = s].password = thread[Group(h)].password
    BY <2>1, NoneAssumption DEF Threads
  <2>3. PICK s \in Settings : thread' = [thread EXCEPT ![Group(h)].settings = s]
    BY <1>2 DEF UpdateThread
  <2> QED
    BY <2>1, <2>2, <2>3 DEF TypeOK, ThreadsStay, Mapped
<1>3. ASSUME NEW g \in Groups, CreateThread(g)
      PROVE  ThreadsStay
  BY <1>3 DEF CreateThread, TypeOK, ThreadsStay, Mapped
<1>4. CASE thread' = thread
  BY <1>4 DEF ThreadsStay, Mapped
<1>5. \/ thread' = thread
      \/ \E h \in Handlers : InsertThread(h) \/ UpdateThread(h)
      \/ \E g \in Groups : CreateThread(g)
  BY DEF Next, Step, Announce, SendTask, FindThread, Launch, Dismiss, Run, Receive,
         Restart, vars
<1> QED
  BY <1>1, <1>2, <1>3, <1>4, <1>5

\* A request that is not the one that moves keeps what it relies on.
LEMMA OthersKeep ==
    ASSUME TypeOK, NEW h \in Handlers, HandlerInv(h), ThreadsStay, handler'[h] = handler[h]
    PROVE  HandlerInv(h)'
<1>1. handler[h].pc # "idle" => handler[h].event.group \in Groups
  BY GroupType DEF Group
<1> QED
  BY <1>1 DEF HandlerInv, ThreadsStay, Mapped, Authorised

LEMMA IdleKeeps ==
    ASSUME NEW h \in Handlers, handler'[h].pc = "idle"
    PROVE  HandlerInv(h)'
  BY DEF HandlerInv

LEMMA MoverKeeps ==
    ASSUME TypeOK, NEW h \in Handlers, HandlerInv(h), Step(h), ThreadsStay
    PROVE  HandlerInv(h)'
<1>0. Group(h) \in Groups /\ handler[h].event \in Events
  BY StepFrame, GroupType
<1>1. CASE Ends(h)
  BY <1>1, EndsType, IdleKeeps
<1>2. ASSUME NEW step \in Steps, Goto(h, step)
      PROVE  HandlerInv(h)'
  <2>1. /\ handler'[h].pc = step /\ handler'[h].event = handler[h].event
        /\ handler'[h].password = handler[h].password
    BY <1>2, GotoType, StepFrame
  <2>2. CASE Ends(h)
    BY <2>2, EndsType, IdleKeeps
  <2>3. CASE ~Ends(h) /\ InsertThread(h)
    <3>1. handler[h].password \in Passwords
      BY <2>3 DEF InsertThread, At, HandlerInv
    <3>2. /\ thread'[Group(h)] # None
          /\ thread'[Group(h)].password = handler[h].password
      BY <1>0, <2>3, <3>1, NewThreadType DEF InsertThread, TypeOK
    <3>3. Goto(h, "announce")
      BY <2>3 DEF InsertThread
    <3>4. handler'[h].pc = "announce"
      BY <3>3, GotoType, StepFrame DEF Steps
    <3> QED
      BY <2>1, <2>3, <3>1, <3>2, <3>4 DEF HandlerInv, Mapped, Group, InsertThread, At
  <2>4. CASE ~Ends(h) /\ Announce(h)
    <3>1. Goto(h, "task") /\ thread' = thread
      BY <2>4 DEF Announce
    <3>2. handler'[h].pc = "task"
      BY <3>1, GotoType, StepFrame DEF Steps
    <3> QED
      BY <2>1, <2>4, <3>1, <3>2 DEF HandlerInv, Mapped, Announce, At
  <2>5. CASE ~Ends(h) /\ FindThread(h)
    <3>1. /\ thread' = thread /\ Mapped(Group(h))
          /\ Goto(h, IF handler[h].event.command = "sync" THEN "launch" ELSE "update")
      BY <2>5 DEF FindThread, Mapped
    <3>2. handler'[h].pc = IF handler[h].event.command = "sync" THEN "launch" ELSE "update"
      BY <3>1, GotoType, StepFrame DEF Steps
    <3> QED
      BY <2>1, <2>5, <3>1, <3>2 DEF HandlerInv, Mapped, FindThread, At, Group, Authorised
  <2>6. CASE ~Ends(h) /\ Launch(h)
    <3>1. Goto(h, "task") /\ thread' = thread
      BY <2>6 DEF Launch
    <3>2. handler'[h].pc = "task"
      BY <3>1, GotoType, StepFrame DEF Steps
    <3> QED
      BY <2>1, <2>6, <3>1, <3>2 DEF HandlerInv, Mapped, Launch, At
  <2> QED
    BY <2>2, <2>3, <2>4, <2>5, <2>6 DEF Step, SendTask, UpdateThread
<1> QED
  BY <1>1, <1>2, StepFrame

LEMMA TasksKeep ==
    ASSUME DispatchInv, [Next]_vars, ThreadsStay
    PROVE  TasksHaveThreads'
<1>1. tasks' = tasks \/ \E h \in Handlers : SendTask(h)
  BY DEF Next, Step, InsertThread, Announce, FindThread, UpdateThread, Launch, Dismiss,
         Run, Receive, CreateThread, Restart, vars
<1>2. CASE tasks' = tasks
  BY <1>2 DEF DispatchInv, TasksHaveThreads, ThreadsStay, Mapped, TypeOK
<1>3. ASSUME NEW h \in Handlers, SendTask(h)
      PROVE  TasksHaveThreads'
  BY <1>3 DEF SendTask, At, DispatchInv, HandlerInv, Mapped, Group, TasksHaveThreads, TypeOK
<1> QED
  BY <1>1, <1>2, <1>3

LEMMA InitInv == Init => DispatchInv
<1> SUFFICES ASSUME Init
             PROVE  DispatchInv
  OBVIOUS
<1>1. TypeOK
  BY IdleType, DispatchAssumption DEF Init, TypeOK, Idle
<1> QED
  BY <1>1 DEF Init, DispatchInv, HandlerInv, Idle, TasksHaveThreads

LEMMA NextInv == DispatchInv /\ [Next]_vars => DispatchInv'
<1> SUFFICES ASSUME DispatchInv, [Next]_vars
             PROVE  DispatchInv'
  OBVIOUS
<1>0. TypeOK /\ \A h \in Handlers : HandlerInv(h)
  BY DEF DispatchInv
<1>1. ThreadsStay
  BY <1>0, ThreadsStayInStep
<1>2. TasksHaveThreads'
  BY <1>1, TasksKeep
<1>3. ASSUME NEW h \in Handlers, Step(h)
      PROVE  DispatchInv'
  <2>1. TypeOK'
    BY <1>0, <1>3, StepType
  <2>2. \A k \in Handlers \ {h} : handler'[k] = handler[k]
    BY <1>0, <1>3, StepFrame, GotoType, EndsType
  <2>3. \A k \in Handlers \ {h} : HandlerInv(k)'
    BY <1>0, <1>1, <2>2, OthersKeep
  <2>4. HandlerInv(h)'
    BY <1>0, <1>1, <1>3, MoverKeeps
  <2> QED
    BY <1>2, <2>1, <2>3, <2>4 DEF DispatchInv
<1>4. ASSUME NEW h \in Handlers, NEW e \in Events, Run(h, e)
      PROVE  DispatchInv'
  <2>1. /\ TypeOK'
        /\ handler'[h].event = e /\ Accepted(e)
        /\ \/ e.command = "map_group" /\ handler'[h].pc = "insert"
              /\ handler'[h].password \in Passwords
           \/ e.command # "map_group" /\ handler'[h].pc = "find"
        /\ \A k \in Handlers \ {h} : handler'[k] = handler[k]
    BY <1>0, <1>4, RunType
  <2>2. e.command \in Commands
    BY DEF Events
  <2>3. HandlerInv(h)'
    BY <2>1, <2>2 DEF HandlerInv, Accepted, Authorised, Commands, AdminCommands
  <2>4. \A k \in Handlers \ {h} : HandlerInv(k)'
    BY <1>0, <1>1, <2>1, OthersKeep
  <2> QED
    BY <1>2, <2>1, <2>3, <2>4 DEF DispatchInv
<1>5. ASSUME NEW h \in Handlers, NEW e \in Events, Dismiss(h, e)
      PROVE  DispatchInv'
  <2>1. TypeOK'
    BY <1>0, <1>5, DismissType
  <2>2. handler' = handler
    BY <1>5 DEF Dismiss
  <2>3. \A k \in Handlers : HandlerInv(k)'
    BY <1>0, <1>1, <2>2, OthersKeep
  <2> QED
    BY <1>2, <2>1, <2>3 DEF DispatchInv
<1>6. ASSUME NEW g \in Groups, CreateThread(g)
      PROVE  DispatchInv'
  <2>1. TypeOK'
    BY <1>0, <1>6, CreateType
  <2>2. handler' = handler
    BY <1>6 DEF CreateThread
  <2>3. \A k \in Handlers : HandlerInv(k)'
    BY <1>0, <1>1, <2>2, OthersKeep
  <2> QED
    BY <1>2, <2>1, <2>3 DEF DispatchInv
<1>7. CASE Restart
  <2>1. TypeOK'
    BY <1>0, <1>7, RestartType
  <2>2. \A k \in Handlers : HandlerInv(k)'
    BY <1>7, IdleKeeps DEF Restart, Idle
  <2> QED
    BY <1>2, <2>1, <2>2 DEF DispatchInv
<1>8. CASE UNCHANGED vars
  <2>1. TypeOK'
    BY <1>0, <1>8 DEF TypeOK, vars
  <2>2. handler' = handler
    BY <1>8 DEF vars
  <2>3. \A k \in Handlers : HandlerInv(k)'
    BY <1>0, <1>1, <2>2, OthersKeep
  <2> QED
    BY <1>2, <2>1, <2>3 DEF DispatchInv
<1> QED
  BY <1>3, <1>4, <1>5, <1>6, <1>7, <1>8 DEF Next

LEMMA Inductive == Spec => []DispatchInv
  BY InitInv, NextInv, PTL DEF Spec

\* Every state has its type, for any number of groups and concurrent requests.
THEOREM TypeCorrect == Spec => []TypeOK
  BY Inductive, PTL DEF DispatchInv

\* A synchronisation is only sent for a group that has a thread.
THEOREM TasksTakeThreads == Spec => []TasksHaveThreads
  BY Inductive, PTL DEF DispatchInv
-----------------------------------------------------------------------------
(* Passwords and synchronisations that are missing *)

LEMMA UnannouncedStep ==
    DispatchInv /\ UnannouncedIsExplained /\ [Next]_vars => UnannouncedIsExplained'
<1> SUFFICES ASSUME DispatchInv, UnannouncedIsExplained, [Next]_vars,
                    NEW g \in Groups, thread'[g] # None, thread'[g].by = "command",
                    told'[g] = {}
             PROVE  \/ \E h \in Handlers : At(h, "announce")' /\ Group(h)' = g
                    \/ cut'[g] \cap {"refresh", "announce", "stopped"} # {}
  BY DEF UnannouncedIsExplained
<1>0. TypeOK /\ DispatchInv'
  BY NextInv DEF DispatchInv
<1> DEFINE Explained == \/ \E h \in Handlers : At(h, "announce") /\ Group(h) = g
                        \/ cut[g] \cap {"refresh", "announce", "stopped"} # {}
<1>1. ASSUME NEW h \in Handlers, InsertThread(h), thread' # thread, Group(h) = g
      PROVE  Explained'
  <2>1. Goto(h, "announce") \/ Cut(h, "refresh")
    BY <1>1 DEF InsertThread
  <2>2. CASE Goto(h, "announce")
    BY <1>0, <1>1, <2>2, GotoType, StepFrame DEF Steps, Step, At, Group
  <2>3. CASE Cut(h, "refresh")
    BY <1>0, <1>1, <2>3 DEF Cut, TypeOK
  <2> QED
    BY <2>1, <2>2, <2>3
<1>2. CASE thread[g] # None /\ thread[g].by = "command" /\ told[g] = {}
  <2>1. Explained
    BY <1>2 DEF UnannouncedIsExplained
  <2>2. CASE cut[g] \cap {"refresh", "announce", "stopped"} # {}
    <3>1. cut[g] \subseteq cut'[g]
      BY <1>0 DEF Next, Step, InsertThread, Announce, SendTask, FindThread, UpdateThread,
                  Launch, Dismiss, Run, Receive, CreateThread, Restart, vars, Cut, TypeOK
    <3> QED
      BY <2>2, <3>1
  <2>3. ASSUME NEW h \in Handlers, At(h, "announce"), Group(h) = g
        PROVE  Explained'
    <3>1. CASE handler'[h] = handler[h]
      BY <2>3, <3>1 DEF At, Group
    <3>2. CASE Announce(h)
      <4>1. told' = told
        BY <1>0, <2>3, <3>2 DEF Announce, TypeOK
      <4>2. Cut(h, "announce")
        BY <1>0, <2>3, <3>2, <4>1 DEF Announce, TypeOK, HandlerInv, DispatchInv
      <4> QED
        BY <1>0, <2>3, <4>2 DEF Cut, TypeOK
    <3>3. CASE Restart
      BY <1>0, <2>3, <3>3 DEF Restart, TypeOK, At
    <3>4. handler'[h] = handler[h] \/ Announce(h) \/ Restart
      <4>1. ASSUME NEW k \in Handlers, Step(k)
            PROVE  handler'[h] = handler[h] \/ Announce(h)
        <5>1. CASE k = h
          BY <2>3, <4>1, <5>1 DEF Step, At, InsertThread, SendTask, FindThread,
                                  UpdateThread, Launch
        <5>2. CASE k # h
          BY <1>0, <4>1, <5>2, StepFrame, GotoType, EndsType
        <5> QED
          BY <5>1, <5>2
      <4>2. ASSUME NEW k \in Handlers, NEW e \in Events, Run(k, e)
            PROVE  handler'[h] = handler[h]
        BY <1>0, <2>3, <4>2, RunType DEF Run, At
      <4>3. ASSUME NEW k \in Handlers, NEW e \in Events, Dismiss(k, e)
            PROVE  handler'[h] = handler[h]
        BY <4>3 DEF Dismiss
      <4>4. ASSUME NEW k \in Groups, CreateThread(k)
            PROVE  handler'[h] = handler[h]
        BY <4>4 DEF CreateThread
      <4>5. CASE UNCHANGED vars
        BY <4>5 DEF vars
      <4> QED
        BY <4>1, <4>2, <4>3, <4>4, <4>5 DEF Next
    <3> QED
      BY <3>1, <3>2, <3>3, <3>4
  <2> QED
    BY <2>1, <2>2, <2>3
<1>3. told[g] = {}
  BY <1>0 DEF Next, Step, InsertThread, Announce, SendTask, FindThread, UpdateThread,
              Launch, Dismiss, Run, Receive, CreateThread, Restart, vars, TypeOK
<1>4. CASE ~(thread[g] # None /\ thread[g].by = "command")
  <2>1. ASSUME NEW h \in Handlers, UpdateThread(h)
        PROVE  FALSE
    <3>1. Group(h) \in Groups /\ Mapped(Group(h))
      BY <1>0, <2>1, StepFrame, GroupType DEF DispatchInv, HandlerInv, UpdateThread, At, Group, Step
    <3>2. thread[Group(h)] \in Threads
      BY <1>0, <3>1 DEF Mapped, TypeOK
    <3>3. PICK s \in Settings : thread' = [thread EXCEPT ![Group(h)].settings = s]
      BY <2>1 DEF UpdateThread
    <3>4. thread'[Group(h)].by = thread[Group(h)].by
      BY <1>0, <3>1, <3>2, <3>3 DEF Threads, TypeOK
    <3> QED
      BY <1>0, <1>4, <3>1, <3>3, <3>4 DEF TypeOK, Mapped
  <2>2. ASSUME NEW k \in Groups, CreateThread(k)
        PROVE  FALSE
    BY <1>0, <1>4, <2>2, NewThreadType DEF CreateThread, TypeOK
  <2>3. \/ \E h \in Handlers : InsertThread(h) \/ UpdateThread(h)
        \/ \E k \in Groups : CreateThread(k)
        \/ thread' = thread
    BY DEF Next, Step, Announce, SendTask, FindThread, Launch, Dismiss, Run, Receive,
           Restart, vars
  <2>4. PICK h \in Handlers : InsertThread(h)
    BY <1>4, <2>1, <2>2, <2>3
  <2>5. thread' # thread /\ Group(h) = g
    BY <1>0, <1>4, <2>4 DEF InsertThread, TypeOK
  <2> QED
    BY <1>1, <2>4, <2>5
<1> QED
  BY <1>2, <1>3, <1>4

\* A thread that /map_group created and whose password was never shown has a
\* known cause.
THEOREM UnannouncedExplained == Spec => []UnannouncedIsExplained
<1>1. Init => UnannouncedIsExplained
  BY DEF Init, UnannouncedIsExplained
<1> QED
  BY <1>1, Inductive, UnannouncedStep, PTL DEF Spec

LEMMA SyncStep ==
    DispatchInv /\ SyncFollowsTheText /\ [Next]_vars => SyncFollowsTheText'
<1> SUFFICES ASSUME DispatchInv, SyncFollowsTheText, [Next]_vars,
                    NEW g \in Groups, told'[g] # {} \/ g \in promised'
             PROVE  \/ g \in tasks'
                    \/ \E h \in Handlers : At(h, "task")' /\ Group(h)' = g
                    \/ cut'[g] \cap {"announce", "task", "stopped"} # {}
  BY DEF SyncFollowsTheText
<1>0. TypeOK
  BY DEF DispatchInv
<1> DEFINE Follows == \/ g \in tasks
                      \/ \E h \in Handlers : At(h, "task") /\ Group(h) = g
                      \/ cut[g] \cap {"announce", "task", "stopped"} # {}
<1>1. ASSUME NEW h \in Handlers, Announce(h) \/ Launch(h), Group(h) = g,
             told' # told \/ promised' # promised
      PROVE  Follows'
  <2>1. Goto(h, "task") \/ Cut(h, "announce")
    BY <1>1 DEF Announce, Launch
  <2>2. CASE Goto(h, "task")
    BY <1>0, <1>1, <2>2, GotoType, StepFrame DEF Steps, Step, At, Group
  <2>3. CASE Cut(h, "announce")
    BY <1>0, <1>1, <2>3 DEF Cut, TypeOK
  <2> QED
    BY <2>1, <2>2, <2>3
<1>2. CASE Follows
  <2>1. tasks \subseteq tasks' /\ cut[g] \subseteq cut'[g]
    BY <1>0 DEF Next, Step, InsertThread, Announce, SendTask, FindThread, UpdateThread,
                Launch, Dismiss, Run, Receive, CreateThread, Restart, vars, Cut, TypeOK
  <2>2. ASSUME NEW h \in Handlers, At(h, "task"), Group(h) = g
        PROVE  Follows'
    <3>1. CASE handler'[h] = handler[h]
      BY <2>2, <3>1 DEF At, Group
    <3>2. CASE SendTask(h)
      BY <1>0, <2>2, <3>2 DEF SendTask, Cut, TypeOK
    <3>3. CASE Restart
      BY <1>0, <2>2, <3>3 DEF Restart, TypeOK, At
    <3>4. handler'[h] = handler[h] \/ SendTask(h) \/ Restart
      <4>1. ASSUME NEW k \in Handlers, Step(k)
            PROVE  handler'[h] = handler[h] \/ SendTask(h)
        <5>1. CASE k = h
          BY <2>2, <4>1, <5>1 DEF Step, At, InsertThread, Announce, FindThread,
                                  UpdateThread, Launch
        <5>2. CASE k # h
          BY <1>0, <4>1, <5>2, StepFrame, GotoType, EndsType
        <5> QED
          BY <5>1, <5>2
      <4>2. ASSUME NEW k \in Handlers, NEW e \in Events, Run(k, e)
            PROVE  handler'[h] = handler[h]
        BY <1>0, <2>2, <4>2, RunType DEF Run, At
      <4>3. ASSUME NEW k \in Handlers, NEW e \in Events, Dismiss(k, e)
            PROVE  handler'[h] = handler[h]
        BY <4>3 DEF Dismiss
      <4>4. ASSUME NEW k \in Groups, CreateThread(k)
            PROVE  handler'[h] = handler[h]
        BY <4>4 DEF CreateThread
      <4>5. CASE UNCHANGED vars
        BY <4>5 DEF vars
      <4> QED
        BY <4>1, <4>2, <4>3, <4>4, <4>5 DEF Next
    <3> QED
      BY <3>1, <3>2, <3>3, <3>4
  <2> QED
    BY <1>2, <2>1, <2>2
<1>3. CASE ~Follows
  <2>1. told[g] = {} /\ g \notin promised
    BY <1>3 DEF SyncFollowsTheText
  <2>2. told' # told \/ promised' # promised
    BY <2>1
  <2>3. PICK h \in Handlers : Announce(h) \/ Launch(h)
    BY <2>2 DEF Next, Step, InsertThread, SendTask, FindThread, UpdateThread, Dismiss, Run,
                Receive, CreateThread, Restart, vars
  <2>4. Group(h) = g
    BY <1>0, <2>1, <2>3 DEF Announce, Launch, TypeOK
  <2> QED
    BY <1>1, <2>2, <2>3, <2>4
<1> QED
  BY <1>2, <1>3

\* A group that was shown its password or was promised a synchronisation gets
\* one, unless a named failure came between.
THEOREM SyncFollows == Spec => []SyncFollowsTheText
<1>1. Init => SyncFollowsTheText
  BY DEF Init, SyncFollowsTheText
<1> QED
  BY <1>1, Inductive, SyncStep, PTL DEF Spec
-----------------------------------------------------------------------------
(* Who changes a thread, and what every step is for the group *)

LEMMA ChangeStep ==
    ASSUME DispatchInv, [Next]_vars, NEW g \in Groups, thread'[g] # thread[g]
    PROVE  \/ thread[g] = None /\ thread'[g].by = "api"
           \/ /\ g \notin Silenced
              /\ \E h \in Handlers :
                    /\ handler[h].pc \in {"insert", "update"}
                    /\ Group(h) = g
                    /\ handler[h].event.admin \/ handler[h].event.sender \in Sudo
<1>0. TypeOK
  BY DEF DispatchInv
<1>1. ASSUME NEW h \in Handlers, InsertThread(h) \/ UpdateThread(h)
      PROVE  /\ g \notin Silenced /\ Group(h) = g
             /\ handler[h].pc \in {"insert", "update"}
             /\ handler[h].event.admin \/ handler[h].event.sender \in Sudo
  BY <1>0, <1>1 DEF InsertThread, UpdateThread, At, TypeOK, DispatchInv, HandlerInv,
                    Authorised, Group
<1>2. ASSUME NEW k \in Groups, CreateThread(k)
      PROVE  thread[g] = None /\ thread'[g].by = "api"
  BY <1>0, <1>2, NewThreadType DEF CreateThread, TypeOK
<1>3. \/ \E h \in Handlers : InsertThread(h) \/ UpdateThread(h)
      \/ \E k \in Groups : CreateThread(k)
  BY DEF Next, Step, Announce, SendTask, FindThread, Launch, Dismiss, Run, Receive,
         Restart, vars
<1> QED
  BY <1>1, <1>2, <1>3

\* The receiver changes a thread only for a command that its group's event
\* authorises, whatever was delivered late or twice.
THEOREM AdministratorsChange == Spec => OnlyAdministratorsChange
<1>1. DispatchInv /\ [Next]_vars =>
        [\A g \in Groups :
            thread'[g] # thread[g] =>
                \/ thread[g] = None /\ thread'[g].by = "api"
                \/ /\ g \notin Silenced
                   /\ \E h \in Handlers :
                         /\ handler[h].pc \in {"insert", "update"}
                         /\ Group(h) = g
                         /\ handler[h].event.admin \/ handler[h].event.sender \in Sudo]_vars
  BY ChangeStep
<1> QED
  BY <1>1, Inductive, PTL DEF Spec, OnlyAdministratorsChange

\* What opens the thread of a group.
Opens == [g \in Groups |-> IF thread[g] = None THEN {} ELSE {thread[g].password}]

LEMMA ContractStep ==
    DispatchInv /\ [Next]_vars => [Contract!Next]_(Contract!contractVars)
<1> SUFFICES ASSUME DispatchInv, [Next]_vars, ~UNCHANGED <<Opens, told>>
             PROVE  Contract!Next
  BY DEF Contract!contractVars, Opens
<1>0. TypeOK /\ ThreadsStay
  BY ThreadsStayInStep DEF DispatchInv
<1>1. ASSUME NEW g \in Groups, NEW p \in Passwords \cup {None},
             thread[g] = None, told' = told,
             NEW t \in Threads, t.password = p, thread' = [thread EXCEPT ![g] = t]
      PROVE  Contract!Next
  <2>1. Opens[g] = {}
    BY <1>1 DEF Opens
  <2>2. Opens' = [Opens EXCEPT ![g] = {p}]
    BY <1>0, <1>1, NoneAssumption DEF Opens, TypeOK
  <2>3. Contract!MapGroup(g)
    BY <1>1, <2>1, <2>2 DEF Contract!MapGroup, Opens
  <2> QED
    BY <2>3 DEF Contract!Next
<1>2. ASSUME NEW h \in Handlers, Announce(h)
      PROVE  Contract!Next
  <2>1. Group(h) \in Groups /\ Mapped(Group(h))
        /\ thread[Group(h)].password = handler[h].password
    BY <1>0, <1>2, StepFrame, GroupType DEF Announce, At, DispatchInv, HandlerInv, Group, Step
  <2>2. Opens' = Opens
    BY <1>2 DEF Announce, Opens
  <2>3. told' = [told EXCEPT ![Group(h)] = @ \cup {handler[h].password}]
    BY <1>2, <2>2 DEF Announce
  <2>4. handler[h].password \in Opens[Group(h)]
    BY <2>1 DEF Opens, Mapped
  <2>5. Contract!Tell(Group(h))
    BY <2>2, <2>3, <2>4 DEF Contract!Tell, Opens
  <2> QED
    BY <2>1, <2>5 DEF Contract!Next
<1>3. ASSUME NEW h \in Handlers, InsertThread(h)
      PROVE  Contract!Next
  <2>1. Group(h) \in Groups /\ handler[h].password \in Passwords \cup {None}
    BY <1>0, <1>3, StepFrame, GroupType DEF Step, TypeOK, HandlerStates
  <2>2. thread' # thread
    BY <1>3 DEF InsertThread, Opens
  <2>3. /\ thread[Group(h)] = None /\ told' = told
        /\ thread' = [thread EXCEPT ![Group(h)] = NewThread(handler[h].password, "command")]
    BY <1>3, <2>2 DEF InsertThread
  <2> QED
    BY <1>1, <2>1, <2>3, NewThreadType
<1>4. ASSUME NEW g \in Groups, CreateThread(g)
      PROVE  Contract!Next
  <2>1. PICK p \in Passwords \cup {None} : thread' = [thread EXCEPT ![g] = NewThread(p, "api")]
    BY <1>4 DEF CreateThread
  <2>2. NewThread(p, "api") \in Threads /\ NewThread(p, "api").password = p
    BY NewThreadType
  <2>3. thread[g] = None /\ told' = told
    BY <1>4 DEF CreateThread
  <2> QED
    BY <1>1, <2>1, <2>2, <2>3
<1>5. ASSUME NEW h \in Handlers, UpdateThread(h)
      PROVE  FALSE
  <2>1. Group(h) \in Groups /\ thread[Group(h)] \in Threads
    BY <1>0, <1>5, StepFrame, GroupType
       DEF UpdateThread, DispatchInv, HandlerInv, Mapped, Group, At, TypeOK, Step
  <2>2. PICK s \in Settings : thread' = [thread EXCEPT ![Group(h)].settings = s]
    BY <1>5 DEF UpdateThread
  <2>3. thread'[Group(h)] # None /\ thread'[Group(h)].password = thread[Group(h)].password
    BY <1>0, <2>1, NoneAssumption DEF ThreadsStay, Mapped
  <2>4. Opens' = Opens
    BY <1>0, <2>1, <2>2, <2>3, NoneAssumption DEF Opens, TypeOK
  <2>5. told' = told
    BY <1>5 DEF UpdateThread
  <2> QED
    BY <2>4, <2>5
<1>6. \/ \E h \in Handlers : Announce(h) \/ InsertThread(h) \/ UpdateThread(h)
      \/ \E g \in Groups : CreateThread(g)
      \/ UNCHANGED <<Opens, told>>
  BY DEF Next, Step, SendTask, FindThread, Launch, Dismiss, Run, Receive, Restart, vars, Opens
<1> QED
  BY <1>2, <1>3, <1>4, <1>5, <1>6

\* For the group, commands and failures are a mapping once and for all and
\* texts that show what opens it.
THEOREM ImplementsMapping == Spec => KeepsMapping
<1>1. Init => Contract!Init
  BY DEF Init, Contract!Init
<1> QED
  BY <1>1, Inductive, ContractStep, PTL DEF Spec, KeepsMapping, Contract!Spec
=============================================================================
