------------------------ MODULE MessageDeliveryProofs ------------------------
(***************************************************************************)
(* Theorems about MessageDelivery, for every set of messages and workers   *)
(* and every number of redeliveries.                                       *)
(***************************************************************************)
EXTENDS MessageDelivery, FiniteSetTheorems, TLAPS

Busy(w) == worker[w].pc \notin {"init", "idle"}
Token(w) == <<worker[w].msg, worker[w].tag>>
ShownTags(m) == {n \in Tags : <<m, n>> \in shown}

\* A row exists as soon as anything else about its message does.
Stored ==
    /\ \A m \in Messages :
         /\ request[m] = "new" => status[m] = "none"
         /\ request[m] = "stored" => status[m] = "pending"
         /\ request[m] # "done" => attempts[m] = 0
         /\ attempts[m] > 0 => status[m] # "none"
    /\ \A w \in Workers : /\ Busy(w) <=> worker[w].msg # Nobody
                          /\ worker[w].held => Busy(w)

\* A delivery is in one place only, and is not shown before it is sent.
Tokens ==
    /\ \A t \in queue : t[2] <= attempts[t[1]] /\ t \notin shown
    /\ \A t \in shown : t[2] <= attempts[t[1]]
    /\ \A w \in Workers : Busy(w) =>
         /\ worker[w].tag \in Tags
         /\ worker[w].tag <= attempts[worker[w].msg]
         /\ Token(w) \notin queue
         /\ worker[w].pc \in {"read", "render", "send"} => Token(w) \notin shown
    /\ \A v, w \in Workers : (v # w /\ Busy(v) /\ Busy(w)) => Token(v) # Token(w)

\* Every copy in the group is the work of one delivery.
Counted ==
    \A m \in Messages :
        /\ IsFiniteSet(ShownTags(m))
        /\ copies[m] = Cardinality(ShownTags(m))

\* A row is PENDING while somebody the broker still counts on works on it.
Owned ==
    \A m \in Messages :
        status[m] = "pending" =>
            \/ request[m] = "stored"
            \/ Waiting(m)
            \/ \E w \in Workers : worker[w].msg = m /\ worker[w].pc # "ack" /\ worker[w].held
            \/ m \in lost

\* A session that loaded another status than PENDING never saw PENDING again.
Loaded ==
    \A w \in Workers :
        (worker[w].pc \in {"render", "send", "sent", "failed"}
          /\ status[worker[w].msg] = "pending") => worker[w].base = "pending"

\* SENT was shown; a single delivery that said so has nothing left to do.
SentShown ==
    /\ \A m \in Messages : status[m] = "sent" => copies[m] > 0
    /\ \A w \in Workers : worker[w].pc = "sent" => copies[worker[w].msg] > 0

SingleDelivery ==
    \A m \in Messages :
        (status[m] = "sent" /\ attempts[m] = 1) =>
            /\ ~Waiting(m)
            /\ \A w \in Workers : worker[w].msg = m => worker[w].pc = "ack"

IndInv == /\ TypeOK /\ Stored /\ Tokens /\ Counted
          /\ Owned /\ Loaded /\ SentShown /\ SingleDelivery
-----------------------------------------------------------------------------
(* The type invariant *)

LEMMA StartingType == Starting \in WorkerStates
  BY DEF Starting, WorkerStates, Statuses

LEMMA GotoType ==
    ASSUME TypeOK, NEW w \in Workers, NEW step, Goto(w, step),
           step \in {"init", "idle", "read", "render", "send", "sent", "failed", "ack"}
    PROVE  worker' \in [Workers -> WorkerStates]
  BY DEF Goto, TypeOK, WorkerStates

LEMMA DeliverType ==
    ASSUME TypeOK, NEW m \in Messages, Deliver(m)
    PROVE  /\ queue' \in SUBSET (Messages \X Tags)
           /\ attempts' \in [Messages -> Nat]
           /\ attempts'[m] = attempts[m] + 1
           /\ \A x \in Messages \ {m} : attempts'[x] = attempts[x]
           /\ queue' = queue \cup {<<m, attempts[m] + 1>>}
<1>1. attempts[m] \in Nat /\ attempts'[m] = attempts[m] + 1
  BY DEF Deliver, TypeOK
<1>2. <<m, attempts[m] + 1>> \in Messages \X Tags
  BY <1>1 DEF Tags
<1> QED
  BY <1>1, <1>2 DEF Deliver, TypeOK

LEMMA BusyType ==
    ASSUME TypeOK, Stored, NEW w \in Workers, Busy(w)
    PROVE  worker[w].msg \in Messages /\ worker[w].tag \in Nat
  BY DEF TypeOK, Stored, WorkerStates

LEMMA RequestStepType ==
    ASSUME TypeOK, NEW m \in Messages, RequestStep(m)
    PROVE  TypeOK'
<1>1. CASE InsertMessage(m)
  BY <1>1 DEF InsertMessage, TypeOK, Statuses
<1>2. CASE Refuse(m)
  BY <1>2 DEF Refuse, TypeOK
<1>3. CASE SendTask(m)
  BY <1>3, DeliverType DEF SendTask, TypeOK
<1>4. CASE TaskNotSent(m)
  BY <1>4 DEF TaskNotSent, TypeOK
<1> QED
  BY <1>1, <1>2, <1>3, <1>4 DEF RequestStep

LEMMA RecordType ==
    ASSUME TypeOK, NEW w \in Workers, NEW s \in {"sent", "failed"}, Record(w, s),
           worker[w].msg \in Messages
    PROVE  TypeOK'
<1>1. worker' \in [Workers -> WorkerStates]
  BY GotoType DEF Record
<1>2. status' \in [Messages -> Statuses]
  BY DEF Record, TypeOK, Statuses
<1>3. lost' \in SUBSET Messages
  BY DEF Record, TypeOK
<1> QED
  BY <1>1, <1>2, <1>3 DEF Record, TypeOK

LEMMA WorkerStepType ==
    ASSUME TypeOK, Stored, Tokens, NEW w \in Workers, WorkerStep(w)
    PROVE  TypeOK'
<1>1. CASE Boot(w)
  <2> PICK c \in {"none", "noCard", "ready"} :
             worker' = [worker EXCEPT ![w].pc = "idle", ![w].client = c]
    BY <1>1 DEF Boot
  <2>1. [worker[w] EXCEPT !.pc = "idle", !.client = c] \in WorkerStates
    BY DEF TypeOK, WorkerStates
  <2>2. worker' \in [Workers -> WorkerStates]
    BY <2>1 DEF TypeOK
  <2> QED
    BY <1>1, <2>2 DEF Boot, TypeOK
<1>3. CASE Read(w)
  <2>0. worker[w].msg \in Messages
    BY <1>3, BusyType DEF Read, Busy
  <2>1. worker' \in [Workers -> WorkerStates]
    <3>1. CASE Goto(w, "ack")
      BY <3>1, GotoType
    <3>2. CASE worker' = [worker EXCEPT ![w].pc = "render", ![w].base = status[worker[w].msg]]
      <4>1. status[worker[w].msg] \in Statuses
        BY <2>0 DEF TypeOK
      <4>2. [worker[w] EXCEPT !.pc = "render", !.base = status[worker[w].msg]] \in WorkerStates
        BY <4>1 DEF TypeOK, WorkerStates
      <4> QED
        BY <3>2, <4>2 DEF TypeOK
    <3> QED
      BY <1>3, <3>1, <3>2 DEF Read
  <2>2. lost' \in SUBSET Messages
    BY <1>3, <2>0 DEF Read, TypeOK
  <2> QED
    BY <1>3, <2>1, <2>2 DEF Read, TypeOK
<1>4. CASE Render(w)
  <2>1. worker' \in [Workers -> WorkerStates]
    BY <1>4, GotoType DEF Render
  <2> QED
    BY <1>4, <2>1 DEF Render, TypeOK
<1>5. CASE Show(w)
  <2>0. worker[w].msg \in Messages /\ worker[w].tag \in Nat
    BY <1>5, BusyType DEF Show, Busy
  <2>1. worker' \in [Workers -> WorkerStates]
    BY <1>5, GotoType DEF Show
  <2>2. copies' \in [Messages -> Nat]
    BY <1>5, <2>0 DEF Show, TypeOK
  <2>3. shown' \in SUBSET (Messages \X Tags)
    <3>1. worker[w].tag \in Tags
      BY <1>5 DEF Show, Busy, Tokens
    <3> QED
      BY <1>5, <2>0, <3>1 DEF Show, TypeOK
  <2> QED
    BY <1>5, <2>1, <2>2, <2>3 DEF Show, TypeOK
<1>6. CASE SendFails(w)
  <2>1. worker' \in [Workers -> WorkerStates]
    BY <1>6, GotoType DEF SendFails
  <2> QED
    BY <1>6, <2>1 DEF SendFails, TypeOK
<1>7. CASE RecordSent(w)
  BY <1>7, RecordType, BusyType DEF RecordSent, Busy
<1>8. CASE RecordFailed(w)
  BY <1>8, RecordType, BusyType DEF RecordFailed, Busy
<1>9. CASE Ack(w)
  <2>1. [Starting EXCEPT !.pc = "idle", !.client = worker[w].client] \in WorkerStates
    BY StartingType DEF TypeOK, WorkerStates
  <2> QED
    BY <1>9, <2>1 DEF Ack, TypeOK
<1> QED
  BY <1>1, <1>3, <1>4, <1>5, <1>6, <1>7, <1>8, <1>9 DEF WorkerStep

LEMMA TypeStep == TypeOK /\ Stored /\ Tokens /\ [Next]_vars => TypeOK'
<1> SUFFICES ASSUME TypeOK, Stored, Tokens, [Next]_vars
             PROVE  TypeOK'
  OBVIOUS
<1>1. ASSUME NEW m \in Messages, RequestStep(m)
      PROVE  TypeOK'
  BY <1>1, RequestStepType
<1>2. ASSUME NEW w \in Workers, WorkerStep(w)
      PROVE  TypeOK'
  BY <1>2, WorkerStepType
<1>3. ASSUME NEW w \in Workers, Take(w)
      PROVE  TypeOK'
  <2> PICK t \in queue : /\ queue' = queue \ {t}
                         /\ worker' = [worker EXCEPT ![w].pc = "read", ![w].msg = t[1],
                                                     ![w].tag = t[2], ![w].held = TRUE]
    BY <1>3 DEF Take
  <2>1. t[1] \in Messages /\ t[2] \in Nat
    BY DEF TypeOK, Tags
  <2>2. worker' \in [Workers -> WorkerStates]
    <3>1. [worker[w] EXCEPT !.pc = "read", !.msg = t[1], !.tag = t[2], !.held = TRUE]
            \in WorkerStates
      BY <2>1 DEF TypeOK, WorkerStates
    <3> QED
      BY <3>1 DEF TypeOK
  <2> QED
    BY <1>3, <2>2 DEF Take, TypeOK
<1>4. ASSUME NEW w \in Workers, Recycle(w)
      PROVE  TypeOK'
  BY <1>4, StartingType DEF Recycle, TypeOK
<1>5. ASSUME NEW w \in Workers, ProcessLost(w)
      PROVE  TypeOK'
  <2>1. worker[w].msg \in Messages
    BY <1>5 DEF ProcessLost, TypeOK, WorkerStates
  <2>2. queue' \in SUBSET (Messages \X Tags) /\ attempts' \in [Messages -> Nat]
    BY <1>5, <2>1, DeliverType DEF ProcessLost, TypeOK
  <2>3. worker' \in [Workers -> WorkerStates]
    BY <1>5, StartingType DEF ProcessLost, TypeOK
  <2> QED
    BY <1>5, <2>2, <2>3 DEF ProcessLost, TypeOK
<1>6. ASSUME NEW w \in Workers, VisibilityTimeout(w)
      PROVE  TypeOK'
  <2>1. worker[w].msg \in Messages
    BY <1>6, BusyType DEF VisibilityTimeout, Stored
  <2>2. queue' \in SUBSET (Messages \X Tags) /\ attempts' \in [Messages -> Nat]
    BY <1>6, <2>1, DeliverType DEF VisibilityTimeout
  <2>3. worker' \in [Workers -> WorkerStates]
    <3>1. [worker[w] EXCEPT !.held = FALSE] \in WorkerStates
      BY DEF TypeOK, WorkerStates
    <3> QED
      BY <1>6, <3>1 DEF VisibilityTimeout, TypeOK
  <2> QED
    BY <1>6, <2>2, <2>3 DEF VisibilityTimeout, TypeOK
<1>7. CASE UNCHANGED vars
  BY <1>7 DEF vars, TypeOK
<1> QED
  BY <1>1, <1>2, <1>3, <1>4, <1>5, <1>6, <1>7 DEF Next
-----------------------------------------------------------------------------
(* The inductive invariant, action by action *)

LEMMA GotoFrame ==
    ASSUME TypeOK, NEW w \in Workers, NEW step, Goto(w, step)
    PROVE  /\ \A v \in Workers \ {w} : worker'[v] = worker[v]
           /\ worker'[w].pc = step
           /\ worker'[w].msg = worker[w].msg
           /\ worker'[w].tag = worker[w].tag
           /\ worker'[w].base = worker[w].base
           /\ worker'[w].held = worker[w].held
  BY DEF Goto, TypeOK, WorkerStates

LEMMA RefuseInd ==
    ASSUME IndInv, TypeOK', NEW m \in Messages, Refuse(m)
    PROVE  IndInv'
<1> USE DEF Refuse, IndInv
<1>0. \A x \in Messages \ {m} : request'[x] = request[x]
  BY DEF TypeOK
<1>1. request'[m] = "done" /\ request[m] = "new"
  BY DEF TypeOK
<1>2. Stored'
  BY <1>0, <1>1 DEF Stored, Busy
<1>3. Tokens'
  BY DEF Tokens, Busy, Token
<1>4. Counted'
  BY DEF Counted, ShownTags
<1>5. Owned'
  BY <1>0, <1>1 DEF Owned, Waiting
<1>6. Loaded' /\ SentShown' /\ SingleDelivery'
  BY DEF Loaded, SentShown, SingleDelivery, Waiting
<1> QED
  BY <1>2, <1>3, <1>4, <1>5, <1>6

LEMMA TaskNotSentInd ==
    ASSUME IndInv, TypeOK', NEW m \in Messages, TaskNotSent(m)
    PROVE  IndInv'
<1> USE DEF TaskNotSent, IndInv
<1>0. \A x \in Messages \ {m} : request'[x] = request[x]
  BY DEF TypeOK
<1>1. request'[m] = "done" /\ request[m] = "stored" /\ lost' = lost \cup {m}
  BY DEF TypeOK
<1>2. Stored'
  BY <1>0, <1>1 DEF Stored, Busy
<1>3. Tokens'
  BY DEF Tokens, Busy, Token
<1>4. Counted'
  BY DEF Counted, ShownTags
<1>5. Owned'
  BY <1>0, <1>1 DEF Owned, Waiting
<1>6. Loaded' /\ SentShown' /\ SingleDelivery'
  BY DEF Loaded, SentShown, SingleDelivery, Waiting
<1> QED
  BY <1>2, <1>3, <1>4, <1>5, <1>6

LEMMA InsertInd ==
    ASSUME IndInv, TypeOK', NEW m \in Messages, InsertMessage(m)
    PROVE  IndInv'
<1> USE DEF InsertMessage, IndInv
<1>0. \A x \in Messages \ {m} : request'[x] = request[x] /\ status'[x] = status[x]
  BY DEF TypeOK
<1>1. /\ request'[m] = "stored" /\ status'[m] = "pending"
      /\ request[m] = "new" /\ status[m] = "none" /\ attempts[m] = 0
  BY DEF TypeOK, Stored
<1>2. Stored'
  BY <1>0, <1>1 DEF Stored, Busy
<1>3. Tokens'
  BY DEF Tokens, Busy, Token
<1>4. Counted'
  BY DEF Counted, ShownTags
<1>5. Owned'
  BY <1>0, <1>1 DEF Owned, Waiting
<1>6. \A w \in Workers : Busy(w) => worker[w].msg # m
  BY <1>1 DEF Tokens, Tags, TypeOK
<1>7. Loaded'
  BY <1>0, <1>6, BusyType DEF Loaded, Busy
<1>8. SentShown' /\ SingleDelivery'
  BY <1>0, <1>1 DEF SentShown, SingleDelivery, Waiting
<1> QED
  BY <1>2, <1>3, <1>4, <1>5, <1>7, <1>8

\* A delivery of m, if m has a row and a further delivery is not its first
\* one after SENT.
LEMMA SendTaskInd ==
    ASSUME IndInv, TypeOK', NEW m \in Messages, SendTask(m)
    PROVE  IndInv'
<1> USE DEF SendTask, IndInv
<1>0. /\ \A x \in Messages \ {m} : request'[x] = request[x] /\ attempts'[x] = attempts[x]
      /\ request'[m] = "done" /\ request[m] = "stored"
      /\ status[m] = "pending" /\ attempts[m] = 0
      /\ attempts'[m] = 1 /\ queue' = queue \cup {<<m, 1>>}
  BY DeliverType DEF TypeOK, Stored
<1>1. \A x \in Messages : attempts[x] \in Nat /\ attempts[x] <= attempts'[x]
  BY <1>0 DEF TypeOK
<1>2. Stored'
  BY <1>0 DEF Stored, Busy
<1>3. <<m, 1>> \notin shown /\ \A w \in Workers : Busy(w) => Token(w) # <<m, 1>>
  BY <1>0 DEF Tokens, Token
<1>4. Tokens'
  <2>1. \A t \in queue' : t[2] <= attempts'[t[1]] /\ t \notin shown
    BY <1>0, <1>1, <1>3 DEF Tokens, TypeOK, Tags
  <2>2. \A t \in shown : t[2] <= attempts'[t[1]]
    BY <1>0, <1>1 DEF Tokens, TypeOK, Tags
  <2>3. \A w \in Workers : Busy(w) =>
         /\ worker[w].tag \in Tags
         /\ worker[w].tag <= attempts'[worker[w].msg]
         /\ Token(w) \notin queue'
    BY <1>0, <1>1, <1>3, BusyType DEF Tokens, Tags
  <2> QED
    BY <2>1, <2>2, <2>3 DEF Tokens, Busy, Token
<1>5. Counted'
  BY DEF Counted, ShownTags
<1>6. Owned'
  <2>1. Waiting(m)'
    <3>1. <<m, 1>> \in queue' /\ <<m, 1>>[1] = m
      BY <1>0
    <3> QED
      BY <3>1, Zenon DEF Waiting
  <2>2. \A x \in Messages : Waiting(x) => Waiting(x)'
    BY <1>0 DEF Waiting
  <2> QED
    BY <1>0, <2>1, <2>2 DEF Owned
<1>7. Loaded' /\ SentShown'
  BY DEF Loaded, SentShown
<1>8. SingleDelivery'
  BY <1>0 DEF SingleDelivery, Waiting
<1> QED
  BY <1>2, <1>4, <1>5, <1>6, <1>7, <1>8

\* The broker delivers again what a worker holds: the new tag is fresh.
LEMMA RedeliverFrame ==
    ASSUME IndInv, NEW m \in Messages, attempts[m] > 0, Deliver(m)
    PROVE  /\ \A x \in Messages : attempts[x] \in Nat /\ attempts[x] <= attempts'[x]
           /\ \A x \in Messages \ {m} : attempts'[x] = attempts[x]
           /\ attempts'[m] > 1
           /\ \A t \in queue' : t[2] <= attempts'[t[1]] /\ t \notin shown
           /\ \A t \in shown : t[2] <= attempts'[t[1]]
           /\ \A w \in Workers : Busy(w) =>
                 /\ worker[w].tag \in Tags
                 /\ worker[w].tag <= attempts'[worker[w].msg]
                 /\ Token(w) \notin queue'
<1> USE DEF IndInv
<1>0. /\ \A x \in Messages \ {m} : attempts'[x] = attempts[x]
      /\ attempts[m] \in Nat
      /\ attempts'[m] = attempts[m] + 1
      /\ queue' = queue \cup {<<m, attempts[m] + 1>>}
  BY DeliverType DEF TypeOK
<1>1. \A x \in Messages : attempts[x] \in Nat /\ attempts[x] <= attempts'[x]
  BY <1>0 DEF TypeOK
<1>2. <<m, attempts[m] + 1>> \notin shown
  BY <1>0 DEF Tokens
<1>3. \A w \in Workers : Busy(w) => Token(w) # <<m, attempts[m] + 1>>
  <2> SUFFICES ASSUME NEW w \in Workers, Busy(w),
                      worker[w].msg = m, worker[w].tag = attempts[m] + 1
               PROVE  FALSE
    BY DEF Token
  <2> QED
    BY <1>0 DEF Tokens
<1>4. \A t \in queue' : t[2] <= attempts'[t[1]] /\ t \notin shown
  BY <1>0, <1>1, <1>2 DEF Tokens, TypeOK, Tags
<1>5. \A t \in shown : t[2] <= attempts'[t[1]]
  BY <1>0, <1>1 DEF Tokens, TypeOK, Tags
<1>6. \A w \in Workers : Busy(w) =>
         /\ worker[w].tag \in Tags
         /\ worker[w].tag <= attempts'[worker[w].msg]
         /\ Token(w) \notin queue'
  BY <1>0, <1>1, <1>3, BusyType DEF Tokens, Tags
<1> QED
  BY <1>0, <1>1, <1>4, <1>5, <1>6

\* A worker that is not busy, or that only gives up its hold, changes no token.
LEMMA VisibilityTimeoutInd ==
    ASSUME IndInv, TypeOK', NEW w \in Workers, VisibilityTimeout(w)
    PROVE  IndInv'
<1> USE DEF IndInv
<1> PICK m \in Messages : m = worker[w].msg
  BY BusyType DEF VisibilityTimeout, Stored
<1>0. /\ Busy(w) /\ attempts[m] > 0
      /\ Deliver(m)
      /\ UNCHANGED <<request, status, copies, shown, lost>>
  BY BusyType DEF VisibilityTimeout, Stored, Tokens, Tags, TypeOK
<1>1. /\ \A v \in Workers : /\ worker'[v].pc = worker[v].pc
                            /\ worker'[v].msg = worker[v].msg
                            /\ worker'[v].tag = worker[v].tag
                            /\ worker'[v].base = worker[v].base
      /\ \A v \in Workers \ {w} : worker'[v].held = worker[v].held
      /\ ~worker'[w].held
  BY DEF VisibilityTimeout, TypeOK, WorkerStates
<1>2. \A v \in Workers : (Busy(v)' <=> Busy(v)) /\ Token(v)' = Token(v)
  BY <1>1 DEF Busy, Token
<1>3. /\ \A x \in Messages : attempts[x] \in Nat /\ attempts[x] <= attempts'[x]
      /\ \A x \in Messages \ {m} : attempts'[x] = attempts[x]
      /\ attempts'[m] > 1
      /\ queue' = queue \cup {<<m, attempts[m] + 1>>}
  BY <1>0, RedeliverFrame, DeliverType
<1>4. Stored'
  <2>1. \A x \in Messages : request[x] # "done" => attempts'[x] = 0
    BY <1>0, <1>3 DEF Stored
  <2>2. \A x \in Messages : attempts'[x] > 0 => status[x] # "none"
    BY <1>0, <1>3 DEF Stored
  <2>3. \A v \in Workers : (worker'[v].held => Busy(v)) /\ (Busy(v) <=> worker'[v].msg # Nobody)
    BY <1>1 DEF Stored
  <2> QED
    BY <1>0, <1>2, <2>1, <2>2, <2>3 DEF Stored
<1>5. Tokens'
  <2>1. /\ \A t \in queue' : t[2] <= attempts'[t[1]] /\ t \notin shown'
        /\ \A t \in shown' : t[2] <= attempts'[t[1]]
    BY <1>0, RedeliverFrame
  <2>2. \A v \in Workers : Busy(v)' =>
         /\ worker'[v].tag \in Tags
         /\ worker'[v].tag <= attempts'[worker'[v].msg]
         /\ Token(v)' \notin queue'
         /\ worker'[v].pc \in {"read", "render", "send"} => Token(v)' \notin shown'
    BY <1>0, <1>1, <1>2, RedeliverFrame DEF Tokens
  <2>3. \A u, v \in Workers : (u # v /\ Busy(u)' /\ Busy(v)') => Token(u)' # Token(v)'
    BY <1>2 DEF Tokens
  <2> QED
    BY <2>1, <2>2, <2>3 DEF Tokens
<1>6. Counted'
  BY <1>0 DEF Counted, ShownTags
<1>7. Waiting(m)' /\ \A x \in Messages : Waiting(x) => Waiting(x)'
  <2>1. <<m, attempts[m] + 1>> \in queue' /\ <<m, attempts[m] + 1>>[1] = m
    BY <1>3
  <2>2. Waiting(m)'
    BY <2>1, Zenon DEF Waiting
  <2>3. \A x \in Messages : Waiting(x) => Waiting(x)'
    BY <1>3 DEF Waiting
  <2> QED
    BY <2>2, <2>3
<1>8. Owned'
  <2> SUFFICES ASSUME NEW x \in Messages, x # m, status[x] = "pending"
               PROVE  \/ request[x] = "stored"
                      \/ Waiting(x)'
                      \/ \E v \in Workers :
                           worker'[v].msg = x /\ worker'[v].pc # "ack" /\ worker'[v].held
                      \/ x \in lost
    BY <1>0, <1>7 DEF Owned
  <2>1. CASE \E v \in Workers : worker[v].msg = x /\ worker[v].pc # "ack" /\ worker[v].held
    BY <1>1, <2>1
  <2> QED
    BY <1>7, <2>1 DEF Owned
<1>9. Loaded' /\ SentShown'
  BY <1>0, <1>1 DEF Loaded, SentShown
<1>10. SingleDelivery'
  <2>1. \A x \in Messages \ {m} : Waiting(x)' => Waiting(x)
    BY <1>3 DEF Waiting
  <2> QED
    BY <1>0, <1>1, <1>3, <2>1 DEF SingleDelivery
<1> QED
  BY <1>4, <1>5, <1>6, <1>8, <1>9, <1>10

\* A worker between two tasks, or none at all, leaves everything to the others.
LEMMA IdleWorkerInd ==
    ASSUME IndInv, TypeOK', NEW w \in Workers, ~Busy(w), ~Busy(w)',
           \A v \in Workers \ {w} : worker'[v] = worker[v],
           worker'[w].msg = Nobody, ~worker'[w].held,
           UNCHANGED <<request, status, queue, attempts, copies, shown, lost>>
    PROVE  IndInv'
<1> USE DEF IndInv
<1>1. \A v \in Workers : (Busy(v)' <=> Busy(v)) /\ (Busy(v) => worker'[v] = worker[v])
  BY DEF Busy
<1>2. Stored'
  BY <1>1 DEF Stored
<1>3. Tokens'
  BY <1>1 DEF Tokens, Token, Busy
<1>4. Counted'
  BY DEF Counted, ShownTags
<1>5. ~worker[w].held
  BY DEF Stored
<1>6. Owned'
  <2> SUFFICES ASSUME NEW x \in Messages, status[x] = "pending"
               PROVE  \/ request[x] = "stored"
                      \/ Waiting(x)'
                      \/ \E v \in Workers :
                           worker'[v].msg = x /\ worker'[v].pc # "ack" /\ worker'[v].held
                      \/ x \in lost
    BY DEF Owned
  <2>1. CASE \E v \in Workers : worker[v].msg = x /\ worker[v].pc # "ack" /\ worker[v].held
    BY <1>5, <2>1
  <2> QED
    BY <2>1 DEF Owned, Waiting
<1>7. Loaded' /\ SentShown'
  BY <1>1 DEF Loaded, SentShown, Busy
<1>8. SingleDelivery'
  BY DeliveryAssumption DEF SingleDelivery, Waiting
<1> QED
  BY <1>2, <1>3, <1>4, <1>6, <1>7, <1>8

LEMMA TakeInd ==
    ASSUME IndInv, TypeOK', NEW w \in Workers, Take(w)
    PROVE  IndInv'
<1> USE DEF IndInv
<1> PICK t \in queue : /\ queue' = queue \ {t}
                       /\ worker' = [worker EXCEPT ![w].pc = "read", ![w].msg = t[1],
                                                   ![w].tag = t[2], ![w].held = TRUE]
  BY DEF Take
<1>0. /\ UNCHANGED <<request, status, attempts, copies, shown, lost>>
      /\ ~Busy(w) /\ worker[w].msg = Nobody
  BY DEF Take, Busy, Stored
<1>1. /\ t[1] \in Messages /\ t[2] \in Tags /\ t = <<t[1], t[2]>>
      /\ t[2] <= attempts[t[1]] /\ t \notin shown
  BY DEF TypeOK, Tokens
<1>2. /\ \A v \in Workers \ {w} : worker'[v] = worker[v]
      /\ worker'[w].pc = "read" /\ worker'[w].msg = t[1] /\ worker'[w].tag = t[2]
      /\ worker'[w].held
  BY DEF TypeOK, WorkerStates
<1>3. /\ \A v \in Workers \ {w} : (Busy(v)' <=> Busy(v)) /\ Token(v)' = Token(v)
      /\ Busy(w)' /\ Token(w)' = t
  BY <1>1, <1>2 DEF Busy, Token
<1>4. Stored'
  <2>1. \A v \in Workers : /\ Busy(v)' <=> worker'[v].msg # Nobody
                           /\ worker'[v].held => Busy(v)'
    <3> SUFFICES ASSUME NEW v \in Workers
                 PROVE  /\ Busy(v)' <=> worker'[v].msg # Nobody
                        /\ worker'[v].held => Busy(v)'
      OBVIOUS
    <3>1. CASE v = w
      BY <1>1, <1>2, <1>3, <3>1, DeliveryAssumption
    <3>2. CASE v # w
      BY <1>2, <1>3, <3>2 DEF Stored
    <3> QED
      BY <3>1, <3>2
  <2> QED
    BY <1>0, <2>1 DEF Stored
<1>5. Tokens'
  <2>1. \A v \in Workers : Busy(v)' =>
         /\ worker'[v].tag \in Tags
         /\ worker'[v].tag <= attempts'[worker'[v].msg]
         /\ Token(v)' \notin queue'
         /\ worker'[v].pc \in {"read", "render", "send"} => Token(v)' \notin shown'
    BY <1>0, <1>1, <1>2, <1>3 DEF Tokens
  <2>2. \A u, v \in Workers : (u # v /\ Busy(u)' /\ Busy(v)') => Token(u)' # Token(v)'
    BY <1>3 DEF Tokens
  <2> QED
    BY <1>0, <2>1, <2>2 DEF Tokens
<1>6. Counted'
  BY <1>0 DEF Counted, ShownTags
<1>7. Owned'
  <2> SUFFICES ASSUME NEW x \in Messages, status[x] = "pending"
               PROVE  \/ request[x] = "stored"
                      \/ Waiting(x)'
                      \/ \E v \in Workers :
                           worker'[v].msg = x /\ worker'[v].pc # "ack" /\ worker'[v].held
                      \/ x \in lost
    BY <1>0 DEF Owned
  <2>1. CASE \E v \in Workers : worker[v].msg = x /\ worker[v].pc # "ack" /\ worker[v].held
    BY <1>0, <1>2, <2>1, DeliveryAssumption
  <2>2. CASE Waiting(x)
    <3>1. CASE t[1] = x
      BY <1>2, <3>1
    <3>2. CASE t[1] # x
      BY <2>2, <3>2 DEF Waiting
    <3> QED
      BY <3>1, <3>2
  <2> QED
    BY <2>1, <2>2 DEF Owned
<1>8. Loaded' /\ SentShown'
  BY <1>0, <1>2 DEF Loaded, SentShown
<1>9. SingleDelivery'
  <2>1. \A x \in Messages : Waiting(x)' => Waiting(x)
    BY DEF Waiting
  <2>2. Waiting(t[1])
    BY DEF Waiting
  <2> SUFFICES ASSUME NEW x \in Messages, status[x] = "sent", attempts[x] = 1
               PROVE  /\ ~Waiting(x)'
                      /\ \A v \in Workers : worker'[v].msg = x => worker'[v].pc = "ack"
    BY <1>0 DEF SingleDelivery
  <2>3. ~Waiting(x) /\ t[1] # x
    BY <2>2 DEF SingleDelivery
  <2>4. ASSUME NEW v \in Workers, worker'[v].msg = x
        PROVE  worker'[v].pc = "ack"
    <3>1. v # w
      BY <1>2, <2>3, <2>4
    <3> QED
      BY <1>2, <2>4, <3>1 DEF SingleDelivery
  <2> QED
    BY <2>1, <2>3, <2>4
<1> QED
  BY <1>4, <1>5, <1>6, <1>7, <1>8, <1>9

\* A worker goes on with its task and neither sends nor records anything.
LEMMA GoOnInd ==
    ASSUME IndInv, TypeOK', NEW w \in Workers, Busy(w), worker[w].pc # "ack",
           \A v \in Workers \ {w} : worker'[v] = worker[v],
           worker'[w].msg = worker[w].msg, worker'[w].tag = worker[w].tag,
           worker'[w].held = worker[w].held,
           worker'[w].pc \in {"render", "send", "failed", "ack"},
           worker'[w].pc \in {"render", "send"} => worker[w].pc \in {"read", "render"},
           worker'[w].pc # "ack" =>
             (status[worker[w].msg] = "pending" => worker'[w].base = "pending"),
           worker'[w].pc = "ack" => worker[w].msg \in lost',
           lost \subseteq lost',
           UNCHANGED <<request, status, queue, attempts, copies, shown>>
    PROVE  IndInv'
<1> USE DEF IndInv
<1>1. \A v \in Workers : (Busy(v)' <=> Busy(v)) /\ Token(v)' = Token(v)
  BY DEF Busy, Token
<1>2. Stored'
  <2>1. \A v \in Workers : /\ worker'[v].msg = worker[v].msg
                           /\ worker'[v].held <=> worker[v].held
    OBVIOUS
  <2> QED
    BY <1>1, <2>1 DEF Stored
<1>3. Tokens'
  <2>1. \A v \in Workers : Busy(v)' =>
         /\ worker'[v].tag \in Tags
         /\ worker'[v].tag <= attempts'[worker'[v].msg]
         /\ Token(v)' \notin queue'
         /\ worker'[v].pc \in {"read", "render", "send"} => Token(v)' \notin shown'
    BY <1>1 DEF Tokens
  <2>2. \A u, v \in Workers : (u # v /\ Busy(u)' /\ Busy(v)') => Token(u)' # Token(v)'
    BY <1>1 DEF Tokens
  <2> QED
    BY <2>1, <2>2 DEF Tokens
<1>4. Counted'
  BY DEF Counted, ShownTags
<1>5. Owned'
  <2> SUFFICES ASSUME NEW x \in Messages, status[x] = "pending"
               PROVE  \/ request[x] = "stored"
                      \/ Waiting(x)'
                      \/ \E v \in Workers :
                           worker'[v].msg = x /\ worker'[v].pc # "ack" /\ worker'[v].held
                      \/ x \in lost'
    BY DEF Owned
  <2>1. ASSUME NEW v \in Workers,
               worker[v].msg = x, worker[v].pc # "ack", worker[v].held
        PROVE  x \in lost' \/ (worker'[v].msg = x /\ worker'[v].pc # "ack" /\ worker'[v].held)
    BY <2>1
  <2> QED
    BY <2>1 DEF Owned, Waiting
<1>6. Loaded'
  BY DEF Loaded
<1>7. SentShown'
  BY DEF SentShown
<1>8. SingleDelivery'
  <2>1. \A x \in Messages : Waiting(x)' <=> Waiting(x)
    BY DEF Waiting
  <2> QED
    BY <2>1 DEF SingleDelivery
<1> QED
  BY <1>2, <1>3, <1>4, <1>5, <1>6, <1>7, <1>8

LEMMA ReadInd ==
    ASSUME IndInv, TypeOK', NEW w \in Workers, Read(w)
    PROVE  IndInv'
<1>0. TypeOK /\ Busy(w) /\ worker[w].pc = "read"
  BY DEF Read, Busy, IndInv
<1>1. CASE Goto(w, "ack") /\ lost' = lost \cup {worker[w].msg}
  BY <1>0, <1>1, GotoFrame, GoOnInd DEF Read
<1>2. CASE worker' = [worker EXCEPT ![w].pc = "render", ![w].base = status[worker[w].msg]]
           /\ lost' = lost
  <2>1. /\ \A v \in Workers \ {w} : worker'[v] = worker[v]
        /\ worker'[w].pc = "render" /\ worker'[w].base = status[worker[w].msg]
        /\ worker'[w].msg = worker[w].msg /\ worker'[w].tag = worker[w].tag
        /\ worker'[w].held = worker[w].held
    BY <1>0, <1>2 DEF TypeOK, WorkerStates
  <2> QED
    BY <1>0, <1>2, <2>1, GoOnInd DEF Read
<1> QED
  BY <1>1, <1>2 DEF Read

LEMMA RenderInd ==
    ASSUME IndInv, TypeOK', NEW w \in Workers, Render(w)
    PROVE  IndInv'
<1>0. TypeOK /\ Busy(w) /\ worker[w].pc = "render"
      /\ (status[worker[w].msg] = "pending" => worker[w].base = "pending")
  BY DEF Render, Busy, IndInv, Loaded
<1>1. CASE Goto(w, "send")
  BY <1>0, <1>1, GotoFrame, GoOnInd DEF Render
<1>2. CASE Goto(w, "failed")
  BY <1>0, <1>2, GotoFrame, GoOnInd DEF Render
<1> QED
  BY <1>1, <1>2 DEF Render

LEMMA SendFailsInd ==
    ASSUME IndInv, TypeOK', NEW w \in Workers, SendFails(w)
    PROVE  IndInv'
<1>0. TypeOK /\ Busy(w) /\ worker[w].pc = "send"
      /\ (status[worker[w].msg] = "pending" => worker[w].base = "pending")
  BY DEF SendFails, Busy, IndInv, Loaded
<1> QED
  BY <1>0, GotoFrame, GoOnInd DEF SendFails

LEMMA AckInd ==
    ASSUME IndInv, TypeOK', NEW w \in Workers, Ack(w)
    PROVE  IndInv'
<1> USE DEF IndInv
<1>0. /\ \A v \in Workers \ {w} : worker'[v] = worker[v]
      /\ worker'[w].pc = "idle" /\ worker'[w].msg = Nobody /\ ~worker'[w].held
      /\ worker[w].pc = "ack"
      /\ UNCHANGED <<request, status, queue, attempts, copies, shown, lost>>
  BY DEF Ack, Starting, TypeOK
<1>1. /\ ~Busy(w)'
      /\ \A v \in Workers \ {w} : (Busy(v)' <=> Busy(v)) /\ Token(v)' = Token(v)
  BY <1>0 DEF Busy, Token
<1>2. Stored'
  <2>1. \A v \in Workers : /\ Busy(v)' <=> worker'[v].msg # Nobody
                           /\ worker'[v].held => Busy(v)'
    <3> SUFFICES ASSUME NEW v \in Workers
                 PROVE  /\ Busy(v)' <=> worker'[v].msg # Nobody
                        /\ worker'[v].held => Busy(v)'
      OBVIOUS
    <3>1. CASE v = w
      BY <1>0, <1>1, <3>1
    <3>2. CASE v # w
      BY <1>0, <1>1, <3>2 DEF Stored
    <3> QED
      BY <3>1, <3>2
  <2> QED
    BY <1>0, <2>1 DEF Stored
<1>3. Tokens'
  BY <1>0, <1>1 DEF Tokens
<1>4. Counted'
  BY <1>0 DEF Counted, ShownTags
<1>5. Owned'
  <2> SUFFICES ASSUME NEW x \in Messages, status[x] = "pending"
               PROVE  \/ request[x] = "stored"
                      \/ Waiting(x)'
                      \/ \E v \in Workers :
                           worker'[v].msg = x /\ worker'[v].pc # "ack" /\ worker'[v].held
                      \/ x \in lost
    BY <1>0 DEF Owned
  <2>1. ASSUME NEW v \in Workers,
               worker[v].msg = x, worker[v].pc # "ack", worker[v].held
        PROVE  worker'[v].msg = x /\ worker'[v].pc # "ack" /\ worker'[v].held
    BY <1>0, <2>1
  <2> QED
    BY <1>0, <2>1 DEF Owned, Waiting
<1>6. Loaded' /\ SentShown'
  BY <1>0 DEF Loaded, SentShown
<1>7. SingleDelivery'
  <2>1. \A x \in Messages : Waiting(x)' <=> Waiting(x)
    BY <1>0 DEF Waiting
  <2>2. \A x \in Messages : worker'[w].msg # x
    BY <1>0, DeliveryAssumption
  <2> QED
    BY <1>0, <2>1, <2>2 DEF SingleDelivery
<1> QED
  BY <1>2, <1>3, <1>4, <1>5, <1>6, <1>7

LEMMA ShowInd ==
    ASSUME IndInv, TypeOK', NEW w \in Workers, Show(w)
    PROVE  IndInv'
<1> USE DEF IndInv
<1> PICK m \in Messages : m = worker[w].msg
  BY BusyType DEF Show, Busy
<1>0. /\ Busy(w) /\ worker[w].pc = "send" /\ Token(w) = <<m, worker[w].tag>>
      /\ worker[w].tag \in Tags /\ worker[w].tag <= attempts[m]
      /\ Token(w) \notin queue /\ Token(w) \notin shown
      /\ copies' = [copies EXCEPT ![m] = @ + 1]
      /\ shown' = shown \cup {Token(w)}
      /\ UNCHANGED <<request, status, queue, attempts, lost>>
  BY DEF Show, Busy, Token, Tokens
<1>1. /\ \A v \in Workers \ {w} : worker'[v] = worker[v]
      /\ worker'[w].pc \in {"sent", "failed"}
      /\ worker'[w].msg = m
      /\ worker'[w].tag = worker[w].tag
      /\ worker'[w].base = worker[w].base
      /\ worker'[w].held = worker[w].held
  BY GotoFrame DEF Show
<1>2. \A v \in Workers : (Busy(v)' <=> Busy(v)) /\ Token(v)' = Token(v)
  BY <1>0, <1>1 DEF Busy, Token
<1>3. copies'[m] = copies[m] + 1 /\ \A x \in Messages \ {m} : copies'[x] = copies[x]
  BY <1>0 DEF TypeOK
<1>4. Stored'
  <2>1. \A v \in Workers : /\ worker'[v].msg = worker[v].msg
                           /\ worker'[v].held <=> worker[v].held
    BY <1>1
  <2> QED
    BY <1>0, <1>2, <2>1 DEF Stored
<1>5. Tokens'
  <2>1. \A t \in queue' : t[2] <= attempts'[t[1]] /\ t \notin shown'
    BY <1>0 DEF Tokens
  <2>2. \A t \in shown' : t[2] <= attempts'[t[1]]
    BY <1>0 DEF Tokens
  <2>3. ASSUME NEW v \in Workers, Busy(v)'
        PROVE  /\ worker'[v].tag \in Tags
               /\ worker'[v].tag <= attempts'[worker'[v].msg]
               /\ Token(v)' \notin queue'
               /\ worker'[v].pc \in {"read", "render", "send"} => Token(v)' \notin shown'
    <3>1. CASE v = w
      BY <1>0, <1>1, <1>2, <3>1
    <3>2. CASE v # w
      <4>1. Token(v) # Token(w)
        BY <1>0, <1>2, <2>3, <3>2 DEF Tokens
      <4> QED
        BY <1>0, <1>1, <1>2, <2>3, <3>2, <4>1 DEF Tokens
    <3> QED
      BY <3>1, <3>2
  <2>4. \A u, v \in Workers : (u # v /\ Busy(u)' /\ Busy(v)') => Token(u)' # Token(v)'
    BY <1>2 DEF Tokens
  <2> QED
    BY <2>1, <2>2, <2>3, <2>4 DEF Tokens
<1>6. Counted'
  <2>1. ShownTags(m)' = ShownTags(m) \cup {worker[w].tag} /\ worker[w].tag \notin ShownTags(m)
    BY <1>0 DEF ShownTags
  <2>2. \A x \in Messages \ {m} : ShownTags(x)' = ShownTags(x)
    BY <1>0 DEF ShownTags
  <2>3. /\ IsFiniteSet(ShownTags(m) \cup {worker[w].tag})
        /\ Cardinality(ShownTags(m) \cup {worker[w].tag}) = Cardinality(ShownTags(m)) + 1
    BY <2>1, FS_AddElement DEF Counted
  <2> QED
    BY <1>3, <2>1, <2>2, <2>3 DEF Counted
<1>7. Owned'
  <2> SUFFICES ASSUME NEW x \in Messages, status[x] = "pending"
               PROVE  \/ request[x] = "stored"
                      \/ Waiting(x)'
                      \/ \E v \in Workers :
                           worker'[v].msg = x /\ worker'[v].pc # "ack" /\ worker'[v].held
                      \/ x \in lost
    BY <1>0 DEF Owned
  <2>1. ASSUME NEW v \in Workers,
               worker[v].msg = x, worker[v].pc # "ack", worker[v].held
        PROVE  worker'[v].msg = x /\ worker'[v].pc # "ack" /\ worker'[v].held
    BY <1>1, <2>1
  <2> QED
    BY <1>0, <2>1 DEF Owned, Waiting
<1>8. Loaded'
  BY <1>0, <1>1 DEF Loaded
<1>9. SentShown'
  <2>1. \A x \in Messages : copies[x] > 0 => copies'[x] > 0
    BY <1>3 DEF TypeOK
  <2>2. copies'[m] > 0
    BY <1>3 DEF TypeOK
  <2>3. ASSUME NEW v \in Workers, worker'[v].pc = "sent"
        PROVE  copies'[worker'[v].msg] > 0
    <3>1. CASE v = w
      BY <1>1, <2>2, <3>1
    <3>2. CASE v # w
      BY <1>1, <2>1, <2>3, <3>2, BusyType DEF SentShown, Busy
    <3> QED
      BY <3>1, <3>2
  <2> QED
    BY <1>0, <2>1, <2>3 DEF SentShown
<1>10. SingleDelivery'
  <2>1. \A x \in Messages : Waiting(x)' <=> Waiting(x)
    BY <1>0 DEF Waiting
  <2> QED
    BY <1>0, <1>1, <2>1 DEF SingleDelivery
<1> QED
  BY <1>4, <1>5, <1>6, <1>7, <1>8, <1>9, <1>10

LEMMA RecordInd ==
    ASSUME IndInv, TypeOK', NEW w \in Workers, NEW s \in {"sent", "failed"}, Record(w, s),
           worker[w].pc = s
    PROVE  IndInv'
<1> USE DEF IndInv
<1>0a. Busy(w)
  BY DEF Busy
<1> PICK m \in Messages : m = worker[w].msg
  BY <1>0a, BusyType
<1>0. /\ status[m] # "none" /\ lost \subseteq lost'
      /\ s = "sent" => copies[m] > 0
      /\ status[m] = "pending" => worker[w].base = "pending"
      /\ UNCHANGED <<request, queue, attempts, copies, shown>>
  <2>1. attempts[m] > 0
    BY <1>0a DEF Tokens, Tags, TypeOK
  <2> QED
    BY <2>1 DEF Record, Stored, SentShown, Loaded
<1>1. /\ \A v \in Workers \ {w} : worker'[v] = worker[v]
      /\ worker'[w].pc = "ack"
      /\ worker'[w].msg = m
      /\ worker'[w].tag = worker[w].tag
      /\ worker'[w].held = worker[w].held
  BY GotoFrame DEF Record
<1>2. /\ \A x \in Messages \ {m} : status'[x] = status[x]
      /\ status'[m] \in {status[m], s}
      /\ status'[m] = "pending" => m \in lost'
  BY <1>0 DEF Record, TypeOK
<1>3. \A v \in Workers : (Busy(v)' <=> Busy(v)) /\ Token(v)' = Token(v)
  BY <1>0a, <1>1 DEF Busy, Token
<1>4. Stored'
  <2>1. \A v \in Workers : /\ worker'[v].msg = worker[v].msg
                           /\ worker'[v].held <=> worker[v].held
    BY <1>1
  <2>2. request[m] = "done"
    BY <1>0a DEF Stored, Tokens, Tags, TypeOK
  <2>3. \A v \in Workers : /\ Busy(v)' <=> worker'[v].msg # Nobody
                           /\ worker'[v].held => Busy(v)'
    BY <1>3, <2>1 DEF Stored
  <2>4. \A x \in Messages :
         /\ request'[x] = "new" => status'[x] = "none"
         /\ request'[x] = "stored" => status'[x] = "pending"
         /\ request'[x] # "done" => attempts'[x] = 0
         /\ attempts'[x] > 0 => status'[x] # "none"
    BY <1>0, <1>2, <2>2 DEF Stored
  <2> QED
    BY <2>3, <2>4 DEF Stored
<1>5. Tokens'
  <2>1. \A v \in Workers : Busy(v)' =>
         /\ worker'[v].tag \in Tags
         /\ worker'[v].tag <= attempts'[worker'[v].msg]
         /\ Token(v)' \notin queue'
         /\ worker'[v].pc \in {"read", "render", "send"} => Token(v)' \notin shown'
    BY <1>0, <1>1, <1>3 DEF Tokens
  <2>2. \A u, v \in Workers : (u # v /\ Busy(u)' /\ Busy(v)') => Token(u)' # Token(v)'
    BY <1>3 DEF Tokens
  <2> QED
    BY <1>0, <2>1, <2>2 DEF Tokens
<1>6. Counted'
  BY <1>0 DEF Counted, ShownTags
<1>7. Owned'
  <2> SUFFICES ASSUME NEW x \in Messages, x # m, status[x] = "pending"
               PROVE  \/ request[x] = "stored"
                      \/ Waiting(x)'
                      \/ \E v \in Workers :
                           worker'[v].msg = x /\ worker'[v].pc # "ack" /\ worker'[v].held
                      \/ x \in lost'
    BY <1>0, <1>2 DEF Owned
  <2>1. ASSUME NEW v \in Workers,
               worker[v].msg = x, worker[v].pc # "ack", worker[v].held
        PROVE  worker'[v].msg = x /\ worker'[v].pc # "ack" /\ worker'[v].held
    BY <1>1, <2>1
  <2> QED
    BY <1>0, <2>1 DEF Owned, Waiting
<1>8. Loaded'
  <2> SUFFICES ASSUME NEW v \in Workers, v # w,
                      worker[v].pc \in {"render", "send", "sent", "failed"},
                      status'[worker[v].msg] = "pending"
               PROVE  worker[v].base = "pending"
    BY <1>1 DEF Loaded
  <2>1. worker[v].msg \in Messages
    BY BusyType DEF Busy
  <2>2. status[worker[v].msg] = "pending"
    BY <1>2, <2>1
  <2> QED
    BY <2>2 DEF Loaded
<1>9. SentShown'
  BY <1>0, <1>1, <1>2 DEF SentShown
<1>10. SingleDelivery'
  <2>1. \A x \in Messages : Waiting(x)' <=> Waiting(x)
    BY <1>0 DEF Waiting
  <2> SUFFICES ASSUME NEW x \in Messages, status'[x] = "sent", attempts[x] = 1
               PROVE  /\ ~Waiting(x)
                      /\ \A v \in Workers : worker'[v].msg = x => worker'[v].pc = "ack"
    BY <1>0, <2>1 DEF SingleDelivery
  <2>2. CASE x # m
    BY <1>1, <1>2, <2>2 DEF SingleDelivery
  <2>3. CASE x = m
    <3>1. worker[w].tag = 1
      BY <1>0a, <2>3 DEF Tokens, Tags
    <3>2. ~Waiting(m)
      <4> SUFFICES ASSUME NEW t \in queue, t[1] = m
                   PROVE  FALSE
        BY DEF Waiting
      <4>1. t[2] = 1 /\ t = <<t[1], t[2]>>
        BY <2>3 DEF Tokens, TypeOK, Tags
      <4> QED
        BY <1>0a, <3>1, <4>1 DEF Tokens, Token
    <3>3. ASSUME NEW v \in Workers, v # w, worker[v].msg = m
          PROVE  FALSE
      <4>1. Busy(v)
        BY <3>3, DeliveryAssumption DEF Stored
      <4>2. worker[v].tag = 1
        BY <2>3, <3>3, <4>1 DEF Tokens, Tags
      <4> QED
        BY <1>0a, <3>1, <3>3, <4>1, <4>2 DEF Tokens, Token
    <3> QED
      BY <1>1, <2>3, <3>2, <3>3
  <2> QED
    BY <2>2, <2>3
<1> QED
  BY <1>4, <1>5, <1>6, <1>7, <1>8, <1>9, <1>10

\* A process lost after its task went to another one takes nothing with it.
LEMMA LoseIdleHold ==
    ASSUME IndInv, TypeOK', NEW w \in Workers, ProcessLost(w), ~worker[w].held
    PROVE  IndInv'
<1> USE DEF IndInv
<1>0. /\ \A v \in Workers \ {w} : worker'[v] = worker[v]
      /\ worker'[w].pc = "init" /\ worker'[w].msg = Nobody /\ ~worker'[w].held
      /\ UNCHANGED <<request, status, queue, attempts, copies, shown, lost>>
  BY DEF ProcessLost, Starting, TypeOK
<1>1. /\ ~Busy(w)'
      /\ \A v \in Workers \ {w} : (Busy(v)' <=> Busy(v)) /\ Token(v)' = Token(v)
  BY <1>0 DEF Busy, Token
<1>2. Stored'
  <2>1. \A v \in Workers : /\ Busy(v)' <=> worker'[v].msg # Nobody
                           /\ worker'[v].held => Busy(v)'
    BY <1>0, <1>1 DEF Stored
  <2> QED
    BY <1>0, <2>1 DEF Stored
<1>3. Tokens'
  BY <1>0, <1>1 DEF Tokens
<1>4. Counted'
  BY <1>0 DEF Counted, ShownTags
<1>5. Owned'
  <2> SUFFICES ASSUME NEW x \in Messages, status[x] = "pending"
               PROVE  \/ request[x] = "stored"
                      \/ Waiting(x)'
                      \/ \E v \in Workers :
                           worker'[v].msg = x /\ worker'[v].pc # "ack" /\ worker'[v].held
                      \/ x \in lost
    BY <1>0 DEF Owned
  <2>1. CASE \E v \in Workers : worker[v].msg = x /\ worker[v].pc # "ack" /\ worker[v].held
    BY <1>0, <2>1
  <2> QED
    BY <1>0, <2>1 DEF Owned, Waiting
<1>6. Loaded' /\ SentShown'
  BY <1>0 DEF Loaded, SentShown
<1>7. SingleDelivery'
  <2>1. \A x \in Messages : Waiting(x)' <=> Waiting(x)
    BY <1>0 DEF Waiting
  <2>2. \A x \in Messages : worker'[w].msg # x
    BY <1>0, DeliveryAssumption
  <2> QED
    BY <1>0, <2>1, <2>2 DEF SingleDelivery
<1> QED
  BY <1>2, <1>3, <1>4, <1>5, <1>6, <1>7

\* A process lost with its task gives it back to the broker.
LEMMA LoseHeldTask ==
    ASSUME IndInv, TypeOK', NEW w \in Workers, ProcessLost(w), worker[w].held
    PROVE  IndInv'
<1> USE DEF IndInv
<1> PICK m \in Messages : m = worker[w].msg
  BY BusyType DEF Stored
<1>0. /\ Busy(w) /\ attempts[m] > 0
      /\ Deliver(m)
      /\ UNCHANGED <<request, status, copies, shown, lost>>
  BY BusyType DEF ProcessLost, Stored, Tokens, Tags, TypeOK
<1>1. /\ \A v \in Workers \ {w} : worker'[v] = worker[v]
      /\ worker'[w].pc = "init" /\ worker'[w].msg = Nobody /\ ~worker'[w].held
  BY DEF ProcessLost, Starting, TypeOK
<1>2. /\ ~Busy(w)'
      /\ \A v \in Workers \ {w} : (Busy(v)' <=> Busy(v)) /\ Token(v)' = Token(v)
  BY <1>1 DEF Busy, Token
<1>3. /\ \A x \in Messages : attempts[x] \in Nat /\ attempts[x] <= attempts'[x]
      /\ \A x \in Messages \ {m} : attempts'[x] = attempts[x]
      /\ attempts'[m] > 1
      /\ queue' = queue \cup {<<m, attempts[m] + 1>>}
  BY <1>0, RedeliverFrame, DeliverType
<1>4. Stored'
  <2>1. \A x \in Messages : request[x] # "done" => attempts'[x] = 0
    BY <1>0, <1>3 DEF Stored
  <2>2. \A x \in Messages : attempts'[x] > 0 => status[x] # "none"
    BY <1>0, <1>3 DEF Stored
  <2>3. \A v \in Workers : /\ Busy(v)' <=> worker'[v].msg # Nobody
                           /\ worker'[v].held => Busy(v)'
    BY <1>1, <1>2 DEF Stored
  <2> QED
    BY <1>0, <2>1, <2>2, <2>3 DEF Stored
<1>5. Tokens'
  <2>1. /\ \A t \in queue' : t[2] <= attempts'[t[1]] /\ t \notin shown'
        /\ \A t \in shown' : t[2] <= attempts'[t[1]]
    BY <1>0, RedeliverFrame
  <2>2. \A v \in Workers : Busy(v)' =>
         /\ worker'[v].tag \in Tags
         /\ worker'[v].tag <= attempts'[worker'[v].msg]
         /\ Token(v)' \notin queue'
         /\ worker'[v].pc \in {"read", "render", "send"} => Token(v)' \notin shown'
    BY <1>0, <1>1, <1>2, RedeliverFrame DEF Tokens
  <2>3. \A u, v \in Workers : (u # v /\ Busy(u)' /\ Busy(v)') => Token(u)' # Token(v)'
    BY <1>2 DEF Tokens
  <2> QED
    BY <2>1, <2>2, <2>3 DEF Tokens
<1>6. Counted'
  BY <1>0 DEF Counted, ShownTags
<1>7. Waiting(m)' /\ \A x \in Messages : Waiting(x) => Waiting(x)'
  <2>1. <<m, attempts[m] + 1>> \in queue' /\ <<m, attempts[m] + 1>>[1] = m
    BY <1>3
  <2>2. Waiting(m)'
    BY <2>1, Zenon DEF Waiting
  <2>3. \A x \in Messages : Waiting(x) => Waiting(x)'
    BY <1>3 DEF Waiting
  <2> QED
    BY <2>2, <2>3
<1>8. Owned'
  <2> SUFFICES ASSUME NEW x \in Messages, x # m, status[x] = "pending"
               PROVE  \/ request[x] = "stored"
                      \/ Waiting(x)'
                      \/ \E v \in Workers :
                           worker'[v].msg = x /\ worker'[v].pc # "ack" /\ worker'[v].held
                      \/ x \in lost
    BY <1>0, <1>7 DEF Owned
  <2>1. CASE \E v \in Workers : worker[v].msg = x /\ worker[v].pc # "ack" /\ worker[v].held
    BY <1>1, <2>1
  <2> QED
    BY <1>7, <2>1 DEF Owned
<1>9. Loaded' /\ SentShown'
  BY <1>0, <1>1 DEF Loaded, SentShown
<1>10. SingleDelivery'
  <2>1. \A x \in Messages \ {m} : Waiting(x)' => Waiting(x)
    BY <1>3 DEF Waiting
  <2>2. \A x \in Messages : worker'[w].msg # x
    BY <1>1, DeliveryAssumption
  <2> QED
    BY <1>0, <1>1, <1>3, <2>1, <2>2 DEF SingleDelivery
<1> QED
  BY <1>4, <1>5, <1>6, <1>8, <1>9, <1>10
-----------------------------------------------------------------------------
(* The inductive invariant *)

LEMMA IndInit == Init => IndInv
<1> SUFFICES ASSUME Init PROVE IndInv
  OBVIOUS
<1> USE DEF Init
<1>1. TypeOK
  BY StartingType DEF TypeOK, Statuses
<1>2. \A w \in Workers : ~Busy(w) /\ worker[w].msg = Nobody /\ ~worker[w].held
  BY DEF Busy, Starting
<1>3. Stored
  BY <1>2 DEF Stored
<1>4. Tokens
  BY <1>2 DEF Tokens
<1>5. Counted
  <2>1. \A m \in Messages : ShownTags(m) = {}
    BY DEF ShownTags
  <2> QED
    BY <2>1, FS_EmptySet DEF Counted
<1>6. Owned
  BY DEF Owned
<1>7. Loaded /\ SentShown
  BY DEF Loaded, SentShown, Starting
<1>8. SingleDelivery
  BY DEF SingleDelivery
<1> QED
  BY <1>1, <1>3, <1>4, <1>5, <1>6, <1>7, <1>8 DEF IndInv

LEMMA IndStutter == IndInv /\ UNCHANGED vars => IndInv'
<1> SUFFICES ASSUME IndInv, UNCHANGED vars PROVE IndInv'
  OBVIOUS
<1> USE DEF vars, IndInv
<1>1. TypeOK' /\ Counted'
  BY DEF TypeOK, Counted, ShownTags
<1>2. Stored' /\ Tokens'
  BY DEF Stored, Tokens, Busy, Token
<1>3. Owned' /\ Loaded' /\ SentShown' /\ SingleDelivery'
  BY DEF Owned, Waiting, Loaded, SentShown, SingleDelivery
<1> QED
  BY <1>1, <1>2, <1>3

LEMMA IndStep == IndInv /\ [Next]_vars => IndInv'
<1> SUFFICES ASSUME IndInv, [Next]_vars PROVE IndInv'
  OBVIOUS
<1>0. TypeOK'
  BY TypeStep DEF IndInv
<1>1. ASSUME NEW m \in Messages, RequestStep(m)
      PROVE  IndInv'
  BY <1>0, <1>1, InsertInd, RefuseInd, SendTaskInd, TaskNotSentInd DEF RequestStep
<1>2. ASSUME NEW w \in Workers, Boot(w)
      PROVE  IndInv'
  <2>1. PICK c \in {"none", "noCard", "ready"} :
           worker' = [worker EXCEPT ![w].pc = "idle", ![w].client = c]
    BY <1>2 DEF Boot
  <2>2. /\ \A v \in Workers \ {w} : worker'[v] = worker[v]
        /\ worker'[w].pc = "idle" /\ worker'[w].msg = worker[w].msg
        /\ worker'[w].held = worker[w].held
    BY <2>1 DEF IndInv, TypeOK, WorkerStates
  <2>3. ~Busy(w) /\ ~Busy(w)'
    BY <1>2, <2>2 DEF Boot, Busy
  <2>4. worker'[w].msg = Nobody /\ ~worker'[w].held
    BY <2>2, <2>3 DEF IndInv, Stored
  <2> QED
    BY <1>0, <1>2, <2>2, <2>3, <2>4, IdleWorkerInd DEF Boot
<1>3. ASSUME NEW w \in Workers, Recycle(w)
      PROVE  IndInv'
  <2>1. /\ \A v \in Workers \ {w} : worker'[v] = worker[v]
        /\ worker'[w].pc = "init" /\ worker'[w].msg = Nobody /\ ~worker'[w].held
    BY <1>3 DEF Recycle, Starting, IndInv, TypeOK
  <2>2. ~Busy(w) /\ ~Busy(w)'
    BY <1>3, <2>1 DEF Recycle, Busy
  <2> QED
    BY <1>0, <1>3, <2>1, <2>2, IdleWorkerInd DEF Recycle
<1>4. ASSUME NEW w \in Workers, WorkerStep(w)
      PROVE  IndInv'
  <2>1. CASE RecordSent(w)
    BY <1>0, <2>1, RecordInd DEF RecordSent
  <2>2. CASE RecordFailed(w)
    BY <1>0, <2>2, RecordInd DEF RecordFailed
  <2> QED
    BY <1>0, <1>2, <1>4, <2>1, <2>2, ReadInd, RenderInd, ShowInd, SendFailsInd, AckInd
       DEF WorkerStep
<1>5. ASSUME NEW w \in Workers, Take(w) \/ ProcessLost(w) \/ VisibilityTimeout(w)
      PROVE  IndInv'
  BY <1>0, <1>5, TakeInd, LoseIdleHold, LoseHeldTask, VisibilityTimeoutInd
<1>6. CASE UNCHANGED vars
  BY <1>6, IndStutter
<1> QED
  BY <1>1, <1>3, <1>4, <1>5, <1>6 DEF Next

LEMMA Inductive == Spec => []IndInv
  BY IndInit, IndStep, PTL DEF Spec
-----------------------------------------------------------------------------
(* The theorems *)

\* Every variable keeps its type, whatever is lost or redelivered.
THEOREM TypeCorrect == Spec => []TypeOK
<1>1. IndInv => TypeOK
  BY DEF IndInv
<1> QED
  BY <1>1, Inductive, PTL

\* No row is left PENDING by create or by the task of send_message_to_group.py,
\* except by the losses the model names.
THEOREM PendingExplained == Spec => []PendingIsExplained
<1>1. IndInv => PendingIsExplained
  BY DEF IndInv, Owned, PendingIsExplained, Working
<1> QED
  BY <1>1, Inductive, PTL

\* The group gets at most one copy of a message per delivery of its task.
THEOREM CopiesAreBounded == Spec => []CopiesBounded
<1>1. IndInv => CopiesBounded
  <2> SUFFICES ASSUME IndInv, NEW m \in Messages
               PROVE  copies[m] <= attempts[m]
    BY DEF CopiesBounded
  <2>1. attempts[m] \in Nat
    BY DEF IndInv, TypeOK
  <2>2. ShownTags(m) \in SUBSET (1 .. attempts[m])
    BY <2>1 DEF IndInv, Tokens, ShownTags, Tags
  <2>3. IsFiniteSet(1 .. attempts[m]) /\ Cardinality(1 .. attempts[m]) = attempts[m]
    BY <2>1, FS_Interval
  <2>4. Cardinality(ShownTags(m)) <= attempts[m]
    BY <2>2, <2>3, FS_Subset
  <2> QED
    BY <2>4 DEF IndInv, Counted
<1> QED
  BY <1>1, Inductive, PTL

\* Only a recording step writes the status of a row that has one.
LEMMA StatusWriters ==
    ASSUME IndInv, [Next]_vars
    PROVE  \/ status' = status
           \/ \E m \in Messages : InsertMessage(m)
           \/ \E w \in Workers : RecordSent(w) \/ RecordFailed(w)
<1>1. ASSUME NEW m \in Messages, RequestStep(m)
      PROVE  status' = status \/ InsertMessage(m)
  BY <1>1 DEF RequestStep, Refuse, SendTask, TaskNotSent
<1>2. ASSUME NEW w \in Workers, WorkerStep(w)
      PROVE  status' = status \/ RecordSent(w) \/ RecordFailed(w)
  BY <1>2 DEF WorkerStep, Boot, Read, Render, Show, SendFails, Ack
<1>3. ASSUME NEW w \in Workers,
             Take(w) \/ Recycle(w) \/ ProcessLost(w) \/ VisibilityTimeout(w)
      PROVE  status' = status
  BY <1>3 DEF Take, Recycle, ProcessLost, VisibilityTimeout
<1>4. CASE UNCHANGED vars
  BY <1>4 DEF vars
<1> QED
  BY <1>1, <1>2, <1>3, <1>4 DEF Next

\* update_message overwrites SENT only after a second delivery of the task.
THEOREM DowngradesNeedRedelivery == Spec => DowngradeNeedsRedelivery
<1>1. IndInv /\ [Next]_vars =>
        [\A m \in Messages : (status[m] = "sent" /\ status'[m] # "sent") => attempts[m] > 1]_vars
  <2> SUFFICES ASSUME IndInv, [Next]_vars, NEW m \in Messages,
                      status[m] = "sent", status'[m] # "sent"
               PROVE  attempts[m] > 1
    OBVIOUS
  <2> USE DEF IndInv
  <2>0. status' # status
    OBVIOUS
  <2>1. ~\E x \in Messages : InsertMessage(x)
    <3> SUFFICES ASSUME NEW x \in Messages, InsertMessage(x)
                 PROVE  FALSE
      OBVIOUS
    <3>1. status[x] = "none" /\ status' = [status EXCEPT ![x] = "pending"]
      BY DEF InsertMessage, Stored
    <3> QED
      BY <3>1 DEF TypeOK
  <2>2. PICK w \in Workers : RecordSent(w) \/ RecordFailed(w)
    BY <2>0, <2>1, StatusWriters
  <2>3. worker[w].msg = m /\ worker[w].pc # "ack"
    <3>1. Busy(w) /\ worker[w].pc # "ack"
      BY <2>2 DEF RecordSent, RecordFailed, Busy
    <3>2. status'[m] # status[m]
      OBVIOUS
    <3>3. \A x \in Messages : x # worker[w].msg => status'[x] = status[x]
      BY <2>2, <3>1, BusyType DEF RecordSent, RecordFailed, Record, TypeOK
    <3> QED
      BY <3>1, <3>2, <3>3
  <2>4. attempts[m] > 0 /\ attempts[m] # 1
    <3>1. Busy(w)
      BY <2>2 DEF RecordSent, RecordFailed, Busy
    <3>2. attempts[m] > 0
      BY <2>3, <3>1 DEF Tokens, Tags, TypeOK
    <3> QED
      BY <2>3, <3>2 DEF SingleDelivery
  <2> QED
    BY <2>4 DEF TypeOK
<1> QED
  BY <1>1, Inductive, PTL DEF Spec, DowngradeNeedsRedelivery
-----------------------------------------------------------------------------
(* The contract of posting *)

LEMMA ContractInit == Init => Contract!Init
  BY DEF Init, Contract!Init

LEMMA CopiesWriters ==
    ASSUME IndInv, [Next]_vars
    PROVE  copies' = copies \/ \E w \in Workers : Show(w)
<1>1. ASSUME NEW m \in Messages, RequestStep(m)
      PROVE  copies' = copies
  BY <1>1 DEF RequestStep, InsertMessage, Refuse, SendTask, TaskNotSent
<1>2. ASSUME NEW w \in Workers, WorkerStep(w)
      PROVE  copies' = copies \/ Show(w)
  BY <1>2 DEF WorkerStep, Boot, Read, Render, SendFails, RecordSent, RecordFailed, Record, Ack
<1>3. ASSUME NEW w \in Workers,
             Take(w) \/ Recycle(w) \/ ProcessLost(w) \/ VisibilityTimeout(w)
      PROVE  copies' = copies
  BY <1>3 DEF Take, Recycle, ProcessLost, VisibilityTimeout
<1>4. CASE UNCHANGED vars
  BY <1>4 DEF vars
<1> QED
  BY <1>1, <1>2, <1>3, <1>4 DEF Next

LEMMA ContractStep == IndInv /\ [Next]_vars => [Contract!Next]_(Contract!vars)
<1> SUFFICES ASSUME IndInv, [Next]_vars
             PROVE  [Contract!Next]_(Contract!vars)
  OBVIOUS
<1> USE DEF IndInv
<1>1. ASSUME NEW m \in Messages, InsertMessage(m)
      PROVE  Contract!Store(m)
  <2>1. status[m] = "none" /\ status' = [status EXCEPT ![m] = "pending"] /\ copies' = copies
    BY <1>1 DEF InsertMessage, Stored
  <2> QED
    BY <2>1 DEF Contract!Store, TypeOK
<1>2. ASSUME NEW w \in Workers, Show(w)
      PROVE  \E m \in Messages : Contract!Show(m)
  <2>1. PICK m \in Messages : m = worker[w].msg
    BY <1>2, BusyType DEF Show, Busy
  <2>2. status[m] # "none"
    <3>1. attempts[m] > 0
      BY <1>2, <2>1 DEF Show, Busy, Tokens, Tags, TypeOK
    <3> QED
      BY <3>1 DEF Stored
  <2>3. status' = status /\ copies' = [copies EXCEPT ![m] = @ + 1]
    BY <1>2, <2>1 DEF Show
  <2>4. \A x \in Messages : copies'[x] > 0 <=> (copies[x] > 0 \/ x = m)
    BY <2>3 DEF TypeOK
  <2> QED
    BY <2>2, <2>3, <2>4 DEF Contract!Show
<1>3. ASSUME NEW w \in Workers, RecordSent(w) \/ RecordFailed(w), status' # status
      PROVE  (\E m \in Messages : Contract!Say(m)) \/ UNCHANGED Contract!vars
  <2>1. PICK m \in Messages : m = worker[w].msg
    BY <1>3, BusyType DEF RecordSent, RecordFailed, Busy
  <2>2. copies' = copies /\ status[m] # "none"
    <3>1. attempts[m] > 0
      BY <1>3, <2>1 DEF RecordSent, RecordFailed, Busy, Tokens, Tags, TypeOK
    <3> QED
      BY <1>3, <3>1 DEF RecordSent, RecordFailed, Record, Stored
  <2>3. PICK s \in {"sent", "failed"} :
           worker[w].pc = s /\ status' = [status EXCEPT ![m] = s] /\ status[m] # s
    BY <1>3, <2>1 DEF RecordSent, RecordFailed, Record, TypeOK
  <2>4. CASE s = "sent"
    <3>1. copies[m] > 0
      BY <2>1, <2>3, <2>4 DEF SentShown
    <3> QED
      BY <2>2, <2>3, <2>4, <3>1 DEF Contract!Say, TypeOK
  <2>5. CASE s = "failed" /\ status[m] = "sent"
    <3>1. copies[m] > 0
      BY <2>5 DEF SentShown
    <3> QED
      BY <2>2, <2>3, <2>5, <3>1 DEF Contract!Say, TypeOK
  <2>6. CASE s = "failed" /\ status[m] # "sent"
    BY <2>2, <2>3, <2>6 DEF Contract!vars, TypeOK
  <2> QED
    BY <2>3, <2>4, <2>5, <2>6
<1>4. CASE status' = status /\ copies' = copies
  BY <1>4 DEF Contract!vars
<1> QED
  BY <1>1, <1>2, <1>3, <1>4, StatusWriters, CopiesWriters DEF Contract!Next

\* Posting implements its contract: a message is stored before it is shown,
\* shown before it is said to be SENT, and never unstored or unshown.
THEOREM ImplementsContract == Spec => KeepsContract
  BY ContractInit, ContractStep, Inductive, PTL DEF Spec, KeepsContract, Contract!Spec
-----------------------------------------------------------------------------
(* The workers are the processes of WorkerLifecycle: both rely on, and keep, *)
(* what ProcessContract says of a process.                                   *)

Known(p) == IF p.pc = "init" THEN "starting" ELSE p.client

Outcomes == [w \in Workers |-> Known(worker[w])]

Process == INSTANCE ProcessContract
    WITH Outcomes <- {"none", "noCard", "ready"}, outcome <- Outcomes

KeepsProcess == Process!Spec

\* A worker goes over to the state p, and its set-up with it: it is set up once,
\* kept while the process serves, and gone with the process.
Becomes(w, p) ==
    /\ worker' = [worker EXCEPT ![w] = p]
    /\ \/ p.pc = "init"
       \/ worker[w].pc = "init" /\ p.pc # "init"
       \/ worker[w].pc # "init" /\ p.pc # "init" /\ p.client = worker[w].client

\* Every step is one of these.
LEMMA WorkerBecomes ==
    ASSUME IndInv, [Next]_vars
    PROVE  UNCHANGED worker \/ \E w \in Workers : \E p \in WorkerStates : Becomes(w, p)
<1> USE DEF IndInv
<1>0. \A w \in Workers : worker[w] \in WorkerStates
  BY DEF TypeOK
<1>1. ASSUME NEW m \in Messages, RequestStep(m)
      PROVE  UNCHANGED worker
  BY <1>1 DEF RequestStep, InsertMessage, Refuse, SendTask, TaskNotSent
<1>2. ASSUME NEW w \in Workers,
             NEW s \in {"render", "send", "sent", "failed", "ack"},
             Goto(w, s), worker[w].pc # "init"
      PROVE  \E p \in WorkerStates : Becomes(w, p)
  <2>1. [worker[w] EXCEPT !.pc = s] \in WorkerStates
    BY <1>0 DEF WorkerStates
  <2> QED
    BY <1>0, <1>2, <2>1 DEF Becomes, Goto, WorkerStates
<1>3. ASSUME NEW w \in Workers, Boot(w)
      PROVE  \E p \in WorkerStates : Becomes(w, p)
  <2>1. PICK c \in {"none", "noCard", "ready"} :
            worker' = [worker EXCEPT ![w].pc = "idle", ![w].client = c]
    BY <1>3 DEF Boot
  <2>2. [worker[w] EXCEPT !.pc = "idle", !.client = c] \in WorkerStates
    BY <1>0 DEF WorkerStates
  <2>3. worker' = [worker EXCEPT ![w] = [worker[w] EXCEPT !.pc = "idle", !.client = c]]
    BY <2>1 DEF TypeOK
  <2> QED
    BY <1>0, <1>3, <2>2, <2>3 DEF Becomes, Boot, WorkerStates
<1>4. ASSUME NEW w \in Workers, Recycle(w) \/ ProcessLost(w)
      PROVE  \E p \in WorkerStates : Becomes(w, p)
  <2>1. worker' = [worker EXCEPT ![w] = Starting] /\ Starting.pc = "init"
    BY <1>4 DEF Recycle, ProcessLost, Starting
  <2> QED
    BY <2>1, StartingType DEF Becomes
<1>5. ASSUME NEW w \in Workers, Read(w)
      PROVE  \E p \in WorkerStates : Becomes(w, p)
  <2>1. CASE Goto(w, "ack")
    BY <1>2, <1>5, <2>1 DEF Read
  <2>2. CASE worker' = [worker EXCEPT ![w].pc = "render",
                                      ![w].base = status[worker[w].msg]]
             /\ status[worker[w].msg] # "none"
    <3>1. worker[w].msg \in Messages /\ worker[w].pc = "read"
      BY <1>5, BusyType DEF Read, Busy
    <3>2. [worker[w] EXCEPT !.pc = "render", !.base = status[worker[w].msg]] \in WorkerStates
      BY <1>0, <3>1 DEF WorkerStates, TypeOK
    <3>3. worker' = [worker EXCEPT ![w] = [worker[w] EXCEPT !.pc = "render",
                                                !.base = status[worker[w].msg]]]
      BY <2>2 DEF TypeOK
    <3> QED
      BY <1>0, <3>1, <3>2, <3>3 DEF Becomes, WorkerStates
  <2> QED
    BY <1>5, <2>1, <2>2 DEF Read
<1>6. ASSUME NEW w \in Workers,
             Render(w) \/ Show(w) \/ SendFails(w) \/ RecordSent(w) \/ RecordFailed(w)
      PROVE  \E p \in WorkerStates : Becomes(w, p)
  BY <1>2, <1>6 DEF Render, Show, SendFails, RecordSent, RecordFailed, Record
<1>7. ASSUME NEW w \in Workers, Ack(w)
      PROVE  \E p \in WorkerStates : Becomes(w, p)
  <2>1. [Starting EXCEPT !.pc = "idle", !.client = worker[w].client] \in WorkerStates
    BY <1>0, StartingType DEF WorkerStates
  <2> QED
    BY <1>7, <2>1 DEF Becomes, Ack, Starting
<1>8. ASSUME NEW w \in Workers, Take(w)
      PROVE  \E p \in WorkerStates : Becomes(w, p)
  <2>1. PICK t \in queue : worker' = [worker EXCEPT ![w].pc = "read", ![w].msg = t[1],
                                                    ![w].tag = t[2], ![w].held = TRUE]
    BY <1>8 DEF Take
  <2>2. [worker[w] EXCEPT !.pc = "read", !.msg = t[1], !.tag = t[2], !.held = TRUE]
            \in WorkerStates
    BY <1>0 DEF WorkerStates, TypeOK, Tags
  <2>3. worker' = [worker EXCEPT ![w] = [worker[w] EXCEPT !.pc = "read", !.msg = t[1],
                                              !.tag = t[2], !.held = TRUE]]
    BY <2>1 DEF TypeOK
  <2>4. worker[w].pc # "init"
    BY <1>8 DEF Take
  <2> QED
    BY <1>0, <2>2, <2>3, <2>4 DEF Becomes, WorkerStates
<1>9. ASSUME NEW w \in Workers, VisibilityTimeout(w)
      PROVE  \E p \in WorkerStates : Becomes(w, p)
  <2>1. [worker[w] EXCEPT !.held = FALSE] \in WorkerStates
    BY <1>0 DEF WorkerStates
  <2>2. worker[w].pc # "init"
    BY <1>9 DEF VisibilityTimeout, Stored, Busy
  <2> QED
    BY <1>0, <1>9, <2>1, <2>2 DEF Becomes, VisibilityTimeout, WorkerStates
<1>10. CASE UNCHANGED vars
  BY <1>10 DEF vars
<1> QED
  BY <1>1, <1>3, <1>4, <1>5, <1>6, <1>7, <1>8, <1>9, <1>10 DEF Next, WorkerStep

LEMMA ProcessStep == IndInv /\ [Next]_vars => [Process!Next]_Outcomes
<1> SUFFICES ASSUME IndInv, [Next]_vars, Outcomes' # Outcomes
             PROVE  Process!Next
  OBVIOUS
<1>1. worker' # worker
  BY DEF Outcomes
<1>2. PICK w \in Workers, p \in WorkerStates : Becomes(w, p)
  BY <1>1, WorkerBecomes
<1>3. Outcomes' = [Outcomes EXCEPT ![w] = Known(p)]
  BY <1>2 DEF Becomes, Outcomes, IndInv, TypeOK
<1>4. CASE p.pc = "init"
  BY <1>3, <1>4 DEF Process!Next, Process!Replace, Known
<1>5. CASE worker[w].pc = "init" /\ p.pc # "init"
  <2>1. Outcomes[w] = "starting" /\ Known(p) \in {"none", "noCard", "ready"}
    BY <1>5 DEF Outcomes, Known, WorkerStates
  <2> QED
    BY <1>3, <2>1 DEF Process!Next, Process!Boot
<1>6. CASE worker[w].pc # "init" /\ p.pc # "init" /\ p.client = worker[w].client
  <2>1. Outcomes' = Outcomes
    BY <1>3, <1>6 DEF Outcomes, Known
  <2> QED
    BY <2>1
<1> QED
  BY <1>2, <1>4, <1>5, <1>6 DEF Becomes

\* The tasks of a process find what it set up when it started, the whole time it
\* serves: the workers of the delivery implement the contract that the life of a
\* process (WorkerLifecycle) keeps.
THEOREM ImplementsProcess == Spec => KeepsProcess
<1>1. Init => Process!Init
  BY DEF Init, Process!Init, Outcomes, Known, Starting
<1> QED
  BY <1>1, ProcessStep, Inductive, PTL DEF Spec, KeepsProcess, Process!Spec
=============================================================================
