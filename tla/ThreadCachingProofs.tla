------------------------- MODULE ThreadCachingProofs -------------------------
(***************************************************************************)
(* Theorems about ThreadCaching, for every set of processes, every choice  *)
(* of operations and every number of commits.                              *)
(***************************************************************************)
EXTENDS ThreadCaching, TLAPS

\* What the entries cannot hold and the operations cannot owe.
\* Before the thread exists only lists are copied, and only lists are filled.
OnlyListsBeforeCreation ==
    row.rev = 0 =>
        /\ \A k \in Keys \ {"list"} : cache[k] = NoCopy
        /\ \A p \in Processes : proc[p].pc = "fill" => proc[p].op = "list"

\* Only an operation between its commit and its last deletion owes deletions.
OwesAfterCommit ==
    \A p \in Processes :
        proc[p].todo # {} =>
            \/ proc[p].pc \in {"reply", "invalidate"}
            \/ proc[p].pc \in {"select", "fill"} /\ proc[p].op = "create" /\ row.rev > 0

IndInv == TypeOK /\ OnlyListsBeforeCreation /\ OwesAfterCommit /\ StaleCopyIsExplained
-----------------------------------------------------------------------------
(* Lemmas about the operators *)

LEMMA KeyOfType == \A op \in Ops : KeyOf(op) \in Keys
  BY DEF KeyOf, Keys, Ops, AllRequestOps, AllHandlerOps

LEMMA KeyOfList == KeyOf("list") = "list"
  BY DEF KeyOf

LEMMA InvalidatesType == \A op \in Ops : Invalidates(op) \subseteq Keys
  BY DEF Invalidates, Keys

LEMMA InvalidatesCovers ==
    \A op \in Ops, k \in Keys :
        (k \notin Invalidates(op)) => op = "create" \/ (op = "sync" /\ k = "raw")
  BY DEF Invalidates, Keys, Ops

LEMMA NoRowType == NoRow \in Rows
  BY DEF NoRow, Rows

LEMMA IdleType == Idle \in Locals
  BY NoRowType DEF Idle, Locals, Ops, AllRequestOps, Steps

LEMMA OpsType == RequestOps \subseteq Ops /\ HandlerOps \subseteq Ops
  BY ConstantsAssumption DEF Ops

LEMMA UpdatedType ==
    ASSUME row \in Rows, NEW op, NEW base \in Rows
    PROVE  Updated(op, base) \in Rows
<1> DEFINE lock == IF op \in {"lock", "unlock"} /\ base.locked # (op = "lock")
                     THEN op = "lock"
                     ELSE row.locked
           content == IF op = "sync" THEN row.content ELSE row.rev + 1
<1>1. lock \in BOOLEAN
  <2>1. row.locked \in BOOLEAN /\ (op = "lock") \in BOOLEAN
    BY DEF Rows
  <2> QED
    BY <2>1, Zenon
<1>2. row.rev + 1 \in Nat /\ content \in Nat
  BY DEF Rows
<1>3. Updated(op, base) = [rev |-> row.rev + 1, content |-> content, locked |-> lock]
  BY Zenon DEF Updated
<1> HIDE DEF lock, content
<1> QED
  BY <1>1, <1>2, <1>3 DEF Rows

\* A lost deletion keeps the entry and its copy.
LEMMA MissedType ==
    ASSUME TypeOK, NEW keys
    PROVE  Missed(keys) \in [Keys -> Entries \cup {NoCopy}]
<1> SUFFICES ASSUME NEW k \in Keys
             PROVE Missed(keys)[k] \in Entries \cup {NoCopy}
  BY DEF Missed
<1>1. CASE Missed(keys)[k] = cache[k]
  BY <1>1 DEF TypeOK
<1>2. CASE Missed(keys)[k] = [cache[k] EXCEPT !.missed = TRUE] /\ cache[k] # NoCopy
  <2>1. cache[k] \in Entries
    BY <1>2 DEF TypeOK
  <2> QED
    BY <1>2, <2>1 DEF Entries
<1> QED
  BY <1>1, <1>2 DEF Missed

LEMMA MissedKeepsCopies ==
    ASSUME TypeOK, NEW keys, NEW k \in Keys
    PROVE  /\ (Missed(keys)[k] = NoCopy) <=> (cache[k] = NoCopy)
           /\ cache[k] # NoCopy =>
                /\ Missed(keys)[k].copy = cache[k].copy
                /\ Missed(keys)[k].late = cache[k].late
                /\ cache[k].missed => Missed(keys)[k].missed
                /\ (k \in keys /\ Outdated(k, cache[k].copy)) => Missed(keys)[k].missed
<1>1. CASE cache[k] = NoCopy
  BY <1>1 DEF Missed
<1>2. CASE cache[k] # NoCopy
  <2>1. cache[k] \in Entries
    BY <1>2 DEF TypeOK
  <2>2. [cache[k] EXCEPT !.missed = TRUE] \in Entries
    BY <2>1 DEF Entries
  <2>3. [cache[k] EXCEPT !.missed = TRUE] # NoCopy
    BY <2>2, ConstantsAssumption
  <2>4. /\ [cache[k] EXCEPT !.missed = TRUE].copy = cache[k].copy
        /\ [cache[k] EXCEPT !.missed = TRUE].late = cache[k].late
        /\ [cache[k] EXCEPT !.missed = TRUE].missed
    BY <2>1 DEF Entries
  <2>5. CASE k \in keys /\ Outdated(k, cache[k].copy)
    <3>1. Missed(keys)[k] = [cache[k] EXCEPT !.missed = TRUE]
      BY <1>2, <2>5 DEF Missed
    <3> QED
      BY <1>2, <3>1, <2>3, <2>4
  <2>6. CASE ~(k \in keys /\ Outdated(k, cache[k].copy))
    <3>1. Missed(keys)[k] = cache[k]
      BY <2>6 DEF Missed
    <3> QED
      BY <1>2, <3>1, <2>6
  <2> QED
    BY <2>5, <2>6
<1> QED
  BY <1>1, <1>2
-----------------------------------------------------------------------------
(* The type invariant *)

LEMMA CarryType ==
    ASSUME TypeOK, NEW p \in Processes, NEW step \in Steps, NEW r \in Rows, Carry(p, step, r)
    PROVE  proc' \in [Processes -> Locals]
  BY DEF Carry, TypeOK, Locals

LEMMA GotoType ==
    ASSUME TypeOK, NEW p \in Processes, NEW step \in Steps, Goto(p, step)
    PROVE  proc' \in [Processes -> Locals]
  BY CarryType, NoRowType DEF Goto

LEMMA FinishType ==
    ASSUME TypeOK, NEW p \in Processes, Finish(p)
    PROVE  proc' \in [Processes -> Locals]
  BY IdleType DEF Finish, TypeOK

LEMMA StartType ==
    ASSUME TypeOK, NEW p \in Processes, NEW op \in Ops, Start(p, op)
    PROVE  TypeOK'
<1> DEFINE first == CASE op = "bySlug" -> "select"
                      [] op = "create" -> "update"
                      [] op = "sync" -> "load"
                      [] OTHER -> "get"
<1>1. first \in Steps
  BY DEF Steps
<1>2. [Idle EXCEPT !.op = op, !.pc = first] \in Locals
  BY <1>1, IdleType DEF TypeOK, Locals
<1>3. proc' = [proc EXCEPT ![p] = [Idle EXCEPT !.op = op, !.pc = first]]
  BY DEF Start
<1>4. proc' \in [Processes -> Locals]
  BY <1>2, <1>3 DEF TypeOK
<1> QED
  BY <1>4 DEF Start, TypeOK

LEMMA StepType ==
    ASSUME TypeOK, NEW p \in Processes, Step(p)
    PROVE  TypeOK'
<1> USE NoRowType
<1>0. proc[p] \in Locals /\ proc[p].copy \in Rows /\ KeyOf(proc[p].op) \in Keys
  BY KeyOfType DEF TypeOK, Locals
<1>1. CASE CacheHit(p)
  <2>1. cache[KeyOf(proc[p].op)] \in Entries
    BY <1>0, <1>1 DEF CacheHit, TypeOK
  <2>2. cache[KeyOf(proc[p].op)].copy \in Rows
    BY <2>1 DEF Entries
  <2>3. proc' \in [Processes -> Locals]
    BY <1>1, <2>2, CarryType DEF CacheHit, Steps
  <2> QED
    BY <1>1, <2>3 DEF CacheHit, TypeOK
<1>2. CASE CacheMiss(p)
  <2>1. proc' \in [Processes -> Locals]
    BY <1>2, GotoType DEF CacheMiss, Steps
  <2> QED
    BY <1>2, <2>1 DEF CacheMiss, TypeOK
<1>3. CASE Select(p)
  <2>1. proc' \in [Processes -> Locals]
    BY <1>3, CarryType, FinishType DEF Select, Steps, TypeOK
  <2> QED
    BY <1>3, <2>1 DEF Select, TypeOK
<1>4. CASE Fill(p)
  <2> DEFINE k == KeyOf(proc[p].op)
             r == proc[p].copy
             e == [copy |-> r, late |-> Outdated(k, r), missed |-> FALSE]
  <2>1. Outdated(k, r) \in BOOLEAN
    BY DEF Outdated
  <2>2. e \in Entries
    BY <1>0, <2>1 DEF Entries
  <2>3. cache' \in [Keys -> Entries \cup {NoCopy}]
    <3>1. cache' = [cache EXCEPT ![k] = e] \/ cache' = cache
      BY <1>4 DEF Fill
    <3> HIDE DEF e, k
    <3> QED
      BY <2>2, <3>1 DEF TypeOK
  <2>4. proc' \in [Processes -> Locals]
    BY <1>0, <1>4, CarryType, GotoType DEF Fill, Steps
  <2> QED
    BY <1>4, <2>3, <2>4 DEF Fill, TypeOK
<1>5. CASE Decide(p)
  <2>1. proc' \in [Processes -> Locals]
    <3>1. Goto(p, "insert") \/ Goto(p, "load") \/ Finish(p)
      BY <1>5 DEF Decide
    <3> QED
      BY <3>1, GotoType, FinishType DEF Steps
  <2> QED
    BY <1>5, <2>1 DEF Decide, TypeOK
<1>6. CASE InsertMessage(p)
  BY <1>6, FinishType DEF InsertMessage, TypeOK
<1>7. CASE Load(p)
  <2>1. proc' \in [Processes -> Locals]
    BY <1>7, CarryType DEF Load, Steps, TypeOK
  <2> QED
    BY <1>7, <2>1 DEF Load, TypeOK
<1>8. CASE CommitUpdate(p)
  <2> DEFINE step == CASE proc[p].op = "create" -> "select"
                       [] proc[p].op = "sync" -> "reply"
                       [] OTHER -> "invalidate"
  <2>1. step \in Steps
    BY DEF Steps
  <2>2. Invalidates(proc[p].op) \in SUBSET Keys
    BY <1>0, InvalidatesType DEF Locals
  <2>3. proc' = [proc EXCEPT ![p].pc = step, ![p].copy = NoRow,
                             ![p].todo = Invalidates(proc[p].op)]
    BY <1>8 DEF CommitUpdate
  <2>4. proc' \in [Processes -> Locals]
    <3> HIDE DEF step
    <3> QED
      BY <2>1, <2>2, <2>3 DEF TypeOK, Locals
  <2>5. row' \in Rows
    BY <1>0, <1>8, UpdatedType DEF CommitUpdate, TypeOK
  <2> QED
    BY <1>8, <2>4, <2>5 DEF CommitUpdate, TypeOK, Rows
<1>9. CASE UpdateFails(p)
  BY <1>9, FinishType DEF UpdateFails, TypeOK
<1>10. CASE Reply(p)
  <2>1. proc' \in [Processes -> Locals]
    BY <1>10, GotoType, FinishType DEF Reply, Steps
  <2>2. cache' \in [Keys -> Entries \cup {NoCopy}]
    BY <1>10, MissedType DEF Reply, TypeOK
  <2> QED
    BY <1>10, <2>1, <2>2 DEF Reply, TypeOK
<1>11. ASSUME NEW k \in Keys, Invalidate(p, k)
       PROVE  TypeOK'
  <2>1. proc' \in [Processes -> Locals]
    BY <1>11 DEF Invalidate, TypeOK, Locals
  <2>2. cache' \in [Keys -> Entries \cup {NoCopy}]
    BY <1>11, MissedType DEF Invalidate, TypeOK
  <2> QED
    BY <1>11, <2>1, <2>2 DEF Invalidate, TypeOK
<1>12. CASE Invalidated(p)
  <2>1. proc' \in [Processes -> Locals]
    BY <1>12, GotoType DEF Invalidated, Steps
  <2> QED
    BY <1>12, <2>1 DEF Invalidated, TypeOK
<1>13. CASE Confirm(p)
  <2>1. proc' \in [Processes -> Locals]
    BY <1>13, FinishType DEF Confirm
  <2> QED
    BY <1>13, <2>1 DEF Confirm, TypeOK
<1> QED
  BY <1>1, <1>2, <1>3, <1>4, <1>5, <1>6, <1>7, <1>8, <1>9, <1>10, <1>11, <1>12, <1>13
  DEF Step

\* The step of the specification: which process or entry moves.
LEMMA NextCases ==
    ASSUME Next
    PROVE  \/ \E p \in Processes, op \in Ops : Start(p, op)
           \/ \E p \in Processes : Step(p)
           \/ \E p \in Processes : Stop(p)
           \/ \E k \in Keys : Expire(k)
  BY OpsType DEF Next, Processes

LEMMA TypeStep == TypeOK /\ [Next]_vars => TypeOK'
<1> SUFFICES ASSUME TypeOK, [Next]_vars
             PROVE  TypeOK'
  OBVIOUS
<1>1. ASSUME NEW p \in Processes, NEW op \in Ops, Start(p, op)
      PROVE  TypeOK'
  BY <1>1, StartType
<1>2. ASSUME NEW p \in Processes, Step(p)
      PROVE  TypeOK'
  BY <1>2, StepType
<1>3. ASSUME NEW p \in Processes, Stop(p)
      PROVE  TypeOK'
  BY <1>3, FinishType, MissedType DEF Stop, TypeOK
<1>4. ASSUME NEW k \in Keys, Expire(k)
      PROVE  TypeOK'
  BY <1>4 DEF Expire, TypeOK
<1>5. CASE UNCHANGED vars
  BY <1>5 DEF vars, TypeOK
<1> QED
  BY <1>1, <1>2, <1>3, <1>4, <1>5, NextCases

LEMMA TypeInit == Init => TypeOK
  BY NoRowType, IdleType DEF Init, TypeOK

\* Type correctness, for any number of requests, handlers and commits.
THEOREM TypeCorrect == Spec => []TypeOK
  BY TypeInit, TypeStep, PTL DEF Spec
-----------------------------------------------------------------------------
(* Explained staleness: the inductive invariant *)

LEMMA CarryKeeps ==
    ASSUME TypeOK, NEW p \in Processes, NEW step, NEW r, Carry(p, step, r)
    PROVE  /\ \A q \in Processes : /\ proc'[q].todo = proc[q].todo
                                   /\ proc'[q].op = proc[q].op
                                   /\ q # p => proc'[q] = proc[q]
           /\ proc'[p].pc = step
           /\ proc'[p].copy = r
  BY DEF Carry, TypeOK, Locals

LEMMA FinishKeeps ==
    ASSUME TypeOK, NEW p \in Processes, Finish(p)
    PROVE  /\ \A q \in Processes \ {p} : proc'[q] = proc[q]
           /\ proc'[p] = Idle
  BY DEF Finish, TypeOK

\* A step that moves neither the row nor an entry and forgets no deletion.
LEMMA QuietStep ==
    ASSUME StaleCopyIsExplained, row' = row, cache' = cache,
           \A q \in Processes : proc[q].todo \subseteq proc'[q].todo
    PROVE  StaleCopyIsExplained'
<1> SUFFICES ASSUME NEW k \in Keys, (cache[k] # NoCopy)', Outdated(k, cache[k].copy)'
             PROVE  \/ cache'[k].late
                    \/ cache'[k].missed
                    \/ \E p \in Processes : k \in proc'[p].todo
  BY DEF StaleCopyIsExplained
<1>1. cache[k] # NoCopy /\ Outdated(k, cache[k].copy)
  BY DEF Outdated, Version
<1>2. cache[k].late \/ cache[k].missed \/ \E p \in Processes : k \in proc[p].todo
  BY <1>1 DEF StaleCopyIsExplained
<1> QED
  BY <1>2

\* A step that loses some deletions and says so.
LEMMA LostDeletions ==
    ASSUME TypeOK, StaleCopyIsExplained, row' = row,
           NEW keys, cache' = Missed(keys),
           \A q \in Processes : proc[q].todo \ keys \subseteq proc'[q].todo
    PROVE  StaleCopyIsExplained'
<1> SUFFICES ASSUME NEW k \in Keys, (cache[k] # NoCopy)', Outdated(k, cache[k].copy)'
             PROVE  \/ cache'[k].late
                    \/ cache'[k].missed
                    \/ \E p \in Processes : k \in proc'[p].todo
  BY DEF StaleCopyIsExplained
<1>1. cache[k] # NoCopy /\ cache'[k].copy = cache[k].copy /\ Outdated(k, cache[k].copy)
  BY MissedKeepsCopies DEF Outdated, Version
<1>2. CASE k \in keys
  BY <1>1, <1>2, MissedKeepsCopies
<1>3. CASE k \notin keys
  BY <1>1, <1>3, MissedKeepsCopies DEF StaleCopyIsExplained
<1> QED
  BY <1>2, <1>3

LEMMA IndInit == Init => IndInv
<1> SUFFICES ASSUME Init PROVE IndInv
  OBVIOUS
<1>1. \A p \in Processes : proc[p].todo = {} /\ proc[p].pc = "idle"
  BY DEF Init, Idle
<1>2. \A k \in Keys : cache[k] = NoCopy
  BY DEF Init
<1> QED
  BY <1>1, <1>2, TypeInit DEF IndInv, OnlyListsBeforeCreation, OwesAfterCommit, StaleCopyIsExplained

LEMMA StartInd ==
    ASSUME IndInv, TypeOK', NEW p \in Processes, NEW op \in Ops, Start(p, op)
    PROVE  IndInv'
<1>1. proc'[p].pc # "fill" /\ proc'[p].todo = {}
  BY DEF Start, IndInv, TypeOK, Idle
<1>2. \A q \in Processes \ {p} : proc'[q] = proc[q]
  BY DEF Start, IndInv, TypeOK
<1>3. proc[p].todo = {}
  BY DEF Start, IndInv, OwesAfterCommit
<1>4. row' = row /\ cache' = cache
  BY DEF Start
<1>5. StaleCopyIsExplained'
  BY <1>2, <1>3, <1>4, QuietStep DEF IndInv
<1> QED
  BY <1>1, <1>2, <1>4, <1>5 DEF IndInv, OnlyListsBeforeCreation, OwesAfterCommit

\* An operation that owes nothing ends.
LEMMA FinishInd ==
    ASSUME IndInv, TypeOK', NEW p \in Processes, Finish(p), proc[p].todo = {},
           row' = row, cache' = cache
    PROVE  IndInv'
<1>1. proc'[p].pc # "fill" /\ proc'[p].todo = {}
  BY FinishKeeps DEF Idle, IndInv
<1>2. \A q \in Processes \ {p} : proc'[q] = proc[q]
  BY FinishKeeps DEF IndInv
<1>3. StaleCopyIsExplained'
  BY <1>2, QuietStep DEF IndInv
<1> QED
  BY <1>1, <1>2, <1>3 DEF IndInv, OnlyListsBeforeCreation, OwesAfterCommit

\* An operation goes on, to a step other than filling an entry.
LEMMA CarryInd ==
    ASSUME IndInv, TypeOK', NEW p \in Processes, NEW step, NEW r, Carry(p, step, r),
           row' = row, cache' = cache, step # "fill",
           proc[p].todo = {} \/ step \in {"reply", "invalidate"}
    PROVE  IndInv'
<1>1. /\ \A q \in Processes : proc'[q].todo = proc[q].todo /\ proc'[q].op = proc[q].op
      /\ \A q \in Processes \ {p} : proc'[q] = proc[q]
      /\ proc'[p].pc = step
  BY CarryKeeps DEF IndInv
<1>2. StaleCopyIsExplained'
  BY <1>1, QuietStep DEF IndInv
<1> QED
  BY <1>1, <1>2 DEF IndInv, OnlyListsBeforeCreation, OwesAfterCommit

LEMMA FillInd ==
    ASSUME IndInv, TypeOK', NEW p \in Processes, Fill(p)
    PROVE  IndInv'
<1> DEFINE k == KeyOf(proc[p].op)
           r == proc[p].copy
           e == [copy |-> r, late |-> Outdated(k, r), missed |-> FALSE]
<1>0. TypeOK /\ proc[p].pc = "fill" /\ row' = row /\ k \in Keys
  BY KeyOfType DEF IndInv, TypeOK, Locals, Fill
<1>1. \/ Carry(p, "decide", r)
      \/ proc[p].op = "create" /\ Carry(p, "invalidate", NoRow)
  BY DEF Fill, Goto
<1>2. /\ \A q \in Processes : proc'[q].todo = proc[q].todo /\ proc'[q].op = proc[q].op
      /\ \A q \in Processes \ {p} : proc'[q] = proc[q]
      /\ proc'[p].pc \in {"decide", "invalidate"}
      /\ proc[p].op = "create" => proc'[p].pc = "invalidate"
  <2>1. CASE Carry(p, "decide", r) /\ proc[p].op # "create"
    BY <1>0, <2>1, CarryKeeps
  <2>2. CASE proc[p].op = "create" /\ Carry(p, "invalidate", NoRow)
    BY <1>0, <2>2, CarryKeeps
  <2>3. proc[p].op = "create" => Carry(p, "invalidate", NoRow)
    BY DEF Fill, Goto
  <2> QED
    BY <1>1, <2>1, <2>2, <2>3
<1>3. cache' = cache \/ cache' = [cache EXCEPT ![k] = e]
  BY DEF Fill
<1>4. CASE cache' = cache
  <2>1. StaleCopyIsExplained'
    BY <1>0, <1>2, <1>4, QuietStep DEF IndInv
  <2> QED
    BY <1>0, <1>2, <1>4, <2>1 DEF IndInv, OnlyListsBeforeCreation, OwesAfterCommit
<1>5. CASE cache' = [cache EXCEPT ![k] = e]
  <2>1. /\ cache'[k] = e
        /\ \A j \in Keys \ {k} : cache'[j] = cache[j]
    BY <1>0, <1>5 DEF TypeOK
  <2>2. StaleCopyIsExplained'
    <3> SUFFICES ASSUME NEW j \in Keys, (cache[j] # NoCopy)', Outdated(j, cache[j].copy)'
                 PROVE  \/ cache'[j].late
                        \/ cache'[j].missed
                        \/ \E q \in Processes : j \in proc'[q].todo
      BY DEF StaleCopyIsExplained
    <3>1. CASE j = k
      <4>1. Outdated(k, r)
        BY <1>0, <2>1, <3>1 DEF Outdated, Version
      <4> QED
        BY <2>1, <3>1, <4>1
    <3>2. CASE j # k
      <4>1. cache[j] # NoCopy /\ Outdated(j, cache[j].copy) /\ cache'[j] = cache[j]
        BY <1>0, <2>1, <3>2 DEF Outdated, Version
      <4>2. cache[j].late \/ cache[j].missed \/ \E q \in Processes : j \in proc[q].todo
        BY <4>1 DEF IndInv, StaleCopyIsExplained
      <4> QED
        BY <1>2, <4>1, <4>2
    <3> QED
      BY <3>1, <3>2
  <2>3. row.rev = 0 => k = "list"
    BY <1>0, KeyOfList DEF IndInv, OnlyListsBeforeCreation
  <2>4. OnlyListsBeforeCreation'
    BY <1>0, <1>2, <2>1, <2>3 DEF IndInv, OnlyListsBeforeCreation
  <2>5. OwesAfterCommit'
    BY <1>0, <1>2 DEF IndInv, OwesAfterCommit
  <2> QED
    BY <2>2, <2>4, <2>5 DEF IndInv
<1> QED
  BY <1>3, <1>4, <1>5

\* The commit itself: every entry it leaves behind is one it owes a deletion,
\* save the raw one after a mere stamp, and there is none before creation.
LEMMA CommitInd ==
    ASSUME IndInv, TypeOK', NEW p \in Processes, CommitUpdate(p)
    PROVE  IndInv'
<1> DEFINE op == proc[p].op
<1>0. /\ TypeOK /\ proc[p].pc = "update" /\ cache' = cache
      /\ proc[p].todo = {} /\ op \in Ops
      /\ op = "create" => row.rev = 0
  BY DEF IndInv, OwesAfterCommit, CommitUpdate, TypeOK, Locals
<1>1. row' = Updated(op, proc[p].copy)
  BY DEF CommitUpdate
<1>2. /\ row'.rev = row.rev + 1
      /\ op = "sync" => row'.content = row.content
  BY <1>1 DEF Updated
<1>3. /\ \A q \in Processes \ {p} : proc'[q] = proc[q]
      /\ proc'[p].todo = Invalidates(op)
      /\ proc'[p].op = op
      /\ proc'[p].pc \in {"select", "reply", "invalidate"}
      /\ proc'[p].pc = "select" => op = "create"
  BY <1>0 DEF CommitUpdate, TypeOK, Locals
<1>4. row.rev \in Nat /\ row'.rev # 0 /\ row'.rev > 0
  BY <1>0, <1>2 DEF TypeOK, Rows
<1>5. StaleCopyIsExplained'
  <2> SUFFICES ASSUME NEW k \in Keys, (cache[k] # NoCopy)', Outdated(k, cache[k].copy)'
               PROVE  \/ cache'[k].late
                      \/ cache'[k].missed
                      \/ \E q \in Processes : k \in proc'[q].todo
    BY DEF StaleCopyIsExplained
  <2>1. CASE k \in Invalidates(op)
    BY <1>3, <2>1
  <2>2. CASE op = "create" /\ k \notin Invalidates(op)
    <3>1. k # "list"
      BY <2>2 DEF Invalidates
    <3> QED
      BY <1>0, <2>2, <3>1 DEF IndInv, OnlyListsBeforeCreation
  <2>3. CASE op = "sync" /\ k = "raw"
    <3>1. cache[k] # NoCopy /\ Outdated(k, cache[k].copy)
      BY <1>0, <1>2, <2>3 DEF Outdated, Version
    <3>2. cache[k].late \/ cache[k].missed \/ \E q \in Processes : k \in proc[q].todo
      BY <3>1 DEF IndInv, StaleCopyIsExplained
    <3> QED
      BY <1>0, <1>3, <3>2
  <2> QED
    BY <1>0, <2>1, <2>2, <2>3, InvalidatesCovers
<1>6. OwesAfterCommit'
  BY <1>3, <1>4, <1>2 DEF IndInv, OwesAfterCommit
<1> QED
  BY <1>4, <1>5, <1>6 DEF IndInv, OnlyListsBeforeCreation

LEMMA LoseInd ==
    ASSUME IndInv, TypeOK', NEW p \in Processes, Finish(p),
           row' = row, cache' = Missed(proc[p].todo)
    PROVE  IndInv'
<1>1. proc'[p].pc # "fill" /\ proc'[p].todo = {}
  BY FinishKeeps DEF Idle, IndInv
<1>2. \A q \in Processes \ {p} : proc'[q] = proc[q]
  BY FinishKeeps DEF IndInv
<1>3. StaleCopyIsExplained'
  <2>1. \A q \in Processes : proc[q].todo \ proc[p].todo \subseteq proc'[q].todo
    BY <1>2
  <2> QED
    BY <2>1, LostDeletions DEF IndInv
<1>4. \A k \in Keys : cache[k] = NoCopy => cache'[k] = NoCopy
  BY MissedKeepsCopies DEF IndInv
<1> QED
  BY <1>1, <1>2, <1>3, <1>4 DEF IndInv, OnlyListsBeforeCreation, OwesAfterCommit

LEMMA InvalidateInd ==
    ASSUME IndInv, TypeOK', NEW p \in Processes, NEW k \in Keys, Invalidate(p, k)
    PROVE  IndInv'
<1>0. TypeOK /\ row' = row /\ proc[p].pc = "invalidate"
  BY DEF IndInv, Invalidate
<1>1. /\ \A q \in Processes \ {p} : proc'[q] = proc[q]
      /\ proc'[p].todo = proc[p].todo \ {k}
      /\ proc'[p].pc = "invalidate"
  BY <1>0 DEF Invalidate, TypeOK, Locals
<1>2. OwesAfterCommit'
  BY <1>0, <1>1 DEF IndInv, OwesAfterCommit
<1>3. CASE cache' = Missed({k})
  <2>1. StaleCopyIsExplained'
    <3>1. \A q \in Processes : proc[q].todo \ {k} \subseteq proc'[q].todo
      BY <1>1
    <3> QED
      BY <1>0, <1>3, <3>1, LostDeletions DEF IndInv
  <2>2. \A j \in Keys : cache[j] = NoCopy => cache'[j] = NoCopy
    BY <1>0, <1>3, MissedKeepsCopies
  <2> QED
    BY <1>0, <1>1, <1>2, <2>1, <2>2 DEF IndInv, OnlyListsBeforeCreation
<1>4. CASE cache' = [cache EXCEPT ![k] = NoCopy]
  <2>1. cache'[k] = NoCopy /\ \A j \in Keys \ {k} : cache'[j] = cache[j]
    BY <1>0, <1>4 DEF TypeOK
  <2>2. StaleCopyIsExplained'
    <3> SUFFICES ASSUME NEW j \in Keys, (cache[j] # NoCopy)', Outdated(j, cache[j].copy)'
                 PROVE  \/ cache'[j].late
                        \/ cache'[j].missed
                        \/ \E q \in Processes : j \in proc'[q].todo
      BY DEF StaleCopyIsExplained
    <3>1. j # k /\ cache'[j] = cache[j]
      BY <2>1
    <3>2. cache[j] # NoCopy /\ Outdated(j, cache[j].copy)
      BY <1>0, <3>1 DEF Outdated, Version
    <3>3. cache[j].late \/ cache[j].missed \/ \E q \in Processes : j \in proc[q].todo
      BY <3>2 DEF IndInv, StaleCopyIsExplained
    <3> QED
      BY <1>1, <3>1, <3>3
  <2> QED
    BY <1>0, <1>1, <1>2, <2>1, <2>2 DEF IndInv, OnlyListsBeforeCreation
<1> QED
  BY <1>3, <1>4 DEF Invalidate

LEMMA ExpireInd ==
    ASSUME IndInv, TypeOK', NEW k \in Keys, Expire(k)
    PROVE  IndInv'
<1>1. cache'[k] = NoCopy /\ \A j \in Keys \ {k} : cache'[j] = cache[j]
  BY DEF Expire, IndInv, TypeOK
<1>2. row' = row /\ proc' = proc
  BY DEF Expire
<1>3. StaleCopyIsExplained'
  <2> SUFFICES ASSUME NEW j \in Keys, (cache[j] # NoCopy)', Outdated(j, cache[j].copy)'
               PROVE  \/ cache'[j].late
                      \/ cache'[j].missed
                      \/ \E q \in Processes : j \in proc'[q].todo
    BY DEF StaleCopyIsExplained
  <2>1. j # k /\ cache'[j] = cache[j]
    BY <1>1
  <2>2. cache[j] # NoCopy /\ Outdated(j, cache[j].copy)
    BY <1>2, <2>1 DEF Outdated, Version
  <2> QED
    BY <1>2, <2>1, <2>2 DEF IndInv, StaleCopyIsExplained
<1> QED
  BY <1>1, <1>2, <1>3 DEF IndInv, OnlyListsBeforeCreation, OwesAfterCommit

LEMMA SelectInd ==
    ASSUME IndInv, TypeOK', NEW p \in Processes, Select(p)
    PROVE  IndInv'
<1>0. TypeOK /\ row' = row /\ cache' = cache /\ proc[p].pc = "select"
  BY DEF IndInv, Select
<1>1. CASE row.rev = 0 /\ proc[p].op # "list"
  <2>1. proc[p].todo = {}
    BY <1>0, <1>1 DEF IndInv, OwesAfterCommit
  <2> QED
    BY <1>0, <1>1, <2>1, FinishInd DEF Select
<1>2. CASE ~(row.rev = 0 /\ proc[p].op # "list")
  <2>1. Carry(p, "fill", row)
    BY <1>2 DEF Select
  <2>2. /\ \A q \in Processes : proc'[q].todo = proc[q].todo /\ proc'[q].op = proc[q].op
        /\ \A q \in Processes \ {p} : proc'[q] = proc[q]
        /\ proc'[p].pc = "fill"
    BY <1>0, <2>1, CarryKeeps
  <2>3. StaleCopyIsExplained'
    BY <1>0, <2>2, QuietStep DEF IndInv
  <2> QED
    BY <1>0, <1>2, <2>2, <2>3 DEF IndInv, OnlyListsBeforeCreation, OwesAfterCommit
<1> QED
  BY <1>1, <1>2

LEMMA StepInd ==
    ASSUME IndInv, TypeOK', NEW p \in Processes, Step(p)
    PROVE  IndInv'
<1>0. proc[p].pc \notin {"reply", "invalidate", "select", "fill"} => proc[p].todo = {}
  BY DEF IndInv, OwesAfterCommit
<1>1. CASE CacheHit(p)
  BY <1>0, <1>1, CarryInd DEF CacheHit
<1>2. CASE CacheMiss(p)
  BY <1>0, <1>2, CarryInd DEF CacheMiss, Goto
<1>3. CASE Select(p)
  BY <1>3, SelectInd
<1>4. CASE Fill(p)
  BY <1>4, FillInd
<1>5. CASE Decide(p)
  <2>1. Carry(p, "insert", NoRow) \/ Carry(p, "load", NoRow) \/ Finish(p)
    BY <1>5 DEF Decide, Goto
  <2>2. proc[p].todo = {} /\ row' = row /\ cache' = cache
    BY <1>0, <1>5 DEF Decide
  <2>3. CASE Carry(p, "insert", NoRow) \/ Carry(p, "load", NoRow)
    BY <2>2, <2>3, CarryInd
  <2>4. CASE Finish(p)
    BY <2>2, <2>4, FinishInd
  <2> QED
    BY <2>1, <2>3, <2>4
<1>6. CASE InsertMessage(p)
  BY <1>0, <1>6, FinishInd DEF InsertMessage
<1>7. CASE Load(p)
  BY <1>0, <1>7, CarryInd DEF Load
<1>8. CASE CommitUpdate(p)
  BY <1>8, CommitInd
<1>9. CASE UpdateFails(p)
  BY <1>0, <1>9, FinishInd DEF UpdateFails
<1>10. CASE Reply(p)
  <2>1. CASE Carry(p, "invalidate", NoRow) /\ cache' = cache
    BY <1>10, <2>1, CarryInd DEF Reply
  <2>2. CASE Finish(p) /\ cache' = Missed(proc[p].todo)
    BY <1>10, <2>2, LoseInd DEF Reply
  <2> QED
    BY <1>10, <2>1, <2>2 DEF Reply, Goto
<1>11. CASE \E k \in Keys : Invalidate(p, k)
  BY <1>11, InvalidateInd
<1>12. CASE Invalidated(p)
  BY <1>12, CarryInd DEF Invalidated, Goto
<1>13. CASE Confirm(p)
  BY <1>0, <1>13, FinishInd DEF Confirm
<1> QED
  BY <1>1, <1>2, <1>3, <1>4, <1>5, <1>6, <1>7, <1>8, <1>9, <1>10, <1>11, <1>12, <1>13
  DEF Step

LEMMA IndStep == IndInv /\ [Next]_vars => IndInv'
<1> SUFFICES ASSUME IndInv, [Next]_vars
             PROVE  IndInv'
  OBVIOUS
<1>0. TypeOK'
  BY TypeStep DEF IndInv
<1>1. ASSUME NEW p \in Processes, NEW op \in Ops, Start(p, op)
      PROVE  IndInv'
  BY <1>0, <1>1, StartInd
<1>2. ASSUME NEW p \in Processes, Step(p)
      PROVE  IndInv'
  BY <1>0, <1>2, StepInd
<1>3. ASSUME NEW p \in Processes, Stop(p)
      PROVE  IndInv'
  BY <1>0, <1>3, LoseInd DEF Stop
<1>4. ASSUME NEW k \in Keys, Expire(k)
      PROVE  IndInv'
  BY <1>0, <1>4, ExpireInd
<1>5. CASE UNCHANGED vars
  <2>1. row' = row /\ cache' = cache /\ proc' = proc
    BY <1>5 DEF vars
  <2>2. StaleCopyIsExplained'
    BY <2>1, QuietStep DEF IndInv
  <2> QED
    BY <1>0, <2>1, <2>2 DEF IndInv, OnlyListsBeforeCreation, OwesAfterCommit
<1> QED
  BY <1>1, <1>2, <1>3, <1>4, <1>5, NextCases

\* Every outdated entry is about to be deleted, or its deletion was lost, or
\* it was stored late: for any number of processes and commits.
THEOREM StaleCopiesExplained == Spec => []StaleCopyIsExplained
<1>1. IndInv => StaleCopyIsExplained
  BY DEF IndInv
<1> QED
  BY <1>1, IndInit, IndStep, PTL DEF Spec
-----------------------------------------------------------------------------
(* The refinement: rows, entries and operations implement ThreadRegister *)

\* Where a revision that is still live after a step comes from.
LEMMA LiveFromCopies ==
    ASSUME NEW S,
           row'.rev \in S,
           \A k \in Keys : cache'[k] # NoCopy => cache'[k].copy.rev \in S,
           \A p \in Processes : InFlight(p)' => proc'[p].copy.rev \in S
    PROVE  Live' \subseteq S
  BY DEF Live, InFlight

LEMMA LiveNow ==
    /\ row.rev \in Live
    /\ \A k \in Keys : cache[k] # NoCopy => cache[k].copy.rev \in Live
    /\ \A p \in Processes : InFlight(p) => proc[p].copy.rev \in Live
  BY DEF Live

\* A step of one operation, or of no operation, that keeps the row.
LEMMA ForgetStep ==
    ASSUME TypeOK, row' = row,
           \A k \in Keys : cache'[k] # NoCopy => cache'[k].copy.rev \in Live,
           \A p \in Processes : InFlight(p)' => proc'[p].copy.rev \in Live
    PROVE  Register!Forget
<1>1. Live' \subseteq Live
  BY LiveNow, LiveFromCopies
<1>2. row.rev \in Live'
  BY DEF Live
<1> QED
  BY <1>1, <1>2 DEF Register!Forget

LEMMA CarryForgets ==
    ASSUME TypeOK, row' = row, cache' = cache, NEW p \in Processes, NEW step, NEW r,
           Carry(p, step, r),
           step \in {"fill", "decide"} => r.rev \in Live
    PROVE  Register!Forget
<1>1. \A q \in Processes : InFlight(q)' => proc'[q].copy.rev \in Live
  <2> SUFFICES ASSUME NEW q \in Processes, InFlight(q)'
               PROVE  proc'[q].copy.rev \in Live
    OBVIOUS
  <2>1. CASE q = p
    BY <2>1, CarryKeeps DEF InFlight
  <2>2. CASE q # p
    BY <2>2, CarryKeeps, LiveNow DEF InFlight
  <2> QED
    BY <2>1, <2>2
<1> QED
  BY <1>1, LiveNow, ForgetStep

LEMMA FinishForgets ==
    ASSUME TypeOK, row' = row, NEW p \in Processes, Finish(p),
           \A k \in Keys : cache'[k] # NoCopy => cache'[k].copy.rev \in Live
    PROVE  Register!Forget
<1>1. \A q \in Processes : InFlight(q)' => proc'[q].copy.rev \in Live
  BY FinishKeeps, LiveNow DEF InFlight, Idle
<1> QED
  BY <1>1, ForgetStep

LEMMA MissedLive ==
    ASSUME TypeOK, NEW keys
    PROVE  \A k \in Keys : Missed(keys)[k] # NoCopy => Missed(keys)[k].copy.rev \in Live
  BY MissedKeepsCopies, LiveNow

LEMMA StepRefines ==
    ASSUME TypeOK, TypeOK', NEW p \in Processes, Step(p)
    PROVE  [Register!Next]_(Register!vars)
<1> DEFINE op == proc[p].op
<1>0. op \in Ops /\ KeyOf(op) \in Keys
  BY KeyOfType DEF TypeOK, Locals
<1>1. CASE CacheHit(p)
  BY <1>0, <1>1, CarryForgets, LiveNow DEF CacheHit, Register!Next
<1>2. CASE CacheMiss(p)
  BY <1>2, CarryForgets DEF CacheMiss, Goto, Register!Next
<1>3. CASE Select(p)
  <2>1. row.rev \in Live
    BY LiveNow
  <2>2. CASE Finish(p)
    BY <1>3, <2>2, FinishForgets, LiveNow DEF Select, Register!Next
  <2>3. CASE Carry(p, "fill", row)
    BY <1>3, <2>1, <2>3, CarryForgets DEF Select, Register!Next
  <2> QED
    BY <1>3, <2>2, <2>3 DEF Select
<1>4. CASE Fill(p)
  <2> DEFINE e == [copy |-> proc[p].copy,
                   late |-> Outdated(KeyOf(op), proc[p].copy), missed |-> FALSE]
  <2>1. InFlight(p) /\ proc[p].copy.rev \in Live
    BY <1>4, LiveNow DEF Fill, InFlight
  <2>2. \A k \in Keys : cache'[k] # NoCopy => cache'[k].copy.rev \in Live
    <3>1. cache' = cache \/ cache' = [cache EXCEPT ![KeyOf(op)] = e]
      BY <1>4 DEF Fill
    <3>2. e.copy = proc[p].copy
      OBVIOUS
    <3> HIDE DEF e
    <3> QED
      BY <1>0, <2>1, <3>1, <3>2, LiveNow DEF TypeOK
  <2>3. \A q \in Processes : InFlight(q)' => proc'[q].copy.rev \in Live
    <3>1. Carry(p, "decide", proc[p].copy) \/ Carry(p, "invalidate", NoRow)
      BY <1>4 DEF Fill, Goto
    <3>2. \A q \in Processes \ {p} : proc'[q] = proc[q]
      BY <3>1, CarryKeeps
    <3>3. InFlight(p)' => proc'[p].copy.rev \in Live
      BY <2>1, <3>1, CarryKeeps DEF InFlight
    <3> QED
      BY <3>2, <3>3, LiveNow DEF InFlight
  <2> QED
    BY <1>4, <2>2, <2>3, ForgetStep DEF Fill, Register!Next
<1>5. CASE Decide(p)
  <2>1. Carry(p, "insert", NoRow) \/ Carry(p, "load", NoRow) \/ Finish(p)
    BY <1>5 DEF Decide, Goto
  <2>2. CASE Finish(p)
    BY <1>5, <2>2, FinishForgets, LiveNow DEF Decide, Register!Next
  <2>3. CASE Carry(p, "insert", NoRow) \/ Carry(p, "load", NoRow)
    BY <1>5, <2>3, CarryForgets DEF Decide, Register!Next
  <2> QED
    BY <2>1, <2>2, <2>3
<1>6. CASE InsertMessage(p)
  BY <1>6, FinishForgets, LiveNow DEF InsertMessage, Register!Next
<1>7. CASE Load(p)
  BY <1>7, CarryForgets DEF Load, Register!Next
<1>8. CASE CommitUpdate(p)
  <2>1. row'.rev = row.rev + 1
    BY <1>8 DEF CommitUpdate, Updated
  <2>2. \A q \in Processes : InFlight(q)' => InFlight(q) /\ proc'[q] = proc[q]
    <3>1. \A q \in Processes \ {p} : proc'[q] = proc[q]
      BY <1>8 DEF CommitUpdate, TypeOK
    <3>2. proc'[p].pc \in {"select", "reply", "invalidate"}
      BY <1>8 DEF CommitUpdate, TypeOK, Locals
    <3> QED
      BY <3>1, <3>2 DEF InFlight
  <2>3. cache' = cache
    BY <1>8 DEF CommitUpdate
  <2>4. Live' \subseteq Live \cup {row'.rev}
    BY <2>2, <2>3, LiveNow, LiveFromCopies
  <2>5. row'.rev \in Live'
    BY DEF Live
  <2>6. Register!Commit
    BY <2>1, <2>4, <2>5 DEF Register!Commit
  <2> QED
    BY <2>6 DEF Register!Next
<1>9. CASE UpdateFails(p)
  BY <1>9, FinishForgets, LiveNow DEF UpdateFails, Register!Next
<1>10. CASE Reply(p)
  <2>1. CASE Carry(p, "invalidate", NoRow) /\ cache' = cache
    BY <1>10, <2>1, CarryForgets DEF Reply, Register!Next
  <2>2. CASE Finish(p) /\ cache' = Missed(proc[p].todo)
    BY <1>10, <2>2, MissedLive, FinishForgets DEF Reply, Register!Next
  <2> QED
    BY <1>10, <2>1, <2>2 DEF Reply, Goto
<1>11. ASSUME NEW k \in Keys, Invalidate(p, k)
       PROVE  [Register!Next]_(Register!vars)
  <2>1. \A j \in Keys : cache'[j] # NoCopy => cache'[j].copy.rev \in Live
    <3>1. CASE cache' = Missed({k})
      BY <3>1, MissedLive
    <3>2. CASE cache' = [cache EXCEPT ![k] = NoCopy]
      BY <3>2, LiveNow DEF TypeOK
    <3> QED
      BY <1>11, <3>1, <3>2 DEF Invalidate
  <2>2. \A q \in Processes : proc'[q].pc = proc[q].pc /\ proc'[q].copy = proc[q].copy
    BY <1>11 DEF Invalidate, TypeOK, Locals
  <2>3. \A q \in Processes : InFlight(q)' => proc'[q].copy.rev \in Live
    BY <2>2, LiveNow DEF InFlight
  <2> QED
    BY <1>11, <2>1, <2>3, ForgetStep DEF Invalidate, Register!Next
<1>12. CASE Invalidated(p)
  BY <1>12, CarryForgets DEF Invalidated, Goto, Register!Next
<1>13. CASE Confirm(p)
  BY <1>13, FinishForgets, LiveNow DEF Confirm, Register!Next
<1> QED
  BY <1>1, <1>2, <1>3, <1>4, <1>5, <1>6, <1>7, <1>8, <1>9, <1>10, <1>11, <1>12, <1>13
  DEF Step

LEMMA NextRefines == TypeOK /\ TypeOK' /\ [Next]_vars => [Register!Next]_(Register!vars)
<1> SUFFICES ASSUME TypeOK, TypeOK', [Next]_vars
             PROVE  [Register!Next]_(Register!vars)
  OBVIOUS
<1>1. ASSUME NEW p \in Processes, NEW op \in Ops, Start(p, op)
      PROVE  Register!Next
  <2>1. \A q \in Processes : InFlight(q)' => InFlight(q) /\ proc'[q] = proc[q]
    <3>1. proc'[p].pc \notin {"fill", "decide"}
      BY <1>1 DEF Start, TypeOK, Idle
    <3>2. \A q \in Processes \ {p} : proc'[q] = proc[q]
      BY <1>1 DEF Start, TypeOK
    <3> QED
      BY <3>1, <3>2 DEF InFlight
  <2> QED
    BY <1>1, <2>1, LiveNow, ForgetStep DEF Start, Register!Next
<1>2. ASSUME NEW p \in Processes, Step(p)
      PROVE  [Register!Next]_(Register!vars)
  BY <1>2, StepRefines
<1>3. ASSUME NEW p \in Processes, Stop(p)
      PROVE  Register!Next
  BY <1>3, MissedLive, FinishForgets DEF Stop, Register!Next
<1>4. ASSUME NEW k \in Keys, Expire(k)
      PROVE  Register!Next
  <2>1. \A j \in Keys : cache'[j] # NoCopy => cache'[j].copy.rev \in Live
    BY <1>4, LiveNow DEF Expire, TypeOK
  <2>2. \A q \in Processes : InFlight(q)' => proc'[q].copy.rev \in Live
    BY <1>4, LiveNow DEF Expire, InFlight
  <2> QED
    BY <1>4, <2>1, <2>2, ForgetStep DEF Expire, Register!Next
<1>5. CASE UNCHANGED vars
  BY <1>5 DEF vars, Register!vars, Live, InFlight
<1> QED
  BY <1>1, <1>2, <1>3, <1>4, <1>5, NextCases

LEMMA InitRefines == Init => Register!Init
<1> SUFFICES ASSUME Init PROVE Register!Init
  OBVIOUS
<1>1. \A p \in Processes : ~InFlight(p)
  BY DEF Init, Idle, InFlight
<1>2. row.rev = 0 /\ \A k \in Keys : cache[k] = NoCopy
  BY DEF Init, NoRow
<1>3. Live = {0}
  BY <1>1, <1>2 DEF Live
<1> QED
  BY <1>2, <1>3 DEF Register!Init

\* The row and its copies implement the register: a revision that no entry
\* and no operation holds any more is never served again.
THEOREM ImplementsRegister == Spec => NoResurrection
<1>1. Init => Register!Init
  BY InitRefines
<1>2. TypeOK /\ TypeOK' /\ [Next]_vars => [Register!Next]_(Register!vars)
  BY NextRefines
<1> QED
  BY <1>1, <1>2, TypeCorrect, PTL DEF Spec, NoResurrection, Register!Spec
-----------------------------------------------------------------------------
(* What can become of a /lock *)

\* An update of an existing thread goes out from the row as it was at some time.
LoadedRows ==
    \A p \in Processes :
        proc[p].pc = "update" /\ proc[p].op # "create" =>
            /\ proc[p].copy.rev <= row.rev
            /\ proc[p].copy.rev = row.rev => proc[p].copy = row

\* A /lock or /unlock commits without its effect only if the row was as it wanted
\* when its session loaded it, and a commit of somebody else, between that and
\* its own, has changed the lock. (It came so far because the copy on which it
\* decided said otherwise.)
LockLostToOthersOnly ==
    [][\A p \in Handlers :
         LET wanted == (proc[p].op = "lock")
             base == proc[p].copy IN
         /\ proc[p].op \in {"lock", "unlock"}
         /\ CommitUpdate(p)
         /\ row'.locked # wanted
         => /\ base.locked = wanted
            /\ row.locked # wanted
            /\ base.rev < row.rev]_vars

\* Which operations are about to update, after a step of p: p itself if it has
\* loaded the row or creates it, the others as before.
LEMMA UpdatesAfter ==
    ASSUME TypeOK, NEW p \in Processes, Step(p),
           NEW q \in Processes, proc'[q].pc = "update"
    PROVE  proc'[q] = proc[q] \/ (q = p /\ proc'[q].copy = row /\ row' = row)
<1>1. q # p => proc'[q] = proc[q]
  BY DEF Step, CacheHit, CacheMiss, Select, Fill, Decide, InsertMessage, Load, CommitUpdate,
         UpdateFails, Reply, Invalidate, Invalidated, Confirm, Goto, Carry, Finish, TypeOK
<1>2. ASSUME q = p, ~Load(p)
      PROVE  FALSE
  <2>1. \A step : Goto(p, step) => proc'[p].pc = step
    BY CarryKeeps DEF Goto
  <2>2. \A step, r : Carry(p, step, r) => proc'[p].pc = step
    BY CarryKeeps
  <2>3. Finish(p) => proc'[p].pc = "idle"
    BY FinishKeeps DEF Idle
  <2>4. \A k \in Keys : ~Invalidate(p, k)
    BY <1>2 DEF Invalidate, TypeOK, Locals
  <2>5. ~CommitUpdate(p)
    <3> SUFFICES ASSUME CommitUpdate(p) PROVE FALSE
      OBVIOUS
    <3>1. proc'[p].pc = CASE proc[p].op = "create" -> "select"
                          [] proc[p].op = "sync" -> "reply"
                          [] OTHER -> "invalidate"
      BY DEF CommitUpdate, TypeOK, Locals
    <3> QED
      BY <1>2, <3>1
  <2> QED
    BY <1>2, <2>1, <2>2, <2>3, <2>4, <2>5
    DEF Step, CacheHit, CacheMiss, Select, Fill, Decide, InsertMessage, UpdateFails, Reply,
        Invalidated, Confirm
<1>3. Load(p) => proc'[p].copy = row /\ row' = row
  BY CarryKeeps DEF Load
<1> QED
  BY <1>1, <1>2, <1>3

LEMMA RowAfter ==
    ASSUME TypeOK, NEW p \in Processes, Step(p)
    PROVE  row' = row \/ row'.rev = row.rev + 1
<1>1. CASE CommitUpdate(p)
  BY <1>1 DEF CommitUpdate, Updated
<1>2. CASE \E k \in Keys : Invalidate(p, k)
  BY <1>2 DEF Invalidate
<1>3. CASE ~CommitUpdate(p) /\ ~\E k \in Keys : Invalidate(p, k)
  BY <1>3 DEF Step, CacheHit, CacheMiss, Select, Fill, Decide, InsertMessage, Load,
              UpdateFails, Reply, Invalidated, Confirm
<1> QED
  BY <1>1, <1>2, <1>3

LEMMA LoadedInductive == Spec => []LoadedRows
<1>1. Init => LoadedRows
  BY DEF Init, Idle, LoadedRows
<1>2. TypeOK /\ LoadedRows /\ [Next]_vars => LoadedRows'
  <2> SUFFICES ASSUME TypeOK, LoadedRows, [Next]_vars,
                      NEW q \in Processes, proc'[q].pc = "update", proc'[q].op # "create"
               PROVE  /\ proc'[q].copy.rev <= row'.rev
                      /\ proc'[q].copy.rev = row'.rev => proc'[q].copy = row'
    BY DEF LoadedRows
  <2>0. row.rev \in Nat /\ proc[q].copy.rev \in Nat
    BY DEF TypeOK, Rows, Locals
  <2>1. ASSUME proc'[q] = proc[q], row' = row \/ row'.rev = row.rev + 1
        PROVE  /\ proc'[q].copy.rev <= row'.rev
               /\ proc'[q].copy.rev = row'.rev => proc'[q].copy = row'
    BY <2>0, <2>1 DEF LoadedRows
  <2>2. CASE \E p \in Processes : Step(p)
    <3>1. PICK p \in Processes : Step(p)
      BY <2>2
    <3>2. CASE proc'[q] = proc[q]
      BY <2>1, <3>1, <3>2, RowAfter
    <3>3. CASE proc'[q].copy = row /\ row' = row
      BY <2>0, <3>3
    <3> QED
      BY <3>1, <3>2, <3>3, UpdatesAfter
  <2>3. CASE \E p \in Processes, op \in Ops : Start(p, op)
    <3>1. PICK p \in Processes, op \in Ops : Start(p, op)
      BY <2>3
    <3>2. q # p
      BY <3>1 DEF Start, TypeOK, Idle
    <3> QED
      BY <2>1, <3>1, <3>2 DEF Start, TypeOK
  <2>4. CASE \E p \in Processes : Stop(p)
    <3>1. PICK p \in Processes : Stop(p)
      BY <2>4
    <3>2. q # p
      BY <3>1, FinishKeeps DEF Stop, Idle
    <3> QED
      BY <2>1, <3>1, <3>2, FinishKeeps DEF Stop
  <2>5. CASE \E k \in Keys : Expire(k)
    BY <2>1, <2>5 DEF Expire
  <2>6. CASE UNCHANGED vars
    BY <2>1, <2>6 DEF vars
  <2> QED
    BY <2>2, <2>3, <2>4, <2>5, <2>6, NextCases
<1> QED
  BY <1>1, <1>2, TypeCorrect, PTL DEF Spec

\* /lock and /unlock (thread_commands.py) lose their change to an overlapping
\* command only: two that follow each other never do.
THEOREM LocksLostToOthers == Spec => LockLostToOthersOnly
<1>1. TypeOK /\ LoadedRows =>
        \A p \in Handlers :
          LET wanted == (proc[p].op = "lock")
              base == proc[p].copy IN
          /\ proc[p].op \in {"lock", "unlock"}
          /\ CommitUpdate(p)
          /\ row'.locked # wanted
          => /\ base.locked = wanted
             /\ row.locked # wanted
             /\ base.rev < row.rev
  <2> SUFFICES ASSUME TypeOK, LoadedRows, NEW p \in Handlers,
                      proc[p].op \in {"lock", "unlock"}, CommitUpdate(p),
                      row'.locked # (proc[p].op = "lock")
               PROVE  /\ proc[p].copy.locked = (proc[p].op = "lock")
                      /\ row.locked # (proc[p].op = "lock")
                      /\ proc[p].copy.rev < row.rev
    BY Zenon
  <2>1. /\ proc[p].copy.locked \in BOOLEAN /\ row.locked \in BOOLEAN
        /\ proc[p].copy.rev \in Nat /\ row.rev \in Nat
    BY DEF TypeOK, Locals, Rows, Processes
  <2>2. row'.locked = IF proc[p].copy.locked # (proc[p].op = "lock")
                        THEN proc[p].op = "lock" ELSE row.locked
    BY DEF CommitUpdate, Updated
  <2>3. /\ proc[p].copy.locked = (proc[p].op = "lock")
        /\ row.locked # (proc[p].op = "lock")
    BY <2>2, Zenon
  <2>4. /\ proc[p].copy.rev <= row.rev
        /\ proc[p].copy.rev = row.rev => proc[p].copy = row
    BY DEF LoadedRows, CommitUpdate, Processes
  <2>5. proc[p].copy.rev # row.rev
    BY <2>3, <2>4, Zenon
  <2> QED
    BY <2>1, <2>3, <2>4, <2>5
<1> QED
  BY <1>1, TypeCorrect, LoadedInductive, PTL DEF LockLostToOthersOnly
=============================================================================
