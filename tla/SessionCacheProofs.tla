-------------------------- MODULE SessionCacheProofs --------------------------
(***************************************************************************)
(* Theorems about SessionCache, for every set of requests.                 *)
(***************************************************************************)
EXTENDS SessionCache, TLAPS

Over == row \in {"revoked", "deleted"}

\* A copy in Redis that nobody may be handed without a mark.
Marked == cache = NoCopy \/ cache.late \/ cache.missed \/ cache.copy # "open"

RequestInv(p) ==
    /\ proc[p].pc # "idle" => row # "none"
    /\ proc[p].pc = "invalidate" => Over
    /\ proc[p].pc = "delete" => Over \/ past
    /\ proc[p].afterLogout =>
         /\ loggedOut
         /\ proc[p].pc # "store"
         /\ proc[p].pc \in {"user", "granted"} => proc[p].handed
    /\ proc[p].afterEnd => past /\ proc[p].pc \notin {"store", "user", "granted"}

SessionInv ==
    /\ TypeOK
    /\ known => row # "none"
    /\ loggedOut => Over /\ Marked
    /\ \A p \in Requests : RequestInv(p)
-----------------------------------------------------------------------------
(* The type invariant *)

LEMMA IdleType == Idle \in Locals
  BY DEF Idle, Locals, Ops, Lookups, Steps, Copies

LEMMA MissedType ==
    ASSUME TypeOK
    PROVE  Missed \in Entries \cup {NoCopy}
<1>1. CASE cache # NoCopy /\ Outdated(cache.copy)
  <2>1. cache \in Entries
    BY <1>1 DEF TypeOK
  <2> QED
    BY <1>1, <2>1 DEF Missed, Entries
<1>2. CASE ~(cache # NoCopy /\ Outdated(cache.copy))
  BY <1>2 DEF Missed, TypeOK
<1> QED
  BY <1>1, <1>2

LEMMA GotoType ==
    ASSUME TypeOK, NEW p \in Requests, NEW step \in Steps, Goto(p, step)
    PROVE  proc' \in [Requests -> Locals]
  BY DEF Goto, TypeOK, Locals

LEMMA FinishType ==
    ASSUME TypeOK, NEW p \in Requests, Finish(p)
    PROVE  proc' \in [Requests -> Locals]
  BY IdleType DEF Finish, TypeOK

LEMMA FoundType == \A op \in Ops : Found(op) \in {"granted", "user"}
  BY DEF Found

LEMMA StepType ==
    ASSUME TypeOK, NEW p \in Requests, Step(p)
    PROVE  TypeOK'
<1>0. proc[p] \in Locals /\ proc[p].op \in Ops
  BY DEF TypeOK, Locals
<1>1. CASE CacheHit(p)
  <2>1. cache.late \in BOOLEAN /\ cache.missed \in BOOLEAN
    BY <1>1 DEF CacheHit, TypeOK, Entries
  <2>2. (cache.late \/ cache.missed) \in BOOLEAN
    BY <2>1
  <2>3. proc' \in [Requests -> Locals]
    BY <1>0, <1>1, <2>2, FoundType DEF CacheHit, TypeOK, Locals, Steps
  <2> QED
    BY <1>1, <2>3 DEF CacheHit, TypeOK
<1>2. CASE CacheMiss(p) \/ Load(p) \/ FindUser(p) \/ Refuse(p)
  <2>1. proc' \in [Requests -> Locals]
    BY <1>2, GotoType, FinishType DEF CacheMiss, Load, FindUser, Refuse, Steps
  <2> QED
    BY <1>2, <2>1 DEF CacheMiss, Load, FindUser, Refuse, TypeOK
<1>3. CASE Select(p)
  <2>1. [proc[p] EXCEPT !.pc = "delete", !.todo = {"row", "entry"}] \in Locals
    BY <1>0 DEF Locals, Steps
  <2>2. proc' \in [Requests -> Locals]
    <3>1. \/ Finish(p) \/ Goto(p, "store")
          \/ proc' = [proc EXCEPT ![p].pc = "delete", ![p].todo = {"row", "entry"}]
      BY <1>3 DEF Select
    <3> QED
      BY <2>1, <3>1, GotoType, FinishType DEF Steps, TypeOK
  <2> QED
    BY <1>3, <2>2 DEF Select, TypeOK
<1>4. CASE DeleteRow(p) \/ DeleteEntry(p)
  <2>1. proc' \in [Requests -> Locals]
    BY <1>0, <1>4 DEF DeleteRow, DeleteEntry, TypeOK, Locals
  <2>2. row' \in Rows
    BY <1>4 DEF DeleteRow, DeleteEntry, TypeOK, Rows
  <2>3. cache' \in Entries \cup {NoCopy}
    BY <1>4, MissedType DEF DeleteRow, DeleteEntry, TypeOK
  <2> QED
    BY <1>4, <2>1, <2>2, <2>3 DEF DeleteRow, DeleteEntry, TypeOK
<1>5. CASE Fill(p)
  <2>1. Outdated(proc[p].copy) \in BOOLEAN /\ proc[p].copy \in Copies
    BY <1>0 DEF Outdated, Locals
  <2>2. [copy |-> proc[p].copy, late |-> Outdated(proc[p].copy), missed |-> FALSE]
          \in Entries
    BY <2>1 DEF Entries
  <2>3. cache' \in Entries \cup {NoCopy}
    BY <1>5, <2>2 DEF Fill, TypeOK
  <2>4. Goto(p, Found(proc[p].op)) /\ Found(proc[p].op) \in Steps
    BY <1>0, <1>5, FoundType DEF Fill, Steps
  <2>5. proc' \in [Requests -> Locals]
    BY <2>4, GotoType
  <2> QED
    BY <1>5, <2>3, <2>5 DEF Fill, TypeOK
<1>6. CASE Answer(p)
  <2>1. known' \in BOOLEAN
    BY <1>6 DEF Answer, TypeOK
  <2>2. proc' \in [Requests -> Locals]
    BY <1>6, FinishType DEF Answer
  <2> QED
    BY <1>6, <2>1, <2>2 DEF Answer, TypeOK
<1>7. CASE RevokeRow(p)
  <2>1. proc' \in [Requests -> Locals]
    BY <1>7, GotoType, FinishType DEF RevokeRow, Steps
  <2> QED
    BY <1>7, <2>1 DEF RevokeRow, TypeOK, Rows
<1>8. CASE InvalidateEntry(p)
  <2>1. proc' \in [Requests -> Locals]
    BY <1>8, FinishType DEF InvalidateEntry
  <2> QED
    BY <1>8, <2>1, MissedType DEF InvalidateEntry, TypeOK
<1> QED
  BY <1>1, <1>2, <1>3, <1>4, <1>5, <1>6, <1>7, <1>8 DEF Step

LEMMA TypeStep == TypeOK /\ [Next]_vars => TypeOK'
<1> SUFFICES ASSUME TypeOK, [Next]_vars
             PROVE  TypeOK'
  OBVIOUS
<1>1. ASSUME NEW p \in Requests, InsertSession(p)
      PROVE  TypeOK'
  <2>1. [Idle EXCEPT !.op = "login", !.pc = "store"] \in Locals
    BY IdleType DEF Locals, Ops, Steps
  <2>2. proc' \in [Requests -> Locals]
    BY <1>1, <2>1 DEF InsertSession, TypeOK
  <2> QED
    BY <1>1, <2>2 DEF InsertSession, TypeOK, Rows
<1>2. ASSUME NEW p \in Requests, NEW op \in Lookups \cup {"logout"}, Begin(p, op)
      PROVE  TypeOK'
  <2> DEFINE first == IF op = "logout" THEN "load" ELSE "get"
  <2>1. first \in Steps /\ op \in Ops
    BY DEF Steps, Ops
  <2>2. [Idle EXCEPT !.op = op, !.pc = first, !.afterEnd = past,
                     !.afterLogout = loggedOut] \in Locals
    <3> HIDE DEF first
    <3> QED
      BY <2>1, IdleType DEF Locals, TypeOK
  <2>3. proc' \in [Requests -> Locals]
    BY <1>2, <2>2 DEF Begin, TypeOK
  <2> QED
    BY <1>2, <2>3 DEF Begin, TypeOK
<1>3. ASSUME NEW p \in Requests, Stop(p)
      PROVE  TypeOK'
  BY <1>3, FinishType, MissedType DEF Stop, TypeOK
<1>4. CASE DayEnds \/ Expire \/ UNCHANGED vars
  BY <1>4 DEF DayEnds, Expire, vars, TypeOK
<1> QED
  BY <1>1, <1>2, <1>3, <1>4, StepType DEF Next

LEMMA TypeInit == Init => TypeOK
  BY IdleType DEF Init, TypeOK, Rows

\* Type correctness, for every set of requests.
THEOREM TypeCorrect == Spec => []TypeOK
  BY TypeInit, TypeStep, PTL DEF Spec
-----------------------------------------------------------------------------
(* The inductive invariant *)

\* What never is undone: rows, the end of the day, a confirmed logout.
LEMMA Forward ==
    ASSUME SessionInv, [Next]_vars
    PROVE  /\ row # "none" => row' # "none"
           /\ Over => Over'
           /\ past => past'
           /\ loggedOut => loggedOut'
<1>1. ASSUME NEW p \in Requests, Step(p)
      PROVE  /\ row # "none" => row' # "none"
             /\ Over => Over'
             /\ past => past'
             /\ loggedOut => loggedOut'
  BY <1>1 DEF Step, CacheHit, CacheMiss, Select, DeleteRow, DeleteEntry, Refuse, Fill,
              FindUser, Answer, Load, RevokeRow, InvalidateEntry, Over
<1>2. ASSUME NEW p \in Requests, NEW op, InsertSession(p) \/ Begin(p, op) \/ Stop(p)
      PROVE  /\ row # "none" => row' # "none"
             /\ Over => Over'
             /\ past => past'
             /\ loggedOut => loggedOut'
  BY <1>2 DEF InsertSession, Begin, Stop, Over
<1>3. CASE DayEnds \/ Expire \/ UNCHANGED vars
  BY <1>3 DEF DayEnds, Expire, vars, Over
<1> QED
  BY <1>1, <1>2, <1>3 DEF Next

\* A request that does not move keeps its invariant.
LEMMA Frame ==
    ASSUME SessionInv, [Next]_vars, NEW q \in Requests, proc'[q] = proc[q]
    PROVE  RequestInv(q)'
<1>1. RequestInv(q)
  BY DEF SessionInv
<1>2. /\ row # "none" => row' # "none"
      /\ Over => Over'
      /\ past => past'
      /\ loggedOut => loggedOut'
  BY Forward
<1> QED
  BY <1>1, <1>2 DEF RequestInv

LEMMA IdleInv ==
    ASSUME NEW p \in Requests, proc'[p] = Idle
    PROVE  RequestInv(p)'
  BY DEF RequestInv, Idle

\* A request at another step, with the rest of it unchanged.
LEMMA Moved ==
    ASSUME TypeOK, NEW p \in Requests, NEW step, Goto(p, step)
    PROVE  /\ proc'[p].pc = step
           /\ proc'[p].afterEnd = proc[p].afterEnd
           /\ proc'[p].afterLogout = proc[p].afterLogout
           /\ proc'[p].handed = proc[p].handed
  BY DEF Goto, TypeOK, Locals

LEMMA Finished ==
    ASSUME TypeOK, NEW p \in Requests, Finish(p)
    PROVE  proc'[p] = Idle
  BY DEF Finish, TypeOK

LEMMA StepRequest ==
    ASSUME SessionInv, NEW p \in Requests, Step(p)
    PROVE  RequestInv(p)'
<1>0. RequestInv(p) /\ TypeOK /\ proc[p] \in Locals
  BY DEF SessionInv, TypeOK
<1>1. CASE CacheHit(p)
  <2>1. /\ proc'[p].pc \in {"granted", "user"}
        /\ proc'[p].afterEnd = proc[p].afterEnd
        /\ proc'[p].afterLogout = proc[p].afterLogout
        /\ proc'[p].handed = (cache.late \/ cache.missed)
    <3>1. Found(proc[p].op) \in {"granted", "user"}
      BY <1>0, FoundType DEF Locals
    <3>2. proc' = [proc EXCEPT ![p] = [proc[p] EXCEPT !.pc = Found(proc[p].op),
                                       !.handed = cache.late \/ cache.missed]]
      BY <1>1 DEF CacheHit
    <3>3. proc'[p] = [proc[p] EXCEPT !.pc = Found(proc[p].op),
                                     !.handed = cache.late \/ cache.missed]
      BY <3>2 DEF SessionInv, TypeOK
    <3> QED
      BY <1>0, <3>1, <3>3 DEF Locals
  <2>2. proc[p].afterLogout => cache.late \/ cache.missed
    BY <1>0, <1>1 DEF CacheHit, Valid, RequestInv, SessionInv, Marked
  <2>3. ~past /\ proc[p].pc = "get"
    BY <1>1 DEF CacheHit, Valid
  <2>4. row' = row /\ past' = past /\ loggedOut' = loggedOut
    BY <1>1 DEF CacheHit
  <2> QED
    BY <1>0, <2>1, <2>2, <2>3, <2>4 DEF RequestInv, Over
<1>2. CASE CacheMiss(p)
  BY <1>0, <1>2, Moved DEF CacheMiss, RequestInv, Over
<1>3. CASE Select(p)
  <2>1. proc[p].pc = "select" /\ row # "none" /\ UNCHANGED <<row, past, loggedOut>>
    BY <1>0, <1>3 DEF Select, RequestInv
  <2>2. CASE Finish(p)
    BY <1>0, <2>2, Finished, IdleInv
  <2>3. CASE Valid(row) /\ Goto(p, "store")
    <3>1. ~past /\ ~Over
      BY <2>3 DEF Valid, Over
    <3>2. ~proc[p].afterLogout /\ ~proc[p].afterEnd
      BY <1>0, <3>1 DEF RequestInv, SessionInv
    <3> QED
      BY <1>0, <2>1, <2>3, <3>2, Moved DEF RequestInv
  <2>4. CASE /\ row # "deleted" /\ ~Valid(row)
             /\ proc' = [proc EXCEPT ![p].pc = "delete", ![p].todo = {"row", "entry"}]
    <3>1. Over \/ past
      BY <1>0, <2>1, <2>4 DEF Valid, Over, TypeOK, Rows
    <3>2. proc'[p] = [proc[p] EXCEPT !.pc = "delete", !.todo = {"row", "entry"}]
      BY <1>0, <2>4 DEF TypeOK
    <3>3. /\ proc'[p].pc = "delete"
          /\ proc'[p].afterEnd = proc[p].afterEnd
          /\ proc'[p].afterLogout = proc[p].afterLogout
      BY <1>0, <3>2 DEF Locals
    <3> QED
      BY <1>0, <2>1, <3>1, <3>3 DEF RequestInv, Over
  <2> QED
    BY <1>3, <2>2, <2>3, <2>4 DEF Select
<1>4. CASE DeleteRow(p) \/ DeleteEntry(p)
  <2>1. PICK what \in {"row", "entry"} :
          proc' = [proc EXCEPT ![p].todo = @ \ {what}]
    BY <1>4 DEF DeleteRow, DeleteEntry
  <2>2. /\ proc'[p].pc = proc[p].pc
        /\ proc'[p].afterEnd = proc[p].afterEnd
        /\ proc'[p].afterLogout = proc[p].afterLogout
        /\ proc'[p].handed = proc[p].handed
    BY <1>0, <2>1 DEF TypeOK, Locals
  <2>3. /\ past' = past /\ loggedOut' = loggedOut
        /\ row' \in {row, "deleted"}
    BY <1>4 DEF DeleteRow, DeleteEntry
  <2> QED
    BY <1>0, <2>2, <2>3 DEF RequestInv, Over
<1>5. CASE Refuse(p) \/ Answer(p) \/ InvalidateEntry(p)
  BY <1>0, <1>5, Finished, IdleInv DEF Refuse, Answer, InvalidateEntry
<1>6. CASE Fill(p) \/ FindUser(p)
  <2>1. PICK step \in {"granted", "user"} : Goto(p, step)
    BY <1>0, <1>6, FoundType DEF Fill, FindUser, Locals
  <2>2. proc[p].pc \in {"store", "user"} /\ UNCHANGED <<row, past, loggedOut>>
    BY <1>6 DEF Fill, FindUser
  <2> QED
    BY <1>0, <2>1, <2>2, Moved DEF RequestInv, Over
<1>7. CASE Load(p)
  <2>1. CASE Finish(p)
    BY <1>0, <2>1, Finished, IdleInv
  <2>2. CASE Goto(p, "commit")
    BY <1>0, <1>7, <2>2, Moved DEF Load, RequestInv, Over
  <2> QED
    BY <1>7, <2>1, <2>2 DEF Load
<1>8. CASE RevokeRow(p)
  <2>1. CASE Finish(p)
    BY <1>0, <2>1, Finished, IdleInv
  <2>2. CASE row' = "revoked" /\ Goto(p, "invalidate")
    BY <1>0, <1>8, <2>2, Moved DEF RevokeRow, RequestInv, Over
  <2> QED
    BY <1>8, <2>1, <2>2 DEF RevokeRow
<1> QED
  BY <1>1, <1>2, <1>3, <1>4, <1>5, <1>6, <1>7, <1>8 DEF Step

\* Once the session is over, whatever is done to the copy leaves it marked.
LEMMA MissedMarked ==
    ASSUME TypeOK, Over
    PROVE  Missed = NoCopy \/ Missed.late \/ Missed.missed \/ Missed.copy # "open"
<1>1. CASE cache # NoCopy /\ Outdated(cache.copy)
  <2>1. cache \in Entries
    BY <1>1 DEF TypeOK
  <2> QED
    BY <1>1, <2>1 DEF Missed, Entries
<1>2. CASE cache = NoCopy
  BY <1>2 DEF Missed
<1>3. CASE cache # NoCopy /\ ~Outdated(cache.copy)
  BY <1>3 DEF Missed, Outdated, Over
<1> QED
  BY <1>1, <1>2, <1>3

LEMMA StaysMarked ==
    ASSUME SessionInv, [Next]_vars
    PROVE  loggedOut' => Over' /\ Marked'
<1> SUFFICES ASSUME loggedOut' PROVE Over' /\ Marked'
  OBVIOUS
<1>1. CASE loggedOut /\ cache' \in {cache, NoCopy, Missed}
  <2>1. Over /\ Marked /\ TypeOK
    BY <1>1 DEF SessionInv
  <2>2. Marked'
    BY <1>1, <2>1, MissedMarked DEF Marked
  <2> QED
    BY <2>1, <2>2, Forward
<1>2. ASSUME NEW p \in Requests, loggedOut, Fill(p)
      PROVE  Over' /\ Marked'
  <2>1. Over /\ Marked /\ row' = row
    BY <1>2 DEF SessionInv, Fill
  <2>2. proc[p].copy # "open" \/ Outdated(proc[p].copy)
    BY <2>1 DEF Outdated, Over
  <2>3. Marked'
    BY <1>2, <2>1, <2>2 DEF Fill, Marked
  <2> QED
    BY <2>1, <2>3 DEF Over
<1>3. ASSUME NEW p \in Requests, InvalidateEntry(p)
      PROVE  Over' /\ Marked'
  <2>1. Over /\ row' = row /\ TypeOK
    BY <1>3 DEF SessionInv, RequestInv, InvalidateEntry
  <2>2. Marked'
    BY <1>3, <2>1, MissedMarked DEF InvalidateEntry, Marked
  <2> QED
    BY <2>1, <2>2 DEF Over
<1>4. \/ loggedOut /\ cache' \in {cache, NoCopy, Missed}
      \/ \E p \in Requests : loggedOut /\ Fill(p)
      \/ \E p \in Requests : InvalidateEntry(p)
  <2>1. ASSUME NEW p \in Requests, Step(p), ~InvalidateEntry(p), ~Fill(p)
        PROVE  loggedOut /\ cache' \in {cache, NoCopy, Missed}
    BY <2>1 DEF Step, CacheHit, CacheMiss, Select, DeleteRow, DeleteEntry, Refuse,
                FindUser, Answer, Load, RevokeRow
  <2>2. ASSUME NEW p \in Requests, Fill(p)
        PROVE  loggedOut
    BY <2>2 DEF Fill
  <2>3. ASSUME NEW p \in Requests, NEW op, InsertSession(p) \/ Begin(p, op) \/ Stop(p)
        PROVE  loggedOut /\ cache' \in {cache, NoCopy, Missed}
    BY <2>3 DEF InsertSession, Begin, Stop
  <2>4. CASE DayEnds \/ Expire \/ UNCHANGED vars
    BY <2>4 DEF DayEnds, Expire, vars
  <2> QED
    BY <2>1, <2>2, <2>3, <2>4 DEF Next
<1> QED
  BY <1>1, <1>2, <1>3, <1>4

\* The client knows a session only when its row was committed.
LEMMA StaysKnown ==
    ASSUME SessionInv, [Next]_vars
    PROVE  known' => row' # "none"
<1>1. known' => known \/ \E p \in Requests : Answer(p)
  BY DEF Next, Step, CacheHit, CacheMiss, Select, DeleteRow, DeleteEntry, Refuse, Fill,
         FindUser, Load, RevokeRow, InvalidateEntry, InsertSession, Begin, Stop, DayEnds,
         Expire, vars
<1>2. (\E p \in Requests : Answer(p)) => row # "none"
  BY DEF Answer, SessionInv, RequestInv
<1> QED
  BY <1>1, <1>2, Forward DEF SessionInv

LEMMA SessionStep == SessionInv /\ [Next]_vars => SessionInv'
<1> SUFFICES ASSUME SessionInv, [Next]_vars, NEW q \in Requests
             PROVE  RequestInv(q)'
  BY TypeStep, StaysMarked, StaysKnown DEF SessionInv
<1>0. TypeOK
  BY DEF SessionInv
<1>1. ASSUME NEW p \in Requests, Step(p)
      PROVE  RequestInv(q)'
  <2>1. p # q => proc'[q] = proc[q]
    BY <1>0, <1>1 DEF Step, CacheHit, CacheMiss, Select, DeleteRow, DeleteEntry, Refuse,
         Fill, FindUser, Answer, Load, RevokeRow, InvalidateEntry, Goto, Finish, TypeOK
  <2> QED
    BY <1>1, <2>1, StepRequest, Frame
<1>2. ASSUME NEW p \in Requests, InsertSession(p)
      PROVE  RequestInv(q)'
  <2>1. CASE p = q
    <3>1. proc'[q] = [Idle EXCEPT !.op = "login", !.pc = "store"] /\ row' = "open"
      BY <1>0, <1>2, <2>1 DEF InsertSession, TypeOK
    <3>2. proc'[q].pc = "store" /\ ~proc'[q].afterEnd /\ ~proc'[q].afterLogout
      BY <3>1 DEF Idle
    <3> QED
      BY <3>1, <3>2 DEF RequestInv
  <2>2. CASE p # q
    <3>1. proc'[q] = proc[q]
      BY <1>0, <1>2, <2>2 DEF InsertSession, TypeOK
    <3> QED
      BY <3>1, Frame
  <2> QED
    BY <2>1, <2>2
<1>3. ASSUME NEW p \in Requests, NEW op \in Lookups \cup {"logout"}, Begin(p, op)
      PROVE  RequestInv(q)'
  <2> DEFINE first == IF op = "logout" THEN "load" ELSE "get"
  <2>1. CASE p = q
    <3>1. proc'[q] = [Idle EXCEPT !.op = op, !.pc = first, !.afterEnd = past,
                                  !.afterLogout = loggedOut]
      BY <1>0, <1>3, <2>1 DEF Begin, TypeOK
    <3>2. first \in {"load", "get"}
      OBVIOUS
    <3> HIDE DEF first
    <3>3. /\ proc'[q].pc = first /\ proc'[q].afterEnd = past
          /\ proc'[q].afterLogout = loggedOut
      BY <3>1 DEF Idle
    <3>4. row # "none" /\ UNCHANGED <<row, past, loggedOut>>
      BY <1>3 DEF Begin, SessionInv
    <3> QED
      BY <3>2, <3>3, <3>4 DEF RequestInv
  <2>2. CASE p # q
    <3>1. proc'[q] = proc[q]
      BY <1>0, <1>3, <2>2 DEF Begin, TypeOK
    <3> QED
      BY <3>1, Frame
  <2> QED
    BY <2>1, <2>2
<1>4. ASSUME NEW p \in Requests, Stop(p)
      PROVE  RequestInv(q)'
  <2>1. proc'[q] = Idle \/ proc'[q] = proc[q]
    BY <1>0, <1>4 DEF Stop, Finish, TypeOK
  <2> QED
    BY <2>1, IdleInv, Frame
<1>5. CASE DayEnds \/ Expire \/ UNCHANGED vars
  <2>1. proc'[q] = proc[q]
    BY <1>5 DEF DayEnds, Expire, vars
  <2> QED
    BY <2>1, Frame
<1> QED
  BY <1>1, <1>2, <1>3, <1>4, <1>5 DEF Next

LEMMA SessionInit == Init => SessionInv
  BY TypeInit DEF Init, SessionInv, RequestInv, Idle

\* A request that begins after a confirmed logout is granted only by a copy that
\* was stored too late or whose deletion was lost, for any number of requests.
THEOREM LogoutsAreFinal == Spec => []LogoutIsFinal
<1>1. SessionInv => LogoutIsFinal
  BY DEF SessionInv, RequestInv, LogoutIsFinal, Granted
<1> QED
  BY <1>1, SessionInit, SessionStep, PTL DEF Spec

\* No request that begins after the day of the session is granted.
THEOREM EndsAreFinal == Spec => []EndIsFinal
<1>1. SessionInv => EndIsFinal
  BY DEF SessionInv, RequestInv, EndIsFinal, Granted
<1> QED
  BY <1>1, SessionInit, SessionStep, PTL DEF Spec

\* Rows do not come back, and an open one is deleted only after its day.
THEOREM RowsDeletedForGood == Spec => DeletedForGood
<1>1. SessionInv /\ [Next]_vars =>
        [/\ row = "deleted" => row' = "deleted"
         /\ row = "revoked" => row' # "open"
         /\ row = "open" /\ row' = "deleted" => past]_vars
  <2> SUFFICES ASSUME SessionInv, [Next]_vars
               PROVE  /\ row = "deleted" => row' = "deleted"
                      /\ row = "revoked" => row' # "open"
                      /\ row = "open" /\ row' = "deleted" => past
    OBVIOUS
  <2>1. ASSUME NEW p \in Requests, DeleteRow(p)
        PROVE  (Over \/ past) /\ row' \in {row, "deleted"}
    BY <2>1 DEF DeleteRow, SessionInv, RequestInv
  <2>2. ASSUME NEW p \in Requests, RevokeRow(p)
        PROVE  IF row = "deleted" THEN row' = row ELSE row' = "revoked"
    BY <2>2 DEF RevokeRow
  <2>3. ASSUME NEW p \in Requests, InsertSession(p)
        PROVE  row = "none" /\ row' = "open"
    BY <2>3 DEF InsertSession
  <2>4. \/ row' = row
        \/ \E p \in Requests : DeleteRow(p) \/ RevokeRow(p) \/ InsertSession(p)
    BY DEF Next, Step, CacheHit, CacheMiss, Select, DeleteEntry, Refuse, Fill, FindUser,
           Answer, Load, InvalidateEntry, Begin, Stop, DayEnds, Expire, vars
  <2> QED
    BY <2>1, <2>2, <2>3, <2>4 DEF Over
<1> QED
  BY <1>1, SessionInit, SessionStep, PTL DEF Spec, DeletedForGood
-----------------------------------------------------------------------------
(* After a revocation *)

\* The session is over, Redis holds no copy of it, and no lookup in progress has
\* found it: neither to store it (a login does this too) nor to be granted.
Forgotten ==
    /\ Over
    /\ cache = NoCopy
    /\ \A p \in Requests :
         /\ proc[p].pc # "store"
         /\ proc[p].pc \in {"user", "granted"} => proc[p].op \notin Lookups

\* Each step of a request leaves it where it stores and grants nothing.
LEMMA ForgottenStep ==
    ASSUME TypeOK, Forgotten, NEW p \in Requests, Step(p)
    PROVE  /\ cache' = NoCopy
           /\ proc'[p].pc # "store"
           /\ proc'[p].pc \in {"user", "granted"} => proc'[p].op \notin Lookups
           /\ \A q \in Requests : q # p => proc'[q] = proc[q]
<1>1. Missed = NoCopy
  BY DEF Forgotten, Missed
<1>2. ~Valid(row)
  BY DEF Forgotten, Over, Valid
<1>3. \A step : Goto(p, step) =>
        /\ proc'[p].pc = step
        /\ proc'[p].op = proc[p].op
        /\ \A q \in Requests : q # p => proc'[q] = proc[q]
  BY DEF Goto, TypeOK, Locals
<1>4. Finish(p) =>
        /\ proc'[p].pc = "idle"
        /\ \A q \in Requests : q # p => proc'[q] = proc[q]
  BY DEF Finish, Idle, TypeOK
<1>5. ~CacheHit(p) /\ ~Fill(p)
  BY DEF Forgotten, CacheHit, Fill
<1>6. CASE CacheMiss(p) \/ Refuse(p) \/ Answer(p) \/ Load(p) \/ RevokeRow(p) \/ InvalidateEntry(p)
  BY <1>1, <1>3, <1>4, <1>6
  DEF Forgotten, CacheMiss, Refuse, Answer, Load, RevokeRow, InvalidateEntry
<1>7. CASE Select(p)
  <2>1. \/ Finish(p)
        \/ proc' = [proc EXCEPT ![p].pc = "delete", ![p].todo = {"row", "entry"}]
    BY <1>2, <1>7 DEF Select
  <2>2. ASSUME proc' = [proc EXCEPT ![p].pc = "delete", ![p].todo = {"row", "entry"}]
        PROVE  /\ proc'[p].pc = "delete"
               /\ \A q \in Requests : q # p => proc'[q] = proc[q]
    BY <2>2 DEF TypeOK, Locals
  <2>3. cache' = NoCopy
    BY <1>7 DEF Select, Forgotten
  <2> QED
    BY <2>1, <2>2, <2>3, <1>4
<1>8. CASE DeleteRow(p) \/ DeleteEntry(p)
  <2>1. \E x : proc' = [proc EXCEPT ![p].todo = @ \ {x}]
    BY <1>8 DEF DeleteRow, DeleteEntry
  <2>2. /\ proc'[p].pc = proc[p].pc
        /\ \A q \in Requests : q # p => proc'[q] = proc[q]
    BY <2>1 DEF TypeOK, Locals
  <2>3. proc[p].pc = "delete" /\ cache' = NoCopy
    BY <1>1, <1>8 DEF DeleteRow, DeleteEntry, Forgotten
  <2> QED
    BY <2>2, <2>3
<1>9. CASE FindUser(p)
  <2>1. proc[p].op \notin Lookups
    BY <1>9 DEF FindUser, Forgotten
  <2> QED
    BY <2>1, <1>3, <1>9 DEF FindUser, Forgotten
<1> QED
  BY <1>5, <1>6, <1>7, <1>8, <1>9 DEF Step

LEMMA ForgottenStays ==
    ASSUME SessionInv, Forgotten, [Next]_vars
    PROVE  Forgotten'
<1>0. TypeOK /\ Over'
  BY Forward DEF SessionInv, Forgotten
<1>1. ASSUME NEW p \in Requests, Step(p)
      PROVE  Forgotten'
  BY <1>0, <1>1, ForgottenStep DEF Forgotten
<1>2. ASSUME NEW p \in Requests, NEW op \in Lookups \cup {"logout"}, Begin(p, op)
      PROVE  Forgotten'
  <2>1. /\ proc'[p].pc \in {"load", "get"}
        /\ \A q \in Requests : q # p => proc'[q] = proc[q]
    BY <1>0, <1>2 DEF Begin, Idle, TypeOK
  <2> QED
    BY <1>0, <1>2, <2>1 DEF Begin, Forgotten
<1>3. ASSUME NEW p \in Requests, Stop(p)
      PROVE  Forgotten'
  <2>1. Missed = NoCopy
    BY DEF Forgotten, Missed
  <2>2. /\ proc'[p].pc = "idle"
        /\ \A q \in Requests : q # p => proc'[q] = proc[q]
    BY <1>0, <1>3 DEF Stop, Finish, Idle, TypeOK
  <2>3. cache' = NoCopy
    BY <1>3, <2>1 DEF Stop, Forgotten
  <2> QED
    BY <1>0, <2>2, <2>3 DEF Forgotten
<1>4. CASE DayEnds \/ Expire \/ UNCHANGED vars
  BY <1>0, <1>4 DEF DayEnds, Expire, vars, Forgotten
<1>5. \A p \in Requests : ~InsertSession(p)
  BY DEF InsertSession, Forgotten, Over
<1> QED
  BY <1>1, <1>2, <1>3, <1>4, <1>5 DEF Next

\* Once a revoked or deleted session is gone from Redis and from the requests in
\* progress, no request is ever granted again, whatever is asked for and however
\* Redis fails: the safety half of RevokedEventuallyRefused.
THEOREM RefusedForEver ==
    Spec => [](Forgotten => [](Forgotten /\ \A p \in Requests : ~Granted(p)))
<1>1. SessionInv /\ Forgotten /\ [Next]_vars => Forgotten'
  BY ForgottenStays
<1>2. Forgotten => \A p \in Requests : ~Granted(p)
  BY DEF Forgotten, Granted
<1>3. Spec => []SessionInv
  BY SessionInit, SessionStep, PTL DEF Spec
<1> QED
  BY <1>1, <1>2, <1>3, PTL DEF Spec
=============================================================================
