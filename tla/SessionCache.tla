----------------------------- MODULE SessionCache -----------------------------
(***************************************************************************)
(* One user session: its row, the copy of it in Redis, and the requests    *)
(* that create it (login), look it up (every route that needs a user, and  *)
(* the renewal of the access token) and revoke it (logout).                *)
(* services/auth_service.py, services/session_service.py,                  *)
(* repositories/session_repository.py, cache/session_cache.py,             *)
(* auth/dependencies.py.                                                   *)
(*                                                                         *)
(* A session ends after a day, or when its row is given the present time   *)
(* as its end (revoked). A lookup that finds it ended deletes the row.     *)
(***************************************************************************)
CONSTANTS Requests,    \* requests in progress at a time
          NoCopy       \* no copy in Redis

VARIABLES
    row,        \* the row
    past,       \* the day of the session is over
    cache,      \* the copy in Redis, or NoCopy
    known,      \* the client has the tokens that name the session
    loggedOut,  \* a logout was confirmed
    proc        \* [Requests -> the request]

vars == <<row, past, cache, known, loggedOut, proc>>

Rows == {"none", "open", "revoked", "deleted"}
Copies == {"open", "revoked"}

\* late and missed (ghosts): the session was revoked or gone when the copy was
\* stored; a deletion of the copy was lost when it was.
Entries == [copy : Copies, late : BOOLEAN, missed : BOOLEAN]

ASSUME SessionAssumption == NoCopy \notin Entries

Lookups == {"me", "refresh"}
Ops == Lookups \cup {"login", "logout"}

Steps == {"idle", "get", "select", "delete", "store", "user", "granted",
          "load", "commit", "invalidate"}

\* todo: the deletions of an ended session that are under way. Ghosts: afterEnd
\* and afterLogout say what had happened when the request began; handed, that a
\* copy with a mark was accepted.
Locals == [op : Ops, pc : Steps, copy : Copies, todo : SUBSET {"row", "entry"},
           afterEnd : BOOLEAN, afterLogout : BOOLEAN, handed : BOOLEAN]

Idle == [op |-> "login", pc |-> "idle", copy |-> "open", todo |-> {},
         afterEnd |-> FALSE, afterLogout |-> FALSE, handed |-> FALSE]

TypeOK ==
    /\ row \in Rows
    /\ past \in BOOLEAN
    /\ cache \in Entries \cup {NoCopy}
    /\ known \in BOOLEAN
    /\ loggedOut \in BOOLEAN
    /\ proc \in [Requests -> Locals]

Init ==
    /\ row = "none"
    /\ past = FALSE
    /\ cache = NoCopy
    /\ known = FALSE
    /\ loggedOut = FALSE
    /\ proc = [p \in Requests |-> Idle]
-----------------------------------------------------------------------------
\* Mutant: the clock is forgotten.
ValidNoClock(copy) == copy = "open"

\* A row or copy says that the session is not over.
Valid(copy) == copy = "open" /\ ~past

Outdated(copy) == copy = "open" /\ row # "open"

\* The copy after a deletion of it was lost.
Missed ==
    IF cache # NoCopy /\ Outdated(cache.copy) THEN [cache EXCEPT !.missed = TRUE]
                                              ELSE cache

Goto(p, step) == proc' = [proc EXCEPT ![p].pc = step]
Finish(p) == proc' = [proc EXCEPT ![p] = Idle]

\* Where a request goes with the session it found.
Found(op) == IF op = "refresh" THEN "granted" ELSE "user"
-----------------------------------------------------------------------------
(* Login *)

\* The user and the password were right: the session commits.
InsertSession(p) ==
    /\ proc[p].pc = "idle"
    /\ row = "none"
    /\ row' = "open"
    /\ proc' = [proc EXCEPT ![p] = [Idle EXCEPT !.op = "login", !.pc = "store"]]
    /\ UNCHANGED <<past, cache, known, loggedOut>>
-----------------------------------------------------------------------------
(* Lookup *)

Begin(p, op) ==
    /\ proc[p].pc = "idle"
    /\ known
    /\ proc' = [proc EXCEPT ![p] =
                  [Idle EXCEPT !.op = op,
                               !.pc = IF op = "logout" THEN "load" ELSE "get",
                               !.afterEnd = past,
                               !.afterLogout = loggedOut]]
    /\ UNCHANGED <<row, past, cache, known, loggedOut>>

CacheHit(p) ==
    /\ proc[p].pc = "get"
    /\ cache # NoCopy
    /\ Valid(cache.copy)
    /\ proc' = [proc EXCEPT ![p].pc = Found(proc[p].op),
                            ![p].handed = cache.late \/ cache.missed]
    /\ UNCHANGED <<row, past, cache, known, loggedOut>>

\* Nothing there, a copy of an ended session, or an error of Redis.
CacheMiss(p) ==
    /\ proc[p].pc = "get"
    /\ Goto(p, "select")
    /\ UNCHANGED <<row, past, cache, known, loggedOut>>

Select(p) ==
    /\ proc[p].pc = "select"
    /\ \/ row = "deleted" /\ Finish(p)
       \/ row # "deleted" /\ Valid(row) /\ Goto(p, "store")
       \/ row # "deleted" /\ ~Valid(row)
          /\ proc' = [proc EXCEPT ![p].pc = "delete", ![p].todo = {"row", "entry"}]
    /\ UNCHANGED <<row, past, cache, known, loggedOut>>

\* The row and the entry of an ended session are deleted at the same time; errors
\* of either are logged.
DeleteRow(p) ==
    /\ proc[p].pc = "delete"
    /\ "row" \in proc[p].todo
    /\ row' \in {row, "deleted"}
    /\ proc' = [proc EXCEPT ![p].todo = @ \ {"row"}]
    /\ UNCHANGED <<past, cache, known, loggedOut>>

DeleteEntry(p) ==
    /\ proc[p].pc = "delete"
    /\ "entry" \in proc[p].todo
    /\ cache' \in {NoCopy, Missed}
    /\ proc' = [proc EXCEPT ![p].todo = @ \ {"entry"}]
    /\ UNCHANGED <<row, past, known, loggedOut>>

Refuse(p) ==
    /\ proc[p].pc = "delete"
    /\ proc[p].todo = {}
    /\ Finish(p)
    /\ UNCHANGED <<row, past, cache, known, loggedOut>>

\* Mutant: what is stored is the row of this moment.
FillFromRow(p) ==
    /\ proc[p].pc = "store"
    /\ cache' \in {cache, [copy |-> row, late |-> Outdated(row), missed |-> FALSE]}
    /\ Goto(p, Found(proc[p].op))
    /\ UNCHANGED <<row, past, known, loggedOut>>

\* A session that was found open, or was just created, is stored; errors of Redis
\* are logged.
Fill(p) ==
    /\ proc[p].pc = "store"
    /\ cache' \in {cache, [copy |-> proc[p].copy, late |-> Outdated(proc[p].copy),
                           missed |-> FALSE]}
    /\ Goto(p, Found(proc[p].op))
    /\ UNCHANGED <<row, past, known, loggedOut>>

\* The user of the session is read, or stored in Redis (login).
FindUser(p) ==
    /\ proc[p].pc = "user"
    /\ Goto(p, "granted")
    /\ UNCHANGED <<row, past, cache, known, loggedOut>>

\* The answer reaches the client; that of a login carries the tokens.
Answer(p) ==
    /\ proc[p].pc = "granted"
    /\ known' = (known \/ proc[p].op = "login")
    /\ Finish(p)
    /\ UNCHANGED <<row, past, cache, loggedOut>>
-----------------------------------------------------------------------------
(* Logout *)

Load(p) ==
    /\ proc[p].pc = "load"
    /\ IF row = "deleted" THEN Finish(p) ELSE Goto(p, "commit")
    /\ UNCHANGED <<row, past, cache, known, loggedOut>>

\* Mutant: a row deleted meanwhile is inserted again.
RevokeMerges(p) ==
    /\ proc[p].pc = "commit"
    /\ row' = "revoked"
    /\ Goto(p, "invalidate")
    /\ UNCHANGED <<past, cache, known, loggedOut>>

\* An UPDATE that finds no row any more is an error.
RevokeRow(p) ==
    /\ proc[p].pc = "commit"
    /\ \/ row # "deleted" /\ row' = "revoked" /\ Goto(p, "invalidate")
       \/ row = "deleted" /\ Finish(p) /\ UNCHANGED row
    /\ UNCHANGED <<past, cache, known, loggedOut>>

\* Mutant: the entry is left to its TTL.
ConfirmOnly(p) ==
    /\ proc[p].pc = "invalidate"
    /\ loggedOut' = TRUE
    /\ Finish(p)
    /\ UNCHANGED <<row, past, cache, known>>

\* The entry is deleted, or an error of Redis is logged; either way the logout is
\* confirmed and the cookies are taken back.
InvalidateEntry(p) ==
    /\ proc[p].pc = "invalidate"
    /\ cache' \in {NoCopy, Missed}
    /\ loggedOut' = TRUE
    /\ Finish(p)
    /\ UNCHANGED <<row, past, known>>
-----------------------------------------------------------------------------
\* The client leaves, the process ends, or an error of the database ends the
\* request: what it still had to delete from Redis stays there.
Stop(p) ==
    /\ proc[p].pc # "idle"
    /\ cache' = IF proc[p].pc = "invalidate" \/ "entry" \in proc[p].todo
                  THEN Missed ELSE cache
    /\ Finish(p)
    /\ UNCHANGED <<row, past, known, loggedOut>>

DayEnds ==
    /\ row # "none"
    /\ ~past
    /\ past' = TRUE
    /\ UNCHANGED <<row, cache, known, loggedOut, proc>>

\* Mutant: the TTL of the entry is the day of the session.
ExpireWithDay ==
    /\ cache # NoCopy
    /\ past
    /\ cache' = NoCopy
    /\ UNCHANGED <<row, past, known, loggedOut, proc>>

\* The twenty minutes of the entry end.
Expire ==
    /\ cache # NoCopy
    /\ cache' = NoCopy
    /\ UNCHANGED <<row, past, known, loggedOut, proc>>

Step(p) ==
    \/ CacheHit(p) \/ CacheMiss(p) \/ Select(p)
    \/ DeleteRow(p) \/ DeleteEntry(p) \/ Refuse(p)
    \/ Fill(p) \/ FindUser(p) \/ Answer(p)
    \/ Load(p) \/ RevokeRow(p) \/ InvalidateEntry(p)

Next ==
    \/ \E p \in Requests :
         \/ InsertSession(p)
         \/ \E op \in Lookups \cup {"logout"} : Begin(p, op)
         \/ Step(p)
         \/ Stop(p)
    \/ DayEnds
    \/ Expire

Spec == Init /\ [][Next]_vars

\* A request that began goes on, and every entry has a TTL: what is outdated is
\* gone one day. Nothing makes a client begin, and no session need end.
Fairness ==
    /\ \A p \in Requests : WF_vars(Step(p))
    /\ WF_vars(Expire /\ Outdated(cache.copy))

FairSpec == Spec /\ Fairness
-----------------------------------------------------------------------------
(* Properties *)

Granted(p) == proc[p].pc = "granted" /\ proc[p].op \in Lookups

\* A request that begins after a logout was confirmed is refused, unless Redis
\* hands it a copy that was stored after the revocation or whose deletion was
\* lost. No copy from before the logout survives it otherwise, whatever lookups,
\* logouts and deletions of the row run together.
LogoutIsFinal ==
    \A p \in Requests : Granted(p) /\ proc[p].afterLogout => proc[p].handed

\* A request that begins after the day of the session is refused, whether it
\* finds the row or a copy of any age, and whatever was stored meanwhile.
EndIsFinal ==
    \A p \in Requests : Granted(p) => ~proc[p].afterEnd

\* Lookups and logouts that race each other never bring a row back, and an open
\* session is only deleted after its day.
DeletedForGood ==
    [][/\ row = "deleted" => row' = "deleted"
       /\ row = "revoked" => row' # "open"
       /\ row = "open" /\ row' = "deleted" => past]_vars

\* After a revocation there comes a time from which on all requests are refused.
RevokedEventuallyRefused ==
    row = "revoked" ~> [](cache = NoCopy /\ \A p \in Requests : ~Granted(p))
=============================================================================
