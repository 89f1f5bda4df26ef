----------------------------- MODULE RateLimiter -----------------------------
(***************************************************************************)
(* The rate limit of one client (services/rate_limiter_service.py): a Redis*)
(* counter under the client's key. Every post INCRs it; the post that finds*)
(* it created it sends a second command, EXPIRE, that opens the window; a  *)
(* count above the maximum refuses the post; an error of Redis lets it pass*)
(* (fail-open). Redis deletes the key when its window ends.                *)
(*                                                                         *)
(* Posts of one client run concurrently, and each may stall or stop between*)
(* two steps. Time is counted in ticks, relative to now: the model needs no*)
(* clock. The counter survives Redis (appendonly).                         *)
(***************************************************************************)
EXTENDS Naturals, FiniteSets

CONSTANTS Posts,      \* concurrent posts of the client
          Maximum,    \* RATE_LIMIT_MESSAGES_PER_MINUTE
          Window,     \* RATE_LIMIT_WINDOW_SECONDS, in ticks
          MaxCount    \* bound: INCRs of one life of the key

ASSUME LimiterAssumption ==
    /\ IsFiniteSet(Posts)
    /\ Maximum \in Nat \ {0}
    /\ Window \in Nat \ {0}
    /\ MaxCount \in Nat /\ MaxCount > Maximum

VARIABLES
    count,      \* the counter, 0 when there is no key
    ttl,        \* ticks until the key expires, 0 when it never does
    post,       \* the posts: step, count they were answered, age of that INCR
    admitted,   \* ghost: posts the counter let pass, by age of their INCR
    fate        \* ghost: "orphaned" when the EXPIRE of the present key was lost

vars == <<count, ttl, post, admitted, fate>>

Ages == 0 .. Window - 1

PostStates == [pc : {"idle", "expire", "decide"},
               count : 0 .. MaxCount,
               age : 0 .. Window]

Idle == [pc |-> "idle", count |-> 0, age |-> 0]

TypeOK ==
    /\ count \in 0 .. MaxCount
    /\ ttl \in 0 .. Window
    /\ post \in [Posts -> PostStates]
    /\ admitted \in [Ages -> Nat]
    /\ fate \in {"regular", "orphaned"}

Init ==
    /\ count = 0
    /\ ttl = 0
    /\ post = [p \in Posts |-> Idle]
    /\ admitted = [a \in Ages |-> 0]
    /\ fate = "regular"
-----------------------------------------------------------------------------
(* The check, one action per command or outcome *)

\* Mutant: the first two posts of a window both think they opened it.
CreatesOrSecond(n) == n <= 2

\* Mutant: the count is compared with 0, as if INCR answered the old value.
CreatesAtZero(n) == n = 0

\* The post whose INCR created the key, told by the answer, has to EXPIRE it.
Creates(n) == n = 1

\* INCR, answered. An INCR that never reaches Redis changes nothing.
Incr(p) ==
    /\ post[p].pc = "idle"
    /\ count < MaxCount
    /\ count' = count + 1
    /\ post' = [post EXCEPT ![p] = [pc |-> IF Creates(count + 1) THEN "expire" ELSE "decide",
                                    count |-> count + 1,
                                    age |-> 0]]
    /\ UNCHANGED <<ttl, admitted, fate>>

\* INCR, its answer lost: the post passes, nobody expires a key it created.
IncrUnanswered(p) ==
    /\ post[p].pc = "idle"
    /\ count < MaxCount
    /\ count' = count + 1
    /\ IF count = 0 THEN fate' = "orphaned" ELSE UNCHANGED fate
    /\ UNCHANGED <<ttl, post, admitted>>

\* Mutant: the window is given in another unit than EXPIRE takes.
ExpireInMillis(p) ==
    /\ post[p].pc = "expire"
    /\ ttl' = Window * 1000
    /\ post' = [post EXCEPT ![p].pc = "decide"]
    /\ UNCHANGED <<count, admitted, fate>>

Expire(p) ==
    /\ post[p].pc = "expire"
    /\ ttl' = Window
    /\ post' = [post EXCEPT ![p].pc = "decide"]
    /\ UNCHANGED <<count, admitted, fate>>

\* An admitted post counts at the time of its INCR.
Admit(p) ==
    admitted' = [a \in Ages |-> admitted[a] + (IF a = post[p].age THEN 1 ELSE 0)]

\* EXPIRE, not answered: it was executed or not, and the post passes.
ExpireUnanswered(p) ==
    /\ post[p].pc = "expire"
    /\ \/ ttl' = Window /\ UNCHANGED fate
       \/ UNCHANGED ttl /\ fate' = "orphaned"
    /\ Admit(p)
    /\ post' = [post EXCEPT ![p] = Idle]
    /\ UNCHANGED count

\* Mutant: the count before the INCR is compared.
DecideOnOldCount(p) ==
    /\ post[p].pc = "decide"
    /\ IF post[p].count - 1 > Maximum THEN UNCHANGED admitted ELSE Admit(p)
    /\ post' = [post EXCEPT ![p] = Idle]
    /\ UNCHANGED <<count, ttl, fate>>

\* Refused above the maximum.
Decide(p) ==
    /\ post[p].pc = "decide"
    /\ IF post[p].count > Maximum THEN UNCHANGED admitted ELSE Admit(p)
    /\ post' = [post EXCEPT ![p] = Idle]
    /\ UNCHANGED <<count, ttl, fate>>

\* The request is cancelled, or its process stops, between two commands.
Stop(p) ==
    /\ post[p].pc # "idle"
    /\ IF post[p].pc = "expire" THEN fate' = "orphaned" ELSE UNCHANGED fate
    /\ post' = [post EXCEPT ![p] = Idle]
    /\ UNCHANGED <<count, ttl, admitted>>

Older(x) == IF x.pc = "idle" \/ x.age = Window THEN x ELSE [x EXCEPT !.age = @ + 1]

\* A tick passes; Redis deletes the key when its time is up.
Tick ==
    /\ IF ttl = 0 THEN UNCHANGED ttl ELSE ttl' = ttl - 1
    /\ IF ttl = 1 THEN count' = 0 /\ fate' = "regular" ELSE UNCHANGED <<count, fate>>
    /\ post' = [p \in Posts |-> Older(post[p])]
    /\ admitted' = [a \in Ages |-> IF a = 0 THEN 0 ELSE admitted[a - 1]]

Check(p) == Expire(p) \/ ExpireUnanswered(p) \/ Decide(p) \/ Stop(p)

Next ==
    \/ \E p \in Posts : Incr(p) \/ IncrUnanswered(p) \/ Check(p)
    \/ Tick

Spec == Init /\ [][Next]_vars

\* Time passes, and a check that began ends, one way or another. No client is
\* bound to post.
FairSpec == Spec /\ WF_vars(Tick) /\ \A p \in Posts : WF_vars(Check(p))
-----------------------------------------------------------------------------
(* Properties *)

Orphaned == fate = "orphaned"

\* A key without an end is about to get one from the post that created it, and
\* from that post only, or its EXPIRE was lost.
TtlIsExplained ==
    (count > 0 /\ ttl = 0) =>
        (Orphaned \/ \E p \in Posts : post[p].pc = "expire" /\ post[p].count = 1)

\* A window once open is never prolonged: the late EXPIRE of a slow post never
\* reaches the window of another one.
WindowNeverProlonged == [][ttl > 0 => ttl' <= ttl]_vars

\* The admitted posts of the ages from lo to hi - 1, numbered within their age.
AdmittedPosts(lo, hi) == UNION {{a} \X (1 .. admitted[a]) : a \in lo .. hi - 1}

\* Over any Window ticks the counter admits at most twice the maximum, in
\* whatever order the posts of two neighbouring windows are answered.
AtMostTwoWindows == Cardinality(AdmittedPosts(0, Window)) <= 2 * Maximum

\* A refused client that waits is admitted again, unless an EXPIRE was lost.
Blocked == count >= Maximum

BlockedRecovers == (Blocked /\ ~Orphaned) ~> (~Blocked \/ Orphaned)

\* "Veuillez attendre avant d'envoyer d'autres messages": waiting is enough.
WaitingIsEnough == Blocked ~> ~Blocked
=============================================================================
