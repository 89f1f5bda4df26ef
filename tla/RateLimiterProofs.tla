-------------------------- MODULE RateLimiterProofs --------------------------
(***************************************************************************)
(* Theorems about RateLimiter, for every number of posts, maximum and      *)
(* window.                                                                 *)
(***************************************************************************)
EXTENDS RateLimiter, FiniteSetTheorems, TLAPS

Opening(p) == post[p].pc = "expire"

\* Only the post that created the key opens its window, which is not open yet.
OneOpener ==
    /\ \A p \in Posts : Opening(p) => post[p].count = 1 /\ ttl = 0 /\ count > 0
    /\ \A p, q \in Posts : Opening(p) /\ Opening(q) => p = q
    /\ ttl > 0 => count > 0
    /\ Orphaned => count > 0 /\ ttl = 0 /\ \A p \in Posts : ~Opening(p)

IndInv == TypeOK /\ OneOpener /\ TtlIsExplained

LEMMA IdleType == Idle \in PostStates
  BY LimiterAssumption DEF Idle, PostStates

LEMMA IndInit == Init => IndInv
<1> SUFFICES ASSUME Init PROVE IndInv
  OBVIOUS
<1>1. TypeOK
  BY LimiterAssumption, IdleType DEF Init, TypeOK
<1>2. \A p \in Posts : ~Opening(p)
  BY DEF Init, Opening, Idle
<1>3. OneOpener /\ TtlIsExplained
  BY <1>2 DEF Init, OneOpener, Orphaned, TtlIsExplained
<1> QED
  BY <1>1, <1>3 DEF IndInv

LEMMA AdmitType ==
    ASSUME TypeOK, NEW p \in Posts, Admit(p)
    PROVE  admitted' \in [Ages -> Nat]
  BY DEF TypeOK, Admit

LEMMA TypeStep == TypeOK /\ OneOpener /\ [Next]_vars => TypeOK'
<1> SUFFICES ASSUME TypeOK, OneOpener, [Next]_vars
             PROVE  TypeOK'
  OBVIOUS
<1> USE LimiterAssumption
<1>1. ASSUME NEW p \in Posts, Incr(p)
      PROVE  TypeOK'
  <2>1. count' \in 0 .. MaxCount /\ count + 1 \in 0 .. MaxCount
    BY <1>1 DEF Incr, TypeOK
  <2>2. [pc |-> IF Creates(count + 1) THEN "expire" ELSE "decide",
         count |-> count + 1, age |-> 0] \in PostStates
    BY <2>1 DEF PostStates
  <2> QED
    BY <1>1, <2>1, <2>2 DEF Incr, TypeOK
<1>2. ASSUME NEW p \in Posts, IncrUnanswered(p)
      PROVE  TypeOK'
  BY <1>2 DEF IncrUnanswered, TypeOK
<1>3. ASSUME NEW p \in Posts, Expire(p)
      PROVE  TypeOK'
  <2>1. [post[p] EXCEPT !.pc = "decide"] \in PostStates
    BY DEF TypeOK, PostStates
  <2> QED
    BY <1>3, <2>1 DEF Expire, TypeOK
<1>4. ASSUME NEW p \in Posts, ExpireUnanswered(p)
      PROVE  TypeOK'
  BY <1>4, AdmitType, IdleType DEF ExpireUnanswered, TypeOK
<1>5. ASSUME NEW p \in Posts, Decide(p)
      PROVE  TypeOK'
  <2>1. admitted' \in [Ages -> Nat]
    BY <1>5, AdmitType DEF Decide, TypeOK
  <2> QED
    BY <1>5, <2>1, IdleType DEF Decide, TypeOK
<1>6. ASSUME NEW p \in Posts, Stop(p)
      PROVE  TypeOK'
  BY <1>6, IdleType DEF Stop, TypeOK
<1>7. CASE Tick
  <2>1. count' \in 0 .. MaxCount /\ ttl' \in 0 .. Window /\ fate' \in {"regular", "orphaned"}
    BY <1>7 DEF Tick, TypeOK
  <2>2. post' \in [Posts -> PostStates]
    <3>1. \A p \in Posts : Older(post[p]) \in PostStates
      <4> SUFFICES ASSUME NEW x \in PostStates, x.age # Window
                   PROVE  [x EXCEPT !.age = @ + 1] \in PostStates
        BY DEF Older, TypeOK
      <4> QED
        BY DEF PostStates
    <3> QED
      BY <1>7, <3>1 DEF Tick
  <2>3. admitted' \in [Ages -> Nat]
    <3> SUFFICES ASSUME NEW a \in Ages
                 PROVE  (IF a = 0 THEN 0 ELSE admitted[a - 1]) \in Nat
      BY <1>7 DEF Tick
    <3>1. a # 0 => a - 1 \in Ages
      BY DEF Ages
    <3> QED
      BY <3>1 DEF TypeOK
  <2> QED
    BY <2>1, <2>2, <2>3 DEF TypeOK
<1>8. CASE UNCHANGED vars
  BY <1>8 DEF vars, TypeOK
<1> QED
  BY <1>1, <1>2, <1>3, <1>4, <1>5, <1>6, <1>7, <1>8 DEF Next, Check

\* A check that ends without opening the window.
LEMMA EndFrame ==
    ASSUME TypeOK, NEW p \in Posts, post' = [post EXCEPT ![p] = Idle]
    PROVE  /\ \A q \in Posts : q # p => post'[q] = post[q]
           /\ ~Opening(p)'
           /\ \A q \in Posts : Opening(q)' => Opening(q) /\ q # p
  BY DEF TypeOK, Opening, Idle

LEMMA OpenerStep == IndInv /\ [Next]_vars => OneOpener' /\ TtlIsExplained'
<1> SUFFICES ASSUME IndInv, [Next]_vars
             PROVE  OneOpener' /\ TtlIsExplained'
  OBVIOUS
<1> USE LimiterAssumption DEF IndInv
<1>1. ASSUME NEW p \in Posts, Incr(p)
      PROVE  OneOpener' /\ TtlIsExplained'
  <2>1. /\ \A q \in Posts : q # p => post'[q] = post[q]
        /\ Opening(p)' <=> count = 0
        /\ post'[p].count = count + 1
        /\ ~Opening(p) /\ count' = count + 1
        /\ UNCHANGED <<ttl, fate>>
    BY <1>1 DEF Incr, Creates, TypeOK, Opening
  <2>2. \A q \in Posts : Opening(q) => Opening(q)'
    BY <2>1 DEF Opening
  <2>3. \A q \in Posts : Opening(q)' => Opening(q) \/ (q = p /\ count = 0)
    BY <2>1 DEF Opening
  <2>4. OneOpener'
    BY <2>1, <2>3 DEF OneOpener, Orphaned, TypeOK
  <2>5. TtlIsExplained'
    BY <2>1, <2>2 DEF TtlIsExplained, Orphaned, OneOpener, Opening, TypeOK
  <2> QED
    BY <2>4, <2>5
<1>2. ASSUME NEW p \in Posts, IncrUnanswered(p)
      PROVE  OneOpener' /\ TtlIsExplained'
  <2>1. OneOpener'
    BY <1>2 DEF IncrUnanswered, OneOpener, Orphaned, Opening, TypeOK
  <2>2. TtlIsExplained'
    BY <1>2 DEF IncrUnanswered, TtlIsExplained, Orphaned, OneOpener, TypeOK
  <2> QED
    BY <2>1, <2>2
<1>3. ASSUME NEW p \in Posts, Expire(p)
      PROVE  OneOpener' /\ TtlIsExplained'
  <2>1. /\ \A q \in Posts : q # p => post'[q] = post[q]
        /\ ~Opening(p)' /\ Opening(p)
        /\ ttl' = Window /\ UNCHANGED <<count, fate>>
    BY <1>3 DEF Expire, TypeOK, Opening
  <2>2. \A q \in Posts : ~Opening(q)'
    BY <2>1 DEF OneOpener, Orphaned, Opening
  <2> QED
    BY <2>1, <2>2 DEF OneOpener, Orphaned, TtlIsExplained
<1>4. ASSUME NEW p \in Posts, ExpireUnanswered(p)
      PROVE  OneOpener' /\ TtlIsExplained'
  <2>1. /\ post' = [post EXCEPT ![p] = Idle] /\ Opening(p) /\ count' = count
        /\ (ttl' = Window /\ fate' = fate) \/ (ttl' = ttl /\ fate' = "orphaned")
    BY <1>4 DEF ExpireUnanswered, Opening
  <2>2. \A q \in Posts : ~Opening(q)'
    BY <2>1, EndFrame DEF OneOpener, Orphaned
  <2> QED
    BY <2>1, <2>2 DEF OneOpener, Orphaned, TtlIsExplained
<1>5. ASSUME NEW p \in Posts, Decide(p)
      PROVE  OneOpener' /\ TtlIsExplained'
  <2>1. /\ post' = [post EXCEPT ![p] = Idle] /\ ~Opening(p)
        /\ UNCHANGED <<count, ttl, fate>>
    BY <1>5 DEF Decide, Opening
  <2>2. \A q \in Posts : Opening(q)' <=> Opening(q)
    BY <2>1, EndFrame DEF Opening
  <2>3. \A q \in Posts : Opening(q) => post'[q] = post[q]
    BY <2>1, EndFrame
  <2>4. OneOpener'
    BY <2>1, <2>2, <2>3 DEF OneOpener, Orphaned
  <2>5. TtlIsExplained'
    BY <2>1, <2>3 DEF TtlIsExplained, Orphaned, Opening
  <2> QED
    BY <2>4, <2>5
<1>6. ASSUME NEW p \in Posts, Stop(p)
      PROVE  OneOpener' /\ TtlIsExplained'
  <2>1. /\ post' = [post EXCEPT ![p] = Idle]
        /\ IF Opening(p) THEN fate' = "orphaned" ELSE fate' = fate
        /\ UNCHANGED <<count, ttl>>
    BY <1>6 DEF Stop, Opening
  <2>2. \A q \in Posts : Opening(q)' => Opening(q) /\ q # p /\ post'[q] = post[q]
    BY <2>1, EndFrame
  <2>3. \A q \in Posts : Opening(q) /\ q # p => post'[q] = post[q]
    BY <2>1, EndFrame
  <2>4. OneOpener'
    BY <2>1, <2>2 DEF OneOpener, Orphaned
  <2>5. TtlIsExplained'
    BY <2>1, <2>3 DEF TtlIsExplained, Orphaned, Opening
  <2> QED
    BY <2>4, <2>5
<1>7. CASE Tick
  <2>1. \A q \in Posts : post'[q].pc = post[q].pc /\ post'[q].count = post[q].count
    BY <1>7 DEF Tick, Older, TypeOK, PostStates
  <2>2. CASE ttl = 1
    <3>1. count' = 0 /\ ttl' = 0 /\ fate' = "regular"
      BY <1>7, <2>2 DEF Tick
    <3>2. \A q \in Posts : ~Opening(q)'
      BY <2>1, <2>2 DEF OneOpener, Orphaned, Opening
    <3> QED
      BY <3>1, <3>2 DEF OneOpener, Orphaned, TtlIsExplained
  <2>3. CASE ttl # 1
    <3>1. /\ UNCHANGED <<count, fate>>
          /\ ttl' = 0 <=> ttl = 0
          /\ ttl' \in Nat /\ ttl \in Nat
      BY <1>7, <2>3 DEF Tick, TypeOK
    <3>2. OneOpener'
      BY <2>1, <3>1 DEF OneOpener, Orphaned, Opening
    <3>3. TtlIsExplained'
      BY <2>1, <3>1 DEF TtlIsExplained, Orphaned
    <3> QED
      BY <3>2, <3>3
  <2> QED
    BY <2>2, <2>3
<1>8. CASE UNCHANGED vars
  BY <1>8 DEF vars, OneOpener, TtlIsExplained, Orphaned, Opening
<1> QED
  BY <1>1, <1>2, <1>3, <1>4, <1>5, <1>6, <1>7, <1>8 DEF Next, Check

LEMMA Inductive == Spec => []IndInv
<1>1. IndInv /\ [Next]_vars => IndInv'
  BY TypeStep, OpenerStep DEF IndInv
<1> QED
  BY <1>1, IndInit, PTL DEF Spec

\* The counter, its window and the checks keep their types.
THEOREM TypeCorrect == Spec => []TypeOK
<1>1. IndInv => TypeOK
  BY DEF IndInv
<1> QED
  BY <1>1, Inductive, PTL

\* check_message_rate_limit leaves a key without an end only by losing EXPIRE.
THEOREM TtlExplained == Spec => []TtlIsExplained
<1>1. IndInv => TtlIsExplained
  BY DEF IndInv
<1> QED
  BY <1>1, Inductive, PTL

\* No EXPIRE of check_message_rate_limit reaches a window that is open.
THEOREM NeverProlonged == Spec => WindowNeverProlonged
<1>1. IndInv /\ [Next]_vars => [ttl > 0 => ttl' <= ttl]_vars
  <2> SUFFICES ASSUME IndInv, [Next]_vars, ttl > 0
               PROVE  ttl' <= ttl
    OBVIOUS
  <2>1. ttl \in Nat
    BY DEF IndInv, TypeOK
  <2>2. \A p \in Posts : post[p].pc # "expire"
    BY DEF IndInv, OneOpener, Orphaned, Opening
  <2>3. ttl' = ttl \/ Tick
    BY <2>2 DEF Next, Check, Incr, IncrUnanswered, Expire, ExpireUnanswered, Decide, Stop, vars
  <2> QED
    BY <2>1, <2>3 DEF Tick
<1> QED
  BY <1>1, Inductive, PTL DEF Spec, WindowNeverProlonged
-----------------------------------------------------------------------------
(* The bound of two windows. The posts of the last Window ticks belong to at *)
(* most two lives of the key: those younger than some boundary k to the      *)
(* present one, the others to the one before. Of each life at most Maximum   *)
(* posts are admitted or may still be, because its INCRs are numbered.       *)

\* Posts of the ages from lo to hi - 1 that may still be admitted.
PendingPosts(lo, hi) ==
    {p \in Posts : /\ post[p].pc # "idle"
                   /\ post[p].age \in lo .. hi - 1
                   /\ post[p].count <= Maximum}

Load(lo, hi) == Cardinality(AdmittedPosts(lo, hi)) + Cardinality(PendingPosts(lo, hi))

\* Posts younger than k ticks belong to the present life of the key, the others to
\* the former, which is out of sight when the present window ends.
Boundary(k) ==
    /\ count = 0 <=> k = 0
    /\ ttl > 0 => k + ttl > Window
    /\ Load(0, k) <= count
    /\ Load(0, k) <= Maximum
    /\ Load(k, Window) <= Maximum

\* A boundary there always is. Before the first INCR of a life no post is so young
\* that it could be taken for one of it.
TwoLives ==
    /\ IsFiniteSet(AdmittedPosts(0, Window))
    /\ count = 0 => AdmittedPosts(0, 1) = {} /\ PendingPosts(0, 1) = {}
    /\ \E k \in 0 .. Window : Boundary(k)

LEMMA Numbering ==
    \A f, lo, hi, x :
        x \in UNION {{a} \X (1 .. f[a]) : a \in lo .. hi - 1}
            <=> \E a \in lo .. hi - 1 : \E i \in 1 .. f[a] : x = <<a, i>>
  OBVIOUS

LEMMA SomePosts == \A T \in SUBSET Posts : IsFiniteSet(T) /\ Cardinality(T) \in Nat
  BY LimiterAssumption, FS_Subset, FS_CardinalityType

\* Within the ages that are counted, every stretch is finite.
LEMMA SomeAdmitted ==
    ASSUME IsFiniteSet(AdmittedPosts(0, Window)),
           NEW lo \in 0 .. Window, NEW hi \in 0 .. Window
    PROVE  /\ IsFiniteSet(AdmittedPosts(lo, hi))
           /\ Cardinality(AdmittedPosts(lo, hi)) \in Nat
<1>1. AdmittedPosts(lo, hi) \subseteq AdmittedPosts(0, Window)
  BY LimiterAssumption, Numbering DEF AdmittedPosts
<1> QED
  BY <1>1, FS_Subset, FS_CardinalityType

LEMMA LoadType ==
    ASSUME IsFiniteSet(AdmittedPosts(0, Window)),
           NEW lo \in 0 .. Window, NEW hi \in 0 .. Window
    PROVE  Load(lo, hi) \in Nat
<1>1. Cardinality(PendingPosts(lo, hi)) \in Nat
  BY SomePosts DEF PendingPosts
<1> QED
  BY <1>1, SomeAdmitted DEF Load

LEMMA EmptyLoad == \A k \in 0 .. Window : Load(k, k) = 0
<1> SUFFICES ASSUME NEW k \in 0 .. Window
             PROVE  AdmittedPosts(k, k) = {} /\ PendingPosts(k, k) = {}
  BY FS_EmptySet DEF Load
<1>1. k .. k - 1 = {}
  BY LimiterAssumption
<1> QED
  BY <1>1 DEF AdmittedPosts, PendingPosts

\* Admit adds one number to the age of the post.
LEMMA AdmitNumbers ==
    ASSUME TypeOK, NEW p \in Posts, Admit(p),
           NEW lo \in 0 .. Window, NEW hi \in 0 .. Window
    PROVE  AdmittedPosts(lo, hi)' =
               AdmittedPosts(lo, hi) \cup
                   (IF post[p].age \in lo .. hi - 1
                      THEN {<<post[p].age, admitted[post[p].age] + 1>>} ELSE {})
<1> DEFINE age == post[p].age
<1>1. \A a \in lo .. hi - 1 :
          admitted'[a] = admitted[a] + (IF a = age THEN 1 ELSE 0) /\ admitted[a] \in Nat
  BY LimiterAssumption DEF Admit, Ages, TypeOK
<1>2. ASSUME NEW a \in lo .. hi - 1
      PROVE  1 .. admitted'[a] =
                 (1 .. admitted[a]) \cup (IF a = age THEN {admitted[a] + 1} ELSE {})
  BY <1>1
<1>3. \A x : x \in AdmittedPosts(lo, hi)'
             <=> \E a \in lo .. hi - 1 : \E i \in 1 .. admitted'[a] : x = <<a, i>>
  BY Numbering DEF AdmittedPosts
<1>4. \A x : x \in AdmittedPosts(lo, hi)
             <=> \E a \in lo .. hi - 1 : \E i \in 1 .. admitted[a] : x = <<a, i>>
  BY Numbering DEF AdmittedPosts
<1>5. \A x : (\E a \in lo .. hi - 1 : \E i \in 1 .. admitted'[a] : x = <<a, i>>)
             <=> \/ \E a \in lo .. hi - 1 : \E i \in 1 .. admitted[a] : x = <<a, i>>
                 \/ age \in lo .. hi - 1 /\ x = <<age, admitted[age] + 1>>
  BY <1>2
<1> QED
  BY <1>3, <1>4, <1>5

\* A check that ends moves its post from the pending to the admitted, or drops it.
LEMMA EndLoad ==
    ASSUME TypeOK, IsFiniteSet(AdmittedPosts(0, Window)),
           NEW p \in Posts, post[p].pc # "idle", post' = [post EXCEPT ![p] = Idle],
           admitted' = admitted \/ (Admit(p) /\ post[p].count <= Maximum),
           NEW lo \in 0 .. Window, NEW hi \in 0 .. Window
    PROVE  IsFiniteSet(AdmittedPosts(lo, hi)') /\ Load(lo, hi)' \in 0 .. Load(lo, hi)
<1> DEFINE A == AdmittedPosts(lo, hi)
           P == PendingPosts(lo, hi)
<1>1. IsFiniteSet(A) /\ Cardinality(A) \in Nat /\ IsFiniteSet(P) /\ Cardinality(P) \in Nat
  BY SomeAdmitted, SomePosts DEF PendingPosts
<1>2. P' = P \ {p}
  BY DEF PendingPosts, TypeOK, Idle
<1>3. /\ Cardinality(P') = IF p \in P THEN Cardinality(P) - 1 ELSE Cardinality(P)
      /\ Cardinality(P') \in Nat
  BY <1>1, <1>2, FS_RemoveElement, FS_CardinalityType
<1>4. CASE admitted' = admitted
  <2>1. A' = A
    BY <1>4 DEF AdmittedPosts
  <2> QED
    BY <1>1, <1>3, <2>1 DEF Load
<1>5. CASE Admit(p) /\ post[p].count <= Maximum
  <2>1. CASE post[p].age \in lo .. hi - 1
    <3> DEFINE new == <<post[p].age, admitted[post[p].age] + 1>>
    <3>1. p \in P
      BY <1>5, <2>1 DEF PendingPosts
    <3>2. A' = A \cup {new}
      BY <1>5, <2>1, AdmitNumbers
    <3>3. IsFiniteSet(A') /\ Cardinality(A') <= Cardinality(A) + 1 /\ Cardinality(A') \in Nat
      <4> HIDE DEF A, new
      <4> QED
        BY <1>1, <3>2, FS_AddElement
    <3> QED
      BY <1>1, <1>3, <3>1, <3>3 DEF Load
  <2>2. CASE post[p].age \notin lo .. hi - 1
    <3>1. A' = A
      BY <1>5, <2>2, AdmitNumbers
    <3> QED
      BY <1>1, <1>3, <3>1 DEF Load
  <2> QED
    BY <2>1, <2>2
<1> QED
  BY <1>4, <1>5

\* What is aged lo to hi - 1 after a tick was aged from to to - 1 before it.
ComesFrom(lo, hi, from, to) ==
    \A a \in lo .. hi - 1 : a > 0 => a - 1 \in from .. to - 1

\* A tick makes the ages of a stretch one older: what is then within a stretch
\* was within the one it comes from.
LEMMA TickLoad ==
    ASSUME TypeOK, Tick, IsFiniteSet(AdmittedPosts(0, Window)),
           NEW lo \in 0 .. Window, NEW hi \in 0 .. Window,
           NEW from \in 0 .. Window, NEW to \in 0 .. Window,
           ComesFrom(lo, hi, from, to)
    PROVE  IsFiniteSet(AdmittedPosts(lo, hi)') /\ Load(lo, hi)' \in 0 .. Load(from, to)
<1> USE LimiterAssumption
<1>2. \A a \in Ages : admitted'[a] = IF a = 0 THEN 0 ELSE admitted[a - 1]
  BY DEF Tick
<1> DEFINE A == AdmittedPosts(from, to)
           B == AdmittedPosts(lo, hi)'
           older == [x \in B |-> <<x[1] - 1, x[2]>>]
<1>3. ASSUME NEW x \in B
      PROVE  \E a \in lo .. hi - 1 : \E i \in 1 .. admitted[a - 1] :
                 a > 0 /\ x = <<a, i>>
  <2>1. PICK a \in lo .. hi - 1 : \E i \in 1 .. admitted'[a] : x = <<a, i>>
    BY Numbering DEF AdmittedPosts
  <2>2. a # 0 /\ admitted'[a] = admitted[a - 1]
    BY <1>2, <2>1 DEF Ages
  <2> QED
    BY <2>1, <2>2
<1>4. \A a \in from .. to - 1 : \A i \in 1 .. admitted[a] : <<a, i>> \in A
  BY Numbering DEF AdmittedPosts
<1>5. older \in Injection(B, A)
  <2> HIDE DEF A, B
  <2>1. \A x \in B : older[x] \in A
    <3> SUFFICES ASSUME NEW x \in B PROVE older[x] \in A
      OBVIOUS
    <3>1. PICK a \in lo .. hi - 1 : a > 0 /\ \E i \in 1 .. admitted[a - 1] : x = <<a, i>>
      BY <1>3
    <3>2. PICK i \in 1 .. admitted[a - 1] : x = <<a, i>>
      BY <3>1
    <3>3. older[x] = <<a - 1, i>> /\ a - 1 \in from .. to - 1
      BY <3>1, <3>2 DEF ComesFrom
    <3> QED
      BY <1>4, <3>2, <3>3
  <2>2. \A x, y \in B : older[x] = older[y] => x = y
    BY <1>3
  <2> QED
    BY <2>1, <2>2 DEF Injection, IsInjective
<1>6. /\ IsFiniteSet(A) /\ Cardinality(A) \in Nat
      /\ IsFiniteSet(B) /\ Cardinality(B) \in Nat /\ Cardinality(B) <= Cardinality(A)
  BY <1>5, SomeAdmitted, FS_Injection, FS_CardinalityType
<1>7. PendingPosts(lo, hi)' \subseteq PendingPosts(from, to)
  <2> SUFFICES ASSUME NEW q \in Posts, post'[q].pc # "idle",
                      post'[q].age \in lo .. hi - 1, post'[q].count <= Maximum
               PROVE  q \in PendingPosts(from, to)
    BY DEF PendingPosts
  <2>1. post[q].age \in 0 .. Window /\ post'[q] = Older(post[q])
    BY DEF Tick, TypeOK, PostStates
  <2>2. /\ post'[q].pc = post[q].pc /\ post'[q].count = post[q].count
        /\ post[q].age # Window /\ post'[q].age = post[q].age + 1
    BY <2>1 DEF Older, TypeOK, PostStates
  <2> QED
    BY <2>1, <2>2 DEF PendingPosts, ComesFrom
<1>8. /\ Cardinality(PendingPosts(lo, hi)') \in Nat
      /\ Cardinality(PendingPosts(from, to)) \in Nat
      /\ Cardinality(PendingPosts(lo, hi)') <= Cardinality(PendingPosts(from, to))
  BY <1>7, SomePosts, FS_Subset DEF PendingPosts
<1> QED
  BY <1>6, <1>8 DEF Load

LEMMA LivesInit == Init => TwoLives
<1> SUFFICES ASSUME Init PROVE TwoLives
  OBVIOUS
<1> USE LimiterAssumption
<1>1. \A hi \in 0 .. Window : AdmittedPosts(0, hi) = {} /\ PendingPosts(0, hi) = {}
  <2> SUFFICES ASSUME NEW hi \in 0 .. Window
               PROVE  AdmittedPosts(0, hi) = {} /\ PendingPosts(0, hi) = {}
    OBVIOUS
  <2>1. \A a \in 0 .. hi - 1 : admitted[a] = 0
    BY DEF Init, Ages
  <2>2. AdmittedPosts(0, hi) = {}
    BY <2>1, Numbering DEF AdmittedPosts
  <2>3. PendingPosts(0, hi) = {}
    BY DEF Init, Idle, PendingPosts
  <2> QED
    BY <2>2, <2>3
<1>2. Load(0, 0) = 0 /\ Load(0, Window) = 0
  BY <1>1, FS_EmptySet DEF Load
<1>3. Boundary(0)
  BY <1>2 DEF Init, Boundary
<1> QED
  BY <1>1, <1>3, FS_EmptySet DEF Init, TwoLives

\* EXPIRE gives the key a full window, and the post stays as it was.
LEMMA LivesExpire ==
    ASSUME IndInv, TwoLives, NEW p \in Posts, Expire(p)
    PROVE  TwoLives'
<1> USE LimiterAssumption DEF IndInv
<1>1. PICK k \in 0 .. Window : Boundary(k)
  BY DEF TwoLives
<1>2. count' = count /\ count > 0 /\ ttl' = Window /\ UNCHANGED admitted
  BY DEF Expire, OneOpener, Opening
<1>3. \A lo, hi : /\ AdmittedPosts(lo, hi)' = AdmittedPosts(lo, hi)
                  /\ PendingPosts(lo, hi)' = PendingPosts(lo, hi)
  BY <1>2 DEF AdmittedPosts, PendingPosts, Expire, TypeOK
<1>4. k > 0
  BY <1>1, <1>2 DEF Boundary
<1>5. Boundary(k)'
  BY <1>1, <1>2, <1>3, <1>4 DEF Boundary, Load
<1> QED
  BY <1>2, <1>3, <1>5 DEF TwoLives

\* A check that ends leaves the boundary where it was.
LEMMA LivesEnd ==
    ASSUME IndInv, TwoLives,
           NEW p \in Posts, post[p].pc # "idle", post' = [post EXCEPT ![p] = Idle],
           admitted' = admitted \/ (Admit(p) /\ post[p].count <= Maximum),
           ttl' \in {ttl, Window}, ttl' = ttl \/ count > 0, count' = count
    PROVE  TwoLives'
<1> USE LimiterAssumption DEF IndInv
<1>1. PICK k \in 0 .. Window : Boundary(k)
  BY DEF TwoLives
<1>2. \A lo, hi \in 0 .. Window :
          /\ IsFiniteSet(AdmittedPosts(lo, hi)') /\ Load(lo, hi)' \in 0 .. Load(lo, hi)
          /\ Load(lo, hi) \in Nat
  BY EndLoad, LoadType DEF TwoLives
<1>3. IsFiniteSet(AdmittedPosts(0, Window)')
  BY <1>2
<1>4. Boundary(k)'
  <2>1. /\ Load(0, k)' <= Load(0, k) /\ Load(0, k)' \in Nat /\ Load(0, k) \in Nat
        /\ Load(k, Window)' <= Load(k, Window)
        /\ Load(k, Window)' \in Nat /\ Load(k, Window) \in Nat
    BY <1>2
  <2>2. Load(0, k)' <= count /\ Load(0, k)' <= Maximum /\ Load(k, Window)' <= Maximum
    BY <1>1, <2>1 DEF Boundary, TypeOK
  <2>3. ttl' > 0 => k + ttl' > Window
    <3>1. (count = 0 <=> k = 0) /\ (ttl > 0 => k + ttl > Window)
      BY <1>1 DEF Boundary
    <3>2. ttl \in Nat /\ count \in Nat /\ k \in Nat /\ Window \in Nat
      BY DEF TypeOK
    <3>3. count > 0 => k > 0
      BY <3>1, <3>2
    <3>4. CASE ttl' = ttl
      BY <3>1, <3>4
    <3>5. CASE ttl' = Window /\ count > 0
      BY <3>2, <3>3, <3>5
    <3> QED
      BY <3>4, <3>5
  <2> QED
    BY <1>1, <2>2, <2>3 DEF Boundary
<1>5. count = 0 => AdmittedPosts(0, 1)' = {} /\ PendingPosts(0, 1)' = {}
  <2> SUFFICES ASSUME count = 0
               PROVE  AdmittedPosts(0, 1)' = {} /\ PendingPosts(0, 1)' = {}
    OBVIOUS
  <2>1. AdmittedPosts(0, 1) = {} /\ PendingPosts(0, 1) = {}
    BY DEF TwoLives
  <2>2. PendingPosts(0, 1)' = {}
    BY <2>1 DEF PendingPosts, TypeOK, Idle
  <2>3. Admit(p) /\ post[p].count <= Maximum => post[p].age \notin 0 .. 1 - 1
    BY <2>1 DEF PendingPosts
  <2>4. AdmittedPosts(0, 1)' = {}
    <3>1. CASE admitted' = admitted
      BY <2>1, <3>1 DEF AdmittedPosts
    <3>2. CASE Admit(p) /\ post[p].count <= Maximum
      BY <2>1, <2>3, <3>2, AdmitNumbers
    <3> QED
      BY <3>1, <3>2
  <2> QED
    BY <2>2, <2>4
<1> QED
  BY <1>3, <1>4, <1>5 DEF TwoLives

\* An INCR makes the present life heavier by one post, if the post may pass.
LEMMA LivesIncr ==
    ASSUME IndInv, TwoLives, NEW p \in Posts, Incr(p) \/ IncrUnanswered(p)
    PROVE  TwoLives'
<1> USE LimiterAssumption DEF IndInv
<1>1. PICK k \in 0 .. Window : Boundary(k)
  BY DEF TwoLives
<1> DEFINE j == IF k = 0 THEN 1 ELSE k
<1>2. /\ j \in 1 .. Window /\ count \in Nat /\ count' = count + 1
      /\ UNCHANGED <<admitted, ttl>> /\ ttl \in Nat
      /\ k = 0 => count = 0
  BY <1>1 DEF Boundary, Incr, IncrUnanswered, TypeOK
<1>3. \A lo, hi \in 0 .. Window : AdmittedPosts(lo, hi)' = AdmittedPosts(lo, hi)
  BY <1>2 DEF AdmittedPosts
<1>4. PendingPosts(j, Window)' \subseteq PendingPosts(k, Window)
  BY <1>2 DEF Incr, IncrUnanswered, PendingPosts, TypeOK
<1>5. AdmittedPosts(j, Window) \subseteq AdmittedPosts(k, Window)
  BY <1>2, Numbering DEF AdmittedPosts
<1>6. Load(j, Window)' <= Load(k, Window) /\ Load(j, Window)' \in Nat
  <2>1. /\ Cardinality(PendingPosts(j, Window)') <= Cardinality(PendingPosts(k, Window))
        /\ Cardinality(PendingPosts(j, Window)') \in Nat
        /\ Cardinality(PendingPosts(k, Window)) \in Nat
    BY <1>4, SomePosts, FS_Subset DEF PendingPosts
  <2>2. /\ Cardinality(AdmittedPosts(j, Window)) <= Cardinality(AdmittedPosts(k, Window))
        /\ Cardinality(AdmittedPosts(j, Window)) \in Nat
        /\ Cardinality(AdmittedPosts(k, Window)) \in Nat
    BY <1>2, <1>5, SomeAdmitted, FS_Subset DEF TwoLives
  <2> QED
    BY <1>2, <1>3, <2>1, <2>2 DEF Load
<1>7. Load(0, j) = Load(0, k) /\ Load(0, k) \in Nat
  <2>1. Load(0, k) \in Nat
    BY LoadType DEF TwoLives
  <2>2. CASE k = 0
    <3>1. AdmittedPosts(0, 0) = {} /\ PendingPosts(0, 0) = {}
      BY Numbering DEF AdmittedPosts, PendingPosts
    <3>2. AdmittedPosts(0, 1) = {} /\ PendingPosts(0, 1) = {}
      BY <1>2, <2>2 DEF TwoLives
    <3> QED
      BY <2>1, <2>2, <3>1, <3>2 DEF Load
  <2> QED
    BY <2>1, <2>2
<1>8. PendingPosts(0, j)' \subseteq
          PendingPosts(0, j) \cup (IF count + 1 <= Maximum THEN {p} ELSE {})
  BY <1>2 DEF Incr, IncrUnanswered, PendingPosts, TypeOK
<1>9. /\ Load(0, j)' <= Load(0, j) + (IF count + 1 <= Maximum THEN 1 ELSE 0)
      /\ Load(0, j)' \in Nat
  <2> DEFINE P == PendingPosts(0, j)
             more == P \cup (IF count + 1 <= Maximum THEN {p} ELSE {})
  <2>1. IsFiniteSet(P) /\ Cardinality(P) \in Nat /\ Cardinality(P') \in Nat
    BY SomePosts DEF PendingPosts
  <2>2. /\ IsFiniteSet(more)
        /\ Cardinality(more) <= Cardinality(P) + (IF count + 1 <= Maximum THEN 1 ELSE 0)
        /\ Cardinality(more) \in Nat
    <3>1. P \cup {p} \subseteq Posts
      BY DEF PendingPosts
    <3>2. P \cup {} = P
      OBVIOUS
    <3>3. CASE count + 1 <= Maximum
      <4>1. more = P \cup {p}
        BY <3>3
      <4> HIDE DEF P, more
      <4> QED
        BY <2>1, <3>1, <3>3, <4>1, SomePosts, FS_AddElement
    <3>4. CASE ~(count + 1 <= Maximum)
      <4>1. more = P
        BY <3>2, <3>4
      <4> HIDE DEF P, more
      <4> QED
        BY <2>1, <3>4, <4>1
    <3> QED
      BY <3>3, <3>4
  <2>3. Cardinality(P') <= Cardinality(more)
    <3> HIDE DEF P
    <3> QED
      BY <1>8, <2>2, FS_Subset DEF P
  <2>4. Cardinality(AdmittedPosts(0, j)) \in Nat
    BY <1>2, SomeAdmitted DEF TwoLives
  <2> QED
    BY <1>2, <1>3, <2>1, <2>2, <2>3, <2>4 DEF Load
<1>10. Boundary(j)'
  <2>1. Load(0, k) <= count /\ Load(0, k) <= Maximum /\ Load(k, Window) <= Maximum
    BY <1>1 DEF Boundary
  <2>2. Load(0, j)' <= count + 1 /\ Load(0, j)' <= Maximum
    BY <1>2, <1>7, <1>9, <2>1
  <2>3. Load(j, Window)' <= Maximum
    <3>1. Load(k, Window) \in Nat
      BY LoadType DEF TwoLives
    <3> QED
      BY <1>6, <2>1, <3>1
  <2>4. ttl > 0 => j + ttl > Window
    BY <1>1, <1>2 DEF Boundary
  <2> QED
    BY <1>2, <2>2, <2>3, <2>4 DEF Boundary
<1> QED
  BY <1>2, <1>3, <1>10 DEF TwoLives

\* A tick moves the boundary by one. When it ends the window, the former life is
\* out of sight, and the one that was present becomes the former.
LEMMA LivesTick ==
    ASSUME IndInv, TwoLives, Tick
    PROVE  TwoLives'
<1> USE LimiterAssumption DEF IndInv
<1>1. PICK k \in 0 .. Window : Boundary(k)
  BY DEF TwoLives
<1>2. /\ count = 0 <=> k = 0
      /\ ttl = 1 => k = Window
      /\ ttl = 0 \/ k + ttl > Window
      /\ ttl \in 0 .. Window /\ count \in Nat
  BY <1>1 DEF Boundary, TypeOK
<1>3. PICK j \in 0 .. Window :
          j = IF ttl = 1 \/ k = 0 THEN 0 ELSE IF k = Window THEN k ELSE k + 1
  BY <1>2
<1>4. /\ ttl' = IF ttl = 0 THEN 0 ELSE ttl - 1
      /\ count' = IF ttl = 1 THEN 0 ELSE count
  BY <1>2 DEF Tick
<1>5. \A lo, hi, from, to \in 0 .. Window :
          ComesFrom(lo, hi, from, to) =>
              /\ IsFiniteSet(AdmittedPosts(lo, hi)')
              /\ Load(lo, hi)' \in 0 .. Load(from, to)
  BY TickLoad DEF TwoLives
<1>6. /\ IsFiniteSet(AdmittedPosts(0, Window)')
      /\ Load(0, Window)' \in 0 .. Load(0, Window)
      /\ Load(0, 0)' = 0
  <2>1. ComesFrom(0, Window, 0, Window) /\ ComesFrom(0, 0, 0, 0)
    BY DEF ComesFrom
  <2>2. Load(0, 0)' \in 0 .. Load(0, 0) /\ Load(0, 0) = 0
    BY <1>5, <2>1, EmptyLoad
  <2> QED
    BY <1>5, <2>1, <2>2
<1>7. AdmittedPosts(0, 1)' = {} /\ PendingPosts(0, 1)' = {}
  <2>1. \A a \in 0 .. 1 - 1 : admitted'[a] = 0
    BY DEF Tick, Ages
  <2>2. AdmittedPosts(0, 1)' = {}
    BY <2>1, Numbering DEF AdmittedPosts
  <2>3. \A q \in Posts : post'[q].pc # "idle" => post'[q].age > 0
    BY DEF Tick, Older, TypeOK, PostStates
  <2>4. PendingPosts(0, 1)' = {}
    BY <2>3 DEF PendingPosts
  <2> QED
    BY <2>2, <2>4
<1>8. Load(0, k) \in Nat /\ Load(k, Window) \in Nat
  BY LoadType DEF TwoLives
<1>9. Boundary(j)'
  <2>1. CASE ttl = 1
    <3>1. j = 0 /\ k = Window /\ count' = 0 /\ ttl' = 0
      BY <1>2, <1>3, <1>4, <2>1
    <3>2. Load(0, Window)' <= Maximum
      BY <1>1, <1>6, <1>8, <3>1 DEF Boundary
    <3> QED
      BY <1>6, <3>1, <3>2 DEF Boundary
  <2>2. CASE ttl # 1 /\ k = 0
    <3>1. j = 0 /\ count' = 0 /\ ttl' = 0
      BY <1>2, <1>3, <1>4, <2>2
    <3>2. Load(0, Window)' <= Maximum
      BY <1>1, <1>6, <1>8, <2>2 DEF Boundary
    <3> QED
      BY <1>6, <3>1, <3>2 DEF Boundary
  <2>3. CASE ttl # 1 /\ k # 0
    <3>1. /\ j \in 1 .. Window /\ j <= k + 1 /\ count' = count
          /\ ComesFrom(0, j, 0, k) /\ ComesFrom(j, Window, k, Window)
          /\ ttl' > 0 => j + ttl' > Window
      BY <1>2, <1>3, <1>4, <2>3 DEF ComesFrom
    <3>2. Load(0, j)' \in 0 .. Load(0, k) /\ Load(j, Window)' \in 0 .. Load(k, Window)
      BY <1>5, <3>1
    <3>3. /\ Load(0, j)' <= count /\ Load(0, j)' <= Maximum
          /\ Load(j, Window)' <= Maximum
      BY <1>1, <1>2, <1>8, <3>2 DEF Boundary
    <3> QED
      BY <1>2, <2>3, <3>1, <3>3 DEF Boundary
  <2> QED
    BY <2>1, <2>2, <2>3
<1> QED
  BY <1>4, <1>6, <1>7, <1>9 DEF TwoLives

LEMMA LivesStep == IndInv /\ TwoLives /\ [Next]_vars => TwoLives'
<1> SUFFICES ASSUME IndInv, TwoLives, [Next]_vars
             PROVE  TwoLives'
  OBVIOUS
<1>1. ASSUME NEW p \in Posts, Incr(p) \/ IncrUnanswered(p)
      PROVE  TwoLives'
  BY <1>1, LivesIncr
<1>2. ASSUME NEW p \in Posts, Expire(p)
      PROVE  TwoLives'
  BY <1>2, LivesExpire
<1>3. ASSUME NEW p \in Posts, ExpireUnanswered(p)
      PROVE  TwoLives'
  <2>1. post[p].count = 1 /\ count > 0
    BY <1>3 DEF IndInv, OneOpener, Opening, ExpireUnanswered
  <2> QED
    <3>1. /\ post[p].pc # "idle" /\ post' = [post EXCEPT ![p] = Idle]
          /\ Admit(p) /\ post[p].count <= Maximum
          /\ ttl' \in {ttl, Window} /\ count' = count
      BY <1>3, <2>1, LimiterAssumption DEF ExpireUnanswered
    <3> QED
      BY <2>1, <3>1, LivesEnd
<1>4. ASSUME NEW p \in Posts, Decide(p)
      PROVE  TwoLives'
  <2>1. post[p].count <= Maximum \/ post[p].count > Maximum
    BY LimiterAssumption DEF IndInv, TypeOK, PostStates
  <2> QED
    BY <1>4, <2>1, LivesEnd DEF Decide
<1>5. ASSUME NEW p \in Posts, Stop(p)
      PROVE  TwoLives'
  BY <1>5, LivesEnd DEF Stop
<1>6. CASE Tick
  BY <1>6, LivesTick
<1>7. CASE UNCHANGED vars
  <2>1. \A lo, hi : /\ AdmittedPosts(lo, hi)' = AdmittedPosts(lo, hi)
                    /\ PendingPosts(lo, hi)' = PendingPosts(lo, hi)
    BY <1>7 DEF vars, AdmittedPosts, PendingPosts
  <2> QED
    BY <1>7, <2>1 DEF vars, TwoLives, Boundary, Load
<1> QED
  BY <1>1, <1>2, <1>3, <1>4, <1>5, <1>6, <1>7 DEF Next, Check

LEMMA UnionBound ==
    ASSUME NEW S, NEW T, IsFiniteSet(S), IsFiniteSet(T)
    PROVE  /\ Cardinality(S \cup T) <= Cardinality(S) + Cardinality(T)
           /\ Cardinality(S \cup T) \in Nat
<1>1. Cardinality(S) \in Nat /\ Cardinality(T) \in Nat
  BY FS_CardinalityType
<1>2. Cardinality(S \cap T) \in Nat
  BY FS_Intersection, FS_CardinalityType
<1>3. /\ IsFiniteSet(S \cup T)
      /\ Cardinality(S \cup T) = Cardinality(S) + Cardinality(T) - Cardinality(S \cap T)
  BY FS_Union
<1>4. Cardinality(S \cup T) \in Nat
  BY <1>3, FS_CardinalityType
<1> QED
  BY <1>1, <1>2, <1>3, <1>4

LEMMA LivesInductive == Spec => []TwoLives
  BY LivesInit, LivesStep, Inductive, PTL DEF Spec

\* Whatever the posts of two neighbouring windows do, and in whatever order Redis
\* and the service handle them, check_message_rate_limit admits at most twice the
\* maximum in one window's time, and what is still under way cannot add to it.
THEOREM TwoWindows == Spec => []AtMostTwoWindows
<1>1. IndInv /\ TwoLives => AtMostTwoWindows
  <2> SUFFICES ASSUME TwoLives, NEW k \in 0 .. Window, Boundary(k)
               PROVE  AtMostTwoWindows
    BY DEF TwoLives
  <2> USE LimiterAssumption
  <2> DEFINE present == AdmittedPosts(0, k)
             former == AdmittedPosts(k, Window)
  <2>1. AdmittedPosts(0, Window) = present \cup former
    BY Numbering DEF AdmittedPosts
  <2>2. /\ IsFiniteSet(present) /\ IsFiniteSet(former)
        /\ Cardinality(present) \in Nat /\ Cardinality(former) \in Nat
    BY SomeAdmitted DEF TwoLives
  <2>3. /\ Cardinality(present \cup former) <= Cardinality(present) + Cardinality(former)
        /\ Cardinality(present \cup former) \in Nat
    BY <2>2, UnionBound
  <2>4. Cardinality(present) <= Maximum /\ Cardinality(former) <= Maximum
    <3>1. /\ Cardinality(PendingPosts(0, k)) \in Nat
          /\ Cardinality(PendingPosts(k, Window)) \in Nat
      BY SomePosts DEF PendingPosts
    <3> QED
      BY <2>2, <3>1 DEF Boundary, Load
  <2>5. Cardinality(present \cup former) <= 2 * Maximum
    <3> HIDE DEF present, former
    <3> QED
      BY <2>2, <2>3, <2>4
  <2> QED
    BY <2>1, <2>5 DEF AtMostTwoWindows
<1> QED
  BY <1>1, Inductive, LivesInductive, PTL
-----------------------------------------------------------------------------
(* The price of a lost EXPIRE *)

Stuck == Blocked /\ Orphaned

\* When the EXPIRE of the key was lost, nothing in check_message_rate_limit ever
\* repairs it: the key keeps its count and gets no end, and once the count has
\* reached the maximum every post that Redis answers is refused for ever.
\* (RateLimiter_wait shows that this happens; here, that no later post, answer or
\* tick undoes it.)
THEOREM StuckForEver == Spec => [](Stuck => []Stuck)
<1>1. IndInv /\ Stuck /\ [Next]_vars => Stuck'
  <2> SUFFICES ASSUME IndInv, Stuck, [Next]_vars
               PROVE  Stuck'
    OBVIOUS
  <2> USE LimiterAssumption DEF IndInv
  <2>1. ttl = 0 /\ \A p \in Posts : post[p].pc # "expire"
    BY DEF Stuck, OneOpener, Opening
  <2>2. count' >= count /\ fate' = fate
    <3>1. ASSUME NEW p \in Posts, Incr(p) \/ IncrUnanswered(p)
          PROVE  count' >= count /\ fate' = fate
      BY <3>1 DEF Incr, IncrUnanswered, Stuck, Blocked, TypeOK
    <3>2. ASSUME NEW p \in Posts, Decide(p) \/ Stop(p)
          PROVE  count' >= count /\ fate' = fate
      BY <2>1, <3>2 DEF Decide, Stop, TypeOK
    <3>3. CASE Tick
      BY <2>1, <3>3 DEF Tick, TypeOK
    <3>4. CASE UNCHANGED vars
      BY <3>4 DEF vars, TypeOK
    <3> QED
      BY <2>1, <3>1, <3>2, <3>3, <3>4 DEF Next, Check, Expire, ExpireUnanswered
  <2>3. count \in Nat /\ count' \in Nat
    BY <2>2, TypeStep DEF TypeOK
  <2> QED
    BY <2>2, <2>3 DEF Stuck, Blocked, Orphaned
<1> QED
  BY <1>1, Inductive, PTL DEF Spec
=============================================================================
