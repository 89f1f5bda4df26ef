-------------------------- MODULE MessagePagesProofs --------------------------
(***************************************************************************)
(* Theorems about MessagePages, for every number of messages, readers and  *)
(* pages, and every page length.                                           *)
(***************************************************************************)
EXTENDS MessagePages, FiniteSetTheorems, WellFoundedInduction, TLAPS

\* Of one reader: a request that follows next_cursor has shown what is not older
\* than its cursor, and has to show what is older; other requests have shown
\* nothing yet. On a page the same holds of the page's next cursor.
WalkAt(r) ==
    /\ reader[r].since \subseteq stored
    /\ reader[r].cursor.dir = "previous" => reader[r].since = {}
    /\ reader[r].pc \in {"get", "select", "fill"} =>
         IF reader[r].cursor.dir = "next"
           THEN /\ \A m \in reader[r].seen : m >= reader[r].cursor.at
                /\ ~reader[r].stale =>
                     \A m \in reader[r].since \ reader[r].seen : m < reader[r].cursor.at
           ELSE reader[r].seen = {}
    /\ reader[r].pc = "fill" => reader[r].since \subseteq reader[r].from
    /\ reader[r].pc = "reading" /\ PageOf(r).next # NoCursor =>
         \A m \in reader[r].seen : m >= PageOf(r).next.at
    /\ reader[r].pc = "reading" /\ ~reader[r].stale =>
         \A m \in reader[r].since \ reader[r].seen :
             PageOf(r).next # NoCursor /\ m < PageOf(r).next.at

WalkInv == TypeOK /\ \A r \in Readers : WalkAt(r)
-----------------------------------------------------------------------------
(* Lemmas about finite sets of messages *)

LEMMA MessagesNat == Messages \subseteq Nat
  BY PagesAssumption DEF Messages

LEMMA FiniteMessages ==
    ASSUME NEW T, T \subseteq Messages
    PROVE  IsFiniteSet(T) /\ Cardinality(T) \in Nat
<1>1. IsFiniteSet(Messages)
  BY PagesAssumption, FS_Interval DEF Messages
<1> QED
  BY <1>1, FS_Subset, FS_CardinalityType

\* Every set of messages has a greatest and a smallest element: the set of
\* messages above (below) it is minimal for inclusion.
LEMMA HasMax ==
    ASSUME NEW T, T \subseteq Messages, T # {}
    PROVE  \E m \in T : \A k \in T : m >= k
<1> DEFINE Above(m) == {k \in T : k > m}
           Family == {Above(m) : m \in T}
<1>1. IsFiniteSet(T)
  BY FiniteMessages
<1>2. Family \subseteq FiniteSubsetsOf(T) /\ Family # {}
  <2>1. Family \subseteq SUBSET T /\ Family # {}
    OBVIOUS
  <2>2. FiniteSubsetsOf(T) = SUBSET T
    BY <1>1, FS_FiniteSubsetsOfFinite
  <2> QED
    BY <2>1, <2>2
<1>3. PICK A \in Family : \A B \in Family : ~(<<B, A>> \in StrictSubsetOrdering(T))
  <2> HIDE DEF Family
  <2> QED
    BY <1>2, FS_StrictSubsetOrderingWellFounded, WFMin
<1>4. PICK m \in T : A = Above(m)
  BY <1>3
<1>5. ASSUME NEW k \in T, k > m
      PROVE  FALSE
  <2>0. T \subseteq Nat /\ k \in Nat /\ m \in Nat
    BY MessagesNat
  <2>1. \A j \in T : j > k => j > m
    BY <2>0, <1>5
  <2>2. ~(k > k)
    BY <2>0
  <2>3. Above(k) \subseteq A /\ k \in A /\ k \notin Above(k)
    BY <2>1, <2>2, <1>4, <1>5
  <2>4. <<Above(k), A>> \in StrictSubsetOrdering(T)
    BY <2>3, <1>4 DEF StrictSubsetOrdering
  <2> QED
    BY <2>4, <1>3
<1> QED
  BY <1>4, <1>5, MessagesNat

LEMMA HasMin ==
    ASSUME NEW T, T \subseteq Messages, T # {}
    PROVE  \E m \in T : \A k \in T : m <= k
<1> DEFINE Below(m) == {k \in T : k < m}
           Family == {Below(m) : m \in T}
<1>1. IsFiniteSet(T)
  BY FiniteMessages
<1>2. Family \subseteq FiniteSubsetsOf(T) /\ Family # {}
  <2>1. Family \subseteq SUBSET T /\ Family # {}
    OBVIOUS
  <2>2. FiniteSubsetsOf(T) = SUBSET T
    BY <1>1, FS_FiniteSubsetsOfFinite
  <2> QED
    BY <2>1, <2>2
<1>3. PICK A \in Family : \A B \in Family : ~(<<B, A>> \in StrictSubsetOrdering(T))
  <2> HIDE DEF Family
  <2> QED
    BY <1>2, FS_StrictSubsetOrderingWellFounded, WFMin
<1>4. PICK m \in T : A = Below(m)
  BY <1>3
<1>5. ASSUME NEW k \in T, k < m
      PROVE  FALSE
  <2>0. T \subseteq Nat /\ k \in Nat /\ m \in Nat
    BY MessagesNat
  <2>1. \A j \in T : j < k => j < m
    BY <2>0, <1>5
  <2>2. ~(k < k)
    BY <2>0
  <2>3. Below(k) \subseteq A /\ k \in A /\ k \notin Below(k)
    BY <2>1, <2>2, <1>4, <1>5
  <2>4. <<Below(k), A>> \in StrictSubsetOrdering(T)
    BY <2>3, <1>4 DEF StrictSubsetOrdering
  <2> QED
    BY <2>4, <1>3
<1> QED
  BY <1>4, <1>5, MessagesNat

LEMMA MaxIs ==
    ASSUME NEW T, T \subseteq Messages, T # {}
    PROVE  Max(T) \in T /\ \A k \in T : Max(T) >= k
BY HasMax DEF Max

LEMMA MinIs ==
    ASSUME NEW T, T \subseteq Messages, T # {}
    PROVE  Min(T) \in T /\ \A k \in T : Min(T) <= k
BY HasMin DEF Min

\* What is newer than one of the newest is one of them.
LEMMA NewestAbove ==
    ASSUME NEW n \in Nat, NEW T, T \subseteq Messages,
           NEW m \in T, m \notin Newest(n, T), NEW k \in Newest(n, T)
    PROVE  m < k
<1>1. k \in T /\ Cardinality({j \in T : j > k}) < n
  BY DEF Newest
<1>2. ~(Cardinality({j \in T : j > m}) < n)
  BY DEF Newest
<1>3. SUFFICES ASSUME m >= k PROVE FALSE
  BY <1>1, MessagesNat
<1>4. {j \in T : j > m} \subseteq {j \in T : j > k}
  <2>1. T \subseteq Nat /\ k \in Nat /\ m \in Nat
    BY <1>1, MessagesNat
  <2>2. \A j \in T : j > m => j > k
    BY <2>1, <1>3
  <2> QED
    BY <2>2
<1>5. Cardinality({j \in T : j > m}) <= Cardinality({j \in T : j > k})
  BY <1>4, FiniteMessages, FS_Subset
<1>6. Cardinality({j \in T : j > m}) \in Nat /\ Cardinality({j \in T : j > k}) \in Nat
  BY FiniteMessages
<1> QED
  BY <1>1, <1>2, <1>5, <1>6

\* A non-empty set has newest elements.
LEMMA NewestNotEmpty ==
    ASSUME NEW n \in Nat, n > 0, NEW T, T \subseteq Messages, T # {}
    PROVE  Newest(n, T) # {}
<1>1. PICK m \in T : \A k \in T : m >= k
  BY HasMax
<1>2. {k \in T : k > m} = {}
  <2>1. T \subseteq Nat /\ m \in Nat
    BY MessagesNat
  <2>2. \A k \in T : ~(k > m)
    BY <2>1, <1>1
  <2> QED
    BY <2>2
<1>3. Cardinality({k \in T : k > m}) < n
  BY <1>2, FS_EmptySet
<1> QED
  BY <1>3 DEF Newest

\* When something is not among the n newest, there are n of them at least.
LEMMA NewestFull ==
    ASSUME NEW n \in Nat, NEW T, T \subseteq Messages,
           NEW m \in T, m \notin Newest(n, T)
    PROVE  Cardinality(Newest(n, T)) >= n
<1> DEFINE Rest == T \ Newest(n, T)
<1>1. PICK top \in Rest : \A k \in Rest : top >= k
  <2>1. Rest \subseteq Messages /\ Rest # {}
    OBVIOUS
  <2> QED
    BY <2>1, HasMax
<1>2. {k \in T : k > top} \subseteq Newest(n, T)
  <2>1. T \subseteq Nat /\ top \in Nat
    BY MessagesNat
  <2>2. \A k \in T : k > top => k \notin Rest
    BY <2>1, <1>1
  <2> QED
    BY <2>2
<1>3. Newest(n, T) \subseteq Messages
  BY DEF Newest
<1>4. Cardinality({k \in T : k > top}) <= Cardinality(Newest(n, T))
  BY <1>2, <1>3, FiniteMessages, FS_Subset
<1>5. ~(Cardinality({k \in T : k > top}) < n)
  BY <1>1 DEF Newest
<1>6. Cardinality({k \in T : k > top}) \in Nat /\ Cardinality(Newest(n, T)) \in Nat
  BY <1>3, FiniteMessages
<1> QED
  BY <1>4, <1>5, <1>6
-----------------------------------------------------------------------------
(* Lemmas about pages *)

LEMMA LimitNat == Limit \in Nat /\ Limit > 0 /\ Limit + 1 \in Nat
  BY PagesAssumption

LEMMA FetchedType ==
    ASSUME NEW c, NEW S \in SUBSET Messages
    PROVE  /\ Beyond(c, S) \subseteq S
           /\ Fetched(c, S) \subseteq Beyond(c, S)
           /\ Shown(c, S) \subseteq Fetched(c, S)
<1>1. Beyond(c, S) \subseteq S
  BY DEF Beyond
<1>2. Fetched(c, S) \subseteq Beyond(c, S)
  BY DEF Fetched, Newest, Oldest
<1> QED
  BY <1>1, <1>2 DEF Shown, Newest

LEMMA ShownNotEmpty ==
    ASSUME NEW c, NEW S \in SUBSET Messages, HasMore(c, S)
    PROVE  Shown(c, S) # {}
<1>1. Fetched(c, S) \subseteq Messages
  BY FetchedType
<1>2. Fetched(c, S) # {}
  BY LimitNat, FS_EmptySet DEF HasMore
<1> QED
  BY <1>1, <1>2, LimitNat, NewestNotEmpty DEF Shown

LEMMA LastOfIs ==
    ASSUME NEW c, NEW S \in SUBSET Messages, Shown(c, S) # {}
    PROVE  LastOf(c, S) \in Shown(c, S) /\ \A m \in Shown(c, S) : LastOf(c, S) <= m
<1>1. Shown(c, S) \subseteq Messages
  BY FetchedType
<1> QED
  BY <1>1, MinIs DEF LastOf

\* A next cursor names the oldest message of its page.
LEMMA NextIsLast ==
    ASSUME NEW c \in Cursors, NEW S \in SUBSET Messages, NextCursor(c, S) # NoCursor
    PROVE  /\ NextCursor(c, S) = [dir |-> "next", at |-> LastOf(c, S)]
           /\ LastOf(c, S) \in Shown(c, S)
           /\ \A m \in Shown(c, S) : LastOf(c, S) <= m
<1>1. Shown(c, S) # {}
  BY ShownNotEmpty DEF NextCursor
<1>2. NextCursor(c, S) = [dir |-> "next", at |-> LastOf(c, S)]
  BY DEF NextCursor
<1> QED
  BY <1>1, <1>2, LastOfIs

LEMMA PreviousIs ==
    ASSUME NEW c \in Cursors, NEW S \in SUBSET Messages,
           PreviousCursor(c, S) # NoCursor
    PROVE  PreviousCursor(c, S) \in Cursors /\ PreviousCursor(c, S).dir = "previous"
<1>1. CASE c.dir = "next"
  <2>1. c.at \in Messages
    BY <1>1 DEF Cursors, First
  <2> QED
    BY <1>1, <2>1 DEF PreviousCursor, Cursors
<1>2. CASE c.dir = "previous" /\ HasMore(c, S)
  <2>1. Shown(c, S) \subseteq Messages /\ Shown(c, S) # {}
    BY <1>2, FetchedType, ShownNotEmpty
  <2>2. Max(Shown(c, S)) \in Messages
    BY <2>1, MaxIs
  <2> QED
    BY <1>2, <2>2 DEF PreviousCursor, Cursors
<1> QED
  BY <1>1, <1>2 DEF PreviousCursor

\* Towards older messages a page leaves out only what is older than all it
\* shows, and then it has a next cursor.
LEMMA NothingSkipped ==
    ASSUME NEW c \in Cursors, c.dir # "previous", NEW S \in SUBSET Messages,
           NEW m \in Beyond(c, S), m \notin Shown(c, S)
    PROVE  NextCursor(c, S) # NoCursor /\ m < LastOf(c, S)
<1> DEFINE T == Beyond(c, S)
           F == Newest(Limit + 1, T)
<1>1. T \subseteq Messages /\ F \subseteq T /\ Fetched(c, S) = F
  BY FetchedType DEF Fetched, Newest
<1>2. Shown(c, S) = Newest(Limit, F)
  BY <1>1 DEF Shown
<1>3. Cardinality(F) \in Nat /\ IsFiniteSet(F)
  BY <1>1, FiniteMessages
<1> HIDE DEF T, F
<1>4. Cardinality(F) >= Limit + 1 /\ \A k \in Shown(c, S) : m < k
  <2>1. CASE m \notin F
    <3>1. Cardinality(F) >= Limit + 1
      BY <2>1, <1>1, LimitNat, NewestFull DEF T, F
    <3>2. \A k \in F : m < k
      BY <2>1, <1>1, LimitNat, NewestAbove DEF T, F
    <3> QED
      BY <3>1, <3>2, <1>2 DEF Newest
  <2>2. CASE m \in F
    <3>1. \A k \in Shown(c, S) : m < k
      BY <2>2, <1>1, <1>2, LimitNat, NewestAbove
    <3>2. Cardinality(Shown(c, S)) >= Limit
      BY <2>2, <1>1, <1>2, LimitNat, NewestFull
    <3>3. Shown(c, S) \subseteq F /\ IsFiniteSet(Shown(c, S))
      BY <1>2, <1>3, FS_Subset DEF Newest
    <3>4. Cardinality(Shown(c, S) \cup {m}) = Cardinality(Shown(c, S)) + 1
      BY <3>3, FS_AddElement
    <3>5. Cardinality(Shown(c, S) \cup {m}) <= Cardinality(F)
      BY <3>3, <2>2, <1>3, FS_Subset
    <3>6. Cardinality(Shown(c, S)) \in Nat
      BY <3>3, FS_CardinalityType
    <3> QED
      BY <3>1, <3>2, <3>4, <3>5, <3>6, <1>3, LimitNat
  <2> QED
    BY <2>1, <2>2
<1>5. HasMore(c, S)
  BY <1>1, <1>3, <1>4, LimitNat DEF HasMore
<1>6. NextCursor(c, S) # NoCursor
  BY <1>5 DEF NextCursor, NoCursor
<1> QED
  BY <1>4, <1>5, <1>6, ShownNotEmpty, LastOfIs

LEMMA PageIs ==
    ASSUME NEW c \in Cursors, NEW S \in SUBSET Messages
    PROVE  /\ Page[c][S].messages = Shown(c, S)
           /\ Page[c][S].next = NextCursor(c, S)
           /\ Page[c][S].previous = PreviousCursor(c, S)
BY DEF Page
-----------------------------------------------------------------------------
(* Type correctness *)

LEMMA CursorTypes ==
    /\ First \in Cursors /\ First.dir = "first"
    /\ NoCursor \notin Cursors
    /\ \A c \in Cursors : c.dir \in {"first", "next", "previous"}
    /\ \A c \in Cursors : c.dir = "next" => c.at \in Messages
BY DEF First, NoCursor, Cursors

LEMMA AwayType == Away \in Walks
BY CursorTypes DEF Away, Walks

LEMMA PageType ==
    ASSUME NEW c \in Cursors, NEW S \in SUBSET Messages
    PROVE  /\ Page[c][S].messages \subseteq S
           /\ Page[c][S].next # NoCursor =>
                Page[c][S].next \in Cursors /\ Page[c][S].next.dir = "next"
           /\ Page[c][S].previous # NoCursor =>
                Page[c][S].previous \in Cursors /\ Page[c][S].previous.dir = "previous"
<1>1. Page[c][S].messages \subseteq S
  BY PageIs, FetchedType
<1>2. ASSUME NextCursor(c, S) # NoCursor
      PROVE  NextCursor(c, S) \in Cursors /\ NextCursor(c, S).dir = "next"
  <2>1. LastOf(c, S) \in Messages
    BY <1>2, NextIsLast, FetchedType
  <2> QED
    BY <1>2, <2>1, NextIsLast DEF Cursors
<1> QED
  BY <1>1, <1>2, PreviousIs, PageIs

\* The parts of an entry and of a reader have their types.
LEMMA Typed ==
    ASSUME TypeOK
    PROVE  /\ \A c \in Cached : c \in Cursors /\ cache[c] \in Entries
           /\ \A c \in Cached : cache[c].from \in SUBSET Messages
           /\ \A r \in Readers : /\ reader[r] \in Walks
                                 /\ reader[r].cursor \in Cursors
                                 /\ reader[r].from \in SUBSET Messages
BY DEF TypeOK, Cached, Entries, Walks

LEMMA MissedType ==
    ASSUME TypeOK, NEW cs
    PROVE  Missed(cs) \in [Cursors -> Entries \cup {NoPage}]
<1> SUFFICES ASSUME NEW c \in Cursors
             PROVE  Missed(cs)[c] \in Entries \cup {NoPage}
  BY DEF Missed
<1>1. CASE c \in cs \cap Cached /\ Outdated(c, cache[c].from)
  <2>1. cache[c] \in Entries
    BY <1>1, Typed
  <2>2. Missed(cs)[c] = [cache[c] EXCEPT !.missed = TRUE]
    BY <1>1 DEF Missed
  <2> QED
    BY <2>1, <2>2 DEF Entries
<1>2. CASE ~(c \in cs \cap Cached /\ Outdated(c, cache[c].from))
  BY <1>2 DEF Missed, TypeOK
<1> QED
  BY <1>1, <1>2

LEMMA ReceiveType ==
    ASSUME TypeOK, NEW r \in Readers, NEW S \in SUBSET Messages, Receive(r, S)
    PROVE  reader' \in [Readers -> Walks]
<1>1. Page[reader[r].cursor][S].messages \subseteq Messages
  BY Typed, PageType
<1> DEFINE walk == reader[r]
           read == [walk EXCEPT !.pc = "reading",
                                !.from = S,
                                !.seen = walk.seen \cup Page[walk.cursor][S].messages,
                                !.stale = walk.stale \/ ~(walk.since \subseteq S)]
<1>2. walk \in Walks
  BY Typed
<1>3. (walk.stale \/ ~(walk.since \subseteq S)) \in BOOLEAN
  OBVIOUS
<1>4. read \in Walks
  BY <1>1, <1>2, <1>3 DEF Walks
<1>5. reader' = [reader EXCEPT ![r] = read]
  BY DEF Receive
<1> QED
  BY <1>4, <1>5 DEF TypeOK

LEMMA TypeInit == Init => TypeOK
BY PagesAssumption, AwayType DEF Init, TypeOK, Posts

LEMMA PostTypes ==
    ASSUME TypeOK, NEW m \in Messages, InsertMessage(m) \/ PostStep(m)
    PROVE  TypeOK'
<1>1. CASE InsertMessage(m)
  BY <1>1 DEF InsertMessage, TypeOK, Posts
<1>2. CASE StartScan(m)
  BY <1>2 DEF StartScan, TypeOK, Posts, Scan, Cached
<1>3. ASSUME NEW c \in Cursors, DeletePage(m, c)
      PROVE  TypeOK'
  BY <1>3 DEF DeletePage, TypeOK, Posts
<1>4. CASE ScanEnds(m)
  BY <1>4 DEF ScanEnds, TypeOK, Posts
<1>5. CASE DeletionLost(m)
  BY <1>5, MissedType DEF DeletionLost, TypeOK, Posts
<1> QED
  BY <1>1, <1>2, <1>3, <1>4, <1>5 DEF PostStep

LEMMA ReadTypes ==
    ASSUME TypeOK, NEW r \in Readers,
           Open(r) \/ TurnPage(r) \/ GoBack(r) \/ ReadStep(r) \/ Leave(r)
    PROVE  TypeOK'
<1>1. CASE Open(r)
  BY <1>1, AwayType DEF Open, TypeOK, Walks
<1>2. CASE TurnPage(r)
  <2>1. PageOf(r).next \in Cursors
    BY <1>2, Typed, PageType DEF TurnPage, PageOf
  <2>2. [reader[r] EXCEPT !.pc = "get", !.cursor = PageOf(r).next, !.from = {}] \in Walks
    BY <2>1, Typed DEF Walks
  <2> QED
    BY <1>2, <2>2 DEF TurnPage, TypeOK
<1>3. CASE GoBack(r)
  <2>1. PageOf(r).previous \in Cursors
    BY <1>3, Typed, PageType DEF GoBack, PageOf
  <2> QED
    BY <1>3, <2>1, AwayType DEF GoBack, TypeOK, Walks
<1>4. CASE CacheHit(r)
  <2>1. cache[reader[r].cursor].from \in SUBSET Messages
    BY <1>4, Typed DEF CacheHit
  <2> QED
    BY <1>4, <2>1, ReceiveType DEF CacheHit, TypeOK
<1>5. CASE CacheMiss(r)
  BY <1>5 DEF CacheMiss, TypeOK, Walks
<1>6. CASE Select(r)
  BY <1>6 DEF Select, TypeOK, Walks
<1>7. CASE Fill(r)
  <2>1. reader' \in [Readers -> Walks]
    BY <1>7, Typed, ReceiveType DEF Fill
  <2>2. [from |-> reader[r].from, late |-> Outdated(reader[r].cursor, reader[r].from),
         missed |-> FALSE] \in Entries
    <3>1. Outdated(reader[r].cursor, reader[r].from) \in BOOLEAN
      BY DEF Outdated
    <3> QED
      BY <3>1, Typed DEF Entries
  <2> QED
    BY <1>7, <2>1, <2>2 DEF Fill, TypeOK
<1>8. CASE Leave(r)
  BY <1>8, AwayType DEF Leave, TypeOK
<1> QED
  BY <1>1, <1>2, <1>3, <1>4, <1>5, <1>6, <1>7, <1>8 DEF ReadStep

LEMMA TypeStep == TypeOK /\ [Next]_vars => TypeOK'
<1> SUFFICES ASSUME TypeOK, [Next]_vars PROVE TypeOK'
  OBVIOUS
<1>1. ASSUME NEW c \in Cursors, Expire(c)
      PROVE  TypeOK'
  BY <1>1 DEF Expire, TypeOK
<1>2. CASE UNCHANGED vars
  BY <1>2 DEF vars, TypeOK
<1> QED
  BY <1>1, <1>2, PostTypes, ReadTypes DEF Next

\* The thread's messages, posts, pages and readers keep their types, for every
\* number of each.
THEOREM TypeCorrect == Spec => []TypeOK
BY TypeInit, TypeStep, PTL DEF Spec
-----------------------------------------------------------------------------
(* Outdated pages *)

StaleInv == TypeOK /\ StalePageIsExplained

\* A lost deletion keeps the page, and marks it when it is outdated.
LEMMA MissedKeeps ==
    ASSUME TypeOK, NEW cs, NEW c \in Cursors, Missed(cs)[c] # NoPage
    PROVE  /\ c \in Cached
           /\ Missed(cs)[c].from = cache[c].from
           /\ Missed(cs)[c].late = cache[c].late
           /\ cache[c].missed => Missed(cs)[c].missed
           /\ c \in cs /\ Outdated(c, cache[c].from) => Missed(cs)[c].missed
<1>1. CASE c \in cs \cap Cached /\ Outdated(c, cache[c].from)
  <2>1. cache[c] \in Entries
    BY <1>1, Typed
  <2>2. Missed(cs)[c] = [cache[c] EXCEPT !.missed = TRUE]
    BY <1>1 DEF Missed
  <2> QED
    BY <1>1, <2>1, <2>2 DEF Entries
<1>2. CASE ~(c \in cs \cap Cached /\ Outdated(c, cache[c].from))
  <2>1. Missed(cs)[c] = cache[c]
    BY <1>2 DEF Missed
  <2> QED
    BY <1>2, <2>1 DEF Cached
<1> QED
  BY <1>1, <1>2

\* Who only reads explains nothing anew and nothing less.
LEMMA QuietStep ==
    ASSUME StalePageIsExplained, UNCHANGED <<stored, post, cache>>
    PROVE  StalePageIsExplained'
BY DEF StalePageIsExplained, Cached, Outdated

LEMMA PostStale ==
    ASSUME StaleInv, NEW m \in Messages, InsertMessage(m) \/ PostStep(m)
    PROVE  StalePageIsExplained'
<1> USE DEF StaleInv
<1>1. CASE InsertMessage(m)
  <2>1. post'[m].pc = "stored"
    BY <1>1 DEF InsertMessage, TypeOK, Posts
  <2> QED
    BY <2>1 DEF StalePageIsExplained
<1>2. CASE StartScan(m)
  <2>1. post'[m].todo = Cached /\ Cached' = Cached
    BY <1>2 DEF StartScan, TypeOK, Posts, Scan, Cached
  <2> QED
    BY <2>1 DEF StalePageIsExplained
<1>3. ASSUME NEW d \in Cursors, DeletePage(m, d)
      PROVE  StalePageIsExplained'
  <2> SUFFICES ASSUME NEW c \in Cached', Outdated(c, cache[c].from)'
               PROVE  \/ cache'[c].late
                      \/ cache'[c].missed
                      \/ \E n \in Messages : post'[n].pc = "stored" \/ c \in post'[n].todo
    BY DEF StalePageIsExplained
  <2>1. c \in Cached /\ c # d /\ cache'[c] = cache[c]
    BY <1>3 DEF DeletePage, Cached, TypeOK
  <2>2. Outdated(c, cache[c].from)
    BY <1>3, <2>1 DEF DeletePage, Outdated
  <2>3. ASSUME NEW n \in Messages, post[n].pc = "stored" \/ c \in post[n].todo
        PROVE  post'[n].pc = "stored" \/ c \in post'[n].todo
    BY <1>3, <2>1, <2>3 DEF DeletePage, TypeOK, Posts
  <2> QED
    BY <2>1, <2>2, <2>3 DEF StalePageIsExplained
<1>4. CASE ScanEnds(m)
  <2>1. ASSUME NEW n \in Messages
        PROVE  /\ post[n].pc = "stored" => post'[n].pc = "stored"
               /\ post'[n].todo = post[n].todo
    BY <1>4 DEF ScanEnds, TypeOK, Posts
  <2> QED
    BY <1>4, <2>1 DEF ScanEnds, StalePageIsExplained, Cached, Outdated
<1>5. CASE DeletionLost(m)
  <2> DEFINE cs == IF post[m].pc = "stored" THEN Cursors ELSE post[m].todo
  <2>1. cache' = Missed(cs) /\ UNCHANGED stored
    BY <1>5 DEF DeletionLost
  <2> SUFFICES ASSUME NEW c \in Cached', Outdated(c, cache[c].from)'
               PROVE  \/ cache'[c].late
                      \/ cache'[c].missed
                      \/ \E n \in Messages : post'[n].pc = "stored" \/ c \in post'[n].todo
    BY DEF StalePageIsExplained
  <2>2. c \in Cursors /\ Missed(cs)[c] # NoPage
    BY <2>1 DEF Cached
  <2> HIDE DEF cs
  <2>3. /\ c \in Cached
        /\ cache'[c].from = cache[c].from
        /\ cache'[c].late = cache[c].late
        /\ cache[c].missed => cache'[c].missed
        /\ c \in cs /\ Outdated(c, cache[c].from) => cache'[c].missed
    BY <2>1, <2>2, MissedKeeps
  <2>4. Outdated(c, cache[c].from)
    BY <2>1, <2>3 DEF Outdated
  <2>5. CASE post[m].pc = "stored" \/ c \in post[m].todo
    BY <2>2, <2>3, <2>4, <2>5 DEF cs
  <2>6. CASE cache[c].late \/ cache[c].missed
    BY <2>3, <2>6
  <2>7. ASSUME NEW n \in Messages, n # m, post[n].pc = "stored" \/ c \in post[n].todo
        PROVE  post'[n].pc = "stored" \/ c \in post'[n].todo
    BY <1>5, <2>7 DEF DeletionLost, TypeOK
  <2> QED
    BY <2>3, <2>4, <2>5, <2>6, <2>7 DEF StalePageIsExplained
<1> QED
  BY <1>1, <1>2, <1>3, <1>4, <1>5 DEF PostStep

LEMMA FillStale ==
    ASSUME StaleInv, NEW r \in Readers, Fill(r)
    PROVE  StalePageIsExplained'
<1> DEFINE d == reader[r].cursor
           S == reader[r].from
<1>1. CASE UNCHANGED cache
  BY <1>1, QuietStep DEF StaleInv, Fill
<1>2. CASE cache' = [cache EXCEPT ![d] = [from |-> S, late |-> Outdated(d, S), missed |-> FALSE]]
  <2>1. d \in Cursors /\ UNCHANGED <<stored, post>>
    BY Typed DEF StaleInv, Fill
  <2> SUFFICES ASSUME NEW c \in Cached', Outdated(c, cache[c].from)'
               PROVE  \/ cache'[c].late
                      \/ cache'[c].missed
                      \/ \E n \in Messages : post'[n].pc = "stored" \/ c \in post'[n].todo
    BY DEF StalePageIsExplained
  <2>2. CASE c = d
    <3>1. cache'[c].from = S /\ cache'[c].late = Outdated(d, S)
      BY <1>2, <2>1, <2>2 DEF StaleInv, TypeOK
    <3>2. Outdated(d, S)
      BY <2>1, <2>2, <3>1 DEF Outdated
    <3> QED
      BY <3>1, <3>2
  <2>3. CASE c # d
    <3>1. c \in Cached /\ cache'[c] = cache[c]
      BY <1>2, <2>3 DEF StaleInv, TypeOK, Cached
    <3>2. Outdated(c, cache[c].from)
      BY <2>1, <3>1 DEF Outdated
    <3> QED
      BY <2>1, <3>1, <3>2 DEF StaleInv, StalePageIsExplained
  <2> QED
    BY <2>2, <2>3
<1> QED
  BY <1>1, <1>2 DEF Fill

LEMMA ExpireStale ==
    ASSUME StaleInv, NEW d \in Cursors, Expire(d)
    PROVE  StalePageIsExplained'
<1> SUFFICES ASSUME NEW c \in Cached', Outdated(c, cache[c].from)'
             PROVE  \/ cache'[c].late
                    \/ cache'[c].missed
                    \/ \E n \in Messages : post'[n].pc = "stored" \/ c \in post'[n].todo
  BY DEF StalePageIsExplained
<1>1. c \in Cached /\ cache'[c] = cache[c]
  BY DEF Expire, Cached, StaleInv, TypeOK
<1>2. Outdated(c, cache[c].from)
  BY <1>1 DEF Expire, Outdated
<1> QED
  BY <1>1, <1>2 DEF StaleInv, StalePageIsExplained, Expire

LEMMA StaleStep == StaleInv /\ [Next]_vars => StaleInv'
<1> SUFFICES ASSUME StaleInv, [Next]_vars PROVE StalePageIsExplained'
  BY TypeStep DEF StaleInv
<1>1. ASSUME NEW r \in Readers,
             Open(r) \/ TurnPage(r) \/ GoBack(r) \/ ReadStep(r) \/ Leave(r)
      PROVE  StalePageIsExplained'
  <2>1. CASE Fill(r)
    BY <2>1, FillStale
  <2>2. CASE ~Fill(r)
    <3>1. UNCHANGED <<stored, post, cache>>
      BY <1>1, <2>2 DEF Open, TurnPage, GoBack, ReadStep, Leave, CacheHit, CacheMiss, Select
    <3> QED
      BY <3>1, QuietStep DEF StaleInv
  <2> QED
    BY <2>1, <2>2
<1>2. CASE UNCHANGED vars
  BY <1>2, QuietStep DEF vars, StaleInv
<1> QED
  BY <1>1, <1>2, PostStale, ExpireStale DEF Next

LEMMA StaleInit == Init => StaleInv
  BY TypeInit DEF Init, StaleInv, StalePageIsExplained, Cached

\* An outdated page is a late fill, an escape from a lost deletion, or still to
\* be deleted, for every length of pages and every number of posts.
THEOREM StalePagesExplained == Spec => []StalePageIsExplained
<1>1. StaleInv => StalePageIsExplained
  BY DEF StaleInv
<1> QED
  BY <1>1, StaleInit, StaleStep, PTL DEF Spec
-----------------------------------------------------------------------------
(* Walks *)

\* Messages that commit do not disturb a reader at rest.
LEMMA WalkFrame ==
    ASSUME NEW r \in Readers, WalkAt(r), reader'[r] = reader[r], stored \subseteq stored'
    PROVE  WalkAt(r)'
BY DEF WalkAt, PageOf

\* A page that is handed over keeps its reader's promises.
LEMMA ReceiveWalk ==
    ASSUME WalkInv, NEW r \in Readers, NEW S \in SUBSET Messages, Receive(r, S),
           reader[r].pc \in {"get", "select", "fill"}, UNCHANGED stored
    PROVE  WalkAt(r)'
<1> DEFINE w == reader[r]
           c == reader[r].cursor
           p == Page[c][S]
<1>1. w \in Walks /\ c \in Cursors /\ WalkAt(r)
  BY Typed DEF WalkInv
<1>2. /\ reader'[r].pc = "reading" /\ reader'[r].cursor = c
      /\ reader'[r].from = S /\ reader'[r].since = w.since
      /\ reader'[r].seen = w.seen \cup p.messages
      /\ reader'[r].stale = (w.stale \/ ~(w.since \subseteq S))
  BY <1>1 DEF Receive, WalkInv, TypeOK, Walks
<1>3. PageOf(r)' = p
  BY <1>2 DEF PageOf
<1>4. /\ p.messages = Shown(c, S) /\ p.next = NextCursor(c, S)
      /\ Shown(c, S) \subseteq Beyond(c, S) /\ Beyond(c, S) \subseteq S
  BY <1>1, PageIs, FetchedType
<1>5. w.seen \subseteq Nat /\ S \subseteq Nat /\ (c.dir = "next" => c.at \in Nat)
  BY <1>1, MessagesNat, CursorTypes DEF Walks
<1> HIDE DEF p, c, w
<1>6. ASSUME p.next # NoCursor, NEW m \in w.seen \cup p.messages
      PROVE  m >= p.next.at
  <2>1. /\ p.next.at = LastOf(c, S) /\ LastOf(c, S) \in Shown(c, S)
        /\ \A k \in Shown(c, S) : LastOf(c, S) <= k
    BY <1>1, <1>4, <1>6, NextIsLast DEF c
  <2>2. LastOf(c, S) \in Nat
    BY <2>1, <1>4, <1>5
  <2>3. CASE m \in p.messages
    BY <2>1, <2>2, <2>3, <1>4, <1>5
  <2>4. CASE m \in w.seen
    <3>1. c.dir = "next" /\ m >= c.at
      BY <2>4, <1>1 DEF WalkAt, w, c
    <3>2. LastOf(c, S) < c.at
      BY <2>1, <3>1, <1>4 DEF Beyond
    <3> QED
      BY <2>1, <2>2, <2>4, <3>1, <3>2, <1>5
  <2> QED
    BY <1>6, <2>3, <2>4
<1>7. ASSUME ~reader'[r].stale, NEW m \in w.since \ (w.seen \cup p.messages)
      PROVE  p.next # NoCursor /\ m < p.next.at
  <2>1. ~w.stale /\ m \in S
    BY <1>2, <1>7
  <2>2. c.dir # "previous"
    BY <1>1, <1>7 DEF WalkAt, w, c
  <2>3. m \in Beyond(c, S)
    <3>1. CASE c.dir = "next"
      <4>1. m < c.at
        BY <1>1, <1>7, <2>1, <3>1 DEF WalkAt, w, c
      <4> QED
        BY <2>1, <3>1, <4>1 DEF Beyond
    <3>2. CASE c.dir # "next"
      BY <2>1, <2>2, <3>2 DEF Beyond
    <3> QED
      BY <3>1, <3>2
  <2>4. NextCursor(c, S) # NoCursor /\ m < LastOf(c, S)
    BY <1>1, <1>4, <1>7, <2>2, <2>3, NothingSkipped DEF c
  <2> QED
    BY <1>1, <1>4, <2>4, NextIsLast DEF c
<1>8. w.since \subseteq stored /\ (c.dir = "previous" => w.since = {})
  BY <1>1 DEF WalkAt, w, c
<1> QED
  BY <1>2, <1>3, <1>6, <1>7, <1>8 DEF WalkAt

LEMMA ReaderWalk ==
    ASSUME WalkInv, NEW r \in Readers,
           Open(r) \/ TurnPage(r) \/ GoBack(r) \/ ReadStep(r) \/ Leave(r)
    PROVE  WalkAt(r)'
<1>1. reader[r] \in Walks /\ WalkAt(r) /\ stored \subseteq Messages
  BY Typed DEF WalkInv, TypeOK
<1>2. CASE Open(r)
  <2>1. reader'[r] = [Away EXCEPT !.pc = "get", !.since = stored] /\ UNCHANGED stored
    BY <1>2 DEF Open, WalkInv, TypeOK
  <2>2. /\ reader'[r].pc = "get" /\ reader'[r].cursor = First
        /\ reader'[r].seen = {} /\ reader'[r].since = stored
    BY <2>1 DEF Away
  <2> QED
    BY <2>1, <2>2, CursorTypes DEF WalkAt
<1>3. CASE TurnPage(r)
  <2>1. /\ reader'[r] = [reader[r] EXCEPT !.pc = "get", !.cursor = PageOf(r).next,
                                          !.from = {}]
        /\ PageOf(r).next # NoCursor /\ reader[r].pc = "reading" /\ UNCHANGED stored
    BY <1>3 DEF TurnPage, WalkInv, TypeOK
  <2>2. /\ reader'[r].pc = "get" /\ reader'[r].cursor = PageOf(r).next
        /\ reader'[r].seen = reader[r].seen /\ reader'[r].since = reader[r].since
        /\ reader'[r].stale = reader[r].stale
    BY <1>1, <2>1 DEF Walks
  <2>3. PageOf(r).next.dir = "next"
    BY <2>1, Typed, PageType DEF PageOf, WalkInv
  <2> QED
    BY <1>1, <2>1, <2>2, <2>3 DEF WalkAt
<1>4. CASE GoBack(r)
  <2>1. /\ reader'[r] = [Away EXCEPT !.pc = "get", !.cursor = PageOf(r).previous]
        /\ PageOf(r).previous # NoCursor
    BY <1>4 DEF GoBack, WalkInv, TypeOK
  <2>2. /\ reader'[r].pc = "get" /\ reader'[r].cursor = PageOf(r).previous
        /\ reader'[r].seen = {} /\ reader'[r].since = {}
    BY <2>1 DEF Away
  <2>3. PageOf(r).previous.dir = "previous"
    BY <2>1, Typed, PageType DEF PageOf, WalkInv
  <2> QED
    BY <2>2, <2>3 DEF WalkAt
<1>5. CASE CacheHit(r)
  <2>1. cache[reader[r].cursor].from \in SUBSET Messages
    BY <1>5, Typed DEF CacheHit, WalkInv
  <2> QED
    BY <1>5, <2>1, ReceiveWalk DEF CacheHit
<1>6. CASE CacheMiss(r)
  <2>1. reader'[r] = [reader[r] EXCEPT !.pc = "select"] /\ reader[r].pc = "get"
        /\ UNCHANGED stored
    BY <1>6 DEF CacheMiss, WalkInv, TypeOK, Walks
  <2>2. /\ reader'[r].pc = "select" /\ reader'[r].cursor = reader[r].cursor
        /\ reader'[r].seen = reader[r].seen /\ reader'[r].since = reader[r].since
        /\ reader'[r].stale = reader[r].stale
    BY <1>1, <2>1 DEF Walks
  <2> QED
    BY <1>1, <2>1, <2>2 DEF WalkAt
<1>7. CASE Select(r)
  <2>1. reader'[r] = [reader[r] EXCEPT !.pc = "fill", !.from = stored]
        /\ reader[r].pc = "select" /\ UNCHANGED stored
    BY <1>7 DEF Select, WalkInv, TypeOK, Walks
  <2>2. /\ reader'[r].pc = "fill" /\ reader'[r].cursor = reader[r].cursor
        /\ reader'[r].seen = reader[r].seen /\ reader'[r].since = reader[r].since
        /\ reader'[r].stale = reader[r].stale /\ reader'[r].from = stored
    BY <1>1, <2>1 DEF Walks
  <2> QED
    BY <1>1, <2>1, <2>2 DEF WalkAt
<1>8. CASE Fill(r)
  <2>1. reader[r].from \in SUBSET Messages
    BY Typed DEF WalkInv
  <2> QED
    BY <1>8, <2>1, ReceiveWalk DEF Fill
<1>9. CASE Leave(r)
  <2>1. reader'[r] = Away
    BY <1>9 DEF Leave, WalkInv, TypeOK
  <2> QED
    BY <2>1 DEF WalkAt, Away
<1> QED
  BY <1>2, <1>3, <1>4, <1>5, <1>6, <1>7, <1>8, <1>9 DEF ReadStep

LEMMA WalkStep == WalkInv /\ [Next]_vars => WalkInv'
<1> SUFFICES ASSUME WalkInv, [Next]_vars, NEW r \in Readers PROVE WalkAt(r)'
  BY TypeStep DEF WalkInv
<1>1. WalkAt(r)
  BY DEF WalkInv
<1>2. ASSUME NEW m \in Messages, InsertMessage(m) \/ PostStep(m)
      PROVE  WalkAt(r)'
  <2>1. reader' = reader /\ stored \subseteq stored'
    BY <1>2 DEF InsertMessage, PostStep, StartScan, DeletePage, ScanEnds, DeletionLost
  <2> QED
    BY <1>1, <2>1, WalkFrame
<1>3. ASSUME NEW q \in Readers,
             Open(q) \/ TurnPage(q) \/ GoBack(q) \/ ReadStep(q) \/ Leave(q)
      PROVE  WalkAt(r)'
  <2>1. CASE q = r
    BY <1>3, <2>1, ReaderWalk
  <2>2. CASE q # r
    <3>1. reader'[r] = reader[r] /\ stored' = stored
      BY <1>3, <2>2 DEF Open, TurnPage, GoBack, ReadStep, Leave, CacheHit, CacheMiss,
                        Select, Fill, Receive, WalkInv, TypeOK
    <3> QED
      BY <1>1, <3>1, WalkFrame
  <2> QED
    BY <2>1, <2>2
<1>4. CASE UNCHANGED vars \/ \E c \in Cursors : Expire(c)
  BY <1>1, <1>4, WalkFrame DEF vars, Expire
<1> QED
  BY <1>2, <1>3, <1>4 DEF Next

LEMMA WalkInit == Init => WalkInv
  BY TypeInit DEF Init, WalkInv, WalkAt, Away

\* A walk towards older messages leaves out none that was there when it began,
\* unless Redis handed it an older page: for every length of pages.
THEOREM WalksSkipNothing == Spec => []WalkSkipsNothing
<1>1. WalkInv => WalkSkipsNothing
  BY DEF WalkInv, WalkAt, WalkSkipsNothing
<1> QED
  BY <1>1, WalkInit, WalkStep, PTL DEF Spec

\* A reader turns to a page only by receiving it.
LEMMA Arrival ==
    ASSUME WalkInv, [Next]_vars, NEW r \in Readers,
           reader[r].pc # "reading", reader'[r].pc = "reading"
    PROVE  \E S \in SUBSET Messages : Receive(r, S) /\ reader[r].pc \in {"get", "fill"}
<1>1. PICK q \in Readers : Open(q) \/ TurnPage(q) \/ GoBack(q) \/ ReadStep(q) \/ Leave(q)
  BY DEF Next, vars, Expire, InsertMessage, PostStep, StartScan, DeletePage, ScanEnds,
         DeletionLost
<1>2. q = r
  BY <1>1 DEF Open, TurnPage, GoBack, ReadStep, Leave, CacheHit, CacheMiss,
              Select, Fill, Receive, WalkInv, TypeOK
<1>3. CacheHit(r) \/ Fill(r)
  <2>0. reader \in [Readers -> Walks]
    BY DEF WalkInv, TypeOK
  <2>1. ~Open(r) /\ ~GoBack(r) /\ ~Leave(r)
    <3>1. Open(r) => reader'[r].pc = "get"
      <4>1. Open(r) => reader'[r] = [Away EXCEPT !.pc = "get", !.since = stored]
        BY <2>0 DEF Open
      <4> QED
        BY <4>1 DEF Away
    <3>2. GoBack(r) => reader'[r].pc = "get"
      <4>1. GoBack(r) =>
              reader'[r] = [Away EXCEPT !.pc = "get", !.cursor = PageOf(r).previous]
        BY <2>0 DEF GoBack
      <4> QED
        BY <4>1 DEF Away
    <3>3. Leave(r) => reader'[r].pc = "away"
      BY <2>0 DEF Leave, Away
    <3> QED
      BY <3>1, <3>2, <3>3
  <2>2. ~TurnPage(r) /\ ~CacheMiss(r) /\ ~Select(r)
    BY DEF TurnPage, CacheMiss, Select, WalkInv, TypeOK, Walks
  <2> QED
    BY <1>1, <1>2, <2>1, <2>2 DEF ReadStep
<1>4. cache[reader[r].cursor].from \in SUBSET Messages \/ ~CacheHit(r)
  BY Typed DEF CacheHit, WalkInv
<1>5. reader[r].from \in SUBSET Messages
  BY Typed DEF WalkInv
<1> QED
  BY <1>3, <1>4, <1>5 DEF CacheHit, Fill

\* No message is shown twice on the way, for every length of pages and whatever
\* is posted meanwhile.
THEOREM WalksNeverRepeat == Spec => WalkNeverRepeats
<1> DEFINE Fresh(r) ==
      /\ reader[r].pc # "reading"
      /\ reader'[r].pc = "reading"
      /\ reader[r].cursor.dir = "next"
      => Page[reader[r].cursor][reader'[r].from].messages \cap reader[r].seen = {}
<1>1. ASSUME WalkInv, [Next]_vars, NEW r \in Readers
      PROVE  Fresh(r)
  <2> SUFFICES ASSUME reader[r].pc # "reading", reader'[r].pc = "reading",
                      reader[r].cursor.dir = "next"
               PROVE  Page[reader[r].cursor][reader'[r].from].messages
                        \cap reader[r].seen = {}
    OBVIOUS
  <2>1. PICK S \in SUBSET Messages : Receive(r, S) /\ reader[r].pc \in {"get", "fill"}
    BY <1>1, Arrival
  <2>2. reader'[r].from = S
    BY <1>1, <2>1 DEF Receive, WalkInv, TypeOK, Walks
  <2>3. \A m \in reader[r].seen : m >= reader[r].cursor.at
    BY <1>1, <2>1 DEF WalkInv, WalkAt
  <2>4. Page[reader[r].cursor][S].messages \subseteq Beyond(reader[r].cursor, S)
    BY <1>1, Typed, PageIs, FetchedType DEF WalkInv
  <2>5. \A m \in Beyond(reader[r].cursor, S) : m \in S /\ m < reader[r].cursor.at
    BY DEF Beyond
  <2>6. reader[r].cursor.at \in Nat /\ S \subseteq Nat
    BY <1>1, Typed, CursorTypes, MessagesNat DEF WalkInv
  <2>7. ASSUME NEW m \in Page[reader[r].cursor][S].messages, m \in reader[r].seen
        PROVE  FALSE
    <3>1. m < reader[r].cursor.at /\ m \in Nat
      BY <2>4, <2>5, <2>6, <2>7
    <3>2. m >= reader[r].cursor.at
      BY <2>3, <2>7
    <3> QED
      BY <3>1, <3>2, <2>6
  <2> QED
    BY <2>2, <2>7
<1>2. WalkInv /\ [Next]_vars => [\A r \in Readers : Fresh(r)]_vars
  BY <1>1
<1> QED
  BY <1>2, WalkInit, WalkStep, PTL DEF Spec, WalkNeverRepeats
-----------------------------------------------------------------------------
(* What a page of more recent messages leaves out *)

\* What is older than one of the oldest is one of them.
LEMMA OldestBelow ==
    ASSUME NEW n \in Nat, NEW T, T \subseteq Messages,
           NEW m \in T, m \notin Oldest(n, T), NEW k \in Oldest(n, T)
    PROVE  k < m
<1>1. k \in T /\ Cardinality({j \in T : j < k}) < n
  BY DEF Oldest
<1>2. ~(Cardinality({j \in T : j < m}) < n)
  BY DEF Oldest
<1>3. SUFFICES ASSUME m <= k PROVE FALSE
  BY <1>1, MessagesNat
<1>4. {j \in T : j < m} \subseteq {j \in T : j < k}
  <2>1. T \subseteq Nat /\ k \in Nat /\ m \in Nat
    BY <1>1, MessagesNat
  <2>2. \A j \in T : j < m => j < k
    BY <2>1, <1>3
  <2> QED
    BY <2>2
<1>5. Cardinality({j \in T : j < m}) <= Cardinality({j \in T : j < k})
  BY <1>4, FiniteMessages, FS_Subset
<1>6. Cardinality({j \in T : j < m}) \in Nat /\ Cardinality({j \in T : j < k}) \in Nat
  BY FiniteMessages
<1> QED
  BY <1>1, <1>2, <1>5, <1>6

\* When something is not among the n oldest, there are n of them at least.
LEMMA OldestFull ==
    ASSUME NEW n \in Nat, NEW T, T \subseteq Messages,
           NEW m \in T, m \notin Oldest(n, T)
    PROVE  Cardinality(Oldest(n, T)) >= n
<1> DEFINE Rest == T \ Oldest(n, T)
<1>1. PICK low \in Rest : \A k \in Rest : low <= k
  <2>1. Rest \subseteq Messages /\ Rest # {}
    OBVIOUS
  <2> QED
    BY <2>1, HasMin
<1>2. {k \in T : k < low} \subseteq Oldest(n, T)
  <2>1. T \subseteq Nat /\ low \in Nat
    BY MessagesNat
  <2>2. \A k \in T : k < low => k \notin Rest
    BY <2>1, <1>1
  <2> QED
    BY <2>2
<1>3. Oldest(n, T) \subseteq Messages
  BY DEF Oldest
<1>4. Cardinality({k \in T : k < low}) <= Cardinality(Oldest(n, T))
  BY <1>2, <1>3, FiniteMessages, FS_Subset
<1>5. ~(Cardinality({k \in T : k < low}) < n)
  BY <1>1 DEF Oldest
<1>6. Cardinality({k \in T : k < low}) \in Nat /\ Cardinality(Oldest(n, T)) \in Nat
  BY <1>3, FiniteMessages
<1> QED
  BY <1>4, <1>5, <1>6

\* The n oldest are n at most: the others lie below the newest of them.
LEMMA OldestBounded ==
    ASSUME NEW n \in Nat, NEW T, T \subseteq Messages
    PROVE  Cardinality(Oldest(n, T)) <= n
<1> DEFINE Old0 == Oldest(n, T)
<1>0. Old0 \subseteq T
  BY DEF Oldest
<1>1. CASE Old0 = {}
  BY <1>1, FS_EmptySet
<1>2. CASE Old0 # {}
  <2>1. PICK top \in Old0 : \A k \in Old0 : top >= k
    BY <1>0, <1>2, HasMax
  <2>2. Cardinality({k \in T : k < top}) < n
    BY DEF Oldest
  <2>3. Old0 \ {top} \subseteq {k \in T : k < top}
    <3>1. T \subseteq Nat /\ top \in Nat
      BY <1>0, MessagesNat
    <3>2. \A k \in Old0 : k # top => k < top
      BY <1>0, <2>1, <3>1
    <3> QED
      BY <1>0, <3>2
  <2>4. Cardinality(Old0 \ {top}) <= Cardinality({k \in T : k < top})
    BY <2>3, FiniteMessages, FS_Subset
  <2>5. IsFiniteSet(Old0) /\ Cardinality(Old0) \in Nat
    BY <1>0, FiniteMessages
  <2>6. Cardinality(Old0 \ {top}) = Cardinality(Old0) - 1
    BY <2>5, FS_RemoveElement
  <2>7. Cardinality({k \in T : k < top}) \in Nat
    BY FiniteMessages
  <2> QED
    BY <2>2, <2>4, <2>5, <2>6, <2>7
<1> QED
  BY <1>1, <1>2

\* A set of n messages is its n newest.
LEMMA NewestAll ==
    ASSUME NEW n \in Nat, NEW T, T \subseteq Messages, Cardinality(T) <= n
    PROVE  Newest(n, T) = T
<1>1. ASSUME NEW m \in T
      PROVE  Cardinality({k \in T : k > m}) < n
  <2>1. {k \in T : k > m} \subseteq T \ {m}
    BY MessagesNat
  <2>2. Cardinality(T \ {m}) = Cardinality(T) - 1 /\ IsFiniteSet(T \ {m})
    BY FiniteMessages, FS_RemoveElement
  <2>3. Cardinality({k \in T : k > m}) <= Cardinality(T \ {m})
    BY <2>1, <2>2, FS_Subset
  <2> QED
    BY <2>2, <2>3, FiniteMessages
<1> QED
  BY <1>1 DEF Newest

\* Of n + 1 messages the n newest are all but the oldest.
LEMMA NewestButOne ==
    ASSUME NEW n \in Nat, NEW T, T \subseteq Messages, Cardinality(T) = n + 1,
           NEW old \in T, \A k \in T : old <= k
    PROVE  Newest(n, T) = T \ {old}
<1>0. IsFiniteSet(T) /\ T \subseteq Nat
  BY FiniteMessages, MessagesNat
<1>1. Cardinality(T \ {old}) = n /\ IsFiniteSet(T \ {old})
  BY <1>0, FS_RemoveElement
<1>2. old \notin Newest(n, T)
  <2>1. {k \in T : k > old} = T \ {old}
    <3>1. \A k \in T : k > old <=> k # old
      BY <1>0
    <3> QED
      BY <3>1
  <2> QED
    BY <1>1, <2>1 DEF Newest
<1>3. ASSUME NEW m \in T, m # old
      PROVE  Cardinality({k \in T : k > m}) < n
  <2>1. {k \in T : k > m} \subseteq (T \ {old}) \ {m}
    BY <1>0
  <2>2. Cardinality((T \ {old}) \ {m}) = n - 1 /\ IsFiniteSet((T \ {old}) \ {m})
    BY <1>1, <1>3, FS_RemoveElement
  <2>3. Cardinality({k \in T : k > m}) <= Cardinality((T \ {old}) \ {m})
    BY <2>1, <2>2, FS_Subset
  <2> QED
    BY <2>2, <2>3, FiniteMessages
<1> QED
  BY <1>2, <1>3 DEF Newest

\* The rows a request with previous_cursor returns: all there are, or the oldest
\* of them, Limit + 1 in number.
LEMMA FetchedBack ==
    ASSUME NEW c \in Cursors, c.dir = "previous", NEW S \in SUBSET Messages
    PROVE  /\ Cardinality(Fetched(c, S)) <= Limit + 1
           /\ \A m \in Beyond(c, S) \ Fetched(c, S) : \A k \in Fetched(c, S) : k < m
           /\ \A m \in Beyond(c, S) :
                (\A k \in Beyond(c, S) : m <= k) => m \in Fetched(c, S)
<1>1. Beyond(c, S) \subseteq Messages /\ Fetched(c, S) = Oldest(Limit + 1, Beyond(c, S))
  BY FetchedType DEF Fetched
<1>2. ASSUME NEW m \in Beyond(c, S), \A k \in Beyond(c, S) : m <= k
      PROVE  m \in Fetched(c, S)
  <2>1. {k \in Beyond(c, S) : k < m} = {}
    <3>1. Beyond(c, S) \subseteq Nat
      BY <1>1, MessagesNat
    <3>2. \A k \in Beyond(c, S) : ~(k < m)
      BY <3>1, <1>2
    <3> QED
      BY <3>2
  <2>2. Cardinality({k \in Beyond(c, S) : k < m}) < Limit + 1
    BY <2>1, FS_EmptySet, LimitNat
  <2> QED
    BY <1>1, <2>2 DEF Oldest
<1> QED
  BY <1>1, <1>2, LimitNat, OldestBelow, OldestBounded

\* GoingBackReturnsThePage fails; this is how far it does, for every length of
\* pages and any messages. When more messages follow the cursor than fit on a
\* page, the page of previous_cursor leaves out exactly one of those between its
\* cursor and the next cursor back: the oldest one, which its client finds when it
\* goes on again. Otherwise it leaves out nothing.
THEOREM GoingBackLeavesOneOut ==
    ASSUME NEW c \in Cursors, c.dir = "previous", NEW S \in SUBSET Messages
    PROVE  LET page == Page[c][S]
               lost == Min(Beyond(c, S)) IN
           IF HasMore(c, S)
             THEN /\ \A m \in page.messages : lost < m
                  /\ page.previous # NoCursor /\ page.previous.at \in page.messages
                  /\ \A m \in Beyond(c, S) \ page.messages :
                       m = lost \/ m > page.previous.at
                  /\ page.next # NoCursor
                  /\ lost \in Page[page.next][S].messages
             ELSE page.messages = Beyond(c, S)
<1> DEFINE T == Beyond(c, S)
           F == Fetched(c, S)
           G == Shown(c, S)
           lost == Min(T)
<1>0. T \subseteq S /\ F \subseteq T /\ G \subseteq F /\ G = Newest(Limit, F)
  BY FetchedType DEF Shown
<1>1. /\ T \subseteq Messages /\ F \subseteq Messages /\ G \subseteq Messages
      /\ Messages \subseteq Nat
  BY <1>0, MessagesNat
<1>2. Cardinality(F) \in Nat /\ Cardinality(F) <= Limit + 1
  BY <1>1, FiniteMessages, FetchedBack
<1>3. \A m \in T \ F : \A k \in F : k < m
  BY FetchedBack
<1>4. Page[c][S].messages = G /\ Page[c][S].next = NextCursor(c, S)
      /\ Page[c][S].previous = PreviousCursor(c, S)
  BY PageIs
<1>5. ASSUME HasMore(c, S)
      PROVE  /\ \A m \in G : lost < m
             /\ Page[c][S].previous # NoCursor /\ Page[c][S].previous.at \in G
             /\ \A m \in T \ G : m = lost \/ m > Page[c][S].previous.at
             /\ Page[c][S].next # NoCursor
             /\ lost \in Page[Page[c][S].next][S].messages
  <2>1. Cardinality(F) = Limit + 1
    BY <1>2, <1>5, LimitNat DEF HasMore
  <2>2. T # {}
    BY <1>0, <2>1, LimitNat, FS_EmptySet
  <2>3. lost \in T /\ \A k \in T : lost <= k
    BY <1>1, <2>2, MinIs
  <2>4. lost \in F
    BY <2>3, FetchedBack
  <2> HIDE DEF T, F, G, lost
  <2>5. G = F \ {lost}
    BY <1>0, <1>1, <2>1, <2>3, <2>4, LimitNat, NewestButOne
  <2>6. \A m \in G : lost < m
    BY <1>0, <1>1, <2>3, <2>5
  <2>7. G # {}
    BY <1>5, ShownNotEmpty DEF G
  <2>8. Max(G) \in G /\ \A k \in G : Max(G) >= k
    BY <1>1, <2>7, MaxIs
  <2>9. Page[c][S].previous = [dir |-> "previous", at |-> Max(G)]
    BY <1>4, <1>5 DEF PreviousCursor, G
  <2>10. \A m \in T \ G : m = lost \/ m > Max(G)
    BY <1>0, <1>1, <1>3, <2>5, <2>8
  <2>11. LastOf(c, S) \in G /\ \A m \in G : LastOf(c, S) <= m
    BY <2>7, LastOfIs DEF G
  <2>12. Page[c][S].next = [dir |-> "next", at |-> LastOf(c, S)]
    BY <1>4, <2>7 DEF NextCursor, G
  <2>13. Page[c][S].next # NoCursor /\ Page[c][S].previous # NoCursor
    BY <2>9, <2>12 DEF NoCursor
  <2>14. lost \in Page[Page[c][S].next][S].messages
    <3> DEFINE n == Page[c][S].next
               Older == Beyond(n, S)
    <3>1. n \in Cursors /\ n.dir = "next" /\ n.at = LastOf(c, S)
      <4>1. LastOf(c, S) \in Messages
        BY <1>1, <2>11
      <4>2. [dir |-> "next", at |-> LastOf(c, S)] \in Cursors
        BY <4>1 DEF Cursors
      <4> QED
        BY <2>12, <4>2
    <3>2. Older = {m \in S : m < LastOf(c, S)}
      BY <3>1 DEF Beyond
    <3>3. T = {m \in S : m > c.at}
      BY DEF T, Beyond
    <3>4. c.at \in Nat
      <4>1. c # First
        BY DEF First
      <4>2. c \in [dir : {"next", "previous"}, at : Messages]
        BY <4>1 DEF Cursors
      <4> QED
        BY <4>2, MessagesNat
    <3>5. lost \in Older
      BY <1>0, <2>3, <2>6, <2>11, <3>2
    <3> HIDE DEF n, Older
    <3>6. \A m \in Older : ~(m > lost)
      <4> SUFFICES ASSUME NEW m \in Older, m > lost PROVE FALSE
        OBVIOUS
      <4>1. m \in S /\ m < LastOf(c, S)
        BY <3>2
      <4>2. m \in Nat /\ lost \in Nat /\ LastOf(c, S) \in Nat
        BY <1>1, <2>3, <2>11, <4>1
      <4>3. m > c.at
        BY <2>3, <3>3, <3>4, <4>2
      <4>4. m \in T /\ m \notin G /\ m # lost
        BY <2>11, <3>3, <4>1, <4>2, <4>3
      <4>5. m > Max(G) /\ Max(G) >= LastOf(c, S) /\ Max(G) \in Nat
        BY <1>1, <2>8, <2>10, <2>11, <4>4
      <4> QED
        BY <4>1, <4>2, <4>5
    <3>7. \A A \in SUBSET Older, k \in Nat : lost \in A /\ k > 0 => lost \in Newest(k, A)
      <4> SUFFICES ASSUME NEW A \in SUBSET Older, NEW k \in Nat, lost \in A, k > 0
                   PROVE  lost \in Newest(k, A)
        OBVIOUS
      <4>1. {m \in A : m > lost} = {}
        BY <3>6
      <4> QED
        BY <4>1, FS_EmptySet DEF Newest
    <3>8. Fetched(n, S) = Newest(Limit + 1, Older) /\ Fetched(n, S) \subseteq Older
      BY <3>1 DEF Fetched, Newest, Older
    <3>9. lost \in Fetched(n, S)
      BY <3>5, <3>7, <3>8, LimitNat
    <3>10. lost \in Shown(n, S)
      BY <3>7, <3>8, <3>9, LimitNat DEF Shown
    <3> QED
      BY <3>1, <3>10, PageIs DEF n
  <2> QED
    BY <2>6, <2>8, <2>9, <2>10, <2>13, <2>14
<1>6. ASSUME ~HasMore(c, S)
      PROVE  G = T
  <2>1. Cardinality(F) <= Limit
    BY <1>6, <1>2, LimitNat DEF HasMore
  <2>2. G = F
    BY <1>0, <1>1, <2>1, LimitNat, NewestAll
  <2>3. T \subseteq F
    <3> SUFFICES ASSUME NEW m \in T, m \notin F PROVE FALSE
      OBVIOUS
    <3>1. Cardinality(F) >= Limit + 1
      BY <1>1, LimitNat, OldestFull DEF Fetched
    <3> QED
      BY <1>2, <2>1, <3>1, LimitNat
  <2> QED
    BY <1>0, <2>2, <2>3
<1> QED
  BY <1>4, <1>5, <1>6
=============================================================================
