----------------------------- MODULE MessagePages -----------------------------
(***************************************************************************)
(* The messages of one thread read page by page: cursor pagination over    *)
(* the table (repositories/message_repository.py), the Redis entry of each *)
(* page, keyed by its cursor (cache/thread_cache.py), and the deletion of  *)
(* all pages that a post starts and does not wait for                      *)
(* (services/message_service.py).                                          *)
(*                                                                         *)
(* A message is its place in the order (created_at, id) of the index that  *)
(* the queries use. created_at is the start of the transaction that        *)
(* inserts the message, and transactions that overlap commit in any order: *)
(* a message can appear behind others that readers already saw.            *)
(***************************************************************************)
EXTENDS Naturals, FiniteSets, FiniteSetsExt

CONSTANTS Readers,      \* clients turning the pages
          MaxMessages,  \* bound: messages of the thread
          Old,          \* messages there from the beginning
          Limit,        \* messages per page (the same for all requests)
          MaxPages,     \* bound: pages in Redis at a time
          NoPage        \* a page that is not in Redis

Messages == 1..MaxMessages

\* Cursors are opaque to clients, which only send those they were given.
First == [dir |-> "first", at |-> 0]
NoCursor == [dir |-> "none", at |-> 0]
Cursors == {First} \cup [dir : {"next", "previous"}, at : Messages]

VARIABLES
    stored,     \* the committed messages
    post,       \* [Messages -> where the post of the message is]
    cache,      \* [Cursors -> entry or NoPage]
    reader      \* [Readers -> the request or the page of the client]

vars == <<stored, post, cache, reader>>

\* A page is a function of its cursor and of the messages committed when it was
\* read (from). late and missed (ghosts): it was outdated when stored; a
\* deletion of it was lost while it was outdated.
Entries == [from : SUBSET Messages, late : BOOLEAN, missed : BOOLEAN]

ASSUME PagesAssumption ==
    /\ MaxMessages \in Nat /\ MaxPages \in Nat
    /\ Limit \in Nat \ {0}
    /\ Old \subseteq Messages
    /\ NoPage \notin Entries

\* todo: the pages that the scan has found and not deleted yet.
Posts == [pc : {"none", "stored", "deleting", "done"}, todo : SUBSET Cursors]

\* Ghosts of a walk from the first page towards older messages. seen: shown
\* so far; since: the messages there when it began; stale: it was handed a page
\* read before some of them were there.
Walks == [pc : {"away", "get", "select", "fill", "reading"},
          cursor : Cursors, from : SUBSET Messages,
          seen : SUBSET Messages, since : SUBSET Messages, stale : BOOLEAN]

Away == [pc |-> "away", cursor |-> First, from |-> {},
         seen |-> {}, since |-> {}, stale |-> FALSE]

TypeOK ==
    /\ stored \subseteq Messages
    /\ post \in [Messages -> Posts]
    /\ cache \in [Cursors -> Entries \cup {NoPage}]
    /\ reader \in [Readers -> Walks]

Init ==
    /\ stored = Old
    /\ post = [m \in Messages |->
                 [pc |-> IF m \in Old THEN "done" ELSE "none", todo |-> {}]]
    /\ cache = [c \in Cursors |-> NoPage]
    /\ reader = [r \in Readers |-> Away]
-----------------------------------------------------------------------------
(* One page: the query and the cursors around it *)

Newest(n, T) == {m \in T : Cardinality({k \in T : k > m}) < n}
Oldest(n, T) == {m \in T : Cardinality({k \in T : k < m}) < n}

\* Mutant: the cursor's own message matches as well.
BeyondOrAt(c, S) == CASE c.dir = "next" -> {m \in S : m <= c.at}
                      [] c.dir = "previous" -> {m \in S : m >= c.at}
                      [] OTHER -> S

\* The rows the query matches.
Beyond(c, S) == CASE c.dir = "next" -> {m \in S : m < c.at}
                  [] c.dir = "previous" -> {m \in S : m > c.at}
                  [] OTHER -> S

\* The rows it returns, one more than the page, nearest to the cursor first.
Fetched(c, S) == IF c.dir = "previous" THEN Oldest(Limit + 1, Beyond(c, S))
                                       ELSE Newest(Limit + 1, Beyond(c, S))
HasMore(c, S) == Cardinality(Fetched(c, S)) > Limit

\* The messages of the page: the newest of the returned rows, both ways.
Shown(c, S) == Newest(Limit, Fetched(c, S))

\* Mutant: the cursor is the last row returned, not the last one shown.
LastOfFetched(c, S) == Min(Fetched(c, S))

\* The message the cursor of the next page names.
LastOf(c, S) == Min(Shown(c, S))

\* Going back there always is a next page, except that a page without messages
\* has no cursor for it.
NextCursor(c, S) ==
    IF IF c.dir = "previous" THEN Shown(c, S) # {} ELSE HasMore(c, S)
      THEN [dir |-> "next", at |-> LastOf(c, S)]
      ELSE NoCursor

\* Going on, the way back is the cursor that led here.
PreviousCursor(c, S) ==
    CASE c.dir = "next" -> [dir |-> "previous", at |-> c.at]
      [] c.dir = "previous" /\ HasMore(c, S) ->
           [dir |-> "previous", at |-> Max(Shown(c, S))]
      [] OTHER -> NoCursor

\* The answer to a request with cursor c that finds the messages S committed.
Page == [c \in Cursors |-> [S \in SUBSET Messages |->
           [messages |-> Shown(c, S),
            next |-> NextCursor(c, S),
            previous |-> PreviousCursor(c, S)]]]

Outdated(c, S) == Page[c][S] # Page[c][stored]
Cached == {c \in Cursors : cache[c] # NoPage}

\* The deletions of the pages in cs are lost.
Missed(cs) ==
    [c \in Cursors |->
       IF c \in cs \cap Cached /\ Outdated(c, cache[c].from)
         THEN [cache[c] EXCEPT !.missed = TRUE]
         ELSE cache[c]]
-----------------------------------------------------------------------------
(* Posting *)

\* The message commits. Every page may be outdated from now on.
InsertMessage(m) ==
    /\ post[m].pc = "none"
    /\ stored' = stored \cup {m}
    /\ post' = [post EXCEPT ![m].pc = "stored"]
    /\ UNCHANGED <<cache, reader>>

\* Mutant: only the first page is deleted.
ScanFirstPage == Cached \cap {First}

\* SCAN returns at least the keys that are there from its start to its end. A key
\* that expires meanwhile may be skipped: deleting it then changes nothing.
Scan == Cached

\* The background task starts its scan, after or before the post is answered.
StartScan(m) ==
    /\ post[m].pc = "stored"
    /\ post' = [post EXCEPT ![m] = [pc |-> "deleting", todo |-> Scan]]
    /\ UNCHANGED <<stored, cache, reader>>

DeletePage(m, c) ==
    /\ post[m].pc = "deleting"
    /\ c \in post[m].todo
    /\ cache' = [cache EXCEPT ![c] = NoPage]
    /\ post' = [post EXCEPT ![m].todo = @ \ {c}]
    /\ UNCHANGED <<stored, reader>>

ScanEnds(m) ==
    /\ post[m].pc = "deleting"
    /\ post[m].todo = {}
    /\ post' = [post EXCEPT ![m].pc = "done"]
    /\ UNCHANGED <<stored, cache, reader>>

\* The task is never started (sending the Celery task raised, the process
\* stopped), or an error of Redis ends it: logged, and no page is deleted any
\* more.
DeletionLost(m) ==
    /\ post[m].pc \in {"stored", "deleting"}
    /\ cache' = Missed(IF post[m].pc = "stored" THEN Cursors ELSE post[m].todo)
    /\ post' = [post EXCEPT ![m] = [pc |-> "done", todo |-> {}]]
    /\ UNCHANGED <<stored, reader>>
-----------------------------------------------------------------------------
(* Reading *)

PageOf(r) == Page[reader[r].cursor][reader[r].from]

\* The client asks for the first page.
Open(r) ==
    /\ reader[r].pc \in {"away", "reading"}
    /\ reader' = [reader EXCEPT ![r] =
                    [Away EXCEPT !.pc = "get", !.since = stored]]
    /\ UNCHANGED <<stored, post, cache>>

\* The client follows next_cursor.
TurnPage(r) ==
    /\ reader[r].pc = "reading"
    /\ PageOf(r).next # NoCursor
    /\ reader' = [reader EXCEPT ![r] =
                    [reader[r] EXCEPT !.pc = "get",
                                      !.cursor = PageOf(r).next,
                                      !.from = {}]]
    /\ UNCHANGED <<stored, post, cache>>

\* The client follows previous_cursor: what it reads from there on is a walk of
\* its own, which need not show what it showed before.
GoBack(r) ==
    /\ reader[r].pc = "reading"
    /\ PageOf(r).previous # NoCursor
    /\ reader' = [reader EXCEPT ![r] =
                    [Away EXCEPT !.pc = "get", !.cursor = PageOf(r).previous]]
    /\ UNCHANGED <<stored, post, cache>>

\* The client has the page; S are the messages it was read from.
Receive(r, S) ==
    LET walk == reader[r] IN
    reader' = [reader EXCEPT ![r] =
                 [walk EXCEPT !.pc = "reading",
                              !.from = S,
                              !.seen = walk.seen \cup Page[walk.cursor][S].messages,
                              !.stale = walk.stale \/ ~(walk.since \subseteq S)]]

CacheHit(r) ==
    /\ reader[r].pc = "get"
    /\ reader[r].cursor \in Cached
    /\ Receive(r, cache[reader[r].cursor].from)
    /\ UNCHANGED <<stored, post, cache>>

\* A miss, or an error of Redis that the cache turns into a miss.
CacheMiss(r) ==
    /\ reader[r].pc = "get"
    /\ reader' = [reader EXCEPT ![r].pc = "select"]
    /\ UNCHANGED <<stored, post, cache>>

Select(r) ==
    /\ reader[r].pc = "select"
    /\ reader' = [reader EXCEPT ![r].pc = "fill", ![r].from = stored]
    /\ UNCHANGED <<stored, post, cache>>

\* Mutant: the first page is stored under a key that nobody looks up.
FillNoKey(r) ==
    LET c == IF reader[r].cursor = First THEN NoCursor ELSE reader[r].cursor
        S == reader[r].from IN
    /\ reader[r].pc = "fill"
    /\ \/ cache' = [k \in Cursors \cup {c} |->
                      IF k = c THEN [from |-> S, late |-> FALSE, missed |-> FALSE]
                               ELSE cache[k]]
       \/ UNCHANGED cache
    /\ Receive(r, S)
    /\ UNCHANGED <<stored, post>>

\* The page is stored and returned; an error of Redis is logged.
Fill(r) ==
    LET c == reader[r].cursor
        S == reader[r].from IN
    /\ reader[r].pc = "fill"
    /\ \/ /\ Cardinality(Cached \cup {c}) <= MaxPages
          /\ cache' = [cache EXCEPT ![c] = [from |-> S, late |-> Outdated(c, S),
                                           missed |-> FALSE]]
       \/ UNCHANGED cache
    /\ Receive(r, S)
    /\ UNCHANGED <<stored, post>>

\* The client is gone, its request was cancelled, or the query failed.
Leave(r) ==
    /\ reader[r].pc # "away"
    /\ reader' = [reader EXCEPT ![r] = Away]
    /\ UNCHANGED <<stored, post, cache>>

\* The five minutes of a page end.
Expire(c) ==
    /\ cache[c] # NoPage
    /\ cache' = [cache EXCEPT ![c] = NoPage]
    /\ UNCHANGED <<stored, post, reader>>

PostStep(m) ==
    \/ StartScan(m)
    \/ \E c \in Cursors : DeletePage(m, c)
    \/ ScanEnds(m) \/ DeletionLost(m)

ReadStep(r) == CacheHit(r) \/ CacheMiss(r) \/ Select(r) \/ Fill(r)

Next ==
    \/ \E m \in Messages : InsertMessage(m) \/ PostStep(m)
    \/ \E r \in Readers : \/ Open(r) \/ TurnPage(r) \/ GoBack(r)
                          \/ ReadStep(r) \/ Leave(r)
    \/ \E c \in Cursors : Expire(c)

Spec == Init /\ [][Next]_vars
-----------------------------------------------------------------------------
(* Properties *)

\* An outdated page in Redis was stored after the post that outdates it
\* committed, escaped a deletion that was lost, or is still to be deleted. No
\* page escapes because of its cursor, or because it was filled during a scan.
StalePageIsExplained ==
    \A c \in Cached :
        Outdated(c, cache[c].from) =>
            \/ cache[c].late
            \/ cache[c].missed
            \/ \E m \in Messages : post[m].pc = "stored" \/ c \in post[m].todo

\* A client that follows next_cursor is never shown a message again, whatever is
\* posted meanwhile and however old the pages of Redis are.
WalkNeverRepeats ==
    [][\A r \in Readers :
         /\ reader[r].pc # "reading"
         /\ reader'[r].pc = "reading"
         /\ reader[r].cursor.dir = "next"
         => Page[reader[r].cursor][reader'[r].from].messages \cap reader[r].seen = {}]_vars

\* On its way it is shown every message that was there when it began, unless
\* Redis handed it a page read before: what it has not seen lies behind the
\* next cursor, and after the last page there is nothing left.
WalkSkipsNothing ==
    \A r \in Readers :
        reader[r].pc = "reading" /\ ~reader[r].stale =>
            \A m \in reader[r].since \ reader[r].seen :
                PageOf(r).next # NoCursor /\ m < PageOf(r).next.at

\* message_router.py:120: "Page précédente [...] Retourne les 20 messages
\* précédents". Going on and back again, with nothing posted in between, gives
\* the page the client came from.
GoingBackReturnsThePage ==
    \A c \in Cursors :
        LET here == Page[c][stored]
            there == Page[here.next][stored] IN
        c.dir # "previous" /\ here.next # NoCursor =>
            Page[there.previous][stored].messages = here.messages
=============================================================================
