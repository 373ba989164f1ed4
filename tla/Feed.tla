-------------------------------- MODULE Feed --------------------------------
(***************************************************************************)
(* The feed of posts: the table sarafan_posts and its cursor pagination     *)
(* (sarafan/database/collections.py), and the web page that loads it page   *)
(* by page into a list (src/store, src/components/App.jsx).  Posts arrive   *)
(* while a reader is between two pages.                                     *)
(***************************************************************************)
EXTENDS Integers, Sequences, FiniteSets

CONSTANTS
  Magnets,
  per_page,     \* posts per page, 2 in the code
  SameSecond,   \* may two posts be stored within one second?
  Restored,     \* may a post be stored again, as after a restart of the node?
  MaxStores     \* bound: calls of posts.store

FeedAssumption ==
  /\ per_page \in Nat \ {0}
  /\ SameSecond \in BOOLEAN /\ Restored \in BOOLEAN
  /\ MaxStores \in Nat

VARIABLES
  rows,          \* table sarafan_posts: a set of [magnet, rowid, created_at]
  clock,         \* the last second at which a post was stored
  fetch,         \* the fetchPosts saga: idle, request sent, or response on its way
  publications,  \* the list of the page
  cursor,        \* uiState.cursor
  ended,         \* uiState.ended
  first          \* history: the rows of the table when the first page was read

vars == <<rows, clock, fetch, publications, cursor, ended, first>>

NoCursor == [t |-> 0, r |-> 0]    \* undefined, null
Rowids == { p.rowid : p \in rows }
LastRowid == CHOOSE r \in Rowids \cup {0} : \A q \in Rowids : q <= r

Idle == [pc |-> "idle", cursor |-> NoCursor, result |-> <<>>, next |-> NoCursor]

Init ==
  /\ rows = {}
  /\ clock = 1
  /\ fetch = Idle
  /\ publications = <<>>
  /\ cursor = NoCursor
  /\ ended = FALSE
  /\ first = {}

\* db.posts.store: INSERT OR REPLACE.  The row gets the next rowid and, as
\* created_at is not among the columns inserted, the current time in seconds.
StorePost(m) ==
  /\ LastRowid < MaxStores
  /\ Restored \/ \A p \in rows : p.magnet # m
  /\ \E now \in {clock, clock + 1} :
       /\ now = clock => SameSecond
       /\ clock' = now
       /\ rows' = { p \in rows : p.magnet # m }
                    \cup {[magnet |-> m, rowid |-> LastRowid + 1, created_at |-> now]}
  /\ UNCHANGED <<fetch, publications, cursor, ended, first>>

\* The page dispatches feedFetchRequest: when it is mounted and when the user
\* asks for more.  takeLatest drops a fetch under way.
Request ==
  /\ ~ended
  /\ fetch' = [Idle EXCEPT !.pc = "sent", !.cursor = cursor]
  /\ UNCHANGED <<rows, clock, publications, cursor, ended, first>>

\* Mutant: the page starts with the post of the cursor.
Selected_Inclusive(c) ==
  IF c = NoCursor THEN rows
  ELSE { p \in rows : p.created_at <= c.t /\ p.rowid <= c.r }

\* Mutant: the page starts one post too late.
Selected_SkipsOne(c) ==
  IF c = NoCursor THEN rows
  ELSE { p \in rows : p.created_at < c.t /\ p.rowid < c.r - 1 }

Selected(c) ==
  IF c = NoCursor THEN rows
  ELSE { p \in rows : p.created_at <= c.t /\ p.rowid < c.r }

\* ORDER BY created_at DESC LIMIT per_page: rows of one second come in any order.
Pages(S) ==
  LET n == IF Cardinality(S) < per_page THEN Cardinality(S) ELSE per_page
  IN { page \in [1 .. n -> S] :
         /\ \A i, j \in 1 .. n :
              i < j => page[i] # page[j] /\ page[i].created_at >= page[j].created_at
         /\ \A i \in 1 .. n, p \in S :
              p.created_at > page[i].created_at => \E j \in 1 .. n : page[j] = p }

\* PostsCollection.all, called by the handler of /api/posts.
All ==
  /\ fetch.pc = "sent"
  /\ \E page \in Pages(Selected(fetch.cursor)) :
       fetch' = [fetch EXCEPT
         !.pc = "answered",
         !.result = page,
         !.next = IF Len(page) = per_page
                  THEN [t |-> page[per_page].created_at, r |-> page[per_page].rowid]
                  ELSE NoCursor]
  /\ first' = IF fetch.cursor = NoCursor THEN rows ELSE first
  /\ UNCHANGED <<rows, clock, publications, cursor, ended>>

\* The saga goes on: addPost for every item, then saveNextCursor.
Receive ==
  /\ fetch.pc = "answered"
  /\ publications' = publications \o [i \in 1 .. Len(fetch.result) |-> fetch.result[i].magnet]
  /\ cursor' = fetch.next
  /\ ended' = (fetch.next = NoCursor)
  /\ fetch' = Idle
  /\ UNCHANGED <<rows, clock, first>>

\* The request fails; the root saga restarts its watcher.
RequestFails ==
  /\ fetch.pc \in {"sent", "answered"}
  /\ fetch' = Idle
  /\ UNCHANGED <<rows, clock, publications, cursor, ended, first>>

Next ==
  \/ \E m \in Magnets : StorePost(m)
  \/ Request \/ All \/ Receive \/ RequestFails

Spec == Init /\ [][Next]_vars

-----------------------------------------------------------------------------
Shown == { publications[i] : i \in DOMAIN publications }

\* No post is shown twice, whatever is stored between two pages and however often
\* a request is repeated or lost.
NoDuplicates ==
  \A i, j \in DOMAIN publications : publications[i] = publications[j] => i = j

\* "return posts starting from position defined by cursor" (app.py:221): a row that
\* was there when the reader began, and that has not been stored again, is shown or
\* below the cursor; once the page is told that the feed ended, all of them are shown.
NothingSkipped ==
  /\ ended => \A p \in first \cap rows : p.magnet \in Shown
  /\ cursor # NoCursor =>
       \A p \in first \cap rows : p.magnet \in Shown \/ p.rowid < cursor.r
=============================================================================
