-------------------------------- MODULE Feed --------------------------------
(***************************************************************************)
(* A reader scrolling a list that changes under them: the keyset pagination *)
(* of app/routers/community.py (_paginate, _split_page) behind list_feed,   *)
(* list_comments and list_replies.  The feed runs newest first and its      *)
(* posts may leave it and come back; comments and replies run oldest first  *)
(* and stay, as tombstones when deleted.                                    *)
(*                                                                          *)
(* A row is its id.  Ids are random, so their order has nothing to do with  *)
(* the order of writing; created_at is taken from the clock before the      *)
(* INSERT has the database's write lock, so rows may land out of order.     *)
(***************************************************************************)
EXTENDS Integers, FiniteSets, Sequences, SequencesExt

CONSTANTS
    Rows,      \* ids of the rows that may be written
    MaxClock,  \* bound on the clock
    Limits,    \* page sizes a reader may ask for, after clamp_limit
    None       \* no cursor

\* What a cursor names: a row and its created_at.
Cursors == [stamp : 1 .. MaxClock, id : Rows]

ConstantsOK ==
    /\ Rows \subseteq Nat
    /\ MaxClock \in Nat \ {0}
    /\ Limits \subseteq Nat \ {0}
    /\ None \notin Cursors

VARIABLES
    clock,
    newest,  \* the list runs newest first
    stamp,   \* created_at of the rows written so far
    status,  \* what became of each row
    cursor,  \* what the reader sends with the next request
    over,    \* the last page came without a next_cursor
    left,    \* history: a row left the list since the last page
    due,     \* history: rows that lay ahead of the reader and did not leave
    shown    \* history: the rows handed out, in order

vars == <<clock, newest, stamp, status, cursor, over, left, due, shown>>

Statuses == {"none", "written", "listed", "hidden"}

Listed == {r \in Rows : status[r] = "listed"}

\* The order of a list: by created_at, ties by id.
Before(a, b) ==
    IF newest
      THEN stamp[a] > stamp[b] \/ (stamp[a] = stamp[b] /\ a > b)
      ELSE stamp[a] < stamp[b] \/ (stamp[a] = stamp[b] /\ a < b)

\* Mutants of Beyond: ties are lost; the row of the cursor itself comes again.
BeyondInTime(c, r) == IF newest THEN stamp[r] < c.stamp ELSE stamp[r] > c.stamp
BeyondOrAt(c, r) ==
    BeyondInTime(c, r)
        \/ (stamp[r] = c.stamp /\ (IF newest THEN r <= c.id ELSE r >= c.id))

\* The predicate of a page on its rows: ts < c OR (ts = c AND id < cid).
Beyond(c, r) ==
    \/ IF newest THEN stamp[r] < c.stamp ELSE stamp[r] > c.stamp
    \/ stamp[r] = c.stamp /\ (IF newest THEN r < c.id ELSE r > c.id)

\* The reader has yet to come to the place of row r.
Ahead(r) == ~over /\ (shown = <<>> \/ Before(Last(shown), r))

-----------------------------------------------------------------------------
Init ==
    /\ clock = 1
    /\ newest \in BOOLEAN
    /\ stamp = [r \in {} |-> 0]
    /\ status = [r \in Rows |-> "none"]
    /\ cursor = None
    /\ over = FALSE
    /\ left = FALSE
    /\ due = {}
    /\ shown = <<>>

Tick ==
    /\ clock < MaxClock
    /\ clock' = clock + 1
    /\ UNCHANGED <<newest, stamp, status, cursor, over, left, due, shown>>

(* create_post or create_comment takes the row's id and created_at ...       *)
Write(r) ==
    /\ status[r] = "none"
    /\ stamp' = [x \in DOMAIN stamp \cup {r} |-> IF x = r THEN clock ELSE stamp[x]]
    /\ status' = [status EXCEPT ![r] = "written"]
    /\ UNCHANGED <<clock, newest, cursor, over, left, due, shown>>

\* Row r is on the list from now on.
Enters(r) ==
    /\ status' = [status EXCEPT ![r] = "listed"]
    /\ due' = IF Ahead(r) THEN due \cup {r} ELSE due
    /\ UNCHANGED <<clock, newest, stamp, cursor, over, left, shown>>

(* ... and its commit lands.                                                 *)
Land(r) == status[r] = "written" /\ Enters(r)

(* delete_post, or an update_post that takes the post out of the topic or    *)
(* the hashtag the feed is narrowed to.                                      *)
Leave(r) ==
    /\ newest
    /\ status[r] = "listed"
    /\ status' = [status EXCEPT ![r] = "hidden"]
    /\ left' = TRUE
    /\ due' = due \ {r}
    /\ UNCHANGED <<clock, newest, stamp, cursor, over, shown>>

(* An update_post that brings it back.                                       *)
Return(r) == status[r] = "hidden" /\ Enters(r)

\* Mutant of HasMore: a full page is taken for one that has a successor.
HasMoreWhenFull(rows, limit) == Len(rows) >= limit

\* The extra row tells whether there is another page.
HasMore(rows, limit) == Len(rows) > limit

\* The first rows of a sequence, as many as there are up to n.
Upto(rows, n) == SubSeq(rows, 1, IF Len(rows) < n THEN Len(rows) ELSE n)

\* A set of rows in the order of the list.
InOrder(set) == {s \in SetToSeqs(set) : \A m, n \in DOMAIN s : m < n => Before(s[m], s[n])}

(* list_feed, list_comments or list_replies: one query, which asks for one   *)
(* row more than the page, the page, and a cursor that names its last row.   *)
Page(limit) ==
    /\ ~over
    /\ \E s \in InOrder({r \in Listed : cursor = None \/ Beyond(cursor, r)}) :
          LET rows == Upto(s, limit + 1)
              page == Upto(rows, limit)
              last == Last(page)
          IN  /\ shown' = shown \o page
              /\ IF HasMore(rows, limit)
                   THEN cursor' = [stamp |-> stamp[last], id |-> last] /\ over' = FALSE
                   ELSE cursor' = cursor /\ over' = TRUE
    /\ left' = FALSE
    /\ UNCHANGED <<clock, newest, stamp, status, due>>

Next ==
    \/ Tick
    \/ \E r \in Rows : Write(r) \/ Land(r) \/ Leave(r) \/ Return(r)
    \/ \E limit \in Limits : Page(limit)

Spec == Init /\ [][Next]_vars

-----------------------------------------------------------------------------
(* Properties.                                                               *)

\* The variables hold what the table and the reader may hold.
TypeOK ==
    /\ clock \in 1 .. MaxClock
    /\ newest \in BOOLEAN
    /\ status \in [Rows -> Statuses]
    /\ stamp \in [{r \in Rows : status[r] # "none"} -> 1 .. clock]
    /\ cursor \in Cursors \cup {None}
    /\ over \in BOOLEAN
    /\ left \in BOOLEAN
    /\ due \subseteq Listed
    /\ shown \in Seq(Rows)

\* A scroll never shows a row twice and never goes back: "the reader sees an
\* item twice" is what a page boundary by offset does when rows are written,
\* removed or refiled between two pages.
NoRepeats == \A i, j \in 1 .. Len(shown) : i < j => Before(shown[i], shown[j])

\* A scroll that came to its end has shown every row that lay ahead of it and
\* stayed on the list, those with one created_at on both sides of a page
\* boundary and those that landed meanwhile included.
NothingSkipped == over => due \subseteq {shown[i] : i \in 1 .. Len(shown)}

\* Whatever is written, removed or refiled between two pages, a scroll shows
\* every row that was there for it once, and in order.
EveryRowOnce == NoRepeats /\ NothingSkipped

\* A next_cursor leads somewhere: a page is empty only at the start of a list,
\* or when a row left the list since the cursor was handed out.
CursorLeadsOn ==
    [][cursor # None /\ shown' = shown /\ over' /\ ~over => left]_vars

=============================================================================
