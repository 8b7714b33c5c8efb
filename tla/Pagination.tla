----------------------------- MODULE Pagination -----------------------------
(***************************************************************************)
(* A client walks the article list page by page, with the next_cursor of   *)
(* each response, while articles are created and deleted around it.        *)
(*                                                                         *)
(* A row's created_at is set when its INSERT starts and its id when the    *)
(* row is placed, and the row is visible only from its commit on, so the   *)
(* three orders need not agree: created_at is any member of Times.         *)
(*                                                                         *)
(* The cursor is an opaque string to the client: the microseconds since    *)
(* the epoch and the id of the last row of its page, encoded by one        *)
(* request and decoded by the next.                                        *)
(*                                                                         *)
(* A page comes from MySQL or from the cache, and a cached page shows the  *)
(* list of the moment its query ran.  A walk may be served one that is     *)
(* older than itself: while the invalidation of a write is pending, after  *)
(* one was dropped or died with its process, or when the generations could *)
(* not be read or were evicted (ArticleCache).  So each page is taken from *)
(* the list of any earlier moment, in no order (views).                    *)
(***************************************************************************)
EXTENDS Integers, FiniteSets

CONSTANTS
    MaxId,      \* rows inserted, at most
    Times,      \* values of created_at, each a Time
    Authors,
    Limits,     \* page sizes a client may ask for
    Everyone,   \* the list is not filtered by author
    NoCursor,   \* of the first request, and of the last response
    NoRow       \* an id that is not handed out yet

\* A DATETIME(6) from the epoch on, split as timedelta splits it.
SecondsPerDay == 86400
MicrosPerSecond == 1000000

SecondOfDay == {s \in Nat : s < SecondsPerDay}
Microsecond == {u \in Nat : u < MicrosPerSecond}
Time == [days : Nat, seconds : SecondOfDay, micros : Microsecond]

ASSUME PaginationAssumption ==
    /\ MaxId \in Nat
    /\ Times \subseteq Time /\ Times # {}
    /\ Authors # {} /\ Everyone \notin Authors
    /\ Limits \subseteq Nat \ {0}
    /\ NoCursor \notin Int \X Int
    /\ NoRow \notin [created : Times, author : Authors,
                     state : {"inserted", "live", "deleted"}]

Ids == 1 .. MaxId
Position == Times \X Ids

\* Mutant of EncodeCursor: the parts are swapped.
EncodeCursorSwapped(p) ==
    <<p[2], (p[1].days * SecondsPerDay + p[1].seconds) * MicrosPerSecond + p[1].micros>>

\* Mutant of EncodeCursor: whole seconds.
EncodeCursorSeconds(p) == <<(p[1].days * SecondsPerDay + p[1].seconds) * MicrosPerSecond, p[2]>>

EncodeCursor(p) ==
    <<(p[1].days * SecondsPerDay + p[1].seconds) * MicrosPerSecond + p[1].micros, p[2]>>

\* _EPOCH + timedelta(microseconds=micros), and the id.
DecodeCursor(cursor) ==
    LET micros  == cursor[1]
        seconds == micros \div MicrosPerSecond
    IN  << [days    |-> seconds \div SecondsPerDay,
            seconds |-> seconds % SecondsPerDay,
            micros  |-> micros % MicrosPerSecond], cursor[2] >>

VARIABLES
    row,        \* id -> created_at, author and state of the row
    pc,         \* the walk: idle, walking, done
    filter,     \* its author filter
    after,      \* the cursor of its next request
    page,       \* the rows of the latest response
    listed,     \* the rows of the responses before that
    views,      \* what the list has held, at any moment
    steady      \* observer: rows in every view a page of the walk was taken from

walk == <<pc, filter, after, page, listed>>
vars == <<row, walk, views, steady>>

Row == [created : Times, author : Authors,
        state : {"inserted", "live", "deleted"}]

TypeOK ==
    /\ row \in [Ids -> Row \cup {NoRow}]
    /\ pc \in {"idle", "walking", "done"}
    /\ filter \in Authors \cup {Everyone}
    /\ after \in (Nat \X Ids) \cup {NoCursor}
    /\ page \in SUBSET Ids
    /\ listed \in SUBSET Ids
    /\ views \in SUBSET SUBSET Ids
    /\ steady \in SUBSET Ids

Init ==
    /\ row = [i \in Ids |-> NoRow]
    /\ pc = "idle"
    /\ filter = Everyone
    /\ after = NoCursor
    /\ page = {} /\ listed = {}
    /\ views = {{}} /\ steady = Ids

-----------------------------------------------------------------------------
Placed == {i \in Ids : row[i] # NoRow}
Live == {i \in Placed : row[i].state = "live"}

\* DATETIME(6) < DATETIME(6)
Before(s, t) ==
    \/ s.days < t.days
    \/ s.days = t.days /\ s.seconds < t.seconds
    \/ s.days = t.days /\ s.seconds = t.seconds /\ s.micros < t.micros

\* Mutant of Older: without the tiebreaker.
OlderByTime(p, q) == Before(p[1], q[1])

\* The order of a list, newest first, between positions (created_at, id).
Older(p, q) ==
    \/ Before(p[1], q[1])
    \/ p[1] = q[1] /\ p[2] < q[2]

PositionOf(i) == <<row[i].created, i>>

Matches(i) == filter = Everyone \/ row[i].author = filter

\* Mutant of Candidates: the cursor's own row is listed again.
CandidatesFromCursor(view) ==
    {i \in view : Matches(i) /\
        (\/ after = NoCursor
         \/ Older(PositionOf(i), DecodeCursor(after))
         \/ PositionOf(i) = DecodeCursor(after))}

\* Mutant of Candidates: the keyset condition is not applied.
CandidatesFromStart(view) == {i \in view : Matches(i)}

\* The rows a view holds past the cursor, of the author asked for.
Candidates(view) ==
    {i \in view : Matches(i) /\
        (after = NoCursor \/ Older(PositionOf(i), DecodeCursor(after)))}

\* The row last and all before it: the LIMIT of the ordered query.
UpTo(last, candidates) ==
    {i \in candidates : i = last \/ Older(PositionOf(last), PositionOf(i))}

\* A change of the list: a query may find the new one, a cache keep the old.
Observed == views' = views \cup {Live'}

\* ids are handed out in order.
Insert(i, created, author) ==
    /\ Placed = 1 .. i - 1
    /\ row' = [row EXCEPT ![i] =
                  [created |-> created, author |-> author, state |-> "inserted"]]
    /\ Observed
    /\ UNCHANGED <<walk, steady>>

SetState(i, from, to) ==
    /\ row[i] # NoRow /\ row[i].state = from
    /\ row' = [row EXCEPT ![i].state = to]
    /\ Observed
    /\ UNCHANGED <<walk, steady>>

CommitInsert(i)   == SetState(i, "inserted", "live")
RollbackInsert(i) == SetState(i, "inserted", "deleted")
SoftDelete(i)     == SetState(i, "live", "deleted")

\* A client asks for the first page, of one author's articles or of all.
Begin(f) ==
    /\ pc = "idle"
    /\ pc' = "walking"
    /\ filter' = f
    /\ UNCHANGED <<row, after, page, listed, views, steady>>

Respond(view, rows, cursor) ==
    /\ page' = rows
    /\ listed' = listed \cup page
    /\ after' = cursor
    /\ steady' = steady \cap view
    /\ UNCHANGED <<row, filter, views>>

\* limit + 1 rows were found: the sentinel proves another page.
FullPage(limit, view) ==
    /\ pc = "walking"
    /\ Cardinality(Candidates(view)) > limit
    /\ \E last \in Candidates(view) :
          /\ Cardinality(UpTo(last, Candidates(view))) = limit
          /\ Respond(view, UpTo(last, Candidates(view)), EncodeCursor(PositionOf(last)))
    /\ pc' = pc

\* The last page, which has no next_cursor.
LastPage(limit, view) ==
    /\ pc = "walking"
    /\ Cardinality(Candidates(view)) <= limit
    /\ Respond(view, Candidates(view), NoCursor)
    /\ pc' = "done"

NextPage ==
    \E limit \in Limits, view \in views : FullPage(limit, view) \/ LastPage(limit, view)

Next ==
    \/ \E i \in Ids :
          \/ \E created \in Times, author \in Authors : Insert(i, created, author)
          \/ CommitInsert(i) \/ RollbackInsert(i) \/ SoftDelete(i)
    \/ \E f \in Authors \cup {Everyone} : Begin(f)
    \/ NextPage

Spec == Init /\ [][Next]_vars

\* A client that follows its cursors, as the paging loop of a client does.
FairSpec == Spec /\ WF_vars(NextPage)

-----------------------------------------------------------------------------
\* Each page lies wholly past the pages before it, so no row is listed twice,
\* whatever is inserted or deleted between two requests and in whatever order
\* the pages were filled.
Descending ==
    \A i \in listed, j \in page : Older(PositionOf(j), PositionOf(i))

\* A walk that has ended listed every row that matched and was in each list its
\* pages were taken from, however those lists differ and whatever their order:
\* no page boundary skips a row, ties included.  (A page older than the row does.)
NothingSkipped ==
    pc = "done" => \A i \in steady : Matches(i) => i \in listed \cup page

\* Following next_cursor ends, with any page size and any interleaving.
WalkEnds == pc = "walking" ~> pc = "done"
=============================================================================
