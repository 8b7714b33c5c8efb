--------------------------- MODULE PaginationProofs ---------------------------
(***************************************************************************)
(* A client's walk over the article list, for any number of rows, any      *)
(* creation times, authors and page sizes.                                 *)
(***************************************************************************)
EXTENDS Pagination, TLAPS

Shown == listed \cup page

\* What has been shown was placed, and a walk without a cursor has shown nothing
\* and been served nothing.
WalkShape ==
    /\ pc = "idle" => after = NoCursor
    /\ pc # "done" /\ after = NoCursor => Shown = {}
    /\ pc = "done" \/ after # NoCursor => steady \subseteq Placed
    /\ Shown \subseteq Placed
    /\ \A view \in views : view \subseteq Placed

\* The cursor is the oldest row shown.
CursorPassed ==
    pc = "walking" /\ after # NoCursor =>
        \A i \in Shown : \/ PositionOf(i) = DecodeCursor(after)
                         \/ Older(DecodeCursor(after), PositionOf(i))

\* A row in every list served so far was shown or lies ahead of the cursor.
SteadyAhead ==
    pc = "walking" => \A s \in steady : Matches(s) =>
        s \in Shown \/ after = NoCursor \/ Older(PositionOf(s), DecodeCursor(after))

WalkInv == WalkShape /\ CursorPassed /\ SteadyAhead /\ Descending /\ NothingSkipped

Inv == TypeOK /\ WalkInv

\* Instants have integer parts, and are made of them.
LEMMA TimeParts ==
    ASSUME NEW t \in Time
    PROVE  /\ t.days \in Int /\ t.seconds \in Int /\ t.micros \in Int
           /\ t = [days |-> t.days, seconds |-> t.seconds, micros |-> t.micros]
<1>1. /\ t.days \in Nat /\ t.seconds \in SecondOfDay /\ t.micros \in Microsecond
      /\ t = [days |-> t.days, seconds |-> t.seconds, micros |-> t.micros]
  BY DEF Time
<1>2. SecondOfDay \subseteq Int /\ Microsecond \subseteq Int
  BY DEF SecondOfDay, Microsecond
<1> QED  BY <1>1, <1>2

\* The order of instants is transitive and total.
LEMMA BeforeOrder ==
    ASSUME NEW s \in Time, NEW t \in Time, NEW u \in Time
    PROVE  /\ Before(s, t) /\ Before(t, u) => Before(s, u)
           /\ Before(s, t) \/ Before(t, s) \/ s = t
  BY TimeParts DEF Before

\* The keyset order is transitive, over positions (created_at, id).
LEMMA OlderTransitive ==
    ASSUME NEW p \in Time \X Int, NEW q \in Time \X Int, NEW s \in Time \X Int,
           Older(p, q), Older(q, s)
    PROVE  Older(p, s)
<1>1. /\ p[1] \in Time /\ q[1] \in Time /\ s[1] \in Time
      /\ p[2] \in Int /\ q[2] \in Int /\ s[2] \in Int
  OBVIOUS
<1> QED  BY <1>1, BeforeOrder DEF Older

\* The id breaks every tie of created_at: the order is total.
LEMMA OlderTotal ==
    ASSUME NEW p \in Time \X Int, NEW q \in Time \X Int, p # q, ~ Older(p, q)
    PROVE  Older(q, p)
<1>1. /\ p[1] \in Time /\ q[1] \in Time /\ p[2] \in Int /\ q[2] \in Int
      /\ p = <<p[1], p[2]>> /\ q = <<q[1], q[2]>>
  OBVIOUS
<1> QED  BY <1>1, BeforeOrder DEF Older

\* What one level of the cursor's arithmetic puts together, decoding takes apart.
LEMMA SplitMicros ==
    ASSUME NEW a \in Nat, NEW b \in Microsecond
    PROVE  /\ a * MicrosPerSecond + b \in Nat
           /\ (a * MicrosPerSecond + b) \div MicrosPerSecond = a
           /\ (a * MicrosPerSecond + b) % MicrosPerSecond = b
<1>1. b \in Nat /\ b < MicrosPerSecond
  BY DEF Microsecond
<1>2. a * MicrosPerSecond + b \in Nat /\ (a * MicrosPerSecond + b) \div MicrosPerSecond = a
  BY <1>1, SMTT(60) DEF MicrosPerSecond
<1>3. (a * MicrosPerSecond + b) % MicrosPerSecond = b
  BY <1>1, SMTT(60) DEF MicrosPerSecond
<1> QED  BY <1>2, <1>3

LEMMA SplitSeconds ==
    ASSUME NEW a \in Nat, NEW b \in SecondOfDay
    PROVE  /\ a * SecondsPerDay + b \in Nat
           /\ (a * SecondsPerDay + b) \div SecondsPerDay = a
           /\ (a * SecondsPerDay + b) % SecondsPerDay = b
<1>1. b \in Nat /\ b < SecondsPerDay
  BY DEF SecondOfDay
<1>2. a * SecondsPerDay + b \in Nat /\ (a * SecondsPerDay + b) \div SecondsPerDay = a
  BY <1>1, SMTT(60) DEF SecondsPerDay
<1>3. (a * SecondsPerDay + b) % SecondsPerDay = b
  BY <1>1, SMTT(60) DEF SecondsPerDay
<1> QED  BY <1>2, <1>3

\* encode_cursor loses nothing: decode_cursor gives the same instant and id back.
THEOREM CursorRoundTrip ==
    ASSUME NEW p \in Time \X Int
    PROVE  /\ EncodeCursor(p) \in Nat \X Int
           /\ DecodeCursor(EncodeCursor(p)) = p
<1>1. PICK t \in Time, i \in Int : p = <<t, i>>
  OBVIOUS
<1>2. PICK d \in Nat, s \in SecondOfDay, u \in Microsecond :
         t = [days |-> d, seconds |-> s, micros |-> u]
  BY DEF Time
<1> DEFINE seconds == d * SecondsPerDay + s
           micros == seconds * MicrosPerSecond + u
<1>3. seconds \in Nat /\ seconds \div SecondsPerDay = d /\ seconds % SecondsPerDay = s
  BY SplitSeconds
<1>4. micros \in Nat /\ micros \div MicrosPerSecond = seconds /\ micros % MicrosPerSecond = u
  <2> HIDE DEF seconds
  <2> QED  BY <1>3, SplitMicros
<1>5. EncodeCursor(p) = <<micros, i>>
  BY <1>1, <1>2 DEF EncodeCursor
<1>6. DecodeCursor(<<micros, i>>) = p
  <2> HIDE DEF seconds, micros
  <2> QED  BY <1>1, <1>2, <1>3, <1>4 DEF DecodeCursor
<1> HIDE DEF micros
<1> QED  BY <1>1, <1>4, <1>5, <1>6

\* Every cursor a client can be given decodes to a position.
LEMMA DecodeType ==
    ASSUME NEW m \in Nat, NEW i \in Int
    PROVE  DecodeCursor(<<m, i>>) \in Time \X Int
<1> DEFINE seconds == m \div MicrosPerSecond
<1>1. seconds \in Nat /\ m % MicrosPerSecond \in Microsecond
  <2>1. seconds \in Nat
    BY SMTT(60) DEF MicrosPerSecond
  <2>2. m % MicrosPerSecond \in Nat /\ m % MicrosPerSecond < MicrosPerSecond
    BY SMTT(60) DEF MicrosPerSecond
  <2> QED  BY <2>1, <2>2 DEF Microsecond
<1>2. ASSUME NEW n \in Nat
      PROVE  n \div SecondsPerDay \in Nat /\ n % SecondsPerDay \in SecondOfDay
  <2>1. n \div SecondsPerDay \in Nat
    BY SMTT(60) DEF SecondsPerDay
  <2>2. n % SecondsPerDay \in Nat /\ n % SecondsPerDay < SecondsPerDay
    BY SMTT(60) DEF SecondsPerDay
  <2> QED  BY <2>1, <2>2 DEF SecondOfDay
<1> HIDE DEF seconds
<1>3. seconds \div SecondsPerDay \in Nat /\ seconds % SecondsPerDay \in SecondOfDay
  BY <1>1, <1>2
<1> QED  BY <1>1, <1>3 DEF DecodeCursor, Time, seconds

\* Two positions never share a cursor, so two page windows of one limit never
\* share a cache key (cursor_parts, filter_hash).
THEOREM CursorInjective ==
    ASSUME NEW p \in Time \X Int, NEW q \in Time \X Int,
           EncodeCursor(p) = EncodeCursor(q)
    PROVE  p = q
  BY CursorRoundTrip

\* A cursor can be made of every row that was placed, and of no other.
LEMMA PositionType ==
    ASSUME TypeOK, NEW i \in Placed
    PROVE  /\ PositionOf(i) \in Time \X Int
           /\ EncodeCursor(PositionOf(i)) \in Nat \X Ids
           /\ EncodeCursor(PositionOf(i)) # NoCursor
           /\ DecodeCursor(EncodeCursor(PositionOf(i))) = PositionOf(i)
<1>1. i \in Ids /\ row[i].created \in Times
  BY DEF Placed, TypeOK, Row
<1>2. PositionOf(i) \in Times \X Ids
  BY <1>1 DEF PositionOf
<1>3. Times \subseteq Time /\ Ids \subseteq Int
  BY PaginationAssumption DEF Ids
<1>4. PositionOf(i) \in Time \X Int
  BY <1>2, <1>3
<1>5. EncodeCursor(PositionOf(i))[2] = i
  BY DEF EncodeCursor, PositionOf
<1>6. EncodeCursor(PositionOf(i)) \in Nat \X Int
  BY <1>4, CursorRoundTrip
<1>7. EncodeCursor(PositionOf(i)) \in Nat \X Ids /\ EncodeCursor(PositionOf(i)) # NoCursor
  BY <1>1, <1>5, <1>6, PaginationAssumption
<1> QED  BY <1>4, <1>7, CursorRoundTrip

\* A live row has been placed.
LEMMA LivePlaced == Live \subseteq Placed /\ Placed \subseteq Ids
  BY DEF Live, Placed

-----------------------------------------------------------------------------
\* An INSERT, its commit or rollback, and a soft delete: a row keeps its place.
ListStep ==
    \E i \in Ids :
        \/ \E created \in Times, author \in Authors : Insert(i, created, author)
        \/ CommitInsert(i) \/ RollbackInsert(i) \/ SoftDelete(i)

\* No write moves a row: created_at, id and author are set once.
LEMMA RowsStay ==
    ASSUME TypeOK, ListStep
    PROVE  /\ row' \in [Ids -> Row \cup {NoRow}]
           /\ \A j \in Placed : /\ j \in Placed'
                                /\ row'[j].created = row[j].created
                                /\ row'[j].author = row[j].author
           /\ Observed
           /\ UNCHANGED <<walk, steady>>
<1> USE PaginationAssumption
<1>1. ASSUME NEW i \in Ids, NEW created \in Times, NEW author \in Authors,
             Insert(i, created, author)
      PROVE  /\ row' \in [Ids -> Row \cup {NoRow}]
             /\ \A j \in Placed : /\ j \in Placed'
                                  /\ row'[j].created = row[j].created
                                  /\ row'[j].author = row[j].author
             /\ Observed
             /\ UNCHANGED <<walk, steady>>
  <2>1. i \notin Placed
    <3>1. Placed = 1 .. i - 1 /\ i \in Int
      BY <1>1 DEF Insert, Ids
    <3> QED  BY <3>1
  <2>2. [created |-> created, author |-> author, state |-> "inserted"] \in Row
    BY DEF Row
  <2> QED  BY <1>1, <2>1, <2>2 DEF Insert, TypeOK, Placed, Row
<1>2. ASSUME NEW i \in Ids, NEW from, NEW to \in {"live", "deleted"}, SetState(i, from, to)
      PROVE  /\ row' \in [Ids -> Row \cup {NoRow}]
             /\ \A j \in Placed : /\ j \in Placed'
                                  /\ row'[j].created = row[j].created
                                  /\ row'[j].author = row[j].author
             /\ Observed
             /\ UNCHANGED <<walk, steady>>
  <2>1. row[i] \in Row /\ row' = [row EXCEPT ![i] = [row[i] EXCEPT !.state = to]]
    BY <1>2 DEF SetState, TypeOK
  <2>2. [row[i] EXCEPT !.state = to] \in Row
    BY <2>1 DEF Row
  <2>3. /\ [row[i] EXCEPT !.state = to].created = row[i].created
        /\ [row[i] EXCEPT !.state = to].author = row[i].author
    BY <2>1 DEF Row
  <2>4. [row[i] EXCEPT !.state = to] # NoRow
    BY <2>2 DEF Row
  <2> QED  BY <1>2, <2>1, <2>2, <2>3, <2>4 DEF SetState, TypeOK, Placed
<1> QED
  BY <1>1, <1>2 DEF ListStep, CommitInsert, RollbackInsert, SoftDelete

\* What writers do to the list around a walk disturbs nothing the walk has shown.
LEMMA ListStepInv ==
    ASSUME Inv, ListStep
    PROVE  Inv'
<1>1. TypeOK /\ WalkInv
  BY DEF Inv
<1>2. /\ Placed \subseteq Placed'
      /\ \A j \in Placed : PositionOf(j)' = PositionOf(j)
      /\ \A j \in Placed : Matches(j)' <=> Matches(j)
      /\ UNCHANGED <<walk, steady>>
  BY <1>1, RowsStay DEF PositionOf, Matches, walk
<1>3. views' = views \cup {Live'}
  BY <1>1, RowsStay DEF Observed
<1>4. Live' \subseteq Placed' /\ Live' \subseteq Ids
  BY DEF Live, Placed
<1>5. TypeOK'
  BY <1>1, <1>2, <1>3, <1>4, RowsStay DEF TypeOK, walk
<1>6. WalkShape'
  BY <1>1, <1>2, <1>3, <1>4 DEF WalkInv, WalkShape, Shown, walk
<1>7. CursorPassed'
  BY <1>1, <1>2 DEF WalkInv, WalkShape, CursorPassed, Shown, walk, Older
<1>8. SteadyAhead'
  BY <1>1, <1>2 DEF WalkInv, WalkShape, SteadyAhead, Shown, walk, Older
<1>9. Descending' /\ NothingSkipped'
  BY <1>1, <1>2 DEF WalkInv, WalkShape, Descending, NothingSkipped, Shown, walk, Older
<1> QED  BY <1>5, <1>6, <1>7, <1>8, <1>9 DEF Inv, WalkInv

-----------------------------------------------------------------------------
\* A page lies past the cursor, so past everything shown before.
LEMMA PagePast ==
    ASSUME Inv, pc = "walking", NEW view \in views,
           NEW i \in Shown, NEW j \in Candidates(view)
    PROVE  Older(PositionOf(j), PositionOf(i))
<1>1. i \in Placed /\ j \in Placed /\ TypeOK
  BY DEF Inv, WalkInv, WalkShape, Candidates
<1>2. after # NoCursor
  BY DEF Inv, WalkInv, WalkShape
<1>3. Older(PositionOf(j), DecodeCursor(after))
  BY <1>2 DEF Candidates
<1>4. \/ PositionOf(i) = DecodeCursor(after)
      \/ Older(DecodeCursor(after), PositionOf(i))
  BY <1>2 DEF Inv, WalkInv, CursorPassed
<1>5. DecodeCursor(after) \in Time \X Int
  BY <1>1, <1>2, DecodeType DEF TypeOK, Ids
<1> QED  BY <1>1, <1>3, <1>4, <1>5, PositionType, OlderTransitive

\* The query of a page finds each such row that has not been shown, if its own
\* list has it too.
LEMMA SteadyFound ==
    ASSUME Inv, pc = "walking", NEW view \in views,
           NEW s \in steady \cap view, Matches(s), s \notin Shown
    PROVE  s \in Candidates(view)
  BY DEF Inv, WalkInv, SteadyAhead, Candidates

\* A full page moves the cursor to its last row and leaves nothing behind it.
LEMMA FullPageInv ==
    ASSUME Inv, NEW limit \in Limits, NEW view \in views, FullPage(limit, view)
    PROVE  Inv'
<1>1. PICK last \in Candidates(view) :
         Respond(view, UpTo(last, Candidates(view)), EncodeCursor(PositionOf(last)))
  BY DEF FullPage
<1>2. /\ pc = "walking" /\ pc' = pc
      /\ page' = UpTo(last, Candidates(view))
      /\ listed' = Shown
      /\ after' = EncodeCursor(PositionOf(last))
      /\ steady' = steady \cap view
      /\ UNCHANGED <<row, filter, views>>
  BY <1>1 DEF FullPage, Respond, Shown
<1>3. TypeOK /\ WalkInv
  BY DEF Inv
<1>4. page' \subseteq Candidates(view) /\ Candidates(view) \subseteq view
  BY <1>2 DEF UpTo, Candidates
<1>5. Candidates(view) \subseteq Placed /\ last \in Placed
  BY <1>3, <1>4 DEF WalkInv, WalkShape
<1>6. /\ after' \in Nat \X Ids /\ after' # NoCursor
      /\ DecodeCursor(after') = PositionOf(last)
  BY <1>2, <1>3, <1>5, PositionType
<1>7. Placed' = Placed /\ \A i : PositionOf(i)' = PositionOf(i) /\ (Matches(i)' <=> Matches(i))
  BY <1>2 DEF Placed, PositionOf, Matches
<1>8. Shown' = Shown \cup page'
  BY <1>2 DEF Shown
<1>9. TypeOK'
  BY <1>2, <1>3, <1>4, <1>6 DEF TypeOK, Shown
<1>10. WalkShape'
  BY <1>2, <1>3, <1>4, <1>5, <1>6, <1>7, <1>8 DEF WalkInv, WalkShape
<1>11. CursorPassed'
  <2> SUFFICES ASSUME NEW i \in Shown'
               PROVE  PositionOf(i) = PositionOf(last) \/ Older(PositionOf(last), PositionOf(i))
    BY <1>6, <1>7 DEF CursorPassed, Older
  <2>1. CASE i \in Shown
    BY <1>1, <1>2, <2>1, PagePast
  <2>2. CASE i \in page'
    BY <1>2, <2>2 DEF UpTo
  <2> QED  BY <1>8, <2>1, <2>2
<1>12. SteadyAhead'
  <2> SUFFICES ASSUME NEW s \in steady \cap view, Matches(s), s \notin Shown'
               PROVE  Older(PositionOf(s), PositionOf(last))
    BY <1>2, <1>6, <1>7 DEF SteadyAhead, Older
  <2>1. s \in Candidates(view) /\ s # last /\ ~ Older(PositionOf(last), PositionOf(s))
    <3>1. s \in Candidates(view)
      BY <1>2, <1>8, SteadyFound
    <3> QED  BY <3>1, <1>1, <1>2, <1>8 DEF UpTo
  <2>2. PositionOf(s) # PositionOf(last)
    BY <1>2, <2>1 DEF PositionOf
  <2> QED  BY <1>2, <1>3, <1>5, <2>1, <2>2, PositionType, OlderTotal
<1>13. Descending'
  BY <1>2, <1>4, <1>7, PagePast DEF Descending, Older
<1>14. NothingSkipped'
  BY <1>2 DEF NothingSkipped
<1> QED  BY <1>9, <1>10, <1>11, <1>12, <1>13, <1>14 DEF Inv, WalkInv

\* The last page shows all that is left, the steady rows among it.
LEMMA LastPageInv ==
    ASSUME Inv, NEW limit \in Limits, NEW view \in views, LastPage(limit, view)
    PROVE  Inv'
<1>1. /\ pc = "walking" /\ pc' = "done"
      /\ page' = Candidates(view)
      /\ listed' = Shown
      /\ after' = NoCursor
      /\ steady' = steady \cap view
      /\ UNCHANGED <<row, filter, views>>
  BY DEF LastPage, Respond, Shown
<1>2. TypeOK /\ WalkInv
  BY DEF Inv
<1>3. Candidates(view) \subseteq view /\ view \subseteq Placed /\ view \subseteq Ids
  BY <1>2, LivePlaced DEF Candidates, WalkInv, WalkShape
<1>4. Placed' = Placed /\ \A i : PositionOf(i)' = PositionOf(i)
  BY <1>1 DEF Placed, PositionOf
<1>5. TypeOK'
  BY <1>1, <1>2, <1>3 DEF TypeOK, Shown
<1>6. WalkShape'
  BY <1>1, <1>2, <1>3, <1>4 DEF WalkInv, WalkShape, Shown
<1>7. CursorPassed' /\ SteadyAhead'
  BY <1>1 DEF CursorPassed, SteadyAhead
<1>8. Descending'
  BY <1>1, <1>4, PagePast DEF Descending, Older
<1>9. NothingSkipped'
  <2> SUFFICES ASSUME NEW s \in steady \cap view, Matches(s), s \notin Shown
               PROVE  s \in Candidates(view)
    BY <1>1 DEF NothingSkipped, Matches, Shown
  <2> QED  BY <1>1, SteadyFound
<1> QED  BY <1>5, <1>6, <1>7, <1>8, <1>9 DEF Inv, WalkInv

\* A walk begins with nothing shown and everything ahead of it.
LEMMA BeginInv ==
    ASSUME Inv, NEW f \in Authors \cup {Everyone}, Begin(f)
    PROVE  Inv'
<1>1. /\ pc = "idle" /\ pc' = "walking" /\ filter' = f
      /\ UNCHANGED <<row, after, page, listed, views, steady>>
  BY DEF Begin
<1>2. TypeOK /\ WalkInv
  BY DEF Inv
<1>3. after = NoCursor /\ Shown = {}
  BY <1>1, <1>2 DEF WalkInv, WalkShape
<1>4. Placed' = Placed /\ Shown' = Shown
  BY <1>1 DEF Placed, Shown
<1>5. TypeOK'
  BY <1>1, <1>2 DEF TypeOK
<1>6. WalkShape'
  BY <1>1, <1>2, <1>3, <1>4 DEF WalkInv, WalkShape
<1>7. CursorPassed' /\ SteadyAhead'
  BY <1>1, <1>3 DEF CursorPassed, SteadyAhead
<1>8. Descending' /\ NothingSkipped'
  BY <1>1, <1>3 DEF Descending, NothingSkipped, Shown
<1> QED  BY <1>5, <1>6, <1>7, <1>8 DEF Inv, WalkInv

\* Initially there is no row and no walk.
LEMMA InitInv == Init => Inv
<1> SUFFICES ASSUME Init PROVE Inv
  OBVIOUS
<1>1. TypeOK
  BY DEF Init, TypeOK
<1>2. WalkInv
  BY DEF Init, WalkInv, WalkShape, CursorPassed, SteadyAhead, Descending,
         NothingSkipped, Shown
<1> QED  BY <1>1, <1>2 DEF Inv

\* The invariant holds throughout.
LEMMA Inductive == Spec => []Inv
<1>1. ASSUME Inv, [Next]_vars PROVE Inv'
  <2>1. CASE UNCHANGED vars
    BY <1>1, <2>1 DEF vars, walk, Inv, TypeOK, WalkInv, WalkShape, CursorPassed,
       SteadyAhead, Descending, NothingSkipped, Shown, Placed, PositionOf, Matches, Older
  <2>2. CASE Next
    BY <1>1, <2>2, ListStepInv, BeginInv, FullPageInv, LastPageInv
       DEF Next, ListStep, NextPage
  <2> QED  BY <1>1, <2>1, <2>2
<1> QED  BY InitInv, <1>1, PTL DEF Spec

\* The variables keep their types; a cursor given to a client is a natural number
\* and an id, or none.
THEOREM TypeCorrect == Spec => []TypeOK
<1>1. Inv => TypeOK
  BY DEF Inv
<1> QED  BY Inductive, <1>1, PTL

\* build_list_query with a strict keyset comparison lists no row twice, whatever
\* is inserted or deleted between two requests.
THEOREM NoRowTwice == Spec => []Descending
<1>1. Inv => Descending
  BY DEF Inv, WalkInv
<1> QED  BY Inductive, <1>1, PTL

\* _load_page and its cursors skip no row that is in each of the lists the pages
\* of a walk were taken from, whatever their ages.
THEOREM NoRowSkipped == Spec => []NothingSkipped
<1>1. Inv => NothingSkipped
  BY DEF Inv, WalkInv
<1> QED  BY Inductive, <1>1, PTL
=============================================================================
