----------------------------- MODULE Chat_proofs -----------------------------
(***************************************************************************)
(* What Chat promises, for any sets of clients, of messages and of         *)
(* requests: of a page and of a walk over the pages of a chat, of the      *)
(* messages that a reader is shown or that are deleted, and of the digest. *)
(***************************************************************************)
EXTENDS Chat, FiniteSetTheorems, WellFoundedInduction, TLAPS

(* A set of natural numbers that is not empty has a least element, and a   *)
(* bounded one a greatest.                                                 *)
LEMMA Least ==
    ASSUME NEW S \in SUBSET Nat, S # {}
    PROVE  \E x \in S : \A y \in S : x <= y
<1> DEFINE R == OpToRel(<, Nat)
<1>1. IsWellFoundedOn(R, Nat)
    BY NatLessThanWellFounded
<1>2. PICK x \in S : \A y \in S : ~(<<y, x>> \in R)
    BY <1>1, WFMin, Zenon
<1>3. \A y \in S : ~(y < x)
    BY <1>2 DEF OpToRel
<1> QED  BY <1>3

LEMMA Greatest ==
    ASSUME NEW n \in Nat, NEW S \in SUBSET (0 .. n), S # {}
    PROVE  \E x \in S : \A y \in S : y <= x
<1> DEFINE T == {n - x : x \in S}
<1>1. T \in SUBSET Nat /\ T # {}
    <2>1. \A x \in S : n - x \in Nat
        OBVIOUS
    <2> QED  BY <2>1, Zenon
<1>2. PICK t \in T : \A y \in T : t <= y
    BY <1>1, Least, Zenon
<1>3. PICK x \in S : t = n - x
    OBVIOUS
<1>4. \A y \in S : n - y \in T
    OBVIOUS
<1>5. \A y \in S : y <= x
    BY <1>2, <1>3, <1>4
<1> QED  BY <1>5

-----------------------------------------------------------------------------
(* Pagination                                                              *)

Directions == {"asc", "desc"}

LEMMA FlipIsDirection ==
    ASSUME NEW order \in Directions
    PROVE  /\ Flip(order) \in Directions
           /\ \A q, r \in Int : Before(Flip(order), q, r) <=> Before(order, r, q)
BY DEF Directions, Flip, Before

LEMMA BeforeIsOrder ==
    ASSUME NEW order \in Directions
    PROVE  /\ \A q \in Int : ~Before(order, q, q)
           /\ \A q, r \in Int : Before(order, q, r) => ~Before(order, r, q)
           /\ \A q, r \in Int : q = r \/ Before(order, q, r) \/ Before(order, r, q)
           /\ \A q, r, s \in Int : Before(order, q, r) /\ Before(order, r, s) => Before(order, q, s)
BY DEF Directions, Before

(* Rows that are not empty have a last one.                                *)
LEMMA FinalIsLast ==
    ASSUME NEW n \in Nat, NEW rows \in SUBSET (1 .. n), rows # {}, NEW order \in Directions
    PROVE  /\ Final(rows, order) \in rows
           /\ \A q \in rows : q = Final(rows, order) \/ Before(order, q, Final(rows, order))
<1>1. rows \in SUBSET (0 .. n) /\ rows \in SUBSET Nat
    OBVIOUS
<1>2. \E r \in rows : \A q \in rows : q = r \/ Before(order, q, r)
    <2>1. CASE order = "asc"
        <3>1. PICK x \in rows : \A y \in rows : y <= x
            BY <1>1, Greatest, Zenon
        <3> QED  BY <2>1, <3>1 DEF Before
    <2>2. CASE order = "desc"
        <3>1. PICK x \in rows : \A y \in rows : x <= y
            BY <1>1, Least, Zenon
        <3> QED  BY <2>2, <3>1 DEF Before
    <2> QED  BY <2>1, <2>2 DEF Directions
<1> QED  BY <1>2, Zenon DEF Final

(* The first k rows, when they are fewer than k, are all the rows; and a   *)
(* row that comes before one of them is one of them.                       *)
LEMMA ForemostRows ==
    ASSUME NEW n \in Nat, NEW rows \in SUBSET (1 .. n), NEW order \in Directions, NEW k \in Nat
    PROVE  /\ Foremost(rows, order, k) \subseteq rows
           /\ Cardinality(Foremost(rows, order, k)) \in Nat
           /\ \A q \in rows, r \in Foremost(rows, order, k) :
                 Before(order, q, r) => q \in Foremost(rows, order, k)
           /\ Cardinality(Foremost(rows, order, k)) < k => Foremost(rows, order, k) = rows
<1> DEFINE Earlier(r) == {q \in rows : Before(order, q, r)}
           Taken == Foremost(rows, order, k)
           Count(r) == Cardinality(Earlier(r))
<1>1. IsFiniteSet(rows) /\ rows \in SUBSET Int
    <2>1. IsFiniteSet(1 .. n)
        BY FS_Interval
    <2>2. IsFiniteSet(rows)
        BY <2>1, FS_Subset, Zenon
    <2> QED  BY <2>2
<1>2. Taken \in SUBSET rows /\ \A r \in rows : Earlier(r) \in SUBSET rows
    BY DEF Foremost
<1>3. Cardinality(Taken) \in Nat /\ \A r \in rows : IsFiniteSet(Earlier(r)) /\ Count(r) \in Nat
    BY <1>1, <1>2, FS_Subset, FS_CardinalityType, Zenon
<1>4. \A r \in rows : r \in Taken <=> Count(r) < k
    BY DEF Foremost
<1>5. ASSUME NEW r \in rows, NEW q \in rows, Before(order, q, r)
      PROVE  Count(q) < Count(r)
    <2>1. Earlier(q) \in SUBSET Earlier(r)
        BY <1>1, <1>5, BeforeIsOrder
    <2>2. q \in Earlier(r) /\ q \notin Earlier(q)
        BY <1>1, <1>5, BeforeIsOrder
    <2>3. Count(q) <= Count(r) /\ (Count(r) = Count(q) => Earlier(r) = Earlier(q))
        BY <1>3, <2>1, FS_Subset, Zenon
    <2>4. Count(q) # Count(r)
        BY <2>2, <2>3, Zenon
    <2> HIDE DEF Earlier, Count
    <2> QED  BY <1>3, <2>3, <2>4
<1>6. \A q \in rows, r \in Taken : Before(order, q, r) => q \in Taken
    <2> SUFFICES ASSUME NEW q \in rows, NEW r \in Taken, Before(order, q, r)
                 PROVE  q \in Taken
        OBVIOUS
    <2>1. r \in rows /\ Count(r) < k
        BY <1>2, <1>4, Zenon
    <2>2. Count(q) < Count(r)
        BY <1>5, <2>1
    <2> HIDE DEF Earlier, Count
    <2>3. Count(q) < k
        BY <1>3, <2>1, <2>2
    <2> QED  BY <1>4, <2>3, Zenon
<1>7. ASSUME Cardinality(Taken) < k, Taken # rows
      PROVE  FALSE
    <2> DEFINE Counts == {Count(r) : r \in rows \ Taken}
    <2>1. Counts \in SUBSET Nat
        BY <1>3, Zenon
    <2>2. Counts # {}
        BY <1>2, <1>7
    <2>3. PICK c \in Counts : \A d \in Counts : c <= d
        BY <2>1, <2>2, Least, Zenon
    <2>4. PICK r \in rows \ Taken : c = Count(r)
        BY <2>3, Zenon
    <2>5. ASSUME NEW q \in Earlier(r)
          PROVE  q \in Taken
        <3>1. q \in rows /\ Before(order, q, r)
            BY <2>5
        <3>2. Count(q) < Count(r)
            BY <1>5, <2>4, <3>1
        <3>3. q \notin Taken => Count(q) \in Counts
            BY <3>1, Zenon
        <3>4. q \notin Taken => c <= Count(q)
            BY <2>3, <3>3, Zenon
        <3> HIDE DEF Count, Counts, Earlier
        <3> QED  BY <1>3, <2>4, <3>1, <3>2, <3>4
    <2>6. Earlier(r) \in SUBSET Taken
        BY <2>5, Zenon
    <2>7. IsFiniteSet(Taken)
        BY <1>1, <1>2, FS_Subset, Zenon
    <2>8. Count(r) <= Cardinality(Taken)
        BY <2>6, <2>7, FS_Subset, Zenon
    <2> HIDE DEF Count, Counts, Earlier
    <2>9. ~(Count(r) < k)
        BY <1>4, <2>4, Zenon
    <2> QED  BY <1>3, <1>7, <2>4, <2>8, <2>9
<1> HIDE DEF Earlier, Count
<1> QED  BY <1>2, <1>3, <1>6, <1>7, Zenon

(* What becomes of the rows after the cursor: the rows taken, of which one *)
(* is dropped when there is another page.                                  *)
Shown(results, full, shownIn) ==
    IF full THEN results \ {Final(results, shownIn)} ELSE results

ShowsRows(after, order, shownIn, full, data) ==
    /\ data \in SUBSET after
    /\ full => Final(data, shownIn) \in data
    /\ data # {} => First(data, shownIn) \in data
    /\ ~full => data = after
    /\ full /\ shownIn = order =>
          /\ \A d \in data : d = Final(data, order) \/ Before(order, d, Final(data, order))
          /\ \A q \in after : Before(order, q, Final(data, order)) => q \in data

LEMMA RowsOfPage ==
    ASSUME NEW n \in Nat, NEW after \in SUBSET (1 .. n), NEW order \in Directions,
           NEW shownIn \in Directions, NEW taken \in Nat, taken > 1, NEW full \in BOOLEAN,
           full <=> Cardinality(Foremost(after, order, taken)) >= taken
    PROVE  ShowsRows(after, order, shownIn, full, Shown(Foremost(after, order, taken), full, shownIn))
<1> USE DEF Shown
<1>1. PICK results : results = Foremost(after, order, taken)
    OBVIOUS
<1>2. PICK data : data = Shown(results, full, shownIn)
    OBVIOUS
<1>3. full <=> Cardinality(results) >= taken
    BY <1>1
<1>4. /\ results \subseteq after /\ Cardinality(results) \in Nat
      /\ \A q \in after, r \in results : Before(order, q, r) => q \in results
      /\ Cardinality(results) < taken => results = after
    BY <1>1, ForemostRows
<1>5. /\ data \in SUBSET after /\ data \in SUBSET (1 .. n) /\ results \in SUBSET (1 .. n)
      /\ after \in SUBSET Int
    <2>1. data \in SUBSET results
        BY <1>2, Zenon
    <2>2. 1 .. n \subseteq Int
        OBVIOUS
    <2> QED  BY <1>4, <2>1, <2>2
<1>6. full => data # {}
    <2>1. IsFiniteSet(1 .. n)
        BY FS_Interval
    <2>2. IsFiniteSet(results)
        BY <1>5, <2>1, FS_Subset, Zenon
    <2> DEFINE x == Final(results, shownIn)
    <2>3. Cardinality(results \ {x}) = IF x \in results THEN Cardinality(results) - 1
                                       ELSE Cardinality(results)
        BY <2>2, FS_RemoveElement, Zenon
    <2>4. results \ {x} = {} => Cardinality(results \ {x}) = 0
        BY FS_EmptySet, Zenon
    <2>5. full => data = results \ {x}
        BY <1>2
    <2> HIDE DEF x
    <2> QED  BY <1>4, <1>3, <2>3, <2>4, <2>5
<1>7. data # {} => First(data, shownIn) \in data
    BY <1>5, FlipIsDirection, FinalIsLast, Zenon DEF First
<1>8. ASSUME full
      PROVE  /\ Final(data, shownIn) \in data
             /\ \A d \in data : d = Final(data, shownIn)
                                \/ Before(shownIn, d, Final(data, shownIn))
    BY <1>5, <1>6, <1>8, FinalIsLast, Zenon
<1>9. ~full => data = after
    BY <1>4, <1>2, <1>3
<1>10. ASSUME full, shownIn = order, NEW q \in after,
             Before(order, q, Final(data, order))
      PROVE  q \in data
    <2>1. PICK next \in data : next = Final(data, order)
        BY <1>8, <1>10
    <2>2. results # {}
        BY <1>2, <2>1, Zenon DEF Shown
    <2>3. PICK f \in results : /\ f = Final(results, order)
                               /\ \A r \in results : r = f \/ Before(order, r, f)
        BY <1>5, <2>2, FinalIsLast, Zenon
    <2>4. data = results \ {f}
        BY <1>10, <1>2, <2>3
    <2>5. q \in results
        BY <1>4, <1>10, <2>1, <2>4
    <2>6. next # f /\ next \in results /\ Before(order, q, next) /\ Before(order, next, f)
        BY <1>10, <2>1, <2>3, <2>4
    <2>7. q # f
        BY <1>5, <2>6, BeforeIsOrder
    <2> QED  BY <2>4, <2>5, <2>7
<1> QED  BY <1>5, <1>7, <1>8, <1>9, <1>10, <1>1, <1>2, Zenon DEF ShowsRows

PageRow(data, full, next, previous) ==
    [data |-> data, hasNext |-> full, next |-> next, previous |-> previous]

LEMMA PageFields ==
    \A d, h, k, p : LET page == PageRow(d, h, k, p)
                   IN  page.data = d /\ page.hasNext = h /\ page.next = k /\ page.previous = p
BY DEF PageRow

(* A page is made of rows of the query, and its cursors are rows of it.    *)
TypedPage(rows, page) ==
    /\ page.data \in SUBSET rows
    /\ page.hasNext \in BOOLEAN
    /\ page.next \in page.data \cup {NoCursor}
    /\ page.previous \in page.data \cup {NoCursor}

LEMMA PageTyped ==
    ASSUME NEW n \in Nat, NEW rows \in SUBSET (1 .. n), NEW order \in Directions,
           NEW limit \in Nat \ {0}, NEW asked, NEW cursor, NEW sorted \in BOOLEAN
    PROVE  TypedPage(rows, CursorPage(rows, order, sorted, limit, asked, cursor))
<1>1. PICK page : page = CursorPage(rows, order, sorted, limit, asked, cursor)
    OBVIOUS
<1>2. PICK orderBy \in Directions :
          orderBy = IF asked = "before" /\ sorted THEN Flip(order) ELSE order
    BY FlipIsDirection
<1>3. PICK shownIn \in Directions :
          shownIn = IF asked = "before" THEN Flip(orderBy) ELSE orderBy
    BY FlipIsDirection
<1>4. PICK after \in SUBSET rows : after = FromCursor(rows, orderBy, cursor)
    BY DEF FromCursor
<1>5. PICK taken \in Nat : taken = limit + 1 /\ taken > 1
    OBVIOUS
<1>6. PICK results : results = Foremost(after, orderBy, taken)
    OBVIOUS
<1>7. after \in SUBSET (1 .. n)
    OBVIOUS
<1>8. Cardinality(results) \in Nat
    BY <1>6, <1>7, ForemostRows
<1>9. PICK full \in BOOLEAN : full <=> Cardinality(results) > limit
    OBVIOUS
<1>10. full <=> Cardinality(results) >= taken
    BY <1>5, <1>8, <1>9
<1>11. PICK data : data = IF full THEN results \ {Final(results, shownIn)} ELSE results
    OBVIOUS
<1>12. PICK next : next = IF full THEN Final(data, shownIn) ELSE NoCursor
    OBVIOUS
<1>13. PICK previous : previous = IF cursor # NoCursor /\ data # {} THEN First(data, shownIn)
                                  ELSE NoCursor
    OBVIOUS
<1>14. page = PageRow(data, full, next, previous)
    <2>1. full = (Cardinality(results) > limit)
        BY <1>9
    <2> QED  BY <1>1, <1>2, <1>3, <1>4, <1>5, <1>6, <1>11, <1>12, <1>13, <2>1, Zenon DEF CursorPage, PageRow
<1>15. page.data = data /\ page.hasNext = full /\ page.next = next /\ page.previous = previous
    BY <1>14, PageFields, SMT
<1>16. ShowsRows(after, orderBy, shownIn, full, data)
    <2>1. taken > 1
        BY <1>5
    <2>2. full <=> Cardinality(Foremost(after, orderBy, taken)) >= taken
        BY <1>6, <1>10
    <2>3. ShowsRows(after, orderBy, shownIn, full, Shown(Foremost(after, orderBy, taken), full, shownIn))
        BY <1>7, <2>1, <2>2, RowsOfPage, Zenon
    <2> QED  BY <1>6, <1>11, <2>3, Zenon DEF Shown
<1>17. TypedPage(rows, page)
    BY <1>9, <1>12, <1>13, <1>15, <1>16 DEF ShowsRows, TypedPage
<1> QED  BY <1>1, <1>17

(* The first page, and the page after a cursor: the last page shows all    *)
(* the rows after the cursor, another those up to its own cursor, which is *)
(* the last of them.                                                       *)
FollowsOn(rows, order, cursor, page) ==
    /\ page.data \in SUBSET FromCursor(rows, order, cursor)
    /\ ~page.hasNext => page.data = FromCursor(rows, order, cursor)
    /\ page.hasNext =>
          /\ page.next \in page.data
          /\ \A d \in page.data : d = page.next \/ Before(order, d, page.next)
          /\ \A q \in FromCursor(rows, order, cursor) :
                Before(order, q, page.next) => q \in page.data

LEMMA PageAfter ==
    ASSUME NEW n \in Nat, NEW rows \in SUBSET (1 .. n), NEW order \in Directions,
           NEW limit \in Nat \ {0}, NEW asked, asked # "before", NEW cursor,
           NEW sorted \in BOOLEAN
    PROVE  FollowsOn(rows, order, cursor,
                     CursorPage(rows, order, sorted, limit, asked, cursor))
<1>1. PICK page : page = CursorPage(rows, order, sorted, limit, asked, cursor)
    OBVIOUS
<1>2. PICK after \in SUBSET rows : after = FromCursor(rows, order, cursor)
    BY DEF FromCursor
<1>3. PICK taken \in Nat : taken = limit + 1 /\ taken > 1
    OBVIOUS
<1>4. PICK results : results = Foremost(after, order, taken)
    OBVIOUS
<1>5. after \in SUBSET (1 .. n)
    OBVIOUS
<1>6. Cardinality(results) \in Nat
    BY <1>4, <1>5, ForemostRows
<1>7. PICK full \in BOOLEAN : full <=> Cardinality(results) > limit
    OBVIOUS
<1>8. full <=> Cardinality(results) >= taken
    BY <1>3, <1>6, <1>7
<1>9. PICK data : data = IF full THEN results \ {Final(results, order)} ELSE results
    OBVIOUS
<1>10. PICK next : next = IF full THEN Final(data, order) ELSE NoCursor
    OBVIOUS
<1>11. PICK previous : previous = IF cursor # NoCursor /\ data # {} THEN First(data, order)
                                  ELSE NoCursor
    OBVIOUS
<1>12. page = PageRow(data, full, next, previous)
    <2>1. full = (Cardinality(results) > limit)
        BY <1>7
    <2> QED  BY <1>1, <1>2, <1>3, <1>4, <1>9, <1>10, <1>11, <2>1, Zenon DEF CursorPage, PageRow
<1>13. page.data = data /\ page.hasNext = full /\ page.next = next /\ page.previous = previous
    BY <1>12, PageFields, SMT
<1>14. ShowsRows(after, order, order, full, data)
    <2>1. taken > 1
        BY <1>3
    <2>2. full <=> Cardinality(Foremost(after, order, taken)) >= taken
        BY <1>4, <1>8
    <2>3. ShowsRows(after, order, order, full, Shown(Foremost(after, order, taken), full, order))
        BY <1>5, <2>1, <2>2, RowsOfPage, Zenon
    <2> QED  BY <1>4, <1>9, <2>3, Zenon DEF Shown
<1>15. FollowsOn(rows, order, cursor, page)
    BY <1>2, <1>10, <1>13, <1>14 DEF ShowsRows, FollowsOn
<1> QED  BY <1>1, <1>15

-----------------------------------------------------------------------------
(* Chats: the types                                                        *)

MessageRow == [chat: Chats, sender: Users, state: {"kept", "deleted", "removed"},
               readBy: SUBSET Users]

LEMMA RequestFields ==
    ASSUME ChatTypeOK, NEW r \in Requests
    PROVE  /\ RequestAt(r, "create") => request[r].by \in Clients
           /\ RequestAt(r, "edit") \/ RequestAt(r, "delete") => request[r].message \in Ids
BY DEF ChatTypeOK, RequestAt, Idle

LEMMA MarkFields ==
    ASSUME ChatTypeOK, NEW j \in marks
    PROVE  j.pc \in {"find", "insert"} /\ j.by \in Users /\ j.ids \in SUBSET Ids
BY DEF ChatTypeOK

LEMMA WalkFields ==
    ASSUME ChatTypeOK, walk.pc \in {"more", "end"}
    PROVE  /\ walk.by \in Users /\ walk.chat \in Chats /\ walk.order \in Orders
           /\ walk.order \in Directions
           /\ walk.shown \in SUBSET Ids /\ walk.twice \in SUBSET Ids
           /\ walk.next \in Ids \cup {NoCursor} /\ walk.previous \in Ids \cup {NoCursor}
           /\ walk.base \in SUBSET Ids /\ walk.cut \in BOOLEAN
<1>1. walk \in WalkState({"more", "end"})
    BY DEF ChatTypeOK, Idle
<1> QED  BY <1>1, OrdersAssumption DEF WalkState, Directions

LEMMA BackFields ==
    ASSUME ChatTypeOK, walk.pc = "back"
    PROVE  /\ walk.by \in Users /\ walk.chat \in Chats /\ walk.order \in Orders
           /\ walk.shown \in SUBSET Ids /\ walk.cursor \in Ids
BY DEF ChatTypeOK, Idle, WalkState

LEMMA MessageFields ==
    ASSUME ChatTypeOK
    PROVE  /\ Len(messages) \in Nat /\ Ids = 1 .. Len(messages)
           /\ messages \in [Ids -> MessageRow]
           /\ \A m \in Ids : Row(m) \in MessageRow /\ m \in Nat /\ m # NoCursor
<1>1. messages \in Seq(MessageRow)
    BY DEF ChatTypeOK, MessageRow
<1>2. /\ Len(messages) \in Nat /\ Ids = 1 .. Len(messages)
      /\ messages \in [Ids -> MessageRow]
    BY <1>1 DEF Ids
<1> QED  BY <1>2 DEF Row, NoCursor

LEMMA UserTypes ==
    ASSUME ChatTypeOK
    PROVE  /\ Clients \subseteq Users /\ Admin \in Users /\ Admin \notin Clients
           /\ \A c \in Chats : Members(c) \in SUBSET Users /\ Members(c) \cap gone = {}
BY AdminAssumption DEF ChatTypeOK, Users, Members

(* What no step undoes: a message stays where it is and its sender's; once *)
(* read it is read, once deleted or removed it is not kept, or there,      *)
(* again.                                                                  *)
Stays(m) ==
    /\ m \in Ids'
    /\ Row(m)'.chat = Row(m).chat /\ Row(m)'.sender = Row(m).sender
    /\ Row(m).readBy \subseteq Row(m)'.readBy
    /\ Exists(m)' => Exists(m)
    /\ Kept(m)' => Kept(m)

LEMMA MessagesStay ==
    ASSUME ChatTypeOK, [ChatNext]_chatVars
    PROVE  /\ messages' \in Seq(MessageRow)
           /\ \A m \in Ids : Stays(m)
<1> DEFINE Goal == messages' \in Seq(MessageRow) /\ \A m \in Ids : Stays(m)
<1>1. /\ messages \in Seq(MessageRow) /\ Len(messages) \in Nat
      /\ \A m \in Ids : Row(m) \in MessageRow
      /\ Ids = 1 .. Len(messages)
    BY MessageFields DEF ChatTypeOK, MessageRow
<1>2. ASSUME UNCHANGED messages
      PROVE  Goal
    BY <1>1, <1>2 DEF Stays, Ids, Row, Exists, Kept
<1>3. ASSUME NEW u \in Users, NEW c \in Chats, SendMessage(u, c)
      PROVE  Goal
    <2>1. PICK row \in MessageRow : messages' = Append(messages, row)
        BY <1>3 DEF SendMessage, MessageRow
    <2>2. /\ messages' \in Seq(MessageRow) /\ Len(messages') = Len(messages) + 1
          /\ \A m \in 1 .. Len(messages) : messages'[m] = messages[m]
        BY <1>1, <2>1
    <2>3. \A m \in Ids : m \in Ids' /\ Row(m)' = Row(m)
        BY <1>1, <2>2 DEF Ids, Row
    <2> QED  BY <1>1, <2>2, <2>3 DEF Stays, Exists, Kept
<1>4. ASSUME NEW r \in Requests, DeleteMessage(r)
      PROVE  Goal
    <2>1. PICK k \in Ids : /\ Exists(k)
                           /\ messages' = [messages EXCEPT ![k].state = "deleted"]
        BY <1>4, RequestFields DEF DeleteMessage
    <2>2. PICK row \in MessageRow : row = [Row(k) EXCEPT !.state = "deleted"]
        BY <1>1 DEF MessageRow
    <2>3. messages' = [m \in Ids |-> IF m = k THEN row ELSE Row(m)]
        BY <1>1, <2>1, <2>2 DEF Ids, Row
    <2>4. /\ row.chat = Row(k).chat /\ row.sender = Row(k).sender
          /\ row.readBy = Row(k).readBy /\ row.state = "deleted"
        BY <1>1, <2>1, <2>2 DEF MessageRow
    <2>5. /\ messages' \in Seq(MessageRow) /\ Ids' = Ids
          /\ \A m \in Ids : Row(m)' = IF m = k THEN row ELSE Row(m)
        BY <1>1, <2>3 DEF Ids, Row
    <2> QED  BY <2>1, <2>4, <2>5 DEF Stays, Exists, Kept
<1>5. ASSUME NEW u \in Clients, DeleteUser(u)
      PROVE  Goal
    <2>1. messages' = [m \in Ids |-> IF Row(m).sender = u
                                     THEN [Row(m) EXCEPT !.state = "removed"] ELSE Row(m)]
        BY <1>5 DEF DeleteUser
    <2>2. \A m \in Ids : LET row == [Row(m) EXCEPT !.state = "removed"]
                         IN  /\ row \in MessageRow
                             /\ row.chat = Row(m).chat /\ row.sender = Row(m).sender
                             /\ row.readBy = Row(m).readBy /\ row.state = "removed"
        BY <1>1 DEF MessageRow
    <2>3. /\ messages' \in Seq(MessageRow) /\ Ids' = Ids
          /\ \A m \in Ids : Row(m)' = IF Row(m).sender = u
                                      THEN [Row(m) EXCEPT !.state = "removed"] ELSE Row(m)
        BY <1>1, <2>1, <2>2 DEF Ids, Row
    <2> QED  BY <2>2, <2>3 DEF Stays, Exists, Kept
<1>6. ASSUME NEW j \in marks, InsertMarks(j)
      PROVE  Goal
    <2>1. CASE messages' = Inserts(j)
        <3>1. j.by \in Users
            BY MarkFields
        <3>2. \A m \in Ids : LET row == [Row(m) EXCEPT !.readBy = @ \cup {j.by}]
                             IN  /\ row \in MessageRow
                                 /\ row.chat = Row(m).chat /\ row.sender = Row(m).sender
                                 /\ row.readBy = Row(m).readBy \cup {j.by}
                                 /\ row.state = Row(m).state
            BY <1>1, <3>1 DEF MessageRow
        <3>3. /\ messages' \in Seq(MessageRow) /\ Ids' = Ids
              /\ \A m \in Ids : Row(m)' = IF m \in j.ids
                                          THEN [Row(m) EXCEPT !.readBy = @ \cup {j.by}]
                                          ELSE Row(m)
            BY <1>1, <2>1, <3>2 DEF Inserts, Ids, Row
        <3> QED  BY <3>2, <3>3 DEF Stays, Exists, Kept
    <2>2. CASE UNCHANGED messages
        BY <1>2, <2>2
    <2> QED  BY <1>6, <2>1, <2>2 DEF InsertMarks
<1> HIDE DEF Goal
<1>7. ASSUME ChatNext
      PROVE  Goal
    <2>1. ASSUME NEW r \in Requests, Creation(r) \/ Change(r)
          PROVE  Goal
        BY <1>2, <1>4, <2>1 DEF Creation, Change, FindChat, CreateChat, RequestFails, CheckChange,
                                UpdateMessage, chatTables
    <2>2. ASSUME Send \/ Paging \/ Say \/ Digest
          PROVE  Goal
        BY <1>2, <1>3, <2>2 DEF Send, Paging, Say, Digest, FirstPage, NextPage, PreviousPage, Shows,
                                SayRead, FindMembers, CountUnread, SendDigest, DigestFails,
                                chatTables
    <2>3. ASSUME NEW j \in marks, Mark(j)
          PROVE  Goal
        BY <1>2, <1>6, <2>3 DEF Mark, FindMessages, MarkFails, chatTables
    <2> QED  BY <1>5, <1>7, <2>1, <2>2, <2>3 DEF ChatNext
<1>8. ASSUME UNCHANGED chatVars
      PROVE  Goal
    BY <1>2, <1>8 DEF chatVars, chatTables
<1>9. Goal
    BY <1>7, <1>8
<1> QED  BY <1>9 DEF Goal

(* The types of everything but the messages, relative to their ids.        *)
RequestStates(ids) ==
    {Idle} \cup [pc: {"create"}, by: Clients] \cup [pc: {"edit", "delete"}, message: ids]
MarkStates(ids) == [pc: {"find", "insert"}, by: Users, ids: SUBSET ids]
BackStates(ids) ==
    [pc: {"back"}, by: Users, chat: Chats, order: Orders, shown: SUBSET ids, cursor: ids]
WalkStates(ids) ==
    [pc: {"more", "end"}, by: Users, chat: Chats, order: Orders, shown: SUBSET ids,
     twice: SUBSET ids, next: ids \cup {NoCursor}, previous: ids \cup {NoCursor},
     base: SUBSET ids, cut: BOOLEAN]
CountStates(ids) == [pc: {"count"}, pairs: SUBSET (ids \X Users)]
SendStates(ids) == [pc: {"send"}, pairs: SUBSET (ids \X Users), users: SUBSET Users]

TypedIn(ids) ==
    /\ gone \in SUBSET Clients /\ overlapped \in SUBSET Clients
    /\ owner \in [Chats -> Clients \cup {Null}]
    /\ request \in [Requests -> RequestStates(ids)]
    /\ marks \in SUBSET MarkStates(ids)
    /\ walk = Idle \/ walk \in WalkStates(ids) \/ walk \in BackStates(ids)
    /\ digest = Idle \/ digest \in CountStates(ids) \/ digest \in SendStates(ids)
    /\ rewritten \in SUBSET ids /\ raced \in SUBSET ids
    /\ unmarked \in SUBSET (Users \X ids)

LEMMA TypedInIds ==
    ChatTypeOK <=> messages \in Seq(MessageRow) /\ TypedIn(Ids)
BY DEF ChatTypeOK, MessageRow, TypedIn, RequestStates, MarkStates, BackStates, WalkStates, WalkState,
       CountStates, SendStates

LEMMA StatesGrow ==
    ASSUME NEW ids, NEW more, ids \subseteq more
    PROVE  /\ RequestStates(ids) \subseteq RequestStates(more)
           /\ MarkStates(ids) \subseteq MarkStates(more)
           /\ BackStates(ids) \subseteq BackStates(more)
           /\ WalkStates(ids) \subseteq WalkStates(more)
           /\ CountStates(ids) \subseteq CountStates(more)
           /\ SendStates(ids) \subseteq SendStates(more)
           /\ Users \X ids \subseteq Users \X more
<1>1. RequestStates(ids) \subseteq RequestStates(more)
    BY DEF RequestStates
<1>2. MarkStates(ids) \subseteq MarkStates(more)
    BY DEF MarkStates
<1>3. BackStates(ids) \subseteq BackStates(more)
    BY DEF BackStates
<1>4. WalkStates(ids) \subseteq WalkStates(more)
    BY DEF WalkStates
<1>5. ids \X Users \subseteq more \X Users /\ Users \X ids \subseteq Users \X more
    OBVIOUS
<1>6. CountStates(ids) \subseteq CountStates(more)
    BY <1>5 DEF CountStates
<1>7. SendStates(ids) \subseteq SendStates(more)
    BY <1>5 DEF SendStates
<1> QED  BY <1>1, <1>2, <1>3, <1>4, <1>5, <1>6, <1>7

(* The pages of a chat: their rows are messages of it.                     *)
LEMMA PageOfChat ==
    ASSUME ChatTypeOK, NEW c \in Chats, NEW order \in Orders, NEW asked, NEW cursor,
           NEW page, page = Page(c, order, asked, cursor)
    PROVE  /\ page.data \in SUBSET Rows(c) /\ page.data \in SUBSET Ids
           /\ page.hasNext \in BOOLEAN
           /\ page.next \in page.data \cup {NoCursor}
           /\ page.previous \in page.data \cup {NoCursor}
           /\ asked # "before" => FollowsOn(Rows(c), order, cursor, page)
<1>1. Len(messages) \in Nat /\ Rows(c) \in SUBSET (1 .. Len(messages)) /\ Rows(c) \in SUBSET Ids
    BY MessageFields DEF Rows
<1>2. order \in Directions /\ Limit \in Nat \ {0}
    BY OrdersAssumption, PageAssumption DEF Directions
<1>3. PICK n \in Nat : n = Len(messages)
    BY <1>1
<1>4. PICK rows \in SUBSET (1 .. n) : rows = Rows(c)
    BY <1>1, <1>3
<1>5. TypedPage(rows, CursorPage(rows, order, FALSE, Limit, asked, cursor))
    BY <1>2, PageTyped
<1>6. TypedPage(Rows(c), page)
    BY <1>4, <1>5 DEF Page, PageOf
<1>7. ASSUME asked # "before"
      PROVE  FollowsOn(Rows(c), order, cursor, page)
    <2>1. FollowsOn(rows, order, cursor, CursorPage(rows, order, FALSE, Limit, asked, cursor))
        BY <1>2, <1>7, PageAfter
    <2> QED  BY <1>4, <2>1 DEF Page, PageOf
<1> QED  BY <1>1, <1>6, <1>7 DEF TypedPage

(* Chats, messages, requests, pages, marks and the digest have the states  *)
(* that the type invariant gives them.                                     *)
THEOREM ChatTypeCorrect == ChatSpec => []ChatTypeOK
<1>1. ChatInit => ChatTypeOK
    <2>1. <<>> \in Seq(MessageRow) /\ Ids \subseteq Ids
        OBVIOUS
    <2>2. ChatInit => TypedIn(Ids)
        BY DEF ChatInit, TypedIn, RequestStates, Null
    <2> QED  BY <2>1, <2>2, TypedInIds DEF ChatInit
<1>2. ASSUME ChatTypeOK, [ChatNext]_chatVars
      PROVE  ChatTypeOK'
    <2>1. PICK ids : ids = Ids
        OBVIOUS
    <2>2. TypedIn(ids) /\ messages \in Seq(MessageRow)
        BY <1>2, <2>1, TypedInIds
    <2> DEFINE Goal == TypedIn(ids)'
    <2>3. ASSUME NEW r \in Requests, Creation(r) \/ Change(r)
          PROVE  Goal
        <3>1. UNCHANGED <<marks, walk, digest, unmarked>>
            BY <2>3 DEF Creation, Change, FindChat, CreateChat, RequestFails, CheckChange,
                        UpdateMessage, DeleteMessage, chatTables, chatObserved
        <3>2. request' \in [Requests -> RequestStates(ids)]
            <4>1. PICK state : request' = [request EXCEPT ![r] = state]
                               /\ state \in RequestStates(ids)
                BY <2>1, <2>3 DEF Creation, Change, FindChat, CreateChat, RequestFails, CheckChange,
                        UpdateMessage, DeleteMessage, RequestGoes, RequestEnds, RequestStates
            <4> QED  BY <2>2, <4>1 DEF TypedIn
        <3>3. gone' \in SUBSET Clients /\ overlapped' \in SUBSET Clients
            BY <2>2, <2>3 DEF Creation, Change, FindChat, CreateChat, RequestFails, CheckChange,
                        UpdateMessage, DeleteMessage, TypedIn, chatTables, chatObserved
        <3>4. owner' \in [Chats -> Clients \cup {Null}]
            BY <1>2, <2>2, <2>3, RequestFields
                     DEF Creation, Change, FindChat, CreateChat, RequestFails, CheckChange,
                         UpdateMessage, DeleteMessage, TypedIn, chatTables
        <3>5. rewritten' \in SUBSET ids /\ raced' \in SUBSET ids
            BY <1>2, <2>1, <2>2, <2>3, RequestFields
                     DEF Creation, Change, FindChat, CreateChat, RequestFails, CheckChange,
                         UpdateMessage, DeleteMessage, TypedIn, chatObserved
        <3> QED  BY <2>2, <3>1, <3>2, <3>3, <3>4, <3>5 DEF TypedIn
    <2>4. ASSUME Send
          PROVE  Goal
        BY <2>2, <2>4 DEF Send, SendMessage, TypedIn, chatObserved
    <2>5. ASSUME NEW u \in Users, NEW page, NEW state, Shows(u, page, state),
                 page.data \in SUBSET ids, state \in WalkStates(ids) \cup BackStates(ids)
          PROVE  Goal
        <3>1. marks' \in SUBSET MarkStates(ids)
            BY <2>2, <2>5 DEF Shows, TypedIn, MarkStates
        <3> QED  BY <2>2, <2>5, <3>1 DEF Shows, TypedIn, chatTables, chatObserved
    <2>6. ASSUME Paging
          PROVE  Goal
        <3>1. ASSUME NEW u \in Users, NEW c \in Chats, NEW order \in Orders,
                     FirstPage(u, c, order)
              PROVE  Goal
            <4>1. PICK page : page = Page(c, order, "first", NoCursor)
                OBVIOUS
            <4>2. /\ page.data \in SUBSET ids /\ Stage(page) \in {"more", "end"}
                  /\ page.next \in ids \cup {NoCursor} /\ page.previous \in ids \cup {NoCursor}
                BY <1>2, <2>1, <4>1, PageOfChat DEF Stage
            <4>3. Rows(c) \in SUBSET ids
                BY <2>1 DEF Rows
            <4>4. PICK state : /\ Shows(u, page, state)
                               /\ state = [pc |-> Stage(page), by |-> u, chat |-> c, order |-> order,
                                           shown |-> page.data, twice |-> {}, next |-> page.next,
                                           previous |-> page.previous, base |-> Rows(c),
                                           cut |-> FALSE]
                BY <3>1, <4>1 DEF FirstPage
            <4>5. state \in WalkStates(ids)
                BY <4>2, <4>3, <4>4 DEF WalkStates
            <4> QED  BY <2>5, <4>2, <4>4, <4>5
        <3>2. ASSUME NextPage
              PROVE  Goal
            <4>1. /\ walk.pc = "more" /\ walk.by \in Users /\ walk.chat \in Chats
                  /\ walk.order \in Orders /\ walk.shown \in SUBSET ids
                  /\ walk.twice \in SUBSET ids /\ walk.base \in SUBSET ids
                BY <1>2, <2>1, <3>2, WalkFields DEF NextPage
            <4>2. PICK page : page = Page(walk.chat, walk.order, "after", walk.next)
                OBVIOUS
            <4>3. /\ page.data \in SUBSET ids /\ Stage(page) \in {"more", "end"}
                  /\ page.next \in ids \cup {NoCursor} /\ page.previous \in ids \cup {NoCursor}
                BY <1>2, <2>1, <4>1, <4>2, PageOfChat DEF Stage
            <4>4. PICK cut \in BOOLEAN : cut = ~Exists(walk.next)
                BY DEF Exists
            <4>5. PICK state : /\ Shows(walk.by, page, state)
                               /\ state = [pc |-> Stage(page), by |-> walk.by, chat |-> walk.chat,
                                           order |-> walk.order,
                                           shown |-> walk.shown \cup page.data,
                                           twice |-> walk.twice \cup (walk.shown \cap page.data),
                                           next |-> page.next, previous |-> page.previous,
                                           base |-> walk.base, cut |-> cut]
                BY <3>2, <4>2, <4>4, Zenon DEF NextPage
            <4>6. state \in WalkStates(ids)
                BY <4>1, <4>3, <4>5 DEF WalkStates
            <4> QED  BY <2>5, <4>1, <4>3, <4>5, <4>6
        <3>3. ASSUME PreviousPage
              PROVE  Goal
            <4>1. /\ walk.by \in Users /\ walk.chat \in Chats /\ walk.order \in Orders
                  /\ walk.previous \in ids
                BY <1>2, <2>1, <3>3, WalkFields DEF PreviousPage
            <4>2. PICK page : page = Page(walk.chat, walk.order, "before", walk.previous)
                OBVIOUS
            <4>3. page.data \in SUBSET ids
                BY <1>2, <2>1, <4>1, <4>2, PageOfChat
            <4>4. PICK state : /\ Shows(walk.by, page, state)
                               /\ state = [pc |-> "back", by |-> walk.by, chat |-> walk.chat,
                                           order |-> walk.order, shown |-> page.data,
                                           cursor |-> walk.previous]
                BY <3>3, <4>2 DEF PreviousPage
            <4>5. state \in BackStates(ids)
                BY <4>1, <4>3, <4>4 DEF BackStates
            <4> QED  BY <2>5, <4>1, <4>3, <4>4, <4>5
        <3> QED  BY <2>6, <3>1, <3>2, <3>3 DEF Paging
    <2>7. ASSUME Say
          PROVE  Goal
        <3>1. marks' \in SUBSET MarkStates(ids)
            BY <2>1, <2>2, <2>7 DEF Say, SayRead, TypedIn, MarkStates
        <3> QED  BY <2>2, <2>7, <3>1 DEF Say, SayRead, TypedIn, chatTables, chatObserved
    <2>8. ASSUME NEW j \in marks, Mark(j)
          PROVE  Goal
        <3>1. j.by \in Users /\ j.ids \in SUBSET ids
            BY <1>2, <2>1, MarkFields
        <3>2. marks' \in SUBSET MarkStates(ids)
            BY <2>2, <2>8, <3>1 DEF Mark, FindMessages, InsertMarks, MarkFails, TypedIn, MarkStates
        <3>3. unmarked' \in SUBSET (Users \X ids)
            BY <2>2, <2>8, <3>1 DEF Mark, FindMessages, InsertMarks, MarkFails, TypedIn, chatObserved
        <3> QED  BY <2>2, <2>8, <3>2, <3>3 DEF Mark, FindMessages, InsertMarks, MarkFails, TypedIn,
                                               chatTables, chatObserved
    <2>9. ASSUME Digest
          PROVE  Goal
        <3>1. digest' = Idle \/ digest' \in CountStates(ids) \/ digest' \in SendStates(ids)
            <4>1. CASE FindMembers
                BY <2>1, <4>1 DEF FindMembers, CountStates
            <4>2. CASE CountUnread
                BY <2>2, <4>2 DEF CountUnread, TypedIn, CountStates, SendStates, UnreadOver, Idle
            <4>3. CASE SendDigest
                BY <2>2, <4>3 DEF SendDigest, TypedIn, CountStates, SendStates, Idle
            <4> QED  BY <2>9, <4>1, <4>2, <4>3 DEF Digest, DigestFails
        <3> QED  BY <2>2, <2>9, <3>1 DEF Digest, FindMembers, CountUnread, SendDigest, DigestFails,
                                         TypedIn, chatTables, chatObserved
    <2>10. ASSUME NEW u \in Clients, DeleteUser(u)
           PROVE  Goal
        BY <2>2, <2>10 DEF DeleteUser, TypedIn, chatObserved
    <2>11. ASSUME UNCHANGED chatVars
           PROVE  Goal
        BY <2>2, <2>11 DEF chatVars, chatTables, chatObserved, TypedIn
    <2> HIDE DEF Goal
    <2>12. Goal
        BY <1>2, <2>3, <2>4, <2>6, <2>7, <2>8, <2>9, <2>10, <2>11 DEF ChatNext
    <2>13. ids \subseteq Ids' /\ messages' \in Seq(MessageRow)
        BY <1>2, <2>1, MessagesStay DEF Stays
    <2>14. PICK more : more = Ids'
        OBVIOUS
    <2>15. TypedIn(more)'
        <3>1. request' \in [Requests -> RequestStates(more)]
            BY <2>12, <2>13, <2>14, StatesGrow DEF Goal, TypedIn
        <3> QED  BY <2>12, <2>13, <2>14, <3>1, StatesGrow DEF Goal, TypedIn
    <2>16. TypedIn(Ids)'
        BY <2>14, <2>15
    <2>17. (ChatTypeOK <=> messages \in Seq(MessageRow) /\ TypedIn(Ids))'
        BY TypedInIds, PTL
    <2> QED  BY <2>13, <2>16, <2>17
<1> QED  BY <1>1, <1>2, PTL DEF ChatSpec

-----------------------------------------------------------------------------
(* One chat for a client                                                   *)

AboutToCreate(r, u) == RequestAt(r, "create") /\ request[r].by = u

(* A client has a chat, or one request about to create it, or neither,     *)
(* unless two of his creations overlapped.                                 *)
CreatedOnce(u) ==
    u \notin overlapped =>
        /\ \A c, d \in Chats : owner[c] = u /\ owner[d] = u => c = d
        /\ \A r, q \in Requests : AboutToCreate(r, u) /\ AboutToCreate(q, u) => r = q
        /\ \A c \in Chats, r \in Requests : ~(owner[c] = u /\ AboutToCreate(r, u))

(* A client has two chats only if two requests of his looked for one       *)
(* before either had made it.                                              *)
THEOREM OneChatEach == ChatSpec => []OneChat
<1> DEFINE Inv == \A u \in Clients : CreatedOnce(u)
<1>1. ChatInit => Inv
    BY NullAssumption DEF ChatInit, CreatedOnce, AboutToCreate, RequestAt, Idle
<1>2. ASSUME ChatTypeOK, Inv, [ChatNext]_chatVars
      PROVE  Inv'
    <2> SUFFICES ASSUME NEW u \in Clients, CreatedOnce(u)
                 PROVE  CreatedOnce(u)'
        BY <1>2
    <2>1. request \in [Requests -> RequestStates(Ids)] /\ owner \in [Chats -> Clients \cup {Null}]
        BY <1>2, TypedInIds DEF TypedIn
    <2> DEFINE Goal == CreatedOnce(u)'
    <2>2. ASSUME UNCHANGED <<owner, request, overlapped>>
          PROVE  Goal
        BY <2>2 DEF CreatedOnce, AboutToCreate, RequestAt
    <2>3. ASSUME NEW r \in Requests, NEW v \in Clients, FindChat(r, v)
          PROVE  Goal
        <3>1. UNCHANGED owner /\ RequestAt(r, "idle") /\ \A c \in Chats : owner[c] # v
            BY <2>3 DEF FindChat, chatTables
        <3>2. /\ request'[r] = [pc |-> "create", by |-> v]
              /\ \A q \in Requests \ {r} : request'[q] = request[q]
            BY <2>1, <2>3 DEF FindChat, RequestGoes
        <3>3. overlapped \subseteq overlapped'
              /\ ((\E q \in Requests : AboutToCreate(q, v)) => v \in overlapped')
            BY <2>3 DEF FindChat, AboutToCreate
        <3>4. AboutToCreate(r, u)' <=> u = v
            BY <3>2 DEF AboutToCreate, RequestAt
        <3>5. \A q \in Requests \ {r} : AboutToCreate(q, u)' <=> AboutToCreate(q, u)
            BY <3>2 DEF AboutToCreate, RequestAt
        <3> QED  BY <3>1, <3>3, <3>4, <3>5 DEF CreatedOnce
    <2>4. ASSUME NEW r \in Requests, CreateChat(r)
          PROVE  Goal
        <3>1. PICK c \in Chats : /\ owner[c] = Null
                                 /\ owner' = [owner EXCEPT ![c] = request[r].by]
            BY <2>4 DEF CreateChat
        <3>2. \A d \in Chats : owner'[d] = IF d = c THEN request[r].by ELSE owner[d]
            BY <2>1, <3>1
        <3>3. \A q \in Requests : request'[q] = IF q = r THEN Idle ELSE request[q]
            BY <2>1, <2>4 DEF CreateChat, RequestEnds, RequestGoes
        <3>4. UNCHANGED overlapped /\ (owner'[c] = u <=> AboutToCreate(r, u)) /\ ~AboutToCreate(r, u)'
            BY <2>4, <3>2, <3>3 DEF CreateChat, chatObserved, AboutToCreate, RequestAt, Idle
        <3>5. \A q \in Requests \ {r} : AboutToCreate(q, u)' <=> AboutToCreate(q, u)
            BY <3>3 DEF AboutToCreate, RequestAt
        <3> QED  BY <3>2, <3>4, <3>5 DEF CreatedOnce
    <2>5. ASSUME NEW r \in Requests, NEW state, RequestGoes(r, state),
                 state.pc # "create", UNCHANGED <<owner, overlapped>>
          PROVE  Goal
        <3>1. \A q \in Requests : request'[q] = IF q = r THEN state ELSE request[q]
            BY <2>1, <2>5 DEF RequestGoes
        <3>2. \A q \in Requests : AboutToCreate(q, u)' => AboutToCreate(q, u)
            BY <2>5, <3>1 DEF AboutToCreate, RequestAt
        <3> QED  BY <2>5, <3>2 DEF CreatedOnce
    <2> HIDE DEF Goal
    <2>6. ASSUME NEW r \in Requests, Creation(r)
          PROVE  Goal
        <3>1. CASE RequestFails(r)
            BY <2>5, <3>1 DEF RequestFails, RequestEnds, Idle, chatTables, chatObserved
        <3> QED  BY <2>3, <2>4, <2>6, <3>1 DEF Creation
    <2>7. ASSUME NEW r \in Requests, Change(r)
          PROVE  Goal
        <3>1. UNCHANGED <<owner, overlapped>>
            BY <2>7 DEF Change, CheckChange, UpdateMessage, DeleteMessage, chatTables, chatObserved
        <3>2. ASSUME NEW op \in {"edit", "delete"}, NEW m \in Ids, CheckChange(r, op, m)
              PROVE  Goal
            BY <2>5, <3>1, <3>2 DEF CheckChange
        <3>3. CASE UpdateMessage(r) \/ DeleteMessage(r)
            BY <2>5, <3>1, <3>3 DEF UpdateMessage, DeleteMessage, RequestEnds, Idle
        <3> QED  BY <2>7, <3>2, <3>3 DEF Change
    <2>8. ASSUME \/ Send \/ Paging \/ Say \/ Digest \/ UNCHANGED chatVars
                 \/ \E j \in marks : Mark(j)
                 \/ \E v \in Clients : DeleteUser(v)
          PROVE  Goal
        BY <2>2, <2>8 DEF Send, SendMessage, Paging, FirstPage, NextPage, PreviousPage, Shows, Say,
                SayRead, Digest, FindMembers, CountUnread, SendDigest, DigestFails, Mark,
                FindMessages, InsertMarks, MarkFails, DeleteUser, chatVars, chatTables, chatObserved
    <2>9. Goal
        BY <1>2, <2>6, <2>7, <2>8 DEF ChatNext
    <2> QED  BY <2>9 DEF Goal
<1>3. Inv => OneChat
    <2> SUFFICES ASSUME Inv, NEW u \in Clients \ overlapped
                 PROVE  Cardinality({c \in Chats : owner[c] = u}) <= 1
        BY DEF OneChat
    <2> DEFINE own == {c \in Chats : owner[c] = u}
    <2>1. own = {} \/ \E c \in Chats : own = {c}
        BY DEF CreatedOnce
    <2>2. Cardinality(own) = 0 \/ Cardinality(own) = 1
        BY <2>1, FS_EmptySet, FS_Singleton, Zenon
    <2> QED  BY <2>2
<1> HIDE DEF Inv
<1> QED  BY <1>1, <1>2, <1>3, ChatTypeCorrect, PTL DEF ChatSpec

-----------------------------------------------------------------------------
(* Edits and deletions                                                     *)

(* A message about to be edited is kept, or was deleted under that edit,   *)
(* or is gone with its sender.                                             *)
EditSeen(r) ==
    RequestAt(r, "edit") =>
        LET m == request[r].message IN Kept(m) \/ ~Exists(m) \/ m \in raced

EditsInv == rewritten \subseteq raced /\ \A r \in Requests : EditSeen(r)

(* The text of a deleted message is written only by an edit that found the *)
(* message before it was deleted.                                          *)
THEOREM DeletedTextIsKept == ChatSpec => []DeletedTextKept
<1>1. ChatInit => EditsInv
    BY DEF ChatInit, EditsInv, EditSeen, RequestAt, Idle
<1>2. ASSUME ChatTypeOK, EditsInv, [ChatNext]_chatVars
      PROVE  EditsInv'
    <2>1. request \in [Requests -> RequestStates(Ids)]
        BY <1>2, TypedInIds DEF TypedIn
    <2>2. /\ \A r \in Requests : RequestAt(r, "edit") => request[r].message \in Ids
          /\ \A m \in Ids : Row(m) \in MessageRow
          /\ messages \in [Ids -> MessageRow]
        BY <1>2, RequestFields, MessageFields
    <2> DEFINE Goal == EditsInv'
    <2>3. ASSUME UNCHANGED <<request, messages, raced, rewritten>>
          PROVE  Goal
        BY <1>2, <2>3 DEF EditsInv, EditSeen, RequestAt, Kept, Exists, Row
    <2>4. ASSUME NEW r \in Requests, NEW state, RequestGoes(r, state),
                 state.pc = "edit" => state.message \in Ids /\ Kept(state.message),
                 UNCHANGED <<messages, raced>>, rewritten' \subseteq raced
          PROVE  Goal
        <3>1. \A q \in Requests : request'[q] = IF q = r THEN state ELSE request[q]
            BY <2>1, <2>4 DEF RequestGoes
        <3>2. \A q \in Requests : EditSeen(q)'
            BY <1>2, <2>4, <3>1 DEF EditsInv, EditSeen, RequestAt, Kept, Exists, Row
        <3> QED  BY <2>4, <3>2 DEF EditsInv
    <2>5. ASSUME NEW r \in Requests, DeleteMessage(r)
          PROVE  Goal
        <3>1. PICK k \in Ids : /\ messages' = [messages EXCEPT ![k].state = "deleted"]
                               /\ raced' = raced \cup {i \in {k} :
                                     \E q \in Requests : RequestAt(q, "edit")
                                                         /\ request[q].message = i}
            BY <1>2, <2>5, RequestFields DEF DeleteMessage
        <3>2. \A q \in Requests : request'[q] = IF q = r THEN Idle ELSE request[q]
            BY <2>1, <2>5 DEF DeleteMessage, RequestEnds, RequestGoes
        <3>3. \A m \in Ids \ {k} : Row(m)' = Row(m)
            BY <2>2, <3>1 DEF Row
        <3>4. ASSUME NEW q \in Requests
              PROVE  EditSeen(q)'
            BY <1>2, <2>2, <3>1, <3>2, <3>3 DEF EditsInv, EditSeen, RequestAt, Kept, Exists, Idle
        <3> QED  BY <1>2, <2>5, <3>1, <3>4 DEF EditsInv, DeleteMessage
    <2>6. ASSUME UNCHANGED <<request, raced, rewritten>>,
                 \A m \in Ids : \/ Row(m)'.state = Row(m).state
                                \/ Row(m)'.state = "removed"
          PROVE  Goal
        BY <1>2, <2>2, <2>6 DEF EditsInv, EditSeen, RequestAt, Kept, Exists
    <2>7. ASSUME NEW u \in Users, NEW c \in Chats, SendMessage(u, c)
          PROVE  Goal
        <3>1. \A m \in Ids : Row(m)' = Row(m)
            BY <1>2, <2>7, MessageFields DEF SendMessage, Row, ChatTypeOK
        <3> QED  BY <2>6, <2>7, <3>1 DEF SendMessage, chatObserved
    <2>8. ASSUME NEW u \in Clients, DeleteUser(u)
          PROVE  Goal
        <3>1. \A m \in Ids : Row(m)' = IF Row(m).sender = u
                                       THEN [Row(m) EXCEPT !.state = "removed"] ELSE Row(m)
            BY <2>8 DEF DeleteUser, Row, Ids
        <3>2. \A m \in Ids : [Row(m) EXCEPT !.state = "removed"].state = "removed"
            BY <2>2 DEF MessageRow
        <3> QED  BY <2>6, <2>8, <3>1, <3>2 DEF DeleteUser, chatObserved
    <2>9. ASSUME NEW j \in marks, InsertMarks(j)
          PROVE  Goal
        <3>1. CASE messages' = Inserts(j)
            <4>1. \A m \in Ids : Row(m)' = IF m \in j.ids
                                           THEN [Row(m) EXCEPT !.readBy = @ \cup {j.by}]
                                           ELSE Row(m)
                BY <3>1 DEF Inserts, Row, Ids
            <4>2. \A m \in Ids : [Row(m) EXCEPT !.readBy = @ \cup {j.by}].state = Row(m).state
                BY <2>2 DEF MessageRow
            <4> QED  BY <2>6, <2>9, <4>1, <4>2 DEF InsertMarks
        <3> QED  BY <2>3, <2>9, <3>1 DEF InsertMarks
    <2> HIDE DEF Goal
    <2>10. ASSUME NEW r \in Requests, Creation(r) \/ Change(r)
           PROVE  Goal
        <3>1. CASE Creation(r)
            <4>1. UNCHANGED <<messages, raced, rewritten>> /\ rewritten \subseteq raced
                BY <1>2, <3>1 DEF Creation, FindChat, CreateChat, RequestFails, chatTables,
                                  chatObserved, EditsInv
            <4>2. ASSUME NEW u \in Clients, FindChat(r, u)
                  PROVE  Goal
                BY <2>4, <4>1, <4>2 DEF FindChat
            <4>3. CASE CreateChat(r) \/ RequestFails(r)
                BY <2>4, <4>1, <4>3 DEF CreateChat, RequestFails, RequestEnds, Idle
            <4> QED  BY <3>1, <4>2, <4>3 DEF Creation
        <3>2. ASSUME NEW op \in {"edit", "delete"}, NEW m \in Ids, CheckChange(r, op, m)
              PROVE  Goal
            BY <1>2, <2>4, <3>2 DEF CheckChange, chatTables, chatObserved, EditsInv
        <3>3. CASE UpdateMessage(r)
            <4>1. rewritten' \subseteq raced
                BY <1>2, <3>3 DEF UpdateMessage, EditsInv, EditSeen
            <4> QED  BY <2>4, <3>3, <4>1 DEF UpdateMessage, RequestEnds, Idle, chatTables
        <3> QED  BY <2>5, <2>10, <3>1, <3>2, <3>3 DEF Change
    <2>11. ASSUME \/ Send \/ Paging \/ Say \/ Digest \/ UNCHANGED chatVars
                  \/ \E j \in marks : Mark(j)
                  \/ \E v \in Clients : DeleteUser(v)
           PROVE  Goal
        BY <2>3, <2>7, <2>8, <2>9, <2>11
           DEF Send, Paging, FirstPage, NextPage, PreviousPage, Shows, Say,
               SayRead, Digest, FindMembers, CountUnread, SendDigest, DigestFails, Mark,
               FindMessages, MarkFails, chatVars, chatTables, chatObserved
    <2>12. Goal
        BY <1>2, <2>10, <2>11 DEF ChatNext
    <2> QED  BY <2>12 DEF Goal
<1>3. EditsInv => DeletedTextKept
    BY DEF EditsInv, DeletedTextKept
<1> QED  BY <1>1, <1>2, <1>3, ChatTypeCorrect, PTL DEF ChatSpec

-----------------------------------------------------------------------------
(* The pages of a walk                                                     *)

NotAfter(order, m, k) == m = k \/ Before(order, m, k)

(* A walk has shown no message twice, and all the messages of its first    *)
(* page's time that are still there: at its end, unless it was cut short,  *)
(* or before it those up to the cursor of the next page, itself shown.     *)
WalkInv ==
    walk.pc \in {"more", "end"} =>
        /\ walk.twice = {}
        /\ \A m \in walk.base : Row(m).chat = walk.chat
        /\ walk.pc = "more" =>
              /\ walk.next \in walk.shown /\ Row(walk.next).chat = walk.chat
              /\ \A m \in walk.shown : NotAfter(walk.order, m, walk.next)
              /\ \A m \in walk.base :
                    Exists(m) /\ NotAfter(walk.order, m, walk.next) => m \in walk.shown
        /\ walk.pc = "end" /\ ~walk.cut => \A m \in walk.base : Exists(m) => m \in walk.shown

(* The first page starts such a walk ...                                   *)
LEMMA FirstPageWalks ==
    ASSUME ChatTypeOK, NEW u \in Users, NEW c \in Chats, NEW order \in Orders,
           FirstPage(u, c, order)
    PROVE  WalkInv'
<1>1. PICK page : page = Page(c, order, "first", NoCursor)
    OBVIOUS
<1>2. /\ page.data \in SUBSET Rows(c) /\ page.hasNext \in BOOLEAN
      /\ FollowsOn(Rows(c), order, NoCursor, page)
    BY <1>1, PageOfChat
<1>3. /\ page.data \in SUBSET Rows(c)
      /\ ~page.hasNext => page.data = Rows(c)
      /\ page.hasNext => /\ page.next \in page.data
                         /\ \A d \in page.data : NotAfter(order, d, page.next)
                         /\ \A q \in Rows(c) : NotAfter(order, q, page.next) => q \in page.data
    BY <1>2 DEF FollowsOn, FromCursor, NotAfter
<1>4. UNCHANGED messages /\
      walk' = [pc |-> Stage(page), by |-> u, chat |-> c, order |-> order,
               shown |-> page.data, twice |-> {}, next |-> page.next,
               previous |-> page.previous, base |-> Rows(c), cut |-> FALSE]
    BY <1>1, Zenon DEF FirstPage, Shows, chatTables
<1>5. /\ walk'.pc = Stage(page) /\ walk'.chat = c /\ walk'.order = order
      /\ walk'.shown = page.data /\ walk'.twice = {} /\ walk'.next = page.next
      /\ walk'.base = Rows(c)
    BY <1>4
<1>6. \A m \in Rows(c) : Row(m)'.chat = c
    BY <1>4 DEF Rows, Row
<1> QED  BY <1>3, <1>5, <1>6 DEF WalkInv, Stage

(* ... and each next page carries it on.                                   *)
LEMMA NextPageWalks ==
    ASSUME ChatTypeOK, WalkInv, NextPage
    PROVE  WalkInv'
<1>1. /\ walk.pc = "more" /\ walk.chat \in Chats /\ walk.order \in Orders
      /\ walk.order \in Directions /\ walk.shown \in SUBSET Ids
      /\ walk.next \in Ids /\ walk.base \in SUBSET Ids
      /\ Ids \subseteq Int /\ walk.next # NoCursor
    <2>1. walk.pc = "more" /\ walk.next \in walk.shown
        BY DEF NextPage, WalkInv
    <2> QED  BY <2>1, WalkFields, MessageFields
<1>2. PICK c \in Chats : c = walk.chat
    BY <1>1
<1>3. PICK order \in Orders : order = walk.order /\ order \in Directions
    BY <1>1
<1>4. PICK next \in Ids : next = walk.next /\ next # NoCursor
    BY <1>1
<1>5. PICK page : page = Page(c, order, "after", next)
    OBVIOUS
<1>6. /\ page.hasNext \in BOOLEAN /\ page.data \in SUBSET Rows(c)
      /\ FollowsOn(Rows(c), order, next, page)
    BY <1>5, PageOfChat
<1>7. PICK after : after = FromCursor(Rows(c), order, next)
    OBVIOUS
<1>8. /\ page.data \in SUBSET after
      /\ ~page.hasNext => page.data = after
      /\ page.hasNext => /\ page.next \in page.data
                         /\ \A d \in page.data : NotAfter(order, d, page.next)
                         /\ \A q \in after : NotAfter(order, q, page.next) => q \in page.data
    BY <1>6, <1>7 DEF FollowsOn, NotAfter
<1>9. \A q \in Ids : q \in after <=> /\ Exists(q) /\ Row(q).chat = c
                                     /\ Exists(next) /\ Before(order, next, q)
    BY <1>2, <1>4, <1>7 DEF FromCursor, Rows, WalkInv, NextPage
<1>10. page.data \in SUBSET Ids
    BY <1>6 DEF Rows
<1>11. /\ UNCHANGED messages
       /\ walk' = [pc |-> Stage(page), by |-> walk.by, chat |-> c, order |-> order,
                   shown |-> walk.shown \cup page.data,
                   twice |-> walk.twice \cup (walk.shown \cap page.data),
                   next |-> page.next, previous |-> page.previous, base |-> walk.base,
                   cut |-> ~Exists(next)]
    BY <1>2, <1>3, <1>4, <1>5, Zenon DEF NextPage, Shows, chatTables
<1>12. PICK cut : cut = ~Exists(next)
    OBVIOUS
<1>13. /\ walk'.pc = Stage(page) /\ walk'.chat = c /\ walk'.order = order
       /\ walk'.shown = walk.shown \cup page.data
       /\ walk'.twice = walk.twice \cup (walk.shown \cap page.data)
       /\ walk'.next = page.next /\ walk'.base = walk.base /\ walk'.cut = cut
    BY <1>11, <1>12
<1>14. /\ walk.twice = {} /\ next \in walk.shown
       /\ \A m \in walk.shown : NotAfter(order, m, next)
       /\ \A m \in walk.base : Row(m).chat = c
       /\ \A m \in walk.base : Exists(m) /\ NotAfter(order, m, next) => m \in walk.shown
    BY <1>1, <1>2, <1>3, <1>4 DEF WalkInv
<1>15. /\ \A m \in Ids : NotAfter(order, m, next) \/ Before(order, next, m)
       /\ \A m \in Ids : ~(NotAfter(order, m, next) /\ Before(order, next, m))
       /\ \A m, k \in Ids : NotAfter(order, m, next) /\ Before(order, next, k)
                            => Before(order, m, k)
    BY <1>1, <1>3, <1>4, BeforeIsOrder DEF NotAfter
<1>16. walk.shown \cap page.data = {}
    BY <1>8, <1>9, <1>10, <1>14, <1>15
<1>17. ASSUME page.hasNext
       PROVE  /\ page.next \in walk'.shown /\ Row(page.next).chat = c
              /\ \A m \in walk'.shown : NotAfter(order, m, page.next)
              /\ \A m \in walk.base :
                    Exists(m) /\ NotAfter(order, m, page.next) => m \in walk'.shown
    <2>1. page.next \in Ids /\ Before(order, next, page.next) /\ Row(page.next).chat = c
          /\ Exists(next)
        BY <1>8, <1>9, <1>10, <1>17
    <2>2. \A m \in walk.shown : NotAfter(order, m, page.next)
        BY <1>1, <1>14, <1>15, <2>1 DEF NotAfter
    <2>3. ASSUME NEW m \in walk.base, Exists(m), NotAfter(order, m, page.next)
          PROVE  m \in walk.shown \cup page.data
        <3>1. m \in Ids /\ Row(m).chat = c
            BY <1>1, <1>14
        <3>2. CASE NotAfter(order, m, next)
            BY <1>14, <2>3, <3>2
        <3>3. CASE Before(order, next, m)
            BY <1>8, <1>9, <1>17, <2>1, <2>3, <3>1, <3>3
        <3> QED  BY <1>15, <3>1, <3>2, <3>3
    <2> QED  BY <1>8, <1>13, <1>17, <2>1, <2>2, <2>3
<1>18. ASSUME ~page.hasNext, Exists(next)
       PROVE  \A m \in walk.base : Exists(m) => m \in walk'.shown
    <2> SUFFICES ASSUME NEW m \in walk.base, Exists(m)
                 PROVE  m \in walk.shown \cup page.data
        BY <1>13
    <2>1. m \in Ids /\ Row(m).chat = c
        BY <1>1, <1>14
    <2>2. CASE NotAfter(order, m, next)
        BY <1>14, <2>2
    <2>3. CASE Before(order, next, m)
        BY <1>8, <1>9, <1>18, <2>1, <2>3
    <2> QED  BY <1>15, <2>1, <2>2, <2>3
<1>19. /\ \A m : Row(m)' = Row(m) /\ (Exists(m)' <=> Exists(m))
    BY <1>11 DEF Row, Exists
<1>20. /\ walk'.pc = "more" => page.hasNext
       /\ walk'.pc = "end" => ~page.hasNext
       /\ ~cut <=> Exists(next)
    BY <1>12, <1>13 DEF Stage
<1>21. walk'.twice = {}
    BY <1>13, <1>14, <1>16
<1> QED  BY <1>13, <1>14, <1>17, <1>18, <1>19, <1>20, <1>21 DEF WalkInv

(* A client that follows the cursors to the end is shown every message     *)
(* that was there at the first page and still is, and none twice.          *)
THEOREM WalkShowsAll == ChatSpec => []WalkComplete
<1>1. ChatInit => WalkInv
    BY DEF ChatInit, WalkInv, Idle
<1>2. ASSUME ChatTypeOK, WalkInv, [ChatNext]_chatVars
      PROVE  WalkInv'
    <2>1. ASSUME UNCHANGED walk
          PROVE  WalkInv'
        <3>1. \A m \in Ids : Row(m)'.chat = Row(m).chat /\ (Exists(m)' => Exists(m))
            BY <1>2, MessagesStay DEF Stays
        <3>2. walk.pc \in {"more", "end"} => /\ walk.base \in SUBSET Ids
                                             /\ walk.shown \in SUBSET Ids
            BY <1>2, WalkFields
        <3> QED  BY <1>2, <2>1, <3>1, <3>2 DEF WalkInv
    <2>2. CASE PreviousPage
        BY <2>2 DEF PreviousPage, Shows, WalkInv
    <2>3. CASE Paging
        BY <1>2, <2>2, <2>3, FirstPageWalks, NextPageWalks DEF Paging
    <2>4. ~Paging => UNCHANGED walk
        BY <1>2 DEF ChatNext, Creation, Change, FindChat, CreateChat, RequestFails, CheckChange,
                    UpdateMessage, DeleteMessage, Send, SendMessage, Say, SayRead, Mark,
                    FindMessages, InsertMarks, MarkFails, Digest, FindMembers, CountUnread,
                    SendDigest, DigestFails, DeleteUser, chatVars
    <2> QED  BY <2>1, <2>3, <2>4
<1>3. WalkInv => WalkComplete
    BY DEF WalkInv, WalkComplete
<1> QED  BY <1>1, <1>2, <1>3, ChatTypeCorrect, PTL DEF ChatSpec

-----------------------------------------------------------------------------
(* The marks of what was shown                                             *)

Marked(u, m) ==
    \/ u \in Row(m).readBy
    \/ <<u, m>> \in unmarked
    \/ \E j \in marks : j.by = u /\ m \in j.ids

(* The mark of a message is made, or fails, but is not lost: unless the    *)
(* message is removed, or its reader.                                      *)
LEMMA MarkedStays ==
    ASSUME ChatTypeOK, [ChatNext]_chatVars, NEW u \in Users, u \notin gone',
           NEW m \in Ids, Exists(m)', Row(m).sender # u, Marked(u, m)
    PROVE  Marked(u, m)'
<1> DEFINE Goal == Marked(u, m)'
<1>1. Row(m).readBy \subseteq Row(m)'.readBy /\ Exists(m)
    BY MessagesStay DEF Stays
<1>2. ASSUME marks \subseteq marks', unmarked \subseteq unmarked'
      PROVE  Goal
    BY <1>1, <1>2 DEF Marked
<1>3. ASSUME NEW j \in marks, Mark(j)
      PROVE  Goal
    <2>1. j.by \in Users /\ j.ids \in SUBSET Ids
        BY MarkFields
    <2>2. CASE u \in Row(m).readBy \/ <<u, m>> \in unmarked
                \/ \E k \in marks \ {j} : k.by = u /\ m \in k.ids
        <3>1. unmarked \subseteq unmarked' /\ marks \ {j} \subseteq marks'
            BY <1>3 DEF Mark, FindMessages, InsertMarks, MarkFails, chatObserved
        <3> QED  BY <1>1, <2>2, <3>1 DEF Marked
    <2>3. CASE j.by = u /\ m \in j.ids
        <3>1. CASE FindMessages(j)
            <4>1. PICK others : others = {k \in j.ids : Exists(k) /\ Row(k).sender # j.by}
                OBVIOUS
            <4>2. m \in others
                BY <1>1, <2>3, <4>1
            <4>3. u \notin gone
                BY <3>1 DEF FindMessages, chatTables
            <4>4. [pc |-> "insert", by |-> u, ids |-> others] \in marks'
                BY <2>3, <3>1, <4>1, <4>2, <4>3 DEF FindMessages
            <4> QED  BY <4>2, <4>4 DEF Marked
        <3>2. CASE InsertMarks(j)
            <4>1. CASE messages' = Inserts(j)
                <5>1. Row(m)' = [Row(m) EXCEPT !.readBy = @ \cup {j.by}]
                    BY <2>3, <4>1 DEF Inserts, Row
                <5>2. Row(m) \in MessageRow
                    BY MessageFields
                <5>3. u \in Row(m)'.readBy
                    BY <2>3, <5>1, <5>2 DEF MessageRow
                <5> QED  BY <5>3 DEF Marked
            <4>2. CASE unmarked' = unmarked \cup ({j.by} \X j.ids)
                BY <2>3, <4>2 DEF Marked
            <4> QED  BY <3>2, <4>1, <4>2 DEF InsertMarks
        <3>3. CASE MarkFails(j)
            BY <2>3, <3>3 DEF MarkFails, Marked
        <3> QED  BY <1>3, <3>1, <3>2, <3>3 DEF Mark
    <2> QED  BY <2>2, <2>3 DEF Marked
<1> HIDE DEF Goal
<1>4. ~(\E j \in marks : Mark(j)) => marks \subseteq marks' /\ unmarked \subseteq unmarked'
    BY DEF ChatNext, Creation, Change, FindChat, CreateChat, RequestFails, CheckChange,
           UpdateMessage, DeleteMessage, Send, SendMessage, Paging, FirstPage, NextPage,
           PreviousPage, Shows, Say, SayRead, Digest, FindMembers, CountUnread, SendDigest,
           DigestFails, DeleteUser, chatVars, chatObserved
<1>5. Goal
    BY <1>2, <1>3, <1>4
<1> QED  BY <1>5 DEF Goal

(* Every message shown to another than its sender is read by him, or its   *)
(* mark is underway, or failed.                                            *)
THEOREM ShownAreMarked == ChatSpec => []ShownIsMarked
<1> DEFINE Inv == walk.pc # "idle" /\ walk.by \notin gone =>
                     \A m \in walk.shown : Exists(m) /\ Row(m).sender # walk.by
                                           => Marked(walk.by, m)
<1>1. ChatInit => Inv
    BY DEF ChatInit, Idle
<1>2. ASSUME ChatTypeOK, Inv, [ChatNext]_chatVars
      PROVE  Inv'
    <2> SUFFICES ASSUME NEW reader, reader = walk'.by, walk'.pc # "idle", reader \notin gone',
                        NEW m \in walk'.shown, Exists(m)', Row(m)'.sender # reader
                 PROVE  Marked(reader, m)'
        <3>1. PICK reader : reader = walk'.by
            OBVIOUS
        <3>2. (walk.pc # "idle" /\ reader \notin gone)' =>
                 \A m \in walk'.shown : Exists(m)' /\ Row(m)'.sender # reader => Marked(reader, m)'
            BY <3>1
        <3> QED  BY <3>1, <3>2
    <2>1. ASSUME NEW k \in Ids, NEW u \in Users, u \notin gone', Exists(k)',
                 Row(k)'.sender # u, Row(k).sender # u => Marked(u, k)
          PROVE  Marked(u, k)'
        <3>1. Row(k).sender # u
            BY <1>2, <2>1, MessagesStay DEF Stays
        <3> QED  BY <1>2, <2>1, <3>1, MarkedStays
    <2>2. walk.pc # "idle" => walk.by \in Users /\ walk.shown \in SUBSET Ids
        <3>1. walk.pc \in {"idle", "more", "end", "back"}
            BY <1>2 DEF ChatTypeOK, Idle, WalkState
        <3> QED  BY <1>2, <3>1, WalkFields, BackFields
    <2>3. gone \subseteq gone' /\ \A k \in Ids : Exists(k)' => Exists(k)
        <3>1. gone \subseteq gone'
            BY <1>2 DEF ChatNext, Creation, Change, FindChat, CreateChat, RequestFails, CheckChange,
                UpdateMessage, DeleteMessage, Send, SendMessage, Paging, FirstPage, NextPage,
                PreviousPage, Shows, Say, SayRead, Mark, FindMessages, InsertMarks, MarkFails,
                Digest, FindMembers, CountUnread, SendDigest, DigestFails, DeleteUser, chatVars,
                chatTables
        <3> QED  BY <1>2, <3>1, MessagesStay DEF Stays
    <2>4. ASSUME walk'.by = walk.by, walk.pc # "idle", m \in walk.shown
          PROVE  Marked(reader, m)'
        <3>1. PICK u \in Users : u = walk.by
            BY <2>2, <2>4
        <3>2. m \in Ids /\ u \notin gone /\ Exists(m)
            BY <2>2, <2>3, <2>4, <3>1
        <3>3. Row(m).sender # u => Marked(u, m)
            BY <1>2, <2>4, <3>1, <3>2
        <3>4. Marked(u, m)'
            BY <2>1, <2>4, <3>1, <3>2, <3>3
        <3> QED  BY <2>4, <3>1, <3>4
    <2>5. ASSUME NEW u \in Users, NEW page, NEW state, Shows(u, page, state),
                 state.by = u, m \in page.data
          PROVE  Marked(reader, m)'
        <3>1. walk' = state /\ [pc |-> "find", by |-> u, ids |-> page.data] \in marks'
            BY <2>5 DEF Shows
        <3>2. Marked(u, m)'
            BY <2>5, <3>1 DEF Marked
        <3> QED  BY <2>5, <3>1, <3>2
    <2>6. CASE UNCHANGED walk
        BY <2>4, <2>6
    <2>7. ASSUME NEW u \in Users, NEW c \in Chats, NEW order \in Orders, FirstPage(u, c, order)
          PROVE  Marked(reader, m)'
        <3>1. PICK page, state : /\ Shows(u, page, state)
                                 /\ state.by = u /\ state.shown = page.data
            BY <2>7 DEF FirstPage
        <3> QED  BY <2>5, <3>1 DEF Shows
    <2>8. CASE NextPage
        <3>1. walk.pc = "more"
            BY <2>8 DEF NextPage
        <3>2. PICK page, state : /\ Shows(walk.by, page, state)
                                 /\ state.by = walk.by /\ state.shown = walk.shown \cup page.data
            BY <2>8 DEF NextPage
        <3>3. walk'.by = walk.by /\ (m \in walk.shown \/ m \in page.data)
            BY <3>2 DEF Shows
        <3> QED  BY <2>2, <2>4, <2>5, <3>1, <3>2, <3>3
    <2>9. CASE PreviousPage
        <3>1. walk.pc \in {"more", "end"}
            BY <2>9 DEF PreviousPage
        <3>2. PICK page, state : /\ Shows(walk.by, page, state)
                                 /\ state.by = walk.by /\ state.shown = page.data
            BY <2>9 DEF PreviousPage
        <3> QED  BY <2>2, <2>5, <3>1, <3>2 DEF Shows
    <2>10. ~Paging => UNCHANGED walk
        BY <1>2 DEF ChatNext, Creation, Change, FindChat, CreateChat, RequestFails, CheckChange,
                    UpdateMessage, DeleteMessage, Send, SendMessage, Say, SayRead, Mark,
                    FindMessages, InsertMarks, MarkFails, Digest, FindMembers, CountUnread,
                    SendDigest, DigestFails, DeleteUser, chatVars
    <2> QED  BY <2>6, <2>7, <2>8, <2>9, <2>10 DEF Paging
<1>3. Inv => ShownIsMarked
    BY DEF ShownIsMarked, Marked
<1> HIDE DEF Inv
<1> QED  BY <1>1, <1>2, <1>3, ChatTypeCorrect, PTL DEF ChatSpec

-----------------------------------------------------------------------------
(* The unread digest                                                       *)

(* The query of the digest counts for a member what the chat list counts.  *)
LEMMA CountsAgree ==
    ASSUME ChatTypeOK, NEW c \in Chats, NEW u \in Members(c)
    PROVE  /\ <<c, u>> \in DOMAIN UnreadCounts
           /\ UnreadCounts[<<c, u>>] = UnreadCount(c, u)
<1>1. u \in Users
    BY UserTypes
<1>2. <<c, u>> \in {q \in Chats \X Users : q[2] \in Members(q[1])}
    BY <1>1
<1>3. {m \in Ids : Kept(m) /\ Row(m).chat = c /\ Row(m).sender # u /\ ~(u \in Row(m).readBy)}
        = {m \in Ids : Row(m).chat = c /\ IsUnread(m, u)}
    BY DEF IsUnread
<1>4. UnreadCounts[<<c, u>>] =
        Cardinality({m \in Ids : Kept(m) /\ Row(m).chat = c /\ Row(m).sender # u
                                 /\ ~(u \in Row(m).readBy)})
    BY <1>2 DEF UnreadCounts
<1>5. <<c, u>> \in DOMAIN UnreadCounts
    BY <1>2 DEF UnreadCounts
<1> QED  BY <1>3, <1>4, <1>5 DEF UnreadCount

(* The pairs found are of members, but for those deleted since; and who    *)
(* has still not read the message of his pair is to be mailed.             *)
DigestInv ==
    /\ digest.pc \in {"count", "send"} =>
          \A p \in digest.pairs :
              /\ p[1] \in Ids /\ Row(p[1]).chat \in Chats
              /\ p[2] \in Users
              /\ p[2] \in Members(Row(p[1]).chat) \cup gone
    /\ digest.pc = "send" =>
          \A p \in digest.pairs :
              IsUnread(p[1], p[2]) /\ p[2] \notin gone => p[2] \in digest.users

LEMMA DigestPairs ==
    ASSUME ChatTypeOK, digest.pc \in {"count", "send"}
    PROVE  digest.pairs \in SUBSET (Ids \X Users)
BY DEF ChatTypeOK, Idle

(* A member leaves a chat only when he is deleted.                         *)
LEMMA MembersStay ==
    ASSUME ChatTypeOK, [ChatNext]_chatVars
    PROVE  /\ gone \subseteq gone'
           /\ \A c \in Chats : Members(c) \subseteq Members(c)' \cup gone'
<1>1. gone \subseteq gone'
    BY DEF ChatNext, Creation, Change, FindChat, CreateChat, RequestFails, CheckChange,
           UpdateMessage, DeleteMessage, Send, SendMessage, Paging, FirstPage, NextPage,
           PreviousPage, Shows, Say, SayRead, Mark, FindMessages, InsertMarks, MarkFails, Digest,
           FindMembers, CountUnread, SendDigest, DigestFails, DeleteUser, chatVars, chatTables
<1>2. \A c \in Chats : owner[c] # Null => owner'[c] = owner[c]
    <2>1. owner \in [Chats -> Clients \cup {Null}]
        BY DEF ChatTypeOK
    <2>2. ASSUME NEW r \in Requests, CreateChat(r)
          PROVE  \A c \in Chats : owner[c] # Null => owner'[c] = owner[c]
        BY <2>1, <2>2 DEF CreateChat
    <2>3. ~(\E r \in Requests : CreateChat(r)) => UNCHANGED owner
        BY DEF ChatNext, Creation, Change, FindChat, RequestFails, CheckChange,
               UpdateMessage, DeleteMessage, Send, SendMessage, Paging, FirstPage, NextPage,
               PreviousPage, Shows, Say, SayRead, Mark, FindMessages, InsertMarks, MarkFails,
               Digest, FindMembers, CountUnread, SendDigest, DigestFails, DeleteUser, chatVars,
               chatTables
    <2> QED  BY <2>2, <2>3
<1> QED  BY <1>1, <1>2 DEF Members

(* The digest counts what the chat list counts, and forgets no member who  *)
(* has not read the newest message of a chat.                              *)
THEOREM DigestReachesAll == ChatSpec => []DigestReaches
<1>1. ChatInit => DigestInv
    BY DEF ChatInit, DigestInv, Idle
<1>2. ASSUME ChatTypeOK, DigestInv, [ChatNext]_chatVars
      PROVE  DigestInv'
    <2>1. /\ \A m \in Ids : m \in Ids' /\ Row(m)'.chat = Row(m).chat
          /\ \A m \in Ids : Row(m).chat \in Chats
          /\ \A m \in Ids : \A u \in Users : IsUnread(m, u)' => IsUnread(m, u)
        BY <1>2, MessagesStay, MessageFields DEF Stays, IsUnread, MessageRow
    <2>2. /\ gone \subseteq gone'
          /\ \A c \in Chats : Members(c) \subseteq Members(c)' \cup gone'
        BY <1>2, MembersStay
    <2>3. ASSUME NEW pairs \in SUBSET (Ids \X Users), NEW users,
                 \A p \in pairs : p[2] \in Members(Row(p[1]).chat) \cup gone,
                 digest'.pc \in {"count", "send"} => digest'.pairs = pairs,
                 digest'.pc = "send" => digest'.users = users,
                 digest'.pc = "send" =>
                    \A p \in pairs : IsUnread(p[1], p[2]) /\ p[2] \notin gone => p[2] \in users
          PROVE  DigestInv'
        <3> SUFFICES ASSUME NEW p \in pairs, digest'.pc \in {"count", "send"}
                     PROVE  /\ p[1] \in Ids' /\ p[2] \in Users
                            /\ \E c \in Chats : /\ Row(p[1])'.chat = c
                                                /\ p[2] \in Members(c)' \cup gone'
                            /\ digest'.pc = "send" => (IsUnread(p[1], p[2])' /\ p[2] \notin gone'
                                                       => p[2] \in users)
            BY <2>3 DEF DigestInv
        <3>1. PICK m \in Ids, u \in Users : p[1] = m /\ p[2] = u
            OBVIOUS
        <3>2. PICK c \in Chats : Row(m).chat = c /\ Row(m)'.chat = c
            BY <2>1
        <3>3. u \in Members(c)' \cup gone'
            BY <2>2, <2>3, <3>1, <3>2
        <3>4. digest'.pc = "send" => (IsUnread(m, u)' /\ u \notin gone' => u \in users)
            BY <2>1, <2>2, <2>3, <3>1
        <3> QED  BY <2>1, <3>1, <3>2, <3>3, <3>4
    <2>4. CASE UNCHANGED digest
        <3>1. CASE digest.pc \in {"count", "send"}
            BY <1>2, <2>3, <2>4, <3>1, DigestPairs DEF DigestInv
        <3> QED  BY <2>4, <3>1 DEF DigestInv
    <2>5. CASE FindMembers
        <3>1. PICK pairs \in SUBSET (Ids \X Users) :
                  /\ \A p \in pairs : p[2] \in Members(Row(p[1]).chat)
                  /\ digest' = [pc |-> "count", pairs |-> pairs]
            BY <2>5 DEF FindMembers
        <3> QED  BY <2>3, <3>1
    <2>6. CASE CountUnread
        <3>1. PICK pairs \in SUBSET (Ids \X Users) : pairs = digest.pairs
            BY <1>2, <2>6, DigestPairs DEF CountUnread
        <3>2. PICK users : users = UnreadOver(0)
            OBVIOUS
        <3>3. digest' = [pc |-> "send", pairs |-> pairs, users |-> users]
            BY <2>6, <3>1, <3>2 DEF CountUnread
        <3>4. \A p \in pairs : p[2] \in Members(Row(p[1]).chat) \cup gone
            BY <1>2, <2>6, <3>1 DEF DigestInv, CountUnread
        <3>5. ASSUME NEW p \in pairs, IsUnread(p[1], p[2]), p[2] \notin gone
              PROVE  p[2] \in users
            <4>1. PICK m \in Ids, u \in Users : p[1] = m /\ p[2] = u
                OBVIOUS
            <4>2. PICK c \in Chats : Row(m).chat = c /\ u \in Members(c)
                BY <2>1, <3>4, <3>5, <4>1
            <4>3. /\ <<c, u>> \in DOMAIN UnreadCounts
                  /\ UnreadCounts[<<c, u>>] = UnreadCount(c, u)
                BY <1>2, <4>2, CountsAgree
            <4>4. UnreadCount(c, u) > 0
                <5> DEFINE unread == {k \in Ids : Row(k).chat = c /\ IsUnread(k, u)}
                <5>1. m \in unread
                    BY <3>5, <4>1, <4>2
                <5>2. IsFiniteSet(unread)
                    <6>1. IsFiniteSet(Ids)
                        BY <1>2, MessageFields, FS_Interval
                    <6>2. unread \in SUBSET Ids
                        OBVIOUS
                    <6> QED  BY <6>1, <6>2, FS_Subset, Zenon
                <5>3. Cardinality(unread) \in Nat /\ Cardinality(unread) # 0
                    BY <5>1, <5>2, FS_CardinalityType, FS_EmptySet, Zenon
                <5>4. UnreadCount(c, u) = Cardinality(unread)
                    BY DEF UnreadCount
                <5> HIDE DEF unread
                <5> QED  BY <5>3, <5>4
            <4> QED  BY <3>1, <3>2, <4>1, <4>2, <4>3, <4>4 DEF UnreadOver
        <3> QED  BY <2>3, <3>3, <3>4, <3>5
    <2>7. CASE SendDigest \/ DigestFails
        <3>1. digest' = Idle \/ (digest'.pc = "send" /\ digest'.pairs = {})
            BY <2>7 DEF SendDigest, DigestFails
        <3> QED  BY <3>1 DEF DigestInv, Idle
    <2>8. ~Digest => UNCHANGED digest
        BY <1>2 DEF ChatNext, Creation, Change, FindChat, CreateChat, RequestFails, CheckChange,
                    UpdateMessage, DeleteMessage, Send, SendMessage, Paging, FirstPage, NextPage,
                    PreviousPage, Shows, Say, SayRead, Mark, FindMessages, InsertMarks, MarkFails,
                    DeleteUser, chatVars
    <2> QED  BY <2>4, <2>5, <2>6, <2>7, <2>8 DEF Digest
<1>3. ChatTypeOK /\ DigestInv => DigestReaches
    BY CountsAgree DEF DigestInv, DigestReaches
<1> QED  BY <1>1, <1>2, <1>3, ChatTypeCorrect, PTL DEF ChatSpec

=============================================================================
