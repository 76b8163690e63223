----------------------------- MODULE Pagination -----------------------------
(***************************************************************************)
(* The pages of a query: what cursorPaginateWithPrisma makes of the rows a *)
(* query finds, given as a set of numbers and the order of its orderBy,    *)
(* "asc" or "desc".                                                        *)
(***************************************************************************)
EXTENDS Integers, FiniteSets

(* No cursor; rows are numbered from 1.                                    *)
NoCursor == 0

Before(order, q, r) == IF order = "asc" THEN q < r ELSE r < q
Flip(order) == IF order = "asc" THEN "desc" ELSE "asc"

(* The first n rows (take), the last and the first one.                    *)
Foremost(rows, order, n) ==
    {r \in rows : Cardinality({q \in rows : Before(order, q, r)}) < n}
Final(rows, order) == CHOOSE r \in rows : \A q \in rows : q = r \/ Before(order, q, r)
First(rows, order) == Final(rows, Flip(order))

(* The rows after the cursor, itself left out (skip: 1); none when its row *)
(* is not there any more.                                                  *)
FromCursor(rows, order, cursor) ==
    IF cursor = NoCursor THEN rows
    ELSE {r \in rows : cursor \in rows /\ Before(order, cursor, r)}

(* The page after a cursor, before one, or the first (no cursor).          *)
(* "Before" turns the order round only when orderBy sorts by the cursor    *)
(* field itself, and always turns the results round; one more row than the *)
(* limit is read, to see if there is a next page, and dropped.             *)
CursorPage(rows, order, sortedByCursor, limit, asked, cursor) ==
    LET orderBy == IF asked = "before" /\ sortedByCursor THEN Flip(order) ELSE order
        shownIn == IF asked = "before" THEN Flip(orderBy) ELSE orderBy
        results == Foremost(FromCursor(rows, orderBy, cursor), orderBy, limit + 1)
        hasNext == Cardinality(results) > limit
        data == IF hasNext THEN results \ {Final(results, shownIn)} ELSE results
    IN  [data |-> data,
         hasNext |-> hasNext,
         next |-> IF hasNext THEN Final(data, shownIn) ELSE NoCursor,
         previous |-> IF cursor # NoCursor /\ data # {} THEN First(data, shownIn) ELSE NoCursor]
=============================================================================
