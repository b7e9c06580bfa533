------------------------------ MODULE Catalog -------------------------------
(***************************************************************************)
(* The catalogue: a client reads it page by page (httpapi/catalog.go), each*)
(* page is one query with the cursor of the page before (catalog/          *)
(* repository.go), and products come and go between two pages.  SKUs are   *)
(* numbers in the order the database compares them; 0 is the empty string. *)
(***************************************************************************)
EXTENDS Naturals, FiniteSets

CONSTANTS
    Products,       \* SKUs of the rows of products
    DefaultLimit,   \* the page size when the client names none: 50
    MaxLimit        \* the largest page: 100

ASSUME CatalogAssumption ==
    /\ Products \subseteq Nat \ {0} /\ IsFiniteSet(Products)
    /\ MaxLimit \in Nat \ {0} /\ DefaultLimit \in 1..MaxLimit

VARIABLES
    active,     \* the products with active = TRUE
    reading,    \* whether the client is between its first and last page
    cursor,     \* next_cursor of the last page, sent back as "after"
    shown,      \* history: the products on the pages so far
    misplaced,  \* history: those shown twice or after a greater one
    steady      \* history: the products active ever since the first page

cvars == <<active, reading, cursor, shown, misplaced, steady>>

CTypeOK ==
    /\ active \subseteq Products /\ shown \subseteq Products
    /\ misplaced \subseteq Products /\ steady \subseteq active
    /\ reading \in BOOLEAN
    /\ cursor \in shown \cup {0}

CInit ==
    /\ active \in SUBSET Products
    /\ reading = FALSE /\ cursor = 0
    /\ shown = {} /\ misplaced = {} /\ steady = {}

-----------------------------------------------------------------------------
(* List: the limit is put into its bounds, rows come in the order of SKU,  *)
(* one more than asked for shows whether there is a next page.             *)

Bounded(limit) ==
    CASE limit <= 0 -> DefaultLimit
      [] limit > MaxLimit -> MaxLimit
      [] OTHER -> limit

(* Faulty: the place to go on from is lost with the product that marks it. *)
AfterActive(after) ==
    IF after \in active THEN {p \in active : p > after} ELSE active

After(after) == {p \in active : p > after}

FirstOf(S, n) == {p \in S : Cardinality({q \in S : q <= p}) <= n}
IsLast(p, S) == p \in S /\ \A q \in S : q <= p

(* Faulty: no row is read beyond the page.                                 *)
RowsExactly(limit, after) == FirstOf(After(after), limit)

Rows(limit, after) == FirstOf(After(after), limit + 1)

(* Faulty: the cursor is the row that is not shown any more.               *)
EndsBeyond(p, items) == \A q \in items : p > q

Ends(p, items) == p \in items /\ \A q \in items : p >= q

List(limit, after) ==
    LET rows == Rows(limit, after)
        items == FirstOf(rows, limit)
    IN /\ shown' = shown \cup items
       /\ misplaced' = misplaced \cup
                         {p \in items : \E q \in shown : q >= p}
       /\ \/ /\ Cardinality(rows) > limit
             /\ \E p \in rows : Ends(p, items) /\ cursor' = p
             /\ UNCHANGED reading
          \/ /\ Cardinality(rows) <= limit
             /\ cursor' = 0 /\ reading' = FALSE

(* The handler: a limit out of range is refused with 400, which leaves the *)
(* client where it was, and so do a failed query and a lost answer.  The   *)
(* client may name another limit for each page, or none.                   *)
Accepted(limit) == limit >= 1 /\ limit <= MaxLimit

NextPage ==
    /\ reading
    /\ \E limit \in 0..MaxLimit + 1 :
          Accepted(limit) /\ List(Bounded(limit), cursor)
    /\ UNCHANGED <<active, steady>>

(* A client begins, without a cursor.                                      *)
StartReading ==
    /\ ~reading
    /\ reading' = TRUE /\ cursor' = 0
    /\ shown' = {} /\ misplaced' = {} /\ steady' = active
    /\ UNCHANGED active

Introduce(p) ==
    /\ active' = active \cup {p}
    /\ UNCHANGED <<reading, cursor, shown, misplaced, steady>>

Withdraw(p) ==
    /\ active' = active \ {p} /\ steady' = steady \ {p}
    /\ UNCHANGED <<reading, cursor, shown, misplaced>>

CNext ==
    \/ NextPage \/ StartReading
    \/ \E p \in Products : Introduce(p) \/ Withdraw(p)

CSpec == CInit /\ [][CNext]_cvars

(* A client goes on as long as there is a cursor.                          *)
FairCSpec == CSpec /\ WF_cvars(NextPage)
-----------------------------------------------------------------------------
(* However products come and go between two pages, and whatever limits the *)
(* client asks for, the pages together are in order and without repetition.*)
NothingTwice == misplaced = {}

(* A product that was in the catalogue from the first page to the last is  *)
(* on one of them.  Before the last it is shown if the cursor passed it.   *)
NothingSkipped ==
    \A p \in steady : (reading => p <= cursor) => p \in shown

(* A client gets to the last page even though new products keep coming.    *)
ReadingEnds == reading ~> ~reading
=============================================================================
