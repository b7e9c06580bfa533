--------------------------- MODULE CatalogProofs ----------------------------
(***************************************************************************)
(* Reading the catalogue page by page shows every product that stays, and  *)
(* none twice, for any products, limits and changes between the pages.     *)
(***************************************************************************)
EXTENDS Catalog, FiniteSetTheorems, WellFoundedInduction, TLAPS

(* What is on the pages so far lies at or before the cursor; this is why   *)
(* what comes after the cursor has not been shown.                         *)
CInv == /\ CTypeOK
        /\ NothingTwice
        /\ NothingSkipped
        /\ reading => \A p \in shown : p <= cursor

UpTo(S, p) == {q \in S : q <= p}

LEMMA ProductsFinite ==
    ASSUME NEW S \in SUBSET Products
    PROVE  IsFiniteSet(S) /\ Cardinality(S) \in Nat
  BY CatalogAssumption, FS_Subset, FS_CardinalityType

LEMMA UpToGrows ==
    ASSUME NEW S \in SUBSET Nat, NEW p \in S, NEW q \in S, q <= p
    PROVE  /\ p \in UpTo(S, p)
           /\ UpTo(S, q) \subseteq UpTo(S, p)
           /\ q # p => p \notin UpTo(S, q)
  <1>1. ASSUME NEW x \in UpTo(S, q) PROVE x \in UpTo(S, p)
    <2>1. x \in S /\ x <= q
      BY <1>1 DEF UpTo
    <2>2. x \in Nat /\ p \in Nat /\ q \in Nat
      BY <2>1
    <2>3. x <= p
      BY <2>1, <2>2
    <2>. QED  BY <2>1, <2>3 DEF UpTo
  <1>2. p \in Nat /\ q \in Nat
    OBVIOUS
  <1>3. p \in UpTo(S, p)
    BY <1>2 DEF UpTo
  <1>4. q # p => p \notin UpTo(S, q)
    BY <1>2 DEF UpTo
  <1>. QED  BY <1>1, <1>3, <1>4

(* Of a set of sets of numbers up to p there is a smallest.                *)
LEMMA LeastProduct ==
    ASSUME NEW S \in SUBSET Products, S # {}
    PROVE  \E p \in S : \A q \in S : p <= q
  <1>. DEFINE T == {UpTo(S, p) : p \in S}
              R == StrictSubsetOrdering(Products)
  <1>1. IsWellFoundedOn(R, SUBSET Products)
    BY FS_StrictSubsetOrderingWellFounded, FS_FiniteSubsetsOfFinite,
       CatalogAssumption
  <1>2. T \subseteq SUBSET Products /\ T # {}
    BY DEF UpTo
  <1>3. \E u \in T : \A v \in T : ~ (<<v, u>> \in R)
    <2>. HIDE DEF T, R
    <2>. QED  BY <1>1, <1>2, WFMin
  <1>4. PICK p \in S : \A q \in S : ~ (<<UpTo(S, q), UpTo(S, p)>> \in R)
    BY <1>3
  <1>5. S \subseteq Nat
    BY CatalogAssumption
  <1>6. ASSUME NEW q \in S, ~ (p <= q) PROVE FALSE
    <2>1. /\ p \in UpTo(S, p) /\ p \notin UpTo(S, q)
          /\ UpTo(S, q) \subseteq UpTo(S, p)
      BY <1>5, <1>6, UpToGrows
    <2>2. UpTo(S, q) \in SUBSET Products /\ UpTo(S, p) \in SUBSET Products
      BY DEF UpTo
    <2>3. <<UpTo(S, q), UpTo(S, p)>> \in R
      BY <2>1, <2>2 DEF StrictSubsetOrdering
    <2>. QED  BY <1>4, <2>3
  <1>. QED  BY <1>6

(* With a product, the first products of a set hold all smaller ones.      *)
LEMMA FirstOfIsClosed ==
    ASSUME NEW S \in SUBSET Products, NEW n \in Nat,
           NEW p \in FirstOf(S, n), NEW q \in S, q <= p
    PROVE  q \in FirstOf(S, n)
  <1>1. /\ UpTo(S, q) \subseteq UpTo(S, p)
        /\ UpTo(S, p) \subseteq Products /\ UpTo(S, q) \subseteq Products
    <2>1. p \in S /\ S \in SUBSET Nat
      BY CatalogAssumption DEF FirstOf
    <2>2. UpTo(S, q) \subseteq UpTo(S, p)
      BY <2>1, UpToGrows
    <2>. QED  BY <2>2 DEF UpTo
  <1>2. Cardinality(UpTo(S, p)) <= n
    BY DEF FirstOf, UpTo
  <1>3. Cardinality(UpTo(S, q)) <= Cardinality(UpTo(S, p))
    BY <1>1, FS_Subset, ProductsFinite
  <1>4. Cardinality(UpTo(S, q)) <= n
    BY <1>1, <1>2, <1>3, ProductsFinite
  <1>. QED  BY <1>4 DEF FirstOf, UpTo

(* The first n + 1 products of a set are all there are if they are no more *)
(* than n: the row beyond the page is how List knows that there are more.  *)
LEMMA FewRowsAreAll ==
    ASSUME NEW S \in SUBSET Products, NEW n \in Nat,
           Cardinality(FirstOf(S, n + 1)) <= n
    PROVE  S \subseteq FirstOf(S, n + 1)
  <1>. DEFINE F == FirstOf(S, n + 1)
  <1>1. F \in SUBSET Products
    BY DEF FirstOf
  <1>2. SUFFICES ASSUME S \ F # {} PROVE FALSE
    OBVIOUS
  <1>3. PICK p \in S \ F : \A q \in S \ F : p <= q
    BY <1>2, LeastProduct
  <1>4. UpTo(S, p) \in SUBSET (F \cup {p})
    <2>1. ASSUME NEW q \in S \ F, q <= p PROVE q = p
      BY <1>3, <2>1, CatalogAssumption
    <2>. QED  BY <2>1 DEF UpTo
  <1>5. /\ IsFiniteSet(F \cup {p})
        /\ Cardinality(F \cup {p}) = Cardinality(F) + 1
    BY <1>1, <1>3, FS_AddElement, ProductsFinite
  <1>6. Cardinality(UpTo(S, p)) <= n + 1
    <2>1. UpTo(S, p) \in SUBSET Products
      BY DEF UpTo
    <2>2. Cardinality(UpTo(S, p)) <= Cardinality(F \cup {p})
      BY <1>4, <1>5, FS_Subset
    <2>. QED  BY <1>1, <1>5, <2>1, <2>2, ProductsFinite
  <1>. QED  BY <1>3, <1>6 DEF FirstOf, UpTo

LEMMA LimitIsPositive ==
    ASSUME NEW limit \in 0..MaxLimit + 1, Accepted(limit)
    PROVE  Bounded(limit) \in Nat \ {0}
  BY CatalogAssumption DEF Accepted, Bounded

-----------------------------------------------------------------------------

LEMMA CInitInv == CInit => CInv
  BY DEF CInit, CInv, CTypeOK, NothingTwice, NothingSkipped

LEMMA PageKeeps ==
    ASSUME CInv, reading, NEW limit \in Nat \ {0}, List(limit, cursor),
           UNCHANGED <<active, steady>>
    PROVE  CInv'
  <1>. DEFINE rest == After(cursor)
              rows == Rows(limit, cursor)
              items == FirstOf(rows, limit)
  <1>1. /\ rest \in SUBSET Products /\ rows \in SUBSET rest
        /\ items \in SUBSET rows
        /\ rows = FirstOf(rest, limit + 1)
    BY DEF CInv, CTypeOK, After, Rows, FirstOf
  <1>2. /\ shown' = shown \cup items
        /\ misplaced' = misplaced \cup {p \in items : \E q \in shown : q >= p}
        /\ \/ /\ \E p \in rows : Ends(p, items) /\ cursor' = p
              /\ reading'
           \/ /\ Cardinality(rows) <= limit
              /\ cursor' = 0 /\ ~reading'
    BY DEF List
  <1>3. cursor \in Nat /\ Products \subseteq Nat
    BY CatalogAssumption DEF CInv, CTypeOK
  <1>4. \A p \in items : p > cursor
    BY <1>1 DEF After
  <1>. HIDE DEF rest, rows, items
  <1>5. misplaced' = {}
    <2>1. ASSUME NEW p \in items, NEW q \in shown PROVE ~ (q >= p)
      <3>1. p \in Nat /\ q \in Nat /\ q <= cursor /\ p > cursor
        BY <1>1, <1>3, <1>4 DEF CInv, CTypeOK, rest, After
      <3>. QED  BY <1>3, <3>1
    <2>. QED  BY <1>2, <2>1 DEF CInv, NothingTwice
  <1>6. CTypeOK'
    <2>1. reading' \in BOOLEAN
      BY DEF CInv, CTypeOK, List
    <2>2. cursor' \in shown' \cup {0}
      BY <1>2 DEF Ends
    <2>3. shown' \subseteq Products
      BY <1>1, <1>2 DEF CInv, CTypeOK
    <2>. QED  BY <1>5, <2>1, <2>2, <2>3 DEF CInv, CTypeOK
  <1>7. \A p \in shown' : reading' => p <= cursor'
    BY <1>1, <1>2, <1>3, <1>4 DEF CInv, CTypeOK, Ends
  <1>8. ASSUME NEW p \in steady, reading' => p <= cursor', p \notin shown
        PROVE  p \in items
    <2>1. p \in rest /\ p \in Products
      BY <1>3, <1>8 DEF CInv, CTypeOK, NothingSkipped, rest, After
    <2>2. CASE reading'
      <3>1. PICK e \in rows : Ends(e, items) /\ cursor' = e
        BY <1>2, <2>2
      <3>2. e \in items /\ p <= e
        BY <1>8, <2>2, <3>1 DEF Ends
      <3>3. p \in rows
        BY <1>1, <2>1, <3>2, FirstOfIsClosed
      <3>. QED  BY <1>1, <3>2, <3>3, FirstOfIsClosed DEF items
    <2>3. CASE ~reading'
      <3>1. p \in rows
        BY <1>1, <1>2, <2>1, <2>3, FewRowsAreAll
      <3>2. UpTo(rows, p) \in SUBSET rows
        BY DEF UpTo
      <3>3. Cardinality(UpTo(rows, p)) <= Cardinality(rows)
        BY <1>1, <3>2, FS_Subset, ProductsFinite
      <3>4. Cardinality(UpTo(rows, p)) <= limit
        BY <1>1, <1>2, <2>3, <3>2, <3>3, ProductsFinite
      <3>. QED  BY <3>1, <3>4 DEF items, FirstOf, UpTo
    <2>. QED  BY <2>2, <2>3
  <1>9. NothingSkipped'
    BY <1>2, <1>8 DEF NothingSkipped
  <1>. QED  BY <1>5, <1>6, <1>7, <1>9 DEF CInv, NothingTwice

LEMMA CNextInv == CInv /\ [CNext]_cvars => CInv'
  <1>. SUFFICES ASSUME CInv, [CNext]_cvars PROVE CInv'
    OBVIOUS
  <1>. USE DEF CInv
  <1>1. CASE NextPage
    BY <1>1, PageKeeps, LimitIsPositive DEF NextPage
  <1>2. CASE StartReading
    BY <1>2, CatalogAssumption
       DEF StartReading, CTypeOK, NothingTwice, NothingSkipped
  <1>3. ASSUME NEW p \in Products, Introduce(p) PROVE CInv'
    BY <1>3 DEF Introduce, CTypeOK, NothingTwice, NothingSkipped
  <1>4. ASSUME NEW p \in Products, Withdraw(p) PROVE CInv'
    BY <1>4 DEF Withdraw, CTypeOK, NothingTwice, NothingSkipped
  <1>5. CASE UNCHANGED cvars
    BY <1>5 DEF cvars, CTypeOK, NothingTwice, NothingSkipped
  <1>. QED  BY <1>1, <1>2, <1>3, <1>4, <1>5 DEF CNext

LEMMA CatalogInvariant == CSpec => []CInv
  <1>. QED  BY CInitInv, CNextInv, PTL DEF CSpec

(* Pagination (List with the cursor of the page before) shows nothing      *)
(* twice and nothing out of order.                                         *)
THEOREM CatalogShowsNothingTwice == CSpec => []NothingTwice
  <1>. QED  BY CatalogInvariant, PTL DEF CInv

(* A product that is active from the first page to the last is on a page.  *)
THEOREM CatalogSkipsNothing == CSpec => []NothingSkipped
  <1>. QED  BY CatalogInvariant, PTL DEF CInv

(* Types: in particular a cursor is a product the client has seen.         *)
THEOREM CatalogTypes == CSpec => []CTypeOK
  <1>. QED  BY CatalogInvariant, PTL DEF CInv
=============================================================================
