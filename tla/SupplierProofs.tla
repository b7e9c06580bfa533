--------------------------- MODULE SupplierProofs ---------------------------
(***************************************************************************)
(* Why the two tables of a supplier agree and every order gets one code:   *)
(* the advisory lock keeps a second request of the order out from the look *)
(* for an earlier answer to the commit, and the row lock keeps the key.    *)
(* And why keys that are locked and passed over do not make stock run out. *)
(***************************************************************************)
EXTENDS Supplier, FiniteSetTheorems, TLAPS

Pcs == {"idle", "connect", "lock", "find", "scan", "write"}
Row == [pc : Pcs, order : Orders \cup {None}, at : 0..KeyCount + 1]

(* What a request that has come so far may rely on: nobody else answers    *)
(* its order, which has no code yet once it scans, and the key it is about *)
(* to write is nobody's.                                                   *)
Exclusive(r) ==
    /\ req[r].pc # "idle" => req[r].order \in Orders
    /\ req[r].pc \in {"find", "scan", "write"} => advisory[req[r].order] = r
    /\ req[r].pc \in {"scan", "write"} => issued[req[r].order] = None
    /\ req[r].pc = "scan" => req[r].at # 0
    /\ req[r].pc = "write" =>
          /\ req[r].at \in Keys
          /\ owner[req[r].at] = None
          /\ \A q \in Requests \ {r} :
                req[q].pc = "write" => req[q].at # req[r].at

RequestsInv == \A r \in Requests : Exclusive(r)

SInv == STypeOK /\ TablesAgree /\ RequestsInv

-----------------------------------------------------------------------------

LEMMA SupplierInit == SInit => SInv
<1>1. SUFFICES ASSUME SInit PROVE SInv
  OBVIOUS
<1>2. STypeOK
  BY <1>1, SupplierAssumption DEF SInit, STypeOK, Gone
<1>3. TablesAgree
  BY <1>1, SupplierAssumption DEF SInit, TablesAgree
<1>4. RequestsInv
  BY <1>1 DEF SInit, RequestsInv, Exclusive, Gone
<1>5. QED BY <1>2, <1>3, <1>4 DEF SInv

(* A step that changes one request alone.                                  *)
LEMMA OneRequest ==
    ASSUME SInv, NEW r \in Requests, NEW row \in Row, Set(r, row)
    PROVE  /\ req' \in [Requests -> Row] /\ req'[r] = row
           /\ \A q \in Requests \ {r} : req'[q] = req[q]
  BY DEF SInv, STypeOK, Set, Row, Pcs

(* The end of a request, whether or not it has issued a key to its order.  *)
LEMMA RequestEnds ==
    ASSUME SInv, NEW r \in Requests, End(r), UNCHANGED asked,
           \/ UNCHANGED <<owner, issued>>
           \/ /\ req[r].pc = "write"
              /\ issued' = [issued EXCEPT ![req[r].order] = req[r].at]
              /\ owner' = [owner EXCEPT ![req[r].at] = req[r].order]
    PROVE  SInv'
<1> DEFINE o == req[r].order
           k == req[r].at
<1>1. Gone \in Row
  BY SupplierAssumption DEF Gone, Row, Pcs
<1>2. /\ req' \in [Requests -> Row] /\ req'[r] = Gone
      /\ \A q \in Requests \ {r} : req'[q] = req[q]
  BY <1>1, OneRequest DEF End
<1>3. /\ advisory' \in [Orders -> Requests \cup {None}]
      /\ \A p \in Orders : advisory[p] # r => advisory'[p] = advisory[p]
  BY DEF End, SInv, STypeOK
<1>4. CASE UNCHANGED <<owner, issued>>
  <2>1. STypeOK'
    BY <1>2, <1>3, <1>4 DEF SInv, STypeOK, Row, Pcs
  <2>2. ASSUME NEW q \in Requests PROVE Exclusive(q)'
    <3>1. CASE q = r
      BY <1>2, <3>1 DEF Gone, Exclusive
    <3>2. CASE q # r
      <4>1. Exclusive(q) /\ req'[q] = req[q]
        BY <1>2, <3>2 DEF SInv, RequestsInv
      <4>2. \A u \in Requests \ {q} :
               req'[u].pc = "write" => req[u].pc = "write" /\ req'[u] = req[u]
        BY <1>2 DEF Gone
      <4>3. req[q].pc \in {"find", "scan", "write"} =>
               advisory'[req[q].order] = q
        BY <1>3, <3>2, <4>1 DEF Exclusive
      <4>4. QED BY <1>4, <4>1, <4>2, <4>3 DEF Exclusive
    <3>3. QED BY <3>1, <3>2
  <2>3. QED BY <1>4, <2>1, <2>2 DEF SInv, TablesAgree, RequestsInv
<1>5. CASE /\ req[r].pc = "write"
           /\ issued' = [issued EXCEPT ![o] = k]
           /\ owner' = [owner EXCEPT ![k] = o]
  <2>1. /\ o \in Orders /\ k \in Keys /\ owner[k] = None /\ issued[o] = None
        /\ advisory[o] = r
        /\ \A q \in Requests \ {r} : req[q].pc = "write" => req[q].at # k
    BY <1>5 DEF SInv, RequestsInv, Exclusive
  <2>2. /\ issued' \in [Orders -> Keys \cup {None}]
        /\ owner' \in [Keys -> Orders \cup {None}]
        /\ issued'[o] = k /\ \A p \in Orders \ {o} : issued'[p] = issued[p]
        /\ owner'[k] = o /\ \A m \in Keys \ {k} : owner'[m] = owner[m]
    BY <1>5, <2>1 DEF SInv, STypeOK
  <2> HIDE DEF o, k
  <2>3. STypeOK'
    BY <1>2, <1>3, <2>2 DEF SInv, STypeOK, Row, Pcs
  <2>4. ASSUME NEW p \in Orders, NEW m \in Keys
        PROVE  issued'[p] = m <=> owner'[m] = p
    <3>1. issued[p] = m <=> owner[m] = p
      BY DEF SInv, TablesAgree
    <3>2. \A n \in Keys : owner[n] # o
      BY <2>1, SupplierAssumption DEF SInv, TablesAgree
    <3>3. \A q \in Orders : issued[q] # k
      BY <2>1, SupplierAssumption DEF SInv, TablesAgree
    <3>4. QED BY <2>1, <2>2, <3>1, <3>2, <3>3
  <2>5. ASSUME NEW q \in Requests PROVE Exclusive(q)'
    <3>1. CASE q = r
      BY <1>2, <3>1 DEF Gone, Exclusive
    <3>2. CASE q # r
      <4>1. Exclusive(q) /\ req'[q] = req[q]
        BY <1>2, <3>2 DEF SInv, RequestsInv
      <4>2. \A u \in Requests \ {q} :
               req'[u].pc = "write" => req[u].pc = "write" /\ req'[u] = req[u]
        BY <1>2 DEF Gone
      <4>3. req[q].pc \in {"find", "scan", "write"} =>
               req[q].order # o /\ advisory'[req[q].order] = q
        BY <1>3, <2>1, <3>2, <4>1 DEF Exclusive
      <4>4. req[q].pc \in {"scan", "write"} => issued'[req[q].order] = None
        BY <2>2, <4>1, <4>3 DEF Exclusive
      <4>5. req[q].pc = "write" => owner'[req[q].at] = None
        BY <2>1, <2>2, <3>2, <4>1 DEF Exclusive
      <4>6. QED BY <4>1, <4>2, <4>3, <4>4, <4>5 DEF Exclusive
    <3>3. QED BY <3>1, <3>2
  <2>6. QED BY <2>3, <2>4, <2>5 DEF SInv, TablesAgree, RequestsInv
<1>6. QED BY <1>4, <1>5

(* A request goes on: it may take the advisory lock of its order, it does  *)
(* not touch the tables, and what it relies on then holds of it.           *)
LEMMA RequestMoves ==
    ASSUME SInv, NEW r \in Requests, NEW row \in Row, Set(r, row),
           UNCHANGED <<owner, issued>>, asked' \subseteq Orders,
           \/ UNCHANGED advisory
           \/ /\ req[r].order \in Orders /\ advisory[req[r].order] = None
              /\ advisory' = [advisory EXCEPT ![req[r].order] = r],
           row.pc # "idle" => row.order \in Orders,
           row.pc \in {"find", "scan", "write"} => advisory'[row.order] = r,
           row.pc \in {"scan", "write"} => issued[row.order] = None,
           row.pc = "scan" => row.at # 0,
           row.pc = "write" =>
               /\ row.at \in Keys /\ owner[row.at] = None
               /\ \A q \in Requests \ {r} :
                     req[q].pc = "write" => req[q].at # row.at
    PROVE  SInv'
<1>1. /\ req' \in [Requests -> Row] /\ req'[r] = row
      /\ \A q \in Requests \ {r} : req'[q] = req[q]
  BY OneRequest
<1>2. /\ advisory' \in [Orders -> Requests \cup {None}]
      /\ \A p \in Orders : advisory[p] # None => advisory'[p] = advisory[p]
  BY DEF SInv, STypeOK
<1>3. STypeOK'
  BY <1>1, <1>2 DEF SInv, STypeOK, Row, Pcs
<1>4. ASSUME NEW q \in Requests PROVE Exclusive(q)'
  <2>1. CASE q = r
    BY <1>1, <2>1 DEF Exclusive
  <2>2. CASE q # r
    <3>1. Exclusive(q) /\ req'[q] = req[q]
      BY <1>1, <2>2 DEF SInv, RequestsInv
    <3>2. req[q].pc \in {"find", "scan", "write"} =>
             advisory'[req[q].order] = q
      BY <1>2, <3>1, SupplierAssumption DEF Exclusive
    <3>3. req[q].pc = "write" => \A u \in Requests \ {q} :
             req'[u].pc = "write" => req'[u].at # req[q].at
      BY <1>1, <2>2, <3>1 DEF Exclusive
    <3>4. QED BY <3>1, <3>2, <3>3 DEF Exclusive
  <2>3. QED BY <2>1, <2>2
<1>5. QED BY <1>3, <1>4 DEF SInv, TablesAgree, RequestsInv

-----------------------------------------------------------------------------

LEMMA SupplierNext == SInv /\ [SNext]_svars => SInv'
<1>1. SUFFICES ASSUME SInv, [SNext]_svars PROVE SInv'
  OBVIOUS
<1>2. /\ \A r \in Requests : req[r] \in Row /\ Exclusive(r)
      /\ asked \subseteq Orders /\ KeyCount \in Nat
  BY <1>1, SupplierAssumption DEF SInv, STypeOK, RequestsInv, Row, Pcs
<1>3. CASE UNCHANGED svars
  BY <1>1, <1>3 DEF svars, SInv, STypeOK, TablesAgree, RequestsInv, Exclusive
<1>4. ASSUME NEW r \in Requests, NEW o \in Orders, Arrive(r, o) PROVE SInv'
  <2>1. Gone \in Row
    BY <1>2 DEF Gone, Row, Pcs
  <2>2. PICK g \in Row : g = Gone
    BY <2>1
  <2>3. PICK row : row = [g EXCEPT !.pc = "connect", !.order = o]
    OBVIOUS
  <2>4. row \in Row /\ row.pc = "connect" /\ row.order = o
    BY <2>3 DEF Row, Pcs
  <2>5. /\ Set(r, row) /\ UNCHANGED <<owner, issued, advisory>>
        /\ asked' \subseteq Orders
    BY <1>2, <1>4, <2>2, <2>3 DEF Arrive
  <2>6. QED BY <1>1, <2>4, <2>5, RequestMoves
<1>5. ASSUME NEW r \in Requests, Connect(r) PROVE SInv'
  <2>1. PICK row : row = [req[r] EXCEPT !.pc = "lock"]
    OBVIOUS
  <2>2. row \in Row /\ row.pc = "lock" /\ row.order = req[r].order
    BY <1>2, <2>1 DEF Row, Pcs
  <2>3. Set(r, row) /\ UNCHANGED <<owner, issued, advisory, asked>>
    BY <1>5, <2>1 DEF Connect
  <2>4. row.order \in Orders
    BY <1>2, <1>5, <2>2 DEF Connect, Exclusive
  <2>5. QED BY <1>1, <1>2, <2>2, <2>3, <2>4, RequestMoves
<1>6. ASSUME NEW r \in Requests, LockRequest(r) PROVE SInv'
  <2>1. PICK row : row = [req[r] EXCEPT !.pc = "find"]
    OBVIOUS
  <2>2. row \in Row /\ row.pc = "find" /\ row.order = req[r].order
    BY <1>2, <2>1 DEF Row, Pcs
  <2>3. /\ req[r].order \in Orders /\ advisory[req[r].order] = None
        /\ advisory' = [advisory EXCEPT ![req[r].order] = r]
        /\ Set(r, row) /\ UNCHANGED <<owner, issued, asked>>
    BY <1>2, <1>6, <2>1 DEF LockRequest, Exclusive
  <2>4. advisory'[row.order] = r
    BY <1>1, <2>2, <2>3 DEF SInv, STypeOK
  <2>5. QED BY <1>1, <1>2, <2>2, <2>3, <2>4, RequestMoves
<1>7. ASSUME NEW r \in Requests, StartScan(r) PROVE SInv'
  <2>1. PICK row : row = [req[r] EXCEPT !.pc = "scan", !.at = 1]
    OBVIOUS
  <2>2. 1 \in 0..KeyCount + 1
    BY <1>2
  <2>3. /\ row \in Row /\ row.pc = "scan" /\ row.order = req[r].order
        /\ row.at = 1
    BY <1>2, <2>1, <2>2 DEF Row, Pcs
  <2>4. Set(r, row) /\ UNCHANGED <<owner, issued, advisory, asked>>
    BY <1>7, <2>1 DEF StartScan
  <2>5. /\ row.order \in Orders /\ advisory[row.order] = r
        /\ issued[row.order] = None
    BY <1>2, <1>7, <2>3 DEF StartScan, Exclusive
  <2>6. QED BY <1>1, <1>2, <2>3, <2>4, <2>5, RequestMoves
<1>8. ASSUME NEW r \in Requests, Pass(r) PROVE SInv'
  <2>1. PICK row : row = [req[r] EXCEPT !.at = @ + 1]
    OBVIOUS
  <2>2. req[r].pc = "scan" /\ req[r].at \in 1..KeyCount
    BY <1>8 DEF Pass, Keys
  <2>3. /\ row \in Row /\ row.pc = "scan" /\ row.order = req[r].order
        /\ row.at # 0
    BY <1>2, <2>1, <2>2 DEF Row, Pcs
  <2>4. Set(r, row) /\ UNCHANGED <<owner, issued, advisory, asked>>
    BY <1>8, <2>1 DEF Pass
  <2>5. /\ row.order \in Orders /\ advisory[row.order] = r
        /\ issued[row.order] = None
    BY <1>2, <2>2, <2>3 DEF Exclusive
  <2>6. QED BY <1>1, <1>2, <2>3, <2>4, <2>5, RequestMoves
<1>9. ASSUME NEW r \in Requests, LockKey(r) PROVE SInv'
  <2>1. PICK row : row = [req[r] EXCEPT !.pc = "write"]
    OBVIOUS
  <2>2. /\ row \in Row /\ row.pc = "write" /\ row.order = req[r].order
        /\ row.at = req[r].at
    BY <1>2, <2>1 DEF Row, Pcs
  <2>3. /\ req[r].pc = "scan" /\ row.at \in Keys /\ ~Taken(row.at)
        /\ Set(r, row) /\ UNCHANGED <<owner, issued, advisory, asked>>
    BY <1>9, <2>1, <2>2 DEF LockKey
  <2>4. /\ row.order \in Orders /\ advisory[row.order] = r
        /\ issued[row.order] = None
    BY <1>2, <2>2, <2>3 DEF Exclusive
  <2>5. /\ owner[row.at] = None
        /\ \A q \in Requests : req[q].pc = "write" => req[q].at # row.at
    BY <2>3 DEF Taken
  <2>6. QED BY <1>1, <1>2, <2>2, <2>3, <2>4, <2>5, RequestMoves
<1>10. ASSUME NEW r \in Requests, Commit(r) PROVE SInv'
  <2>1. /\ req[r].pc = "write" /\ issued[req[r].order] = None
        /\ req[r].order \in Orders /\ req[r].at \in Keys
        /\ owner[req[r].at] = None
    BY <1>2, <1>10 DEF Commit, Exclusive
  <2>2. owner' = [owner EXCEPT ![req[r].at] = req[r].order]
    BY <1>10, <2>1 DEF Commit
  <2>3. issued' = [issued EXCEPT ![req[r].order] = req[r].at]
    BY <1>10, <2>1 DEF Commit
  <2>4. QED BY <1>1, <1>10, <2>1, <2>2, <2>3, RequestEnds DEF Commit
<1>11. ASSUME NEW r \in Requests,
              Repeat(r) \/ Refuse(r) \/ RunDry(r) \/ Abandon(r)
       PROVE  SInv'
  BY <1>1, <1>11, RequestEnds DEF Repeat, Refuse, RunDry, Abandon
<1>12. QED
  BY <1>1, <1>3, <1>4, <1>5, <1>6, <1>7, <1>8, <1>9, <1>10, <1>11
     DEF SNext, Proceed

THEOREM SupplierCorrect == SSpec => []SInv
<1>1. QED BY SupplierInit, SupplierNext, PTL DEF SSpec

(* A supplier's tables and requests are well typed.                        *)
THEOREM SupplierTypes == SSpec => []STypeOK
<1>1. SInv => STypeOK
  BY DEF SInv
<1>2. QED BY <1>1, SupplierCorrect, PTL

(* provider_keys and provider_issues agree, however many requests of       *)
(* however many orders run at once and wherever they are broken off.       *)
THEOREM SupplierTables == SSpec => []TablesAgree
<1>1. SInv => TablesAgree
  BY DEF SInv
<1>2. QED BY <1>1, SupplierCorrect, PTL

(* Statement by statement the supplier keeps the promise of Issuing.       *)
THEOREM SupplierKeepsPromise == SSpec => ImplementsIssuing
<1>1. SInit => Promise!Init
  BY DEF SInit, Promise!Init
<1>2. SInv /\ [SNext]_svars => [Promise!Next]_issued
  <2>1. SUFFICES ASSUME SInv, [SNext]_svars, ~UNCHANGED issued
                 PROVE  Promise!Next
    OBVIOUS
  <2>2. PICK r \in Requests : Commit(r)
    BY <2>1 DEF SNext, Proceed, svars, Arrive, Connect, LockRequest, Repeat,
                Refuse, StartScan, Pass, LockKey, RunDry, Abandon
  <2>3. PICK o, k : o = req[r].order /\ k = req[r].at
    OBVIOUS
  <2>4. /\ o \in Orders /\ k \in Keys /\ issued[o] = None /\ owner[k] = None
    BY <2>1, <2>2, <2>3 DEF Commit, SInv, RequestsInv, Exclusive
  <2>5. issued' = [issued EXCEPT ![o] = k]
    BY <2>2, <2>3, <2>4 DEF Commit
  <2>6. \A q \in Orders : issued[q] # k
    BY <2>1, <2>4, SupplierAssumption DEF SInv, TablesAgree
  <2>7. QED BY <2>4, <2>5, <2>6 DEF Promise!Next, Promise!Give
<1>3. QED BY <1>1, <1>2, SupplierCorrect, PTL
             DEF SSpec, ImplementsIssuing, Promise!Spec

-----------------------------------------------------------------------------
(* Stock.  An order is past key j when its request has gone beyond it or   *)
(* its code is a later one.  To pass key j takes another order that has j  *)
(* for itself, which is past j - 1 but not past j: of the orders past      *)
(* j - 1 one at least stays behind.  So of n orders that ever asked at     *)
(* most n - j are past key j, whatever is given up in between.             *)
HasPassed(row, j) == row.pc \in {"scan", "write"} /\ row.at > j

Past(j) ==
    {o \in Orders : \/ issued[o] \in {k \in Keys : k > j}
                    \/ \E r \in Requests : /\ req[r].order = o
                                            /\ HasPassed(req[r], j)}

AskedInv ==
    /\ IsFiniteSet(asked)
    /\ \A r \in Requests : req[r].pc # "idle" => req[r].order \in asked
    /\ \A o \in Orders : issued[o] # None => o \in asked

FewPast(j) == Past(j) # {} => Cardinality(Past(j)) + j <= Cardinality(asked)

ScarceInv == AskedInv /\ \A j \in 0..KeyCount : FewPast(j)

LEMMA AskedNext == SInv /\ AskedInv /\ [SNext]_svars => AskedInv'
<1> SUFFICES ASSUME SInv, AskedInv, [SNext]_svars PROVE AskedInv'
  OBVIOUS
<1>1. /\ \A r \in Requests : req[r] \in Row /\ Exclusive(r)
      /\ req \in [Requests -> Row] /\ issued \in [Orders -> Keys \cup {None}]
  BY DEF SInv, STypeOK, RequestsInv, Row, Pcs
<1>2. ASSUME NEW r \in Requests, NEW o \in Orders, Arrive(r, o)
      PROVE  AskedInv'
  <2>1. IsFiniteSet(asked') /\ asked' = asked \cup {o}
    BY <1>2, FS_AddElement DEF Arrive, AskedInv
  <2>2. req'[r].order = o /\ \A q \in Requests \ {r} : req'[q] = req[q]
    BY <1>1, <1>2 DEF Arrive, Set, Gone
  <2>3. issued' = issued
    BY <1>2 DEF Arrive
  <2>4. QED BY <2>1, <2>2, <2>3 DEF AskedInv
<1>3. ASSUME NEW r \in Requests, asked' = asked,
             \A q \in Requests : req'[q].pc # "idle" =>
                 req[q].pc # "idle" /\ req'[q].order = req[q].order,
             \/ issued' = issued
             \/ /\ req[r].pc # "idle" /\ req[r].order \in Orders
                /\ \A o \in Orders : o # req[r].order => issued'[o] = issued[o]
      PROVE  AskedInv'
  BY <1>3 DEF AskedInv
<1>4. ASSUME NEW r \in Requests,
             Connect(r) \/ LockRequest(r) \/ Proceed(r) \/ Abandon(r)
      PROVE  AskedInv'
  <2>1. ASSUME NEW row, Set(r, row),
               row.pc # "idle" => req[r].pc # "idle"
                                  /\ row.order = req[r].order
        PROVE  \A q \in Requests : req'[q].pc # "idle" =>
                   req[q].pc # "idle" /\ req'[q].order = req[q].order
    BY <1>1, <2>1 DEF Set
  <2>2. CASE \/ Connect(r) \/ LockRequest(r) \/ StartScan(r)
             \/ Pass(r) \/ LockKey(r)
    <3>1. /\ req[r].pc # "idle" /\ asked' = asked /\ issued' = issued
      BY <2>2 DEF Connect, LockRequest, StartScan, Pass, LockKey
    <3>2. req' = [req EXCEPT ![r] = req'[r]]
      BY <1>1, <2>2 DEF Connect, LockRequest, StartScan, Pass, LockKey, Set
    <3>3. req'[r].order = req[r].order
      <4>1. CASE Connect(r) \/ LockRequest(r) \/ LockKey(r)
        BY <1>1, <4>1 DEF Connect, LockRequest, LockKey, Set, Row
      <4>2. CASE StartScan(r)
        BY <1>1, <4>2 DEF StartScan, Set, Row
      <4>3. CASE Pass(r)
        BY <1>1, <4>3 DEF Pass, Set, Row
      <4>4. QED BY <2>2, <4>1, <4>2, <4>3
    <3>4. QED BY <1>3, <2>1, <3>1, <3>2, <3>3 DEF Set
  <2>3. CASE Repeat(r) \/ Refuse(r) \/ RunDry(r) \/ Abandon(r) \/ Commit(r)
    <3>1. /\ Set(r, Gone) /\ Gone.pc = "idle" /\ asked' = asked
      BY <2>3 DEF Repeat, Refuse, RunDry, Abandon, Commit, End, Gone
    <3>2. \/ issued' = issued
          \/ /\ req[r].pc # "idle" /\ req[r].order \in Orders
             /\ \A o \in Orders : o # req[r].order => issued'[o] = issued[o]
      BY <1>1, <2>3 DEF Repeat, Refuse, RunDry, Abandon, Commit, Exclusive
    <3>3. QED BY <1>3, <2>1, <3>1, <3>2
  <2>4. QED BY <1>4, <2>2, <2>3 DEF Proceed
<1>5. CASE UNCHANGED svars
  BY <1>5 DEF svars, AskedInv
<1>6. QED BY <1>2, <1>4, <1>5 DEF SNext

(* Only by passing key j does an order get past it; nobody passes key 0.   *)
LEMMA PastKept ==
    ASSUME SInv, [SNext]_svars, NEW j \in 1..KeyCount,
           \A r \in Requests : Pass(r) => req[r].at # j
    PROVE  Past(j)' \subseteq Past(j)
<1>1. /\ \A r \in Requests : req[r] \in Row /\ Exclusive(r)
      /\ req \in [Requests -> Row] /\ issued \in [Orders -> Keys \cup {None}]
      /\ KeyCount \in Nat /\ j \in Nat /\ None \notin Keys
  BY SupplierAssumption DEF SInv, STypeOK, RequestsInv, Row, Pcs
<1>2. ASSUME NEW r \in Requests, NEW row, Set(r, row), issued' = issued,
             HasPassed(row, j) => /\ HasPassed(req[r], j)
                                  /\ row.order = req[r].order
      PROVE  Past(j)' \subseteq Past(j)
  <2>1. req'[r] = row /\ \A q \in Requests \ {r} : req'[q] = req[q]
    BY <1>1, <1>2 DEF Set
  <2>2. QED BY <1>2, <2>1 DEF Past
<1>3. ASSUME NEW r \in Requests, NEW o \in Orders, Arrive(r, o)
      PROVE  Past(j)' \subseteq Past(j)
  <2>1. PICK row : row = [Gone EXCEPT !.pc = "connect", !.order = o]
    OBVIOUS
  <2>2. Set(r, row) /\ issued' = issued
    BY <1>3, <2>1 DEF Arrive
  <2>3. row.pc = "connect"
    BY <2>1 DEF Gone
  <2>4. QED BY <1>2, <2>2, <2>3 DEF HasPassed
<1>4. ASSUME NEW r \in Requests, Connect(r) \/ LockRequest(r)
      PROVE  Past(j)' \subseteq Past(j)
  <2>1. PICK row : Set(r, row) /\ row.pc \in {"lock", "find"}
    BY <1>1, <1>4 DEF Connect, LockRequest, Row
  <2>2. issued' = issued
    BY <1>4 DEF Connect, LockRequest
  <2>3. QED BY <1>2, <2>1, <2>2 DEF HasPassed
<1>5. ASSUME NEW r \in Requests, StartScan(r)
      PROVE  Past(j)' \subseteq Past(j)
  <2>1. PICK row : row = [req[r] EXCEPT !.pc = "scan", !.at = 1]
    OBVIOUS
  <2>2. Set(r, row) /\ issued' = issued
    BY <1>5, <2>1 DEF StartScan
  <2>3. row.at = 1
    BY <1>1, <2>1 DEF Row
  <2>4. ~HasPassed(row, j)
    BY <1>1, <2>3 DEF HasPassed
  <2>5. QED BY <1>2, <2>2, <2>4
<1>6. ASSUME NEW r \in Requests, Pass(r)
      PROVE  Past(j)' \subseteq Past(j)
  <2>1. PICK row : row = [req[r] EXCEPT !.at = @ + 1]
    OBVIOUS
  <2>2. /\ Set(r, row) /\ req[r].pc = "scan" /\ req[r].at \in Keys
        /\ issued' = issued
    BY <1>6, <2>1 DEF Pass
  <2>3. /\ row.order = req[r].order /\ row.at = req[r].at + 1
        /\ row.pc = "scan" /\ req[r].at # j
    BY <1>1, <1>6, <2>1, <2>2 DEF Row
  <2>4. HasPassed(row, j) => HasPassed(req[r], j)
    BY <1>1, <2>2, <2>3 DEF HasPassed, Keys
  <2>5. QED BY <1>2, <2>2, <2>3, <2>4
<1>7. ASSUME NEW r \in Requests, LockKey(r)
      PROVE  Past(j)' \subseteq Past(j)
  <2>1. PICK row : row = [req[r] EXCEPT !.pc = "write"]
    OBVIOUS
  <2>2. Set(r, row) /\ req[r].pc = "scan" /\ issued' = issued
    BY <1>7, <2>1 DEF LockKey
  <2>3. row.order = req[r].order /\ row.at = req[r].at
    BY <1>1, <2>1 DEF Row
  <2>4. QED BY <1>2, <2>2, <2>3 DEF HasPassed
<1>8. ASSUME NEW r \in Requests,
             Repeat(r) \/ Refuse(r) \/ RunDry(r) \/ Abandon(r)
      PROVE  Past(j)' \subseteq Past(j)
  <2>1. Set(r, Gone) /\ issued' = issued /\ Gone.pc = "idle"
    BY <1>8 DEF Repeat, Refuse, RunDry, Abandon, End, Gone
  <2>2. QED BY <1>2, <2>1 DEF HasPassed
<1>9. ASSUME NEW r \in Requests, Commit(r)
      PROVE  Past(j)' \subseteq Past(j)
  <2>1. /\ req[r].pc = "write" /\ issued[req[r].order] = None
        /\ req[r].order \in Orders /\ req[r].at \in Keys
    BY <1>1, <1>9 DEF Commit, Exclusive
  <2>2. /\ issued' = [issued EXCEPT ![req[r].order] = req[r].at]
        /\ Set(r, Gone) /\ Gone.pc = "idle"
    BY <1>9, <2>1 DEF Commit, End, Gone
  <2>3. req'[r] = Gone /\ \A q \in Requests \ {r} : req'[q] = req[q]
    BY <1>1, <2>2 DEF Set
  <2>4. /\ issued'[req[r].order] = req[r].at
        /\ \A o \in Orders \ {req[r].order} : issued'[o] = issued[o]
    BY <1>1, <2>1, <2>2
  <2>5. \A q \in Requests : HasPassed(req'[q], j) =>
           HasPassed(req[q], j) /\ req'[q] = req[q]
    BY <2>2, <2>3 DEF HasPassed
  <2>6. req[r].at > j => HasPassed(req[r], j)
    BY <2>1 DEF HasPassed
  <2>7. QED BY <2>1, <2>4, <2>5, <2>6 DEF Past
<1>10. CASE UNCHANGED svars
  BY <1>10 DEF svars, Past
<1>11. QED
  BY <1>3, <1>4, <1>5, <1>6, <1>7, <1>8, <1>9, <1>10 DEF SNext, Proceed

(* Who has a key that is passed over stays behind it.                      *)
LEMMA OneStaysBehind ==
    ASSUME SInv, NEW r \in Requests, Pass(r), NEW j \in 1..KeyCount,
           req[r].at = j
    PROVE  \E o \in Past(j - 1) : Past(j)' \subseteq Past(j - 1) \ {o}
<1>1. /\ \A q \in Requests : req[q] \in Row /\ Exclusive(q)
      /\ req \in [Requests -> Row] /\ issued \in [Orders -> Keys \cup {None}]
      /\ owner \in [Keys -> Orders \cup {None}]
      /\ KeyCount \in Nat /\ j \in Nat /\ j - 1 \in Nat /\ j > j - 1
      /\ j \in Keys /\ None \notin Keys
  BY SupplierAssumption DEF SInv, STypeOK, RequestsInv, Row, Pcs, Keys
<1>2. /\ req[r].pc = "scan" /\ Taken(j) /\ issued' = issued
      /\ req[r].order \in Orders
  BY <1>1 DEF Pass, Exclusive
<1>3. \A q \in Requests \ {r} : req'[q] = req[q]
  BY <1>1 DEF Pass, Set
<1>4. req'[r].order = req[r].order
  <2>1. PICK row : row = [req[r] EXCEPT !.at = @ + 1]
    OBVIOUS
  <2>2. row.order = req[r].order
    BY <1>1, <2>1 DEF Row
  <2>3. req'[r] = row
    BY <1>1, <2>1 DEF Pass, Set
  <2>4. QED BY <2>2, <2>3
<1>5. Past(j)' \subseteq Past(j - 1)
  <2>1. HasPassed(req[r], j - 1)
    BY <1>1, <1>2 DEF HasPassed
  <2>2. \A q \in Requests \ {r} :
           HasPassed(req'[q], j) => HasPassed(req[q], j - 1)
    BY <1>1, <1>3 DEF HasPassed, Row
  <2>3. \A k \in Keys : k > j => k > j - 1
    BY <1>1 DEF Keys
  <2>4. QED BY <1>2, <1>3, <1>4, <2>1, <2>2, <2>3 DEF Past
<1>6. ASSUME NEW o \in Orders, o # req[r].order, issued[o] = j
      PROVE  o \in Past(j - 1) /\ o \notin Past(j)'
  <2>1. o \in Past(j - 1)
    BY <1>1, <1>6 DEF Past
  <2>2. \A q \in Requests \ {r} : req'[q].order = o => ~HasPassed(req'[q], j)
    BY <1>1, <1>3, <1>6 DEF HasPassed, Exclusive
  <2>3. QED BY <1>1, <1>2, <1>4, <1>6, <2>1, <2>2 DEF Past, Keys
<1>7. ASSUME NEW p \in Requests, req[p].pc = "write", req[p].at = j
      PROVE  /\ req[p].order \in Past(j - 1)
             /\ req[p].order \notin Past(j)'
  <2>1. /\ req[p].order \in Orders /\ issued[req[p].order] = None
        /\ advisory[req[p].order] = p /\ p # r
    BY <1>1, <1>2, <1>7 DEF Exclusive
  <2>2. req[p].order \in Past(j - 1)
    BY <1>1, <1>7, <2>1 DEF Past, HasPassed
  <2>3. req[r].order # req[p].order
    BY <1>1, <1>2, <2>1 DEF Exclusive
  <2>4. \A q \in Requests \ {r} :
           req'[q].order = req[p].order => ~HasPassed(req'[q], j)
    BY <1>1, <1>3, <1>7, <2>1 DEF HasPassed, Exclusive
  <2>5. QED BY <1>1, <1>2, <1>4, <2>1, <2>2, <2>3, <2>4 DEF Past
<1>8. CASE owner[j] # None
  <2>1. owner[j] \in Orders /\ issued[owner[j]] = j
    BY <1>1, <1>8 DEF SInv, TablesAgree
  <2>2. owner[j] # req[r].order
    BY <1>1, <1>2, <2>1 DEF Exclusive
  <2>3. QED BY <1>5, <1>6, <2>1, <2>2
<1>9. CASE \E p \in Requests : req[p].pc = "write" /\ req[p].at = j
  BY <1>5, <1>7, <1>9
<1>10. QED BY <1>2, <1>8, <1>9 DEF Taken

LEMMA ScarceNext == SInv /\ ScarceInv /\ [SNext]_svars => ScarceInv'
<1> SUFFICES ASSUME SInv, ScarceInv, [SNext]_svars PROVE ScarceInv'
  OBVIOUS
<1>1. AskedInv' /\ SInv'
  BY AskedNext, SupplierNext DEF ScarceInv
<1>2. /\ IsFiniteSet(asked) /\ IsFiniteSet(asked') /\ asked \subseteq asked'
      /\ Cardinality(asked) \in Nat /\ Cardinality(asked') \in Nat
      /\ Cardinality(asked) <= Cardinality(asked')
  <2>1. IsFiniteSet(asked) /\ IsFiniteSet(asked')
    BY <1>1 DEF ScarceInv, AskedInv
  <2>2. asked \subseteq asked'
    BY DEF SNext, svars, Proceed, Arrive, Connect, LockRequest, Repeat,
           Refuse, StartScan, Pass, LockKey, RunDry, Commit, Abandon
  <2>3. QED BY <2>1, <2>2, FS_Subset, FS_CardinalityType
<1>3. KeyCount \in Nat
  BY SupplierAssumption
<1>4. \A j \in 0..KeyCount : Past(j) \subseteq asked /\ Past(j)' \subseteq asked'
  <2>1. /\ \A j \in 0..KeyCount : Past(j) \subseteq asked
    BY SupplierAssumption DEF Past, ScarceInv, AskedInv, HasPassed
  <2>2. \A j \in 0..KeyCount : Past(j)' \subseteq asked'
    BY <1>1, SupplierAssumption DEF Past, AskedInv, HasPassed
  <2>3. QED BY <2>1, <2>2
<1>5. \A j \in 0..KeyCount :
         /\ IsFiniteSet(Past(j)) /\ Cardinality(Past(j)) \in Nat
         /\ IsFiniteSet(Past(j)') /\ Cardinality(Past(j)') \in Nat
         /\ Cardinality(Past(j)') <= Cardinality(asked')
  BY <1>2, <1>4, FS_Subset, FS_CardinalityType
<1>6. ASSUME NEW j \in 0..KeyCount PROVE FewPast(j)'
  <2>1. CASE j = 0
    BY <1>2, <1>5, <2>1 DEF FewPast
  <2>2. CASE j # 0 /\ \A r \in Requests : Pass(r) => req[r].at # j
    <3>1. Past(j)' \subseteq Past(j)
      BY <1>3, <2>2, PastKept
    <3>2. Cardinality(Past(j)') <= Cardinality(Past(j))
      BY <1>5, <3>1, FS_Subset
    <3>3. FewPast(j)
      BY DEF ScarceInv
    <3>4. QED BY <1>2, <1>3, <1>5, <3>1, <3>2, <3>3 DEF FewPast
  <2>3. ASSUME j # 0, NEW r \in Requests, Pass(r), req[r].at = j
        PROVE  FewPast(j)'
    <3>1. j \in 1..KeyCount /\ j - 1 \in 0..KeyCount
      BY <1>3, <2>3
    <3>2. PICK o \in Past(j - 1) : Past(j)' \subseteq Past(j - 1) \ {o}
      BY <2>3, <3>1, OneStaysBehind
    <3>3. /\ IsFiniteSet(Past(j - 1) \ {o})
          /\ Cardinality(Past(j - 1) \ {o}) = Cardinality(Past(j - 1)) - 1
      BY <1>5, <3>1, FS_RemoveElement
    <3>4. Cardinality(Past(j)') <= Cardinality(Past(j - 1)) - 1
      BY <3>2, <3>3, FS_Subset
    <3>5. Cardinality(Past(j - 1)) + (j - 1) <= Cardinality(asked)
      BY <3>1, <3>2 DEF ScarceInv, FewPast
    <3>6. QED BY <1>2, <1>3, <1>5, <3>1, <3>4, <3>5 DEF FewPast
  <2>4. QED BY <2>1, <2>2, <2>3
<1>7. QED BY <1>1, <1>6 DEF ScarceInv

(* A supplier that says out_of_stock has fewer keys than orders that asked *)
(* for one: no order that is given up and repeated ties up a second key.   *)
THEOREM OutIsScarce == SSpec => OutMeansScarce
<1>1. SInit => ScarceInv
  <2>1. SUFFICES ASSUME SInit PROVE ScarceInv
    OBVIOUS
  <2>2. AskedInv
    BY <2>1, FS_EmptySet DEF SInit, AskedInv, Gone
  <2>3. \A j \in 0..KeyCount : Past(j) = {}
    BY <2>1, SupplierAssumption DEF SInit, Past, HasPassed, Gone
  <2>4. QED BY <2>2, <2>3 DEF ScarceInv, FewPast
<1>2. ASSUME SInv, ScarceInv, NEW r \in Requests, RunDry(r)
      PROVE  KeyCount <= Cardinality(asked \ {req[r].order})
  <2>1. /\ req[r].pc = "scan" /\ req[r].at > KeyCount /\ KeyCount \in Nat
        /\ req[r].order \in Orders
    BY <1>2, SupplierAssumption DEF RunDry, SInv, RequestsInv, Exclusive
  <2>2. req[r].order \in Past(KeyCount)
    BY <2>1 DEF Past, HasPassed
  <2>3. /\ IsFiniteSet(asked) /\ Past(KeyCount) \subseteq asked
        /\ Cardinality(Past(KeyCount)) + KeyCount <= Cardinality(asked)
    BY <1>2, <2>1, <2>2, SupplierAssumption
       DEF ScarceInv, AskedInv, FewPast, Past, HasPassed
  <2>4. /\ IsFiniteSet(Past(KeyCount)) /\ Cardinality(Past(KeyCount)) \in Nat
        /\ Cardinality(asked) \in Nat
    BY <2>3, FS_Subset, FS_CardinalityType
  <2>5. Cardinality(Past(KeyCount)) # 0
    BY <2>2, <2>4, FS_EmptySet
  <2>6. Cardinality(asked \ {req[r].order}) = Cardinality(asked) - 1
    BY <2>2, <2>3, FS_RemoveElement
  <2>7. QED BY <2>1, <2>3, <2>4, <2>5, <2>6
<1>3. SInv /\ ScarceInv /\ [SNext]_svars =>
        [\A r \in Requests :
            RunDry(r) => KeyCount <= Cardinality(asked \ {req[r].order})]_svars
  BY <1>2
<1>4. QED
  BY <1>1, <1>3, ScarceNext, SupplierCorrect, PTL DEF SSpec, OutMeansScarce
=============================================================================
