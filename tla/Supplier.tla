------------------------------ MODULE Supplier ------------------------------
(***************************************************************************)
(* One supplier of providermock/server.go, statement by statement at READ  *)
(* COMMITTED: each request takes a connection of the pool, an advisory     *)
(* lock on its request_id, looks for an earlier answer, and goes through   *)
(* provider_keys with SKIP LOCKED.  request_id is a function of the order, *)
(* so the order stands for it.  Delivery has all this as one step.         *)
(***************************************************************************)
EXTENDS Naturals, FiniteSets

CONSTANTS
    Orders,     \* the orders requests are made for
    Requests,   \* requests under way at the same time
    KeyCount,   \* rows of provider_keys for the provider and SKU
    MaxConns,   \* connections of the pool
    None        \* SQL NULL

Keys == 1..KeyCount     \* in the order of created_at, id

ASSUME SupplierAssumption ==
    /\ KeyCount \in Nat /\ MaxConns \in Nat \ {0}
    /\ None \notin Keys \cup Requests \cup Orders

VARIABLES
    owner,      \* provider_keys: the order a key was issued to
    issued,     \* provider_issues: the key a request was answered with
    advisory,   \* who holds the advisory lock of an order's request_id
    req,        \* what each request is doing
    asked       \* history: the orders that have asked for a code

svars == <<owner, issued, advisory, req, asked>>

Gone == [pc |-> "idle", order |-> None, at |-> 0]

STypeOK ==
    /\ owner \in [Keys -> Orders \cup {None}]
    /\ issued \in [Orders -> Keys \cup {None}]
    /\ advisory \in [Orders -> Requests \cup {None}]
    /\ req \in [Requests ->
         [pc : {"idle", "connect", "lock", "find", "scan", "write"},
          order : Orders \cup {None}, at : 0..KeyCount + 1]]
    /\ asked \subseteq Orders

SInit ==
    /\ owner = [k \in Keys |-> None]
    /\ issued = [o \in Orders |-> None]
    /\ advisory = [o \in Orders |-> None]
    /\ req = [r \in Requests |-> Gone]
    /\ asked = {}

Set(r, row) == req' = [req EXCEPT ![r] = row]

(* Faulty: pg_advisory_lock, which outlives the transaction.               *)
EndInSession(r) == Set(r, Gone) /\ UNCHANGED advisory

(* The transaction commits or rolls back, which releases its locks.        *)
End(r) ==
    /\ Set(r, Gone)
    /\ advisory' = [o \in Orders |-> IF advisory[o] = r THEN None
                                                        ELSE advisory[o]]

-----------------------------------------------------------------------------

Arrive(r, o) ==
    /\ req[r].pc = "idle"
    /\ Set(r, [Gone EXCEPT !.pc = "connect", !.order = o])
    /\ asked' = asked \cup {o}
    /\ UNCHANGED <<owner, issued, advisory>>

Connected == {r \in Requests : req[r].pc \in {"lock", "find", "scan", "write"}}

(* Begin takes a connection of the pool or waits for one.                  *)
Connect(r) ==
    /\ req[r].pc = "connect"
    /\ Cardinality(Connected) < MaxConns
    /\ Set(r, [req[r] EXCEPT !.pc = "lock"])
    /\ UNCHANGED <<owner, issued, advisory, asked>>

(* Faulty: requests of the same order do not wait for each other.          *)
LockRequestNever(r) ==
    /\ req[r].pc = "lock"
    /\ Set(r, [req[r] EXCEPT !.pc = "find"])
    /\ UNCHANGED <<owner, issued, advisory, asked>>

(* pg_advisory_xact_lock waits for the other requests of the order.        *)
LockRequest(r) ==
    /\ req[r].pc = "lock"
    /\ advisory[req[r].order] = None
    /\ advisory' = [advisory EXCEPT ![req[r].order] = r]
    /\ Set(r, [req[r] EXCEPT !.pc = "find"])
    /\ UNCHANGED <<owner, issued, asked>>

(* The order has a code already.                                           *)
Repeat(r) ==
    /\ req[r].pc = "find"
    /\ issued[req[r].order] # None
    /\ End(r)
    /\ UNCHANGED <<owner, issued, asked>>

(* FailRate: an explicit 503 before anything is issued.                    *)
Refuse(r) ==
    /\ req[r].pc = "find"
    /\ issued[req[r].order] = None
    /\ End(r)
    /\ UNCHANGED <<owner, issued, asked>>

StartScan(r) ==
    /\ req[r].pc = "find"
    /\ issued[req[r].order] = None
    /\ Set(r, [req[r] EXCEPT !.pc = "scan", !.at = 1])
    /\ UNCHANGED <<owner, issued, advisory, asked>>

(* Faulty: the query has no FOR UPDATE; it reads rows others have locked.  *)
TakenIfIssued(k) == owner[k] # None

(* FOR UPDATE SKIP LOCKED: rows come one by one; a row somebody has locked *)
(* is passed over, and so is one that was issued meanwhile, because its    *)
(* latest version is checked once more.                                    *)
Taken(k) ==
    \/ owner[k] # None
    \/ \E q \in Requests : req[q].pc = "write" /\ req[q].at = k

Pass(r) ==
    /\ req[r].pc = "scan"
    /\ req[r].at \in Keys /\ Taken(req[r].at)
    /\ Set(r, [req[r] EXCEPT !.at = @ + 1])
    /\ UNCHANGED <<owner, issued, advisory, asked>>

LockKey(r) ==
    /\ req[r].pc = "scan"
    /\ req[r].at \in Keys /\ ~Taken(req[r].at)
    /\ Set(r, [req[r] EXCEPT !.pc = "write"])
    /\ UNCHANGED <<owner, issued, advisory, asked>>

(* Faulty: nobody looks whether the query of a key found a row.            *)
RunDryUnnoticed(r) ==
    /\ req[r].pc = "scan"
    /\ req[r].at > KeyCount
    /\ Set(r, [req[r] EXCEPT !.pc = "write"])
    /\ UNCHANGED <<owner, issued, advisory, asked>>

RunDry(r) ==
    /\ req[r].pc = "scan"
    /\ req[r].at > KeyCount
    /\ End(r)
    /\ UNCHANGED <<owner, issued, asked>>

(* The update and the insert: provider_keys keeps the owner it has (AND    *)
(* issued = FALSE, nobody looks at the row count), provider_issues refuses *)
(* a second row, which ends the request with a 500.                        *)
Commit(r) ==
    /\ req[r].pc = "write"
    /\ LET o == req[r].order
           k == req[r].at
       IN IF issued[o] # None THEN UNCHANGED <<owner, issued>>
          ELSE /\ issued' = [issued EXCEPT ![o] = k]
               /\ owner' = [owner EXCEPT ![k] = IF @ = None THEN o ELSE @]
    /\ End(r)
    /\ UNCHANGED asked

(* The caller has hung up and its context is cancelled, a statement fails  *)
(* (500), or the process dies: the transaction is rolled back.             *)
Abandon(r) ==
    /\ req[r].pc # "idle"
    /\ End(r)
    /\ UNCHANGED <<owner, issued, asked>>

Proceed(r) ==
    \/ Repeat(r) \/ Refuse(r) \/ StartScan(r) \/ Pass(r) \/ LockKey(r)
    \/ RunDry(r) \/ Commit(r)

SNext ==
    \E r \in Requests :
        \/ \E o \in Orders : Arrive(r, o)
        \/ Connect(r) \/ LockRequest(r) \/ Proceed(r) \/ Abandon(r)

(* Straight-line code goes on; connections and locks are granted in the    *)
(* order of their queues, hence in the end.                                *)
SSpec ==
    /\ SInit /\ [][SNext]_svars
    /\ \A r \in Requests : /\ SF_svars(Connect(r)) /\ SF_svars(LockRequest(r))
                           /\ WF_svars(Proceed(r))
-----------------------------------------------------------------------------
(* However often an order asks, also at the same time, and whoever gives   *)
(* up in between: a key is marked as issued to just the order that         *)
(* provider_issues has it for, so that no key is spent in vain.            *)
TablesAgree ==
    \A o \in Orders, k \in Keys : issued[o] = k <=> owner[k] = o

(* A key that is merely locked looks like no key.  Still, with a key for   *)
(* every other order that ever asked and one more, nobody is told that     *)
(* there are none: one order never ties up two keys.                       *)
OutMeansScarce ==
    [][\A r \in Requests :
          RunDry(r) => KeyCount <= Cardinality(asked \ {req[r].order})]_svars

(* Requests that wait for a connection held by requests that wait for a    *)
(* lock all come to an end: there is no deadlock between pool and locks,   *)
(* and an abandoned request blocks nobody.                                 *)
EveryRequestEnds ==
    \A r \in Requests : (req[r].pc # "idle") ~> (req[r].pc = "idle")

(* Statement by statement the supplier does what Issuing does in one step. *)
Promise == INSTANCE Issuing
ImplementsIssuing == Promise!Spec
=============================================================================
