---------------------------- MODULE Transactions ----------------------------
(***************************************************************************)
(* The transactions of Store statement by statement, run at the same time  *)
(* by HTTP handlers, workers and the repair loop at READ COMMITTED.  The   *)
(* tables of Store hold what is committed; what an open transaction has    *)
(* read and locked is in its call.  The last lock of a transaction is taken*)
(* in the step that commits: nothing but the commit comes after it.        *)
(***************************************************************************)
EXTENDS Store

CONSTANTS
    Callers,    \* transactions open at the same time
    MaxClock    \* bound on the number of webhooks that begin a transaction

ASSUME TransactionsAssumption == MaxClock \in Nat

VARIABLE call   \* the transaction each caller has open

tvars == <<vars, call>>

NoCall == [pc |-> "idle", order |-> None, event |-> None, kind |-> "none",
           amount |-> None, at |-> 0, todo |-> {}, row |-> NoOrder,
           job |-> NoAttempt, booked |-> [payment |-> 0, delivery |-> 0],
           done |-> {}, left |-> {}, held |-> {}, taken |-> {}, seen |-> {}]

(* The steps of each transaction.                                          *)
Creating == {"insert_order", "read", "apply"}
Paying == {"insert_event", "lock", "commit"}
Retrying == {"retry_order", "retry_job", "retry_insert"}
Claiming == {"claim_lock", "claim"}
Reporting == {"mark_job", "mark"}
Recovering == {"recover"}
Repairing == {"repair"}

TTypeOK ==
    \A c \in Callers :
        /\ call[c].pc \in {"idle"} \cup Creating \cup Paying \cup Retrying
                           \cup Claiming \cup Reporting \cup Recovering
                           \cup Repairing
        /\ call[c].order \in Orders \cup {None}
        /\ call[c].event \in Events \cup {None}
        /\ call[c].done \subseteq Events
        /\ call[c].row.status \in OrderStatus \cup {"absent"}
        /\ call[c].left \cup call[c].held \cup call[c].taken
             \cup call[c].seen \subseteq Orders

TInit == Init /\ call = [c \in Callers |-> NoCall]

Begin(c, o, pc) ==
    /\ call[c].pc = "idle"
    /\ call' = [call EXCEPT ![c] = [NoCall EXCEPT !.pc = pc, !.order = o]]

End(c) == call' = [call EXCEPT ![c] = NoCall]

-----------------------------------------------------------------------------
(* Locks.  What transaction j holds until it ends: the new orders row of a *)
(* creation and the event_id of a webhook, the orders row locked FOR       *)
(* UPDATE by a payment or a retry, the delivery_attempts rows a worker's   *)
(* transaction or a recovery has locked or a repair has inserted (held),   *)
(* and the orders rows a recovery has updated or a repair's foreign keys   *)
(* have locked (taken).                                                    *)
Inserts(j, o) == j.order = o /\ j.pc \in {"read", "apply"}
HoldsEvent(j, e) == j.event = e /\ j.pc \in {"lock", "commit"}

(* Faulty: SELECT without FOR UPDATE.                                      *)
HoldsOrderNever(j, o) == FALSE

HoldsOrder(j, o) ==
    /\ j.order = o
    /\ \/ j.pc \in {"retry_job", "retry_insert"}
       \/ j.pc = "commit" /\ j.row # NoOrder

HoldsJob(j, o) ==
    \/ j.order = o /\ j.pc \in {"claim", "mark"}
    \/ o \in j.held

(* Caller c gets its lock on a row at once or waits for those who have it. *)
(* An update of orders and a foreign key wait for a lock FOR UPDATE; that  *)
(* one waits for them as well.  Two updates of an order do not meet: each  *)
(* transaction has the job of the order, or the order FOR UPDATE, before.  *)
JobFree(c, o) == \A d \in Callers \ {c} : ~HoldsJob(call[d], o)
OrderFree(c, o) == \A d \in Callers \ {c} : ~HoldsOrder(call[d], o)
OrderUntouched(c, o) ==
    OrderFree(c, o) /\ \A d \in Callers \ {c} : o \notin call[d].taken

Applies(j) == j.row # NoOrder /\ j.row.amount = j.amount

(* The net effect of applyPaymentToOrder on what the call has read.        *)
Applied(j, kind, amount) ==
    IF amount # j.row.amount THEN j
    ELSE [j EXCEPT !.row = OrderAfter(j.row, kind),
                   !.job = AttemptAfter(j.row, @, kind),
                   !.booked = LedgerAfter(j.row, @, kind)]

-----------------------------------------------------------------------------
(* create                                                                  *)

BeginCreate(c, o, amount) ==
    /\ call[c].pc = "idle"
    /\ call' = [call EXCEPT ![c] =
                  [NoCall EXCEPT !.pc = "insert_order", !.order = o,
                                 !.amount = amount]]
    /\ UNCHANGED vars

(* The primary key makes the insert wait for another of the same order,    *)
(* and fail when that one has committed.                                   *)
InsertOrder(c) ==
    /\ call[c].pc = "insert_order"
    /\ \A d \in Callers : ~Inserts(call[d], call[c].order)
    /\ IF Exists(call[c].order) THEN End(c)
       ELSE call' = [call EXCEPT
                       ![c].pc = "read",
                       ![c].row = [status |-> "created", paid |-> FALSE,
                                   amount |-> call[c].amount]]
    /\ UNCHANGED vars

(* The select of applyPendingPayments sees what is committed by now.       *)
ReadPending(c) ==
    /\ call[c].pc = "read"
    /\ call' = [call EXCEPT ![c].pc = "apply",
                           ![c].todo = Pending(call[c].order)]
    /\ UNCHANGED vars

ApplyEvent(c, e) ==
    LET j == Applied(call[c], event[e].status, event[e].amount)
    IN call' = [call EXCEPT ![c] = [j EXCEPT !.todo = @ \ {e},
                                             !.done = @ \cup {e}]]

(* Faulty: the newest event first.                                         *)
ApplyNewest(c) ==
    /\ call[c].pc = "apply"
    /\ \E e \in call[c].todo :
         /\ \A f \in call[c].todo : event[f].at <= event[e].at
         /\ ApplyEvent(c, e)
    /\ UNCHANGED vars

(* The loop over what was read, ORDER BY received_at.                      *)
ApplyNext(c) ==
    /\ call[c].pc = "apply"
    /\ \E e \in call[c].todo :
         /\ \A f \in call[c].todo : event[e].at <= event[f].at
         /\ ApplyEvent(c, e)
    /\ UNCHANGED vars

CommitCreate(c) ==
    /\ call[c].pc = "apply" /\ call[c].todo = {}
    /\ order' = [order EXCEPT ![call[c].order] = call[c].row]
    /\ attempt' = [attempt EXCEPT ![call[c].order] = call[c].job]
    /\ ledger' = [ledger EXCEPT ![call[c].order] = call[c].booked]
    /\ event' = [e \in Events |-> IF e \in call[c].done
                                  THEN [event[e] EXCEPT !.processed = TRUE]
                                  ELSE event[e]]
    /\ End(c) /\ UNCHANGED clock

-----------------------------------------------------------------------------
(* ProcessPayment.  received_at is now(), the time the transaction began.  *)

BeginPayment(c, e, o, kind, amount) ==
    /\ call[c].pc = "idle" /\ clock < MaxClock
    /\ call' = [call EXCEPT ![c] =
                  [NoCall EXCEPT !.pc = "insert_event", !.event = e,
                                 !.order = o, !.kind = kind,
                                 !.amount = amount, !.at = clock]]
    /\ clock' = clock + 1
    /\ UNCHANGED <<order, attempt, event, ledger>>

(* ON CONFLICT waits for another insert of the same event_id, and does     *)
(* nothing when that one has committed.                                    *)
InsertEvent(c) ==
    /\ call[c].pc = "insert_event"
    /\ \A d \in Callers : ~HoldsEvent(call[d], call[c].event)
    /\ IF Recorded(call[c].event) THEN End(c)
       ELSE call' = [call EXCEPT ![c].pc = "lock"]
    /\ UNCHANGED vars

(* SELECT ... FOR UPDATE waits for the lock of a committed row; a row that *)
(* another transaction has inserted and not committed is not there for it. *)
LockOrder(c) ==
    /\ call[c].pc = "lock" /\ OrderUntouched(c, call[c].order)
    /\ call' = [call EXCEPT ![c].pc = "commit",
                           ![c].row = order[call[c].order]]
    /\ UNCHANGED vars

FoundOrder(c) == call[c].row # NoOrder

(* The upsert of the job waits for whoever holds its row.                  *)
CommitPayment(c) ==
    /\ call[c].pc = "commit"
    /\ LET j == call[c]
       IN /\ (Applies(j) /\ TakesPayment(j.row, j.kind)) => JobFree(c, j.order)
          /\ event' = [event EXCEPT ![j.event] =
                         [status |-> j.kind, order |-> j.order,
                          amount |-> j.amount, processed |-> FoundOrder(c),
                          at |-> j.at]]
          /\ IF Applies(j) THEN ApplyPayment(j.order, j.row, j.kind)
                           ELSE UNCHANGED <<order, attempt, ledger>>
    /\ End(c) /\ UNCHANGED clock

-----------------------------------------------------------------------------
(* ClaimNextJob.  The select finds a due job of an order with work in its  *)
(* snapshot, passes over a row that is locked, and looks again at the row  *)
(* it locks, though not at the order.                                      *)

Due(o) ==
    /\ attempt[o].status \in {"pending"} \cup Idle
    /\ attempt[o].next # "later"

BeginClaim(c, o) ==
    /\ Due(o) /\ order[o].status \in Claimable
    /\ Begin(c, o, "claim_lock") /\ UNCHANGED vars

(* Faulty: the row is not looked at again.                                 *)
LockClaimedUnseen(c) ==
    /\ call[c].pc = "claim_lock"
    /\ IF JobFree(c, call[c].order)
       THEN call' = [call EXCEPT ![c].pc = "claim"]
       ELSE End(c)
    /\ UNCHANGED vars

LockClaimed(c) ==
    /\ call[c].pc = "claim_lock"
    /\ IF JobFree(c, call[c].order) /\ Due(call[c].order)
       THEN call' = [call EXCEPT ![c].pc = "claim"]
       ELSE End(c)
    /\ UNCHANGED vars

CommitClaim(c) ==
    /\ call[c].pc = "claim" /\ OrderFree(c, call[c].order)
    /\ LET o == call[c].order
       IN /\ attempt' = [attempt EXCEPT ![o].status = "processing",
                                        ![o].lease = "fresh"]
          /\ order' = IF order[o].status \in Claimable
                      THEN [order EXCEPT ![o].status = "delivering"]
                      ELSE order
    /\ End(c) /\ UNCHANGED <<event, ledger, clock>>

-----------------------------------------------------------------------------
(* MarkDelivered and markRecoverableFailure.  A worker reports on a job it *)
(* once claimed; kind is its result.                                       *)

Results == {"delivered", "failed", "out_of_stock"}

BeginReport(c, o, result) ==
    /\ call[c].pc = "idle" /\ attempt[o].status = "processing"
    /\ call' = [call EXCEPT ![c] = [NoCall EXCEPT !.pc = "mark_job",
                                                 !.order = o, !.kind = result]]
    /\ UNCHANGED vars

LockReported(c) ==
    /\ call[c].pc = "mark_job" /\ JobFree(c, call[c].order)
    /\ IF attempt[call[c].order].status = "processing"
       THEN call' = [call EXCEPT ![c].pc = "mark"]
       ELSE End(c)
    /\ UNCHANGED vars

(* The orders row is another one's to check: an order that is not being    *)
(* delivered rolls a delivery back, and is left alone by a failure.        *)
CommitReport(c) ==
    /\ call[c].pc = "mark" /\ OrderFree(c, call[c].order)
    /\ LET o == call[c].order
           result == call[c].kind
       IN IF result = "delivered"
          THEN IF order[o].status = "delivering"
               THEN \E p \in Providers, code \in Codes :
                       MarkDelivered(o, p, code)
               ELSE UNCHANGED vars
          ELSE MarkRecoverableFailure(o, result,
                  IF result = "failed" THEN "delivery_failed" ELSE result)
    /\ End(c)

-----------------------------------------------------------------------------
(* RecoverStaleJobs, one statement: both of its updates go by what its     *)
(* snapshot shows (left and seen), and each looks again at a row when it   *)
(* has its lock.  Their rows come in no particular order, and the orders   *)
(* come as their jobs are returned or after them: two recoveries, and one  *)
(* and any other transaction, may wait for each other until PostgreSQL     *)
(* breaks the deadlock (Abort).                                            *)

BeginRecovery(c) ==
    /\ call[c].pc = "idle" /\ Stale # {}
    /\ call' = [call EXCEPT ![c] =
                  [NoCall EXCEPT
                     !.pc = "recover", !.left = Stale,
                     !.seen = {o \in Stale : order[o].status = "delivering"}]]
    /\ UNCHANGED vars

(* Faulty: the row is not looked at again.                                 *)
LockStaleUnseen(c, o) ==
    /\ call[c].pc = "recover" /\ o \in call[c].left /\ JobFree(c, o)
    /\ call' = [call EXCEPT ![c].left = @ \ {o}, ![c].held = @ \cup {o}]
    /\ UNCHANGED vars

LockStale(c, o) ==
    /\ call[c].pc = "recover" /\ o \in call[c].left /\ JobFree(c, o)
    /\ call' = [call EXCEPT ![c].left = @ \ {o},
                            ![c].held = IF o \in Stale THEN @ \cup {o} ELSE @]
    /\ UNCHANGED vars

(* The orders row of a job it has updated, when it is not the last.        *)
RecoverOrder(c, o) ==
    /\ call[c].pc = "recover"
    /\ o \in (call[c].held \cap call[c].seen) \ call[c].taken
    /\ call[c].left \cup (call[c].held \ call[c].taken) # {o}
    /\ order[o].status = "delivering" /\ OrderFree(c, o)
    /\ call' = [call EXCEPT ![c].taken = @ \cup {o}]
    /\ UNCHANGED vars

(* Faulty: every order of the snapshot, whether its job was updated or not.*)
CommitRecoverySeen(c) ==
    /\ call[c].pc = "recover" /\ call[c].left = {}
    /\ LET j == call[c]
       IN /\ \A o \in j.seen \ j.taken : OrderFree(c, o)
          /\ attempt' = [o \in Orders |->
                           IF o \in j.held
                           THEN [attempt[o] EXCEPT !.status = "failed",
                                             !.next = "due", !.lease = "null"]
                           ELSE attempt[o]]
          /\ order' = [o \in Orders |->
                         IF o \in j.seen /\ order[o].status = "delivering"
                         THEN [order[o] EXCEPT !.status = "delivery_failed"]
                         ELSE order[o]]
    /\ End(c) /\ UNCHANGED <<event, ledger, clock>>

CommitRecovery(c) ==
    /\ call[c].pc = "recover" /\ call[c].left = {}
    /\ LET j == call[c]
       IN /\ \A o \in (j.held \cap j.seen) \ j.taken : OrderFree(c, o)
          /\ attempt' = [o \in Orders |->
                           IF o \in j.held
                           THEN [attempt[o] EXCEPT !.status = "failed",
                                             !.next = "due", !.lease = "null"]
                           ELSE attempt[o]]
          /\ order' = [o \in Orders |->
                         IF /\ o \in j.held \cap j.seen
                            /\ order[o].status = "delivering"
                         THEN [order[o] EXCEPT !.status = "delivery_failed"]
                         ELSE order[o]]
    /\ End(c) /\ UNCHANGED <<event, ledger, clock>>

-----------------------------------------------------------------------------
(* RetryDelivery.                                                          *)

BeginRetry(c, o) == Begin(c, o, "retry_order") /\ UNCHANGED vars

LockRetried(c) ==
    /\ call[c].pc = "retry_order" /\ OrderUntouched(c, call[c].order)
    /\ LET row == order[call[c].order]
       IN IF row.paid /\ row.status \notin {"absent", "created",
                                           "payment_failed", "delivered"}
          THEN call' = [call EXCEPT ![c].pc = "retry_job"]
          ELSE End(c)
    /\ UNCHANGED vars

(* A row that a repair has inserted and not committed is missing: the      *)
(* select does not wait for it, the insert does.                           *)
MissRetried(c) ==
    /\ call[c].pc = "retry_job" /\ attempt[call[c].order].status = "none"
    /\ call' = [call EXCEPT ![c].pc = "retry_insert"]
    /\ UNCHANGED vars

InsertRetried(c) ==
    /\ call[c].pc = "retry_insert" /\ JobFree(c, call[c].order)
    /\ LET o == call[c].order
       IN /\ attempt' = IF attempt[o].status = "none"
                        THEN [attempt EXCEPT ![o] = PendingAttempt]
                        ELSE attempt
          /\ order' = [order EXCEPT ![o].status = "paid"]
    /\ End(c) /\ UNCHANGED <<event, ledger, clock>>

CommitRetry(c) ==
    /\ call[c].pc = "retry_job" /\ JobFree(c, call[c].order)
    /\ LET o == call[c].order
           a == attempt[o]
       IN /\ a.status # "none"
          /\ IF a.status \in {"processing", "delivered"}
             THEN UNCHANGED vars
             ELSE /\ attempt' = [attempt EXCEPT
                        ![o].status = "pending", ![o].next = "due",
                        ![o].lease = IF a.status \in Idle THEN "null" ELSE @]
                  /\ order' = IF order[o].status \in Claimable
                              THEN [order EXCEPT ![o].status = "paid"]
                              ELSE order
                  /\ UNCHANGED <<event, ledger, clock>>
    /\ End(c)

-----------------------------------------------------------------------------
(* Repair.  Its insert takes the orders its snapshot shows without a job   *)
(* one by one, again in no particular order; it passes over a row that has *)
(* appeared and waits for one that is being inserted.  In the end the      *)
(* foreign keys wait for whoever has locked an order FOR UPDATE.  The      *)
(* second statement finds no row (PaidOrderHasJob).                        *)

BeginRepair(c) ==
    /\ call[c].pc = "idle" /\ MissingJobs # {}
    /\ call' = [call EXCEPT ![c] = [NoCall EXCEPT !.pc = "repair",
                                                 !.left = MissingJobs]]
    /\ UNCHANGED vars

InsertMissing(c, o) ==
    /\ call[c].pc = "repair" /\ o \in call[c].left
    /\ IF attempt[o].status = "none"
       THEN /\ JobFree(c, o)
            /\ call' = [call EXCEPT ![c].left = @ \ {o},
                                    ![c].held = @ \cup {o}]
       ELSE call' = [call EXCEPT ![c].left = @ \ {o}]
    /\ UNCHANGED vars

(* The foreign key of a row, when it is not the last.                      *)
ShareOrder(c, o) ==
    /\ call[c].pc = "repair" /\ call[c].left = {}
    /\ o \in call[c].held \ call[c].taken
    /\ call[c].held \ call[c].taken # {o} /\ OrderFree(c, o)
    /\ call' = [call EXCEPT ![c].taken = @ \cup {o}]
    /\ UNCHANGED vars

CommitRepair(c) ==
    /\ call[c].pc = "repair" /\ call[c].left = {}
    /\ LET j == call[c]
       IN /\ \A o \in j.held \ j.taken : OrderFree(c, o)
          /\ attempt' = [o \in Orders |-> IF o \in j.held THEN PendingAttempt
                                         ELSE attempt[o]]
    /\ End(c) /\ UNCHANGED <<order, event, ledger, clock>>

-----------------------------------------------------------------------------

(* A statement or the commit fails, the client goes away, or the database  *)
(* breaks a deadlock: rollback.                                            *)
Abort(c) == call[c].pc # "idle" /\ End(c) /\ UNCHANGED vars

(* Time passes; rows are lost while no transaction works on their order.   *)
Environment ==
    /\ \E o \in Orders :
          \/ NextAttemptDue(o)
          \/ LeaseExpires(o)
          \/ /\ LoseAttempt(o)
             /\ \A c \in Callers : /\ call[c].order # o
                                   /\ o \notin call[c].left \cup call[c].held
    /\ UNCHANGED call

(* Nobody calls.                                                           *)
Quiet == (\A c \in Callers : call[c].pc = "idle") /\ UNCHANGED tvars

TNext ==
    \/ \E c \in Callers, o \in Orders :
         \/ \E amount \in Amounts : BeginCreate(c, o, amount)
         \/ \E e \in Events, kind \in Kinds, amount \in Amounts :
               BeginPayment(c, e, o, kind, amount)
         \/ \E result \in Results : BeginReport(c, o, result)
         \/ BeginClaim(c, o) \/ BeginRetry(c, o)
         \/ LockStale(c, o) \/ RecoverOrder(c, o)
         \/ InsertMissing(c, o) \/ ShareOrder(c, o)
    \/ \E c \in Callers :
         \/ InsertOrder(c) \/ ReadPending(c) \/ ApplyNext(c) \/ CommitCreate(c)
         \/ InsertEvent(c) \/ LockOrder(c) \/ CommitPayment(c)
         \/ LockClaimed(c) \/ CommitClaim(c)
         \/ LockReported(c) \/ CommitReport(c)
         \/ BeginRecovery(c) \/ CommitRecovery(c)
         \/ LockRetried(c) \/ MissRetried(c) \/ InsertRetried(c)
         \/ CommitRetry(c)
         \/ BeginRepair(c) \/ CommitRepair(c)
         \/ Abort(c)
    \/ Environment
    \/ Quiet

TSpec == TInit /\ [][TNext]_tvars
-----------------------------------------------------------------------------

(* A creation commits what Store's atomic CreateOrder does with the events *)
(* there are (the loop over them comes to what the first that matches      *)
(* decides), unless an event was committed after the loop had read them.   *)
CreationIsAtomic ==
    [][\A c \in Callers :
          CommitCreate(c) /\ Pending(call[c].order) = call[c].done
             => CreateOrder(call[c].order, call[c].amount)]_tvars

(* A webhook commits what Store's atomic ProcessPayment does, whatever     *)
(* other webhooks and deliveries of the same event_id, workers, retries    *)
(* and repairs do meanwhile, unless its order was committed after it had   *)
(* looked for it.                                                          *)
PaymentIsAtomic ==
    [][\A c \in Callers :
          CommitPayment(c) /\ FoundOrder(c) = Exists(call[c].order)
             => LET j == call[c]
                IN /\ ~Recorded(j.event)
                   /\ event'[j.event].processed = Exists(j.order)
                   /\ IF Exists(j.order) /\ order[j.order].amount = j.amount
                      THEN ApplyPayment(j.order, order[j.order], j.kind)
                      ELSE UNCHANGED <<order, attempt, ledger>>]_tvars

(* The transactions of workers, operators and the repair loop commit one   *)
(* of Store's atomic steps, though a claim does not look at the order      *)
(* again, a recovery and a repair act on snapshots and take the rows of    *)
(* several orders one by one, and a retry decides in three statements; a   *)
(* retry or a delivery that comes too late does nothing, and a recovery or *)
(* a repair does what it does to the orders it found as it thought.        *)
DeliverySideIsAtomic ==
    [][\A c \in Callers :
         LET o == call[c].order
         IN /\ CommitClaim(c) => ClaimNextJob(o)
            /\ CommitReport(c) =>
                  CASE call[c].kind = "failed" -> MarkFailed(o)
                    [] call[c].kind = "out_of_stock" -> MarkOutOfStock(o)
                    [] OTHER -> \E p \in Providers, code \in Codes :
                                   MarkDelivered(o, p, code)
            /\ CommitRecovery(c) => RecoverRows(call[c].held)
            /\ InsertRetried(c) => RetryDelivery(o)
            /\ CommitRetry(c) => RetryDelivery(o) \/ UNCHANGED vars
            /\ CommitRepair(c) => RepairRows(call[c].held)]_tvars

(* An event that came before its order is applied when the order is        *)
(* created: no event of an existing order waits for ever.                  *)
NoPaymentLeftBehind ==
    \A o \in Orders : Exists(o) => Pending(o) = {}
=============================================================================
