------------------------------- MODULE Store -------------------------------
(***************************************************************************)
(* The PostgreSQL tables of digital_store (orders, delivery_attempts,      *)
(* payment_events, ledger_entries) and the transactions that change them.  *)
(* One action is one committed transaction of order/repository.go,         *)
(* delivery/repository.go or reconciliation/service.go; a transaction that *)
(* fails rolls back and leaves every variable alone.  The statement-level  *)
(* interleaving is the subject of Transactions, the workers and suppliers  *)
(* behind these transactions of Delivery, the process of Application.      *)
(***************************************************************************)
EXTENDS Naturals

CONSTANTS
    Orders,     \* order ids
    Events,     \* payment event ids, chosen by the payment system
    Amounts,    \* (amount, currency) pairs: compared, never computed with
    Providers,  \* names stored in delivery_attempts.provider
    Codes,      \* product codes
    None,       \* SQL NULL
    RowLoss     \* TRUE: an operator may delete an idle delivery_attempts row

ASSUME StoreAssumption ==
    /\ None \notin Amounts \cup Providers \cup Codes \cup Orders
    /\ RowLoss \in BOOLEAN

VARIABLES
    order,      \* orders: status, price and whether paid_at is set
    attempt,    \* delivery_attempts: at most one row for an order
    event,      \* payment_events, keyed by event_id
    ledger,     \* how many ledger_entries of each type an order has
    clock       \* rank of the next received_at

vars == <<order, attempt, event, ledger, clock>>

OrderStatus == {"created", "paid", "payment_failed", "delivering",
                "delivered", "out_of_stock", "delivery_failed"}
AttemptStatus == {"pending", "processing", "delivered", "out_of_stock",
                  "failed"}
Kinds == {"paid", "failed"}         \* payload status of a payment webhook

NoOrder == [status |-> "absent", amount |-> None, paid |-> FALSE]
NoEvent == [status |-> "none", order |-> None, amount |-> None,
            processed |-> FALSE, at |-> 0]
NoAttempt == [status |-> "none", next |-> "null", lease |-> "null",
              provider |-> None, code |-> None]

Exists(o) == order[o].status # "absent"
Recorded(e) == event[e].status # "none"

(* next_attempt_at and locked_at are compared with now() only: next is     *)
(* "due" once next_attempt_at has passed, lease is "expired" once          *)
(* locked_at is older than the two minutes RecoverStaleJobs is given.      *)
TypeOK ==
    /\ order \in [Orders -> [status : OrderStatus \cup {"absent"},
                             amount : Amounts \cup {None},
                             paid : BOOLEAN]]
    /\ attempt \in [Orders -> [status : AttemptStatus \cup {"none"},
                               next : {"null", "due", "later"},
                               lease : {"null", "fresh", "expired"},
                               provider : Providers \cup {None},
                               code : Codes \cup {None}]]
    /\ event \in [Events -> [status : Kinds \cup {"none"},
                             order : Orders \cup {None},
                             amount : Amounts \cup {None},
                             processed : BOOLEAN,
                             at : Nat]]
    /\ ledger \in [Orders -> [payment : Nat, delivery : Nat]]
    /\ clock \in Nat

Init ==
    /\ order = [o \in Orders |-> NoOrder]
    /\ attempt = [o \in Orders |-> NoAttempt]
    /\ event = [e \in Events |-> NoEvent]
    /\ ledger = [o \in Orders |-> [payment |-> 0, delivery |-> 0]]
    /\ clock = 0

-----------------------------------------------------------------------------
(* Payments: order/repository.go.                                          *)

Idle == {"failed", "out_of_stock"}                  \* attempts to be retried

\* Faulty: orders whose delivery failed are forgotten.
ClaimableNotFailed == {"paid", "out_of_stock"}

Claimable == {"paid", "delivery_failed", "out_of_stock"}  \* orders with work

PendingAttempt == [NoAttempt EXCEPT !.status = "pending", !.next = "due"]

(* A paid event is acted on in every status but the two final ones.        *)
TakesPayment(row, kind) ==
    kind = "paid" /\ row.status \notin {"delivered", "payment_failed"}

(* Faulty variants, here and below, show that the properties notice them:  *)
(* a "failed" event that undoes a payment, one whose status is stored as   *)
(* it is.                                                                  *)
OrderAfterLateFailure(row, kind) ==
    CASE kind = "paid" /\ row.status = "created" ->
            [row EXCEPT !.status = "paid", !.paid = TRUE]
      [] kind = "failed" /\ row.status \in {"created", "paid"} ->
            [row EXCEPT !.status = "payment_failed"]
      [] OTHER -> row
OrderAfterUnmapped(row, kind) ==
    IF row.status = "created" THEN [row EXCEPT !.status = kind] ELSE row

OrderAfter(row, kind) ==
    CASE TakesPayment(row, kind)
         /\ row.status \in {"created", "out_of_stock", "delivery_failed"} ->
            [row EXCEPT !.status = "paid", !.paid = TRUE]
      [] kind = "failed" /\ row.status = "created" ->
            [row EXCEPT !.status = "payment_failed"]
      [] OTHER -> row

(* Faulty: the upsert lacks its WHERE and resets a running job.            *)
UpsertAttemptAlways(a) ==
    IF a.status = "none" THEN PendingAttempt
    ELSE [a EXCEPT !.status = "pending", !.next = "due"]

UpsertAttempt(a) ==
    CASE a.status = "none" -> PendingAttempt
      [] a.status \in Idle -> [a EXCEPT !.status = "pending", !.next = "due"]
      [] OTHER -> a

AttemptAfter(row, a, kind) ==
    IF TakesPayment(row, kind) THEN UpsertAttempt(a) ELSE a

(* Faulty: no ON CONFLICT, every paid event is booked.                     *)
LedgerAfterAgain(row, l, kind) ==
    IF TakesPayment(row, kind) THEN [l EXCEPT !.payment = @ + 1] ELSE l

LedgerAfter(row, l, kind) ==
    IF TakesPayment(row, kind) /\ l.payment = 0
    THEN [l EXCEPT !.payment = 1] ELSE l

ApplyPayment(o, row, kind) ==
    /\ order' = [order EXCEPT ![o] = OrderAfter(row, kind)]
    /\ attempt' = [attempt EXCEPT ![o] = AttemptAfter(row, @, kind)]
    /\ ledger' = [ledger EXCEPT ![o] = LedgerAfter(row, @, kind)]

(* Faulty: an event that comes before its order is marked processed.       *)
ProcessPaymentDropsEarly(e, o, kind, amount) ==
    \/ Recorded(e) /\ UNCHANGED vars
    \/ /\ ~Recorded(e)
       /\ event' = [event EXCEPT ![e] =
                      [status |-> kind, order |-> o, amount |-> amount,
                       processed |-> TRUE, at |-> clock]]
       /\ clock' = clock + 1
       /\ IF Exists(o) /\ order[o].amount = amount
          THEN ApplyPayment(o, order[o], kind)
          ELSE UNCHANGED <<order, attempt, ledger>>

(* A webhook: the event is stored once; it is applied at once when the     *)
(* order exists and the amount and currency agree, and left unprocessed    *)
(* when there is no such order yet.                                        *)
ProcessPayment(e, o, kind, amount) ==
    \/ Recorded(e) /\ UNCHANGED vars
    \/ /\ ~Recorded(e)
       /\ event' = [event EXCEPT ![e] =
                      [status |-> kind, order |-> o, amount |-> amount,
                       processed |-> Exists(o), at |-> clock]]
       /\ clock' = clock + 1
       /\ IF Exists(o) /\ order[o].amount = amount
          THEN ApplyPayment(o, order[o], kind)
          ELSE UNCHANGED <<order, attempt, ledger>>

Pending(o) == {e \in Events : /\ Recorded(e) /\ event[e].order = o
                              /\ ~event[e].processed}

(* The pending event that decides the order: applyPendingPayments goes     *)
(* through them by received_at, those of another amount do nothing, and    *)
(* after the first that matches no other changes the new order any more.   *)
Decisive(o, amount, e) ==
    /\ e \in Pending(o) /\ event[e].amount = amount
    /\ \A f \in Pending(o) :
          event[f].amount = amount => event[e].at <= event[f].at

CreateOrder(o, amount) ==
    /\ ~Exists(o)
    /\ LET row == [status |-> "created", amount |-> amount, paid |-> FALSE]
       IN \/ \E e \in Events : /\ Decisive(o, amount, e)
                               /\ ApplyPayment(o, row, event[e].status)
          \/ /\ \A e \in Pending(o) : event[e].amount # amount
             /\ order' = [order EXCEPT ![o] = row]
             /\ UNCHANGED <<attempt, ledger>>
    /\ event' = [e \in Events |-> IF e \in Pending(o)
                                  THEN [event[e] EXCEPT !.processed = TRUE]
                                  ELSE event[e]]
    /\ UNCHANGED clock

-----------------------------------------------------------------------------
(* Delivery jobs: delivery/repository.go.  A job names its row, nothing    *)
(* else: no lease number is compared, so whoever finds the row processing  *)
(* may finish it.                                                          *)

(* Faulty: locked_at is not set.                                           *)
ClaimUnlocked(o) ==
    /\ attempt[o].status \in {"pending"} \cup Idle
    /\ attempt[o].next # "later"
    /\ order[o].status \in Claimable
    /\ attempt' = [attempt EXCEPT ![o].status = "processing"]
    /\ order' = [order EXCEPT ![o].status = "delivering"]
    /\ UNCHANGED <<event, ledger, clock>>

ClaimNextJob(o) ==
    /\ attempt[o].status \in {"pending"} \cup Idle
    /\ attempt[o].next # "later"
    /\ order[o].status \in Claimable
    /\ attempt' = [attempt EXCEPT ![o].status = "processing",
                                  ![o].lease = "fresh"]
    /\ order' = [order EXCEPT ![o].status = "delivering"]
    /\ UNCHANGED <<event, ledger, clock>>

(* Faulty: the result is stored whatever has become of the row; the ledger *)
(* is forgotten.                                                           *)
MarkDeliveredBlindly(o, provider, code) ==
    /\ attempt' = [attempt EXCEPT
                     ![o] = [status |-> "delivered", next |-> "null",
                             lease |-> "null", provider |-> provider,
                             code |-> code]]
    /\ order' = [order EXCEPT ![o].status = "delivered"]
    /\ ledger' = [ledger EXCEPT ![o].delivery = IF @ = 0 THEN 1 ELSE @]
    /\ UNCHANGED <<event, clock>>
MarkDeliveredUnbooked(o, provider, code) ==
    /\ attempt[o].status = "processing"
    /\ order[o].status = "delivering"
    /\ attempt' = [attempt EXCEPT
                     ![o] = [status |-> "delivered", next |-> "null",
                             lease |-> "null", provider |-> provider,
                             code |-> code]]
    /\ order' = [order EXCEPT ![o].status = "delivered"]
    /\ UNCHANGED <<event, ledger, clock>>

MarkDelivered(o, provider, code) ==
    /\ attempt[o].status = "processing"
    /\ order[o].status = "delivering"
    /\ attempt' = [attempt EXCEPT
                     ![o] = [status |-> "delivered", next |-> "null",
                             lease |-> "null", provider |-> provider,
                             code |-> code]]
    /\ order' = [order EXCEPT ![o].status = "delivered"]
    /\ ledger' = [ledger EXCEPT ![o].delivery = IF @ = 0 THEN 1 ELSE @]
    /\ UNCHANGED <<event, clock>>

(* Faulty: no next attempt is scheduled.                                   *)
MarkUnscheduledFailure(o, deliveryStatus, orderStatus) ==
    /\ attempt[o].status = "processing"
    /\ attempt' = [attempt EXCEPT ![o].status = deliveryStatus,
                                  ![o].next = "null", ![o].lease = "null"]
    /\ order' = [order EXCEPT ![o].status = orderStatus]
    /\ UNCHANGED <<event, ledger, clock>>

MarkRecoverableFailure(o, deliveryStatus, orderStatus) ==
    /\ attempt[o].status = "processing"
    /\ attempt' = [attempt EXCEPT ![o].status = deliveryStatus,
                                  ![o].next = "later",
                                  ![o].lease = "null"]
    /\ order' = IF order[o].status = "delivering"
                THEN [order EXCEPT ![o].status = orderStatus]
                ELSE order
    /\ UNCHANGED <<event, ledger, clock>>

MarkOutOfStock(o) == MarkRecoverableFailure(o, "out_of_stock", "out_of_stock")
(* Faulty: the two statuses are swapped.                                   *)
MarkFailedSwapped(o) ==
    MarkRecoverableFailure(o, "delivery_failed", "failed")

MarkFailed(o) == MarkRecoverableFailure(o, "failed", "delivery_failed")

(* Faulty: the age of the lease is not looked at.                          *)
StaleAtOnce == {o \in Orders : attempt[o].status = "processing"}

Stale == {o \in Orders : /\ attempt[o].status = "processing"
                         /\ attempt[o].lease = "expired"}

(* Faulty: the orders stay "delivering".                                   *)
RecoverJobsOnly ==
    /\ Stale # {}
    /\ attempt' = [o \in Orders |->
                     IF o \in Stale
                     THEN [attempt[o] EXCEPT !.status = "failed",
                                             !.next = "due", !.lease = "null"]
                     ELSE attempt[o]]
    /\ UNCHANGED <<order, event, ledger, clock>>

(* What it does to those orders of S that have a stale job.                *)
RecoverRows(S) ==
    /\ attempt' = [o \in Orders |->
                     IF o \in S \cap Stale
                     THEN [attempt[o] EXCEPT !.status = "failed",
                                             !.next = "due",
                                             !.lease = "null"]
                     ELSE attempt[o]]
    /\ order' = [o \in Orders |->
                   IF o \in S \cap Stale /\ order[o].status = "delivering"
                   THEN [order[o] EXCEPT !.status = "delivery_failed"]
                   ELSE order[o]]
    /\ UNCHANGED <<event, ledger, clock>>

RecoverStaleJobs == Stale # {} /\ RecoverRows(Orders)

-----------------------------------------------------------------------------
(* Operator retry and repair: reconciliation/service.go.                   *)

RetryDelivery(o) ==
    /\ order[o].paid
    /\ order[o].status \notin {"absent", "created", "payment_failed",
                               "delivered"}
    /\ \/ /\ attempt[o].status = "none"
          /\ attempt' = [attempt EXCEPT ![o] = PendingAttempt]
          /\ order' = [order EXCEPT ![o].status = "paid"]
       \/ /\ attempt[o].status \in {"pending"} \cup Idle
          /\ attempt' = [attempt EXCEPT
                           ![o].status = "pending", ![o].next = "due",
                           ![o].lease = IF attempt[o].status \in Idle
                                        THEN "null" ELSE @]
          /\ order' = IF order[o].status \in Claimable
                      THEN [order EXCEPT ![o].status = "paid"]
                      ELSE order
    /\ UNCHANGED <<event, ledger, clock>>

MissingJobs == {o \in Orders : /\ order[o].paid
                               /\ order[o].status \in Claimable
                               /\ attempt[o].status = "none"}
UnscheduledJobs ==
    {o \in Orders : /\ order[o].paid
                    /\ order[o].status \in {"out_of_stock", "delivery_failed"}
                    /\ attempt[o].status \in Idle
                    /\ attempt[o].next = "null"}

(* Faulty: only orders never tried before get a new job.                   *)
RepairPaidOnly ==
    /\ \E o \in MissingJobs : order[o].status = "paid"
    /\ attempt' = [o \in Orders |->
                     IF o \in MissingJobs /\ order[o].status = "paid"
                     THEN PendingAttempt ELSE attempt[o]]
    /\ UNCHANGED <<order, event, ledger, clock>>

(* What it does to the orders of S.                                        *)
RepairRows(S) ==
    /\ attempt' = [o \in Orders |->
                     CASE o \in S \cap MissingJobs -> PendingAttempt
                       [] o \in S \cap UnscheduledJobs ->
                            [attempt[o] EXCEPT !.next = "due"]
                       [] OTHER -> attempt[o]]
    /\ UNCHANGED <<order, event, ledger, clock>>

Repair == MissingJobs \cup UnscheduledJobs # {} /\ RepairRows(Orders)

-----------------------------------------------------------------------------
(* The environment: time passes, and, where RowLoss allows it, somebody    *)
(* deletes a row no worker holds, the damage Repair exists for.            *)

NextAttemptDue(o) ==
    /\ attempt[o].next = "later"
    /\ attempt' = [attempt EXCEPT ![o].next = "due"]
    /\ UNCHANGED <<order, event, ledger, clock>>

LeaseExpires(o) ==
    /\ attempt[o].lease = "fresh"
    /\ attempt' = [attempt EXCEPT ![o].lease = "expired"]
    /\ UNCHANGED <<order, event, ledger, clock>>

LoseAttempt(o) ==
    /\ RowLoss
    /\ attempt[o].status \in {"pending"} \cup Idle
    /\ attempt' = [attempt EXCEPT ![o] = NoAttempt]
    /\ UNCHANGED <<order, event, ledger, clock>>

-----------------------------------------------------------------------------

Next ==
    \/ \E o \in Orders, amount \in Amounts : CreateOrder(o, amount)
    \/ \E e \in Events, o \in Orders, kind \in Kinds, amount \in Amounts :
          ProcessPayment(e, o, kind, amount)
    \/ \E o \in Orders, p \in Providers, c \in Codes : MarkDelivered(o, p, c)
    \/ \E o \in Orders : \/ ClaimNextJob(o)
                         \/ MarkOutOfStock(o)
                         \/ MarkFailed(o)
                         \/ RetryDelivery(o)
                         \/ NextAttemptDue(o)
                         \/ LeaseExpires(o)
                         \/ LoseAttempt(o)
    \/ RecoverStaleJobs
    \/ Repair

Spec == Init /\ [][Next]_vars
-----------------------------------------------------------------------------
(* What the tables promise.                                                *)

(* Every transaction moves the orders row and its delivery_attempts row    *)
(* together: claims, results, recovery, late payments and retries of       *)
(* several actors never leave them in statuses that contradict each other. *)
StatusPairs ==
    {<<"absent", "none">>, <<"created", "none">>, <<"payment_failed", "none">>,
     <<"paid", "pending">>, <<"delivering", "processing">>,
     <<"delivered", "delivered">>, <<"out_of_stock", "out_of_stock">>,
     <<"delivery_failed", "failed">>}
LossPairs == {<<s, a>> : s \in Claimable, a \in {"none", "pending"}}

StatusAgreement ==
    \A o \in Orders : <<order[o].status, attempt[o].status>>
                        \in StatusPairs \cup (IF RowLoss THEN LossPairs ELSE {})

(* Money and goods are booked exactly once: one payment entry once the     *)
(* order is paid and none before, however often it is paid, requeued or    *)
(* repaired; one delivery entry once it is delivered and none before.      *)
LedgerAgreement ==
    \A o \in Orders :
        /\ ledger[o].payment = (IF order[o].paid THEN 1 ELSE 0)
        /\ ledger[o].delivery = (IF order[o].status = "delivered" THEN 1 ELSE 0)

(* The audit of BuildReport: what findDeliveredNotPaid, findStatusMismatches*)
(* and findLedgerMismatches select.                                        *)
DeliveredNotPaid ==
    {o \in Orders : /\ attempt[o].status = "delivered"
                    /\ ~order[o].paid \/ ledger[o].payment = 0}
StatusMismatches ==
    {o \in Orders : /\ Exists(o) /\ attempt[o].status # "none"
                    /\ (order[o].status = "delivered")
                         # (attempt[o].status = "delivered")}
LedgerMismatches ==
    {o \in Orders : \/ order[o].paid /\ ledger[o].payment # 1
                    \/ /\ order[o].status = "delivered"
                       /\ ledger[o].delivery # 1}
PaidNotDelivered ==
    {o \in Orders : /\ order[o].paid \/ ledger[o].payment > 0
                    /\ attempt[o].status # "delivered"}

(* The four queries of one report read four different states.  The report  *)
(* is meaningful all the same: in every state the last three are empty,    *)
(* and an order missing from the first is delivered or not paid.           *)
AuditClean ==
    /\ DeliveredNotPaid \cup StatusMismatches \cup LedgerMismatches = {}
    /\ \A o \in Orders \ PaidNotDelivered :
          order[o].status \in {"absent", "created", "payment_failed",
                               "delivered"}

(* The first matching event in order of arrival decides an order, whether  *)
(* it came before the order or after it: a later "failed" does not undo a  *)
(* payment, a later "paid" does not revive a failed one, an event of       *)
(* another amount decides nothing, and no event of an existing order is    *)
(* left waiting.                                                           *)
Matching(o) == {e \in Events : /\ Recorded(e) /\ event[e].order = o
                               /\ event[e].amount = order[o].amount}
First(o, e) == /\ e \in Matching(o)
               /\ \A f \in Matching(o) : event[e].at <= event[f].at
FirstMatchWins ==
    \A o \in Orders :
        Exists(o) =>
            /\ Pending(o) = {}
            /\ order[o].status = "created" <=> Matching(o) = {}
            /\ \A e \in Events : First(o, e) =>
                 /\ order[o].paid <=> event[e].status = "paid"
                 /\ order[o].status = "payment_failed"
                      <=> event[e].status = "failed"

(* A paid order that is not delivered is always somebody's business: its   *)
(* job is scheduled and ClaimNextJob will select it, or is running under a *)
(* lease that RecoverStaleJobs can expire, or (rows may be lost) is one of *)
(* those Repair inserts.  The second statement of Repair finds no work.    *)
PaidOrderHasJob ==
    \A o \in Orders : order[o].paid /\ order[o].status # "delivered" =>
        \/ /\ attempt[o].status \in {"pending"} \cup Idle
           /\ attempt[o].next # "null"
           /\ order[o].status \in Claimable
        \/ attempt[o].status = "processing" /\ attempt[o].lease # "null"
        \/ RowLoss /\ o \in MissingJobs

(* Nothing rewrites a delivered row: not the second result of a job that   *)
(* two workers ended up with, not a payment, a retry or a repair.          *)
DeliveredIsFinal ==
    [][\A o \in Orders : attempt[o].status = "delivered" =>
          /\ attempt'[o] = attempt[o]
          /\ order'[o] = order[o]
          /\ ledger'[o] = ledger[o]]_vars

(* A running job is never thrown back into the queue while a call to a     *)
(* supplier may be in flight: not by a second payment, a retry or a repair *)
(* but only by a result of its own or an expired lease.                    *)
RunningJobIsLeftAlone ==
    [][\A o \in Orders : attempt[o].status = "processing" =>
          /\ attempt'[o].status \notin {"none", "pending"}
          /\ attempt'[o].status = "failed" /\ attempt'[o].next = "due"
                => attempt[o].lease = "expired"]_vars

(* A job whose row was lost comes back while its order waits for it.       *)
MissingJobIsRecreated ==
    \A o \in Orders : (o \in MissingJobs) ~> (attempt[o].status # "none")

(* The tables implement the status graph of OrderLifecycle.                *)
Lifecycle == INSTANCE OrderLifecycle WITH
                 status <- [o \in Orders |-> order[o].status],
                 sold <- [o \in Orders |-> attempt[o].code]
ImplementsLifecycle == Lifecycle!Spec
=============================================================================
