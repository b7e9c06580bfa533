---------------------------- MODULE StoreProofs ----------------------------
(***************************************************************************)
(* What the tables of Store promise, proved for any number of orders,      *)
(* events, suppliers and codes.                                            *)
(***************************************************************************)
EXTENDS Store, TLAPS

PaidStatus == {"paid", "delivering", "delivered", "out_of_stock",
               "delivery_failed"}

Pairs == StatusPairs \cup (IF RowLoss THEN LossPairs ELSE {})

(* What every transaction relies on and restores, for the rows of one      *)
(* order: the two statuses agree, paid_at is set in the statuses a payment *)
(* leads to, the ledger has one entry for each thing that happened, a job  *)
(* that waits is scheduled, one that runs is leased, and one that is       *)
(* finished is neither.                                                    *)
StatusesAgree(r, a) == <<r.status, a.status>> \in Pairs
PaidAgrees(r) == r.paid <=> r.status \in PaidStatus
LedgerAgrees(r, l) == /\ l.payment = IF r.paid THEN 1 ELSE 0
                      /\ l.delivery = IF r.status = "delivered" THEN 1 ELSE 0
JobAgrees(a) ==
    /\ a.status \in {"pending"} \cup Idle => a.next # "null"
    /\ a.status = "processing" => a.lease # "null"
    /\ a.status = "delivered" => a.next = "null" /\ a.lease = "null"

RowsAgree(r, a, l) == /\ StatusesAgree(r, a) /\ PaidAgrees(r)
                      /\ LedgerAgrees(r, l) /\ JobAgrees(a)

RowsInv == \A o \in Orders : RowsAgree(order[o], attempt[o], ledger[o])

IInv == TypeOK /\ RowsInv

-----------------------------------------------------------------------------
(* The rows a payment leaves are rows.                                     *)
OrderRow == [status : OrderStatus \cup {"absent"},
             amount : Amounts \cup {None}, paid : BOOLEAN]
AttemptRow == [status : AttemptStatus \cup {"none"},
               next : {"null", "due", "later"},
               lease : {"null", "fresh", "expired"},
               provider : Providers \cup {None}, code : Codes \cup {None}]
EventRow == [status : Kinds \cup {"none"}, order : Orders \cup {None},
             amount : Amounts \cup {None}, processed : BOOLEAN, at : Nat]
LedgerRow == [payment : Nat, delivery : Nat]

LEMMA PaymentRows ==
    ASSUME NEW r \in OrderRow, NEW a \in AttemptRow, NEW l \in LedgerRow,
           NEW kind \in Kinds
    PROVE  /\ OrderAfter(r, kind) \in OrderRow
           /\ AttemptAfter(r, a, kind) \in AttemptRow
           /\ LedgerAfter(r, l, kind) \in LedgerRow
<1>1. OrderAfter(r, kind) \in OrderRow
  BY DEF OrderRow, OrderAfter, OrderStatus
<1>2. AttemptAfter(r, a, kind) \in AttemptRow
  BY DEF AttemptRow, AttemptAfter, UpsertAttempt, PendingAttempt, NoAttempt,
         AttemptStatus, Idle
<1>3. LedgerAfter(r, l, kind) \in LedgerRow
  BY DEF LedgerRow, LedgerAfter
<1>4. QED BY <1>1, <1>2, <1>3

LEMMA OrderRowUpdate ==
    ASSUME NEW r \in OrderRow, NEW s \in OrderStatus
    PROVE  [r EXCEPT !.status = s] \in OrderRow
  BY DEF OrderRow

LEMMA AttemptRowUpdate ==
    ASSUME NEW a \in AttemptRow, NEW s \in AttemptStatus,
           NEW n \in {"null", "due", "later"},
           NEW l \in {"null", "fresh", "expired"}
    PROVE  /\ [a EXCEPT !.status = s, !.lease = l] \in AttemptRow
           /\ [a EXCEPT !.status = s, !.next = n, !.lease = l] \in AttemptRow
  BY DEF AttemptRow

LEMMA TypeInit == Init => TypeOK
  BY DEF Init, TypeOK, NoOrder, NoAttempt, NoEvent

LEMMA TypeRows == TypeOK <=> /\ order \in [Orders -> OrderRow]
                             /\ attempt \in [Orders -> AttemptRow]
                             /\ event \in [Events -> EventRow]
                             /\ ledger \in [Orders -> LedgerRow]
                             /\ clock \in Nat
  BY DEF TypeOK, OrderRow, AttemptRow, EventRow, LedgerRow

(* A recovery and a repair, of whichever orders.                           *)
LEMMA PartTypes ==
    ASSUME TypeOK, NEW S, RecoverRows(S) \/ RepairRows(S)
    PROVE  /\ order' \in [Orders -> OrderRow]
           /\ attempt' \in [Orders -> AttemptRow]
           /\ UNCHANGED <<event, ledger, clock>>
<1>r. order \in [Orders -> OrderRow] /\ attempt \in [Orders -> AttemptRow]
  BY TypeRows
<1>1. CASE RecoverRows(S)
  <2>1. \A o \in Orders :
          /\ [order[o] EXCEPT !.status = "delivery_failed"] \in OrderRow
          /\ [attempt[o] EXCEPT !.status = "failed", !.next = "due",
                                !.lease = "null"] \in AttemptRow
    BY <1>r, OrderRowUpdate, AttemptRowUpdate DEF OrderStatus, AttemptStatus
  <2>2. QED BY <1>r, <1>1, <2>1 DEF RecoverRows
<1>2. CASE RepairRows(S)
  BY <1>r, <1>2 DEF RepairRows, PendingAttempt, NoAttempt, AttemptRow,
                    AttemptStatus
<1>3. QED BY <1>1, <1>2

(* Every transaction keeps the tables well typed.                          *)
LEMMA TypeNext == TypeOK /\ [Next]_vars => TypeOK'
<1> SUFFICES ASSUME TypeOK, [Next]_vars PROVE TypeOK'
  OBVIOUS
<1>r. /\ order \in [Orders -> OrderRow]
      /\ attempt \in [Orders -> AttemptRow]
      /\ event \in [Events -> EventRow]
      /\ ledger \in [Orders -> LedgerRow]
      /\ clock \in Nat
  BY TypeRows
<1> SUFFICES /\ order' \in [Orders -> OrderRow]
             /\ attempt' \in [Orders -> AttemptRow]
             /\ event' \in [Events -> EventRow]
             /\ ledger' \in [Orders -> LedgerRow]
             /\ clock' \in Nat
  BY DEF TypeOK, OrderRow, AttemptRow, EventRow, LedgerRow
<1>1. ASSUME NEW o \in Orders, NEW amount \in Amounts, CreateOrder(o, amount)
      PROVE  /\ order' \in [Orders -> OrderRow]
             /\ attempt' \in [Orders -> AttemptRow]
             /\ event' \in [Events -> EventRow]
             /\ ledger' \in [Orders -> LedgerRow]
             /\ clock' \in Nat
  <2> DEFINE row == [status |-> "created", amount |-> amount, paid |-> FALSE]
  <2>1. row \in OrderRow
    BY DEF OrderRow, OrderStatus
  <2>2. event' \in [Events -> EventRow] /\ clock' \in Nat
    <3>1. event' = [e \in Events |-> IF e \in Pending(o)
                                     THEN [event[e] EXCEPT !.processed = TRUE]
                                     ELSE event[e]] /\ clock' = clock
      BY <1>1 DEF CreateOrder
    <3>2. \A e \in Events : /\ event[e] \in EventRow
                             /\ [event[e] EXCEPT !.processed = TRUE] \in EventRow
      BY <1>r DEF EventRow
    <3>3. QED BY <1>r, <3>1, <3>2
  <2>3. ASSUME NEW e \in Events, Decisive(o, amount, e),
               ApplyPayment(o, row, event[e].status)
        PROVE  /\ order' \in [Orders -> OrderRow]
               /\ attempt' \in [Orders -> AttemptRow]
               /\ ledger' \in [Orders -> LedgerRow]
    <3>1. event[e].status \in Kinds
      BY <1>r, <2>3 DEF Decisive, Pending, Recorded, EventRow, Kinds
    <3>2. /\ OrderAfter(row, event[e].status) \in OrderRow
          /\ AttemptAfter(row, attempt[o], event[e].status) \in AttemptRow
          /\ LedgerAfter(row, ledger[o], event[e].status) \in LedgerRow
      BY <1>r, <2>1, <3>1, PaymentRows
    <3>3. QED BY <1>r, <2>3, <3>2 DEF ApplyPayment
  <2>4. CASE /\ order' = [order EXCEPT ![o] = row]
             /\ UNCHANGED <<attempt, ledger>>
    BY <1>r, <2>1, <2>2, <2>4
  <2>5. QED BY <1>1, <2>2, <2>3, <2>4 DEF CreateOrder
<1>2. ASSUME NEW e \in Events, NEW o \in Orders, NEW kind \in Kinds,
             NEW amount \in Amounts, ProcessPayment(e, o, kind, amount)
      PROVE  /\ order' \in [Orders -> OrderRow]
             /\ attempt' \in [Orders -> AttemptRow]
             /\ event' \in [Events -> EventRow]
             /\ ledger' \in [Orders -> LedgerRow]
             /\ clock' \in Nat
  <2>1. CASE UNCHANGED vars
    BY <1>r, <2>1 DEF vars
  <2>2. CASE ~Recorded(e)
    <3>1. /\ event' = [event EXCEPT ![e] =
                         [status |-> kind, order |-> o, amount |-> amount,
                          processed |-> Exists(o), at |-> clock]]
          /\ clock' = clock + 1
      BY <1>2, <2>2 DEF ProcessPayment
    <3>2. event' \in [Events -> EventRow] /\ clock' \in Nat
      BY <1>r, <3>1 DEF EventRow, Exists
    <3>3. CASE ApplyPayment(o, order[o], kind)
      <4>1. /\ OrderAfter(order[o], kind) \in OrderRow
            /\ AttemptAfter(order[o], attempt[o], kind) \in AttemptRow
            /\ LedgerAfter(order[o], ledger[o], kind) \in LedgerRow
        BY <1>r, PaymentRows
      <4>2. QED BY <1>r, <3>2, <3>3, <4>1 DEF ApplyPayment
    <3>4. CASE UNCHANGED <<order, attempt, ledger>>
      BY <1>r, <3>2, <3>4
    <3>5. QED BY <1>2, <2>2, <3>3, <3>4 DEF ProcessPayment
  <2>3. QED BY <1>2, <2>1, <2>2 DEF ProcessPayment
<1>3. ASSUME NEW o \in Orders, NEW p \in Providers, NEW c \in Codes,
             MarkDelivered(o, p, c)
      PROVE  /\ order' \in [Orders -> OrderRow]
             /\ attempt' \in [Orders -> AttemptRow]
             /\ event' \in [Events -> EventRow]
             /\ ledger' \in [Orders -> LedgerRow]
             /\ clock' \in Nat
  <2>1. [order[o] EXCEPT !.status = "delivered"] \in OrderRow
    BY <1>r, OrderRowUpdate DEF OrderStatus
  <2>2. [status |-> "delivered", next |-> "null", lease |-> "null",
         provider |-> p, code |-> c] \in AttemptRow
    BY DEF AttemptRow, AttemptStatus
  <2>3. \A n \in Nat : [ledger[o] EXCEPT !.delivery = n] \in LedgerRow
    BY <1>r DEF LedgerRow
  <2>4. ledger' \in [Orders -> LedgerRow]
    <3>1. ledger[o].delivery \in Nat
      BY <1>r DEF LedgerRow
    <3>2. QED BY <1>r, <1>3, <2>3, <3>1 DEF MarkDelivered
  <2>5. QED BY <1>r, <1>3, <2>1, <2>2, <2>4 DEF MarkDelivered
<1>4. ASSUME NEW o \in Orders, ClaimNextJob(o)
      PROVE  /\ order' \in [Orders -> OrderRow]
             /\ attempt' \in [Orders -> AttemptRow]
             /\ UNCHANGED <<event, ledger, clock>>
  <2>1. [order[o] EXCEPT !.status = "delivering"] \in OrderRow
    BY <1>r, OrderRowUpdate DEF OrderStatus
  <2>2. [attempt[o] EXCEPT !.status = "processing", !.lease = "fresh"]
          \in AttemptRow
    BY <1>r, AttemptRowUpdate DEF AttemptStatus
  <2>3. QED BY <1>r, <1>4, <2>1, <2>2 DEF ClaimNextJob
<1>5. ASSUME NEW o \in Orders, MarkOutOfStock(o) \/ MarkFailed(o)
      PROVE  /\ order' \in [Orders -> OrderRow]
             /\ attempt' \in [Orders -> AttemptRow]
             /\ UNCHANGED <<event, ledger, clock>>
  <2>1. ASSUME NEW d \in Idle, NEW s \in Claimable,
               MarkRecoverableFailure(o, d, s)
        PROVE  /\ order' \in [Orders -> OrderRow]
               /\ attempt' \in [Orders -> AttemptRow]
               /\ UNCHANGED <<event, ledger, clock>>
    <3>1. [order[o] EXCEPT !.status = s] \in OrderRow
      BY <1>r, OrderRowUpdate DEF Claimable, OrderStatus
    <3>2. [attempt[o] EXCEPT !.status = d, !.next = "later", !.lease = "null"]
            \in AttemptRow
      BY <1>r, AttemptRowUpdate DEF Idle, AttemptStatus
    <3>3. QED BY <1>r, <2>1, <3>1, <3>2 DEF MarkRecoverableFailure
  <2>2. QED BY <1>5, <2>1 DEF MarkOutOfStock, MarkFailed, Idle, Claimable
<1>6. ASSUME NEW o \in Orders, RetryDelivery(o)
      PROVE  /\ order' \in [Orders -> OrderRow]
             /\ attempt' \in [Orders -> AttemptRow]
             /\ UNCHANGED <<event, ledger, clock>>
  <2>1. [order[o] EXCEPT !.status = "paid"] \in OrderRow
    BY <1>r, OrderRowUpdate DEF OrderStatus
  <2>2. CASE attempt[o].status = "none"
    <3>1. PendingAttempt \in AttemptRow
      BY DEF PendingAttempt, NoAttempt, AttemptRow, AttemptStatus
    <3>2. QED BY <1>r, <1>6, <2>1, <2>2, <3>1 DEF RetryDelivery, Idle
  <2>3. CASE attempt[o].status # "none"
    <3>1. attempt[o].lease \in {"null", "fresh", "expired"}
      BY <1>r DEF AttemptRow
    <3>2. \A l \in {"null", "fresh", "expired"} :
            [attempt[o] EXCEPT !.status = "pending", !.next = "due",
                               !.lease = l] \in AttemptRow
      BY <1>r, AttemptRowUpdate DEF AttemptStatus
    <3>3. attempt' \in [Orders -> AttemptRow]
      BY <1>r, <1>6, <2>3, <3>1, <3>2 DEF RetryDelivery
    <3>4. QED BY <1>r, <1>6, <2>1, <2>3, <3>3 DEF RetryDelivery
  <2>4. QED BY <2>2, <2>3
<1>7. ASSUME NEW o \in Orders,
             NextAttemptDue(o) \/ LeaseExpires(o) \/ LoseAttempt(o)
      PROVE  /\ attempt' \in [Orders -> AttemptRow]
             /\ UNCHANGED <<order, event, ledger, clock>>
  BY <1>r, <1>7 DEF NextAttemptDue, LeaseExpires, LoseAttempt, NoAttempt,
                    AttemptRow
<1>8. ASSUME RecoverStaleJobs \/ Repair
      PROVE  /\ order' \in [Orders -> OrderRow]
             /\ attempt' \in [Orders -> AttemptRow]
             /\ UNCHANGED <<event, ledger, clock>>
  BY <1>8, PartTypes DEF RecoverStaleJobs, Repair
<1>9. CASE UNCHANGED vars
  BY <1>r, <1>9 DEF vars
<1>10. QED
  BY <1>r, <1>1, <1>2, <1>3, <1>4, <1>5, <1>6, <1>7, <1>8, <1>9 DEF Next

(* The tables hold rows of the kinds the schema allows, at all times.      *)
THEOREM TypeCorrect == Spec => []TypeOK
<1>1. QED BY TypeInit, TypeNext, PTL DEF Spec
-----------------------------------------------------------------------------
(* A payment event turns rows that agree into rows that agree.             *)
LEMMA PaymentAgrees ==
    ASSUME NEW r \in OrderRow, NEW a \in AttemptRow, NEW l \in LedgerRow,
           NEW kind \in Kinds, RowsAgree(r, a, l), r.status # "absent"
    PROVE  RowsAgree(OrderAfter(r, kind), AttemptAfter(r, a, kind),
                     LedgerAfter(r, l, kind))
<1> DEFINE r1 == OrderAfter(r, kind)
           a1 == AttemptAfter(r, a, kind)
           l1 == LedgerAfter(r, l, kind)
<1>1. CASE TakesPayment(r, kind)
  <2>1. r1.status \in {"paid", "delivering"} /\ r1.paid
    BY <1>1 DEF OrderRow, OrderStatus, OrderAfter, TakesPayment, RowsAgree,
                PaidAgrees, PaidStatus
  <2>2. StatusesAgree(r1, a1)
    BY <1>1, StoreAssumption
    DEF OrderRow, AttemptRow, OrderStatus, AttemptStatus, OrderAfter,
        AttemptAfter, UpsertAttempt, PendingAttempt, NoAttempt, Idle,
        TakesPayment, RowsAgree, StatusesAgree, Pairs, StatusPairs, LossPairs,
        Claimable
  <2>3. LedgerAgrees(r1, l1)
    BY <1>1, <2>1 DEF LedgerRow, LedgerAfter, TakesPayment, RowsAgree,
                      LedgerAgrees
  <2>4. JobAgrees(a1)
    BY <1>1 DEF AttemptRow, AttemptAfter, UpsertAttempt, PendingAttempt,
                NoAttempt, Idle, RowsAgree, JobAgrees
  <2>5. QED BY <2>1, <2>2, <2>3, <2>4 DEF RowsAgree, PaidAgrees, PaidStatus
<1>2. CASE ~TakesPayment(r, kind)
  <2>1. a1 = a /\ l1 = l
    BY <1>2 DEF AttemptAfter, LedgerAfter
  <2>2. CASE r1 = r
    BY <2>1, <2>2
  <2>3. CASE kind = "failed" /\ r.status = "created"
    <3>1. r1.status = "payment_failed" /\ r1.paid = r.paid
      BY <1>2, <2>3 DEF OrderRow, OrderAfter
    <3>2. a.status = "none"
      BY <2>3 DEF RowsAgree, StatusesAgree, Pairs, StatusPairs, LossPairs,
                  Claimable
    <3>3. StatusesAgree(r1, a1)
      BY <2>1, <3>1, <3>2 DEF StatusesAgree, Pairs, StatusPairs
    <3>4. QED BY <2>1, <2>3, <3>1, <3>3
              DEF RowsAgree, PaidAgrees, PaidStatus, LedgerAgrees
  <2>4. QED BY <1>2, <2>2, <2>3 DEF OrderAfter
<1>3. QED BY <1>1, <1>2
-----------------------------------------------------------------------------
(* A transaction that writes the rows of one order.                        *)
LEMMA OneOrder ==
    ASSUME TypeOK, RowsInv, NEW o \in Orders,
           \A q \in Orders \ {o} : /\ order'[q] = order[q]
                                    /\ attempt'[q] = attempt[q]
                                    /\ ledger'[q] = ledger[q],
           RowsAgree(order'[o], attempt'[o], ledger'[o])
    PROVE  RowsInv'
<1> SUFFICES ASSUME NEW q \in Orders
             PROVE  RowsAgree(order'[q], attempt'[q], ledger'[q])
  BY DEF RowsInv
<1>1. CASE q = o
  BY <1>1
<1>2. CASE q # o
  BY <1>2 DEF RowsInv
<1>3. QED BY <1>1, <1>2

LEMMA CreateAgrees ==
    ASSUME IInv, NEW o \in Orders, NEW amount \in Amounts,
           CreateOrder(o, amount)
    PROVE  RowsInv'
<1> DEFINE row == [status |-> "created", amount |-> amount, paid |-> FALSE]
<1>1. /\ order \in [Orders -> OrderRow] /\ attempt \in [Orders -> AttemptRow]
      /\ event \in [Events -> EventRow] /\ ledger \in [Orders -> LedgerRow]
      /\ TypeOK /\ RowsInv
  BY TypeRows DEF IInv
<1>2. order[o].status = "absent" /\ attempt[o].status = "none"
  <2>1. order[o].status = "absent"
    BY DEF CreateOrder, Exists
  <2>2. <<order[o].status, attempt[o].status>> \in Pairs
    BY <1>1 DEF RowsInv, RowsAgree, StatusesAgree
  <2>3. QED BY <2>1, <2>2 DEF Pairs, StatusPairs, LossPairs, Claimable
<1>3. row \in OrderRow
  BY DEF OrderRow, OrderStatus
<1>4. RowsAgree(row, attempt[o], ledger[o])
  BY <1>1, <1>2 DEF RowsInv, RowsAgree, StatusesAgree, Pairs, StatusPairs,
                    PaidAgrees, PaidStatus, LedgerAgrees
<1>5. CASE /\ order' = [order EXCEPT ![o] = row]
           /\ UNCHANGED <<attempt, ledger>>
  BY <1>1, <1>4, <1>5, OneOrder
<1>6. ASSUME NEW e \in Events, Decisive(o, amount, e),
             ApplyPayment(o, row, event[e].status)
      PROVE  RowsInv'
  <2>1. event[e].status \in Kinds
    BY <1>1, <1>6 DEF Decisive, Pending, Recorded, EventRow, Kinds
  <2>2. RowsAgree(OrderAfter(row, event[e].status),
                  AttemptAfter(row, attempt[o], event[e].status),
                  LedgerAfter(row, ledger[o], event[e].status))
    BY <1>1, <1>3, <1>4, <2>1, PaymentAgrees
  <2>3. QED BY <1>1, <1>6, <2>2, OneOrder DEF ApplyPayment
<1>7. QED BY <1>5, <1>6 DEF CreateOrder

LEMMA ProcessAgrees ==
    ASSUME IInv, NEW e \in Events, NEW o \in Orders, NEW kind \in Kinds,
           NEW amount \in Amounts, ProcessPayment(e, o, kind, amount)
    PROVE  RowsInv'
<1>1. /\ order \in [Orders -> OrderRow] /\ attempt \in [Orders -> AttemptRow]
      /\ ledger \in [Orders -> LedgerRow] /\ TypeOK /\ RowsInv
  BY TypeRows DEF IInv
<1>2. CASE UNCHANGED <<order, attempt, ledger>>
  BY <1>1, <1>2 DEF RowsInv
<1>3. CASE Exists(o) /\ ApplyPayment(o, order[o], kind)
  <2>1. RowsAgree(OrderAfter(order[o], kind),
                  AttemptAfter(order[o], attempt[o], kind),
                  LedgerAfter(order[o], ledger[o], kind))
    BY <1>1, <1>3, PaymentAgrees DEF Exists, RowsInv
  <2>2. QED BY <1>1, <1>3, <2>1, OneOrder DEF ApplyPayment
<1>4. QED BY <1>2, <1>3 DEF ProcessPayment, vars

LEMMA DeliverAgrees ==
    ASSUME IInv, NEW o \in Orders, NEW p \in Providers, NEW c \in Codes,
           MarkDelivered(o, p, c)
    PROVE  RowsInv'
<1>1. /\ order \in [Orders -> OrderRow] /\ attempt \in [Orders -> AttemptRow]
      /\ ledger \in [Orders -> LedgerRow] /\ TypeOK /\ RowsInv
  BY TypeRows DEF IInv
<1>2. /\ order'[o].status = "delivered" /\ order'[o].paid = order[o].paid
      /\ attempt'[o].status = "delivered" /\ attempt'[o].next = "null"
      /\ attempt'[o].lease = "null"
      /\ ledger'[o].payment = ledger[o].payment
      /\ ledger[o].delivery = 0 => ledger'[o].delivery = 1
  BY <1>1 DEF MarkDelivered, OrderRow, LedgerRow
<1>3. order[o].status = "delivering" /\ ledger[o].delivery = 0 /\ order[o].paid
  BY <1>1 DEF MarkDelivered, RowsInv, RowsAgree, LedgerAgrees, PaidAgrees,
              PaidStatus, OrderRow
<1>4. RowsAgree(order'[o], attempt'[o], ledger'[o])
  BY <1>1, <1>2, <1>3 DEF RowsInv, RowsAgree, StatusesAgree, Pairs,
     StatusPairs, PaidAgrees, PaidStatus, LedgerAgrees, JobAgrees, Idle
<1>5. QED BY <1>1, <1>4, OneOrder DEF MarkDelivered

(* A transaction that moves an order between statuses a paid order may     *)
(* have before it is delivered, its job with it.                           *)
LEMMA MoveAgrees ==
    ASSUME NEW r, NEW a, NEW l, NEW r1, NEW a1, RowsAgree(r, a, l),
           r.status \in PaidStatus \ {"delivered"},
           r1.status \in PaidStatus \ {"delivered"}, r1.paid = r.paid,
           <<r1.status, a1.status>> \in Pairs, JobAgrees(a1)
    PROVE  RowsAgree(r1, a1, l)
  BY DEF RowsAgree, StatusesAgree, PaidAgrees, LedgerAgrees

(* A claim: a waiting job starts to run.                                   *)
LEMMA ClaimAgrees ==
    ASSUME IInv, NEW o \in Orders, ClaimNextJob(o)
    PROVE  RowsInv'
<1>1. /\ order \in [Orders -> OrderRow] /\ attempt \in [Orders -> AttemptRow]
      /\ TypeOK /\ RowsInv
  BY TypeRows DEF IInv
<1>2. /\ order'[o].status = "delivering" /\ order'[o].paid = order[o].paid
      /\ attempt'[o].status = "processing" /\ attempt'[o].lease = "fresh"
  BY <1>1 DEF ClaimNextJob, OrderRow, AttemptRow
<1>3. order[o].status \in PaidStatus \ {"delivered"}
  BY DEF ClaimNextJob, Claimable, PaidStatus
<1>4. JobAgrees(attempt'[o]) /\ <<"delivering", "processing">> \in Pairs
  BY <1>2 DEF JobAgrees, Idle, Pairs, StatusPairs
<1>5. RowsAgree(order'[o], attempt'[o], ledger[o])
  BY <1>1, <1>2, <1>3, <1>4, MoveAgrees DEF RowsInv, PaidStatus
<1>6. QED BY <1>1, <1>5, OneOrder DEF ClaimNextJob

(* Only an order that is being delivered has a running job.                *)
LEMMA RunningJob ==
    ASSUME RowsInv, NEW o \in Orders, attempt[o].status = "processing"
    PROVE  order[o].status = "delivering"
<1>1. <<order[o].status, attempt[o].status>> \in Pairs
  BY DEF RowsInv, RowsAgree, StatusesAgree
<1>2. QED BY <1>1 DEF Pairs, StatusPairs, LossPairs

(* An order whose job waits may be claimed.                                *)
LEMMA WaitingJob ==
    ASSUME RowsInv, NEW o \in Orders,
           attempt[o].status \in {"pending"} \cup Idle
    PROVE  order[o].status \in Claimable
<1>1. <<order[o].status, attempt[o].status>> \in Pairs
  BY DEF RowsInv, RowsAgree, StatusesAgree
<1>2. QED BY <1>1 DEF Pairs, StatusPairs, LossPairs, Claimable, Idle

(* The new rows of a job that ended without a code, or lost its lease.     *)
LEMMA StalledAgrees ==
    ASSUME IInv, NEW o \in Orders, NEW r1, NEW a1,
           attempt[o].status = "processing",
           <<r1.status, a1.status>> \in {<<"out_of_stock", "out_of_stock">>,
                                        <<"delivery_failed", "failed">>},
           r1.paid = order[o].paid, a1.next # "null"
    PROVE  RowsAgree(r1, a1, ledger[o])
<1>1. order[o].status = "delivering" /\ RowsInv
  BY RunningJob DEF IInv
<1>2. JobAgrees(a1) /\ <<r1.status, a1.status>> \in Pairs
  BY DEF JobAgrees, Idle, Pairs, StatusPairs
<1>3. QED BY <1>1, <1>2, MoveAgrees DEF RowsInv, PaidStatus

LEMMA FailAgrees ==
    ASSUME IInv, NEW o \in Orders, MarkOutOfStock(o) \/ MarkFailed(o)
    PROVE  RowsInv'
<1>1. /\ order \in [Orders -> OrderRow] /\ attempt \in [Orders -> AttemptRow]
      /\ TypeOK /\ RowsInv
  BY TypeRows DEF IInv
<1>2. ASSUME NEW d, NEW s, MarkRecoverableFailure(o, d, s),
             <<s, d>> \in {<<"out_of_stock", "out_of_stock">>,
                          <<"delivery_failed", "failed">>}
      PROVE  RowsInv'
  <2>1. attempt[o].status = "processing" /\ order[o].status = "delivering"
    BY <1>1, <1>2, RunningJob DEF MarkRecoverableFailure
  <2>2. /\ order'[o].status = s /\ order'[o].paid = order[o].paid
        /\ attempt'[o].status = d /\ attempt'[o].next = "later"
    BY <1>1, <1>2, <2>1 DEF MarkRecoverableFailure, OrderRow, AttemptRow
  <2>3. RowsAgree(order'[o], attempt'[o], ledger[o])
    BY <1>2, <2>1, <2>2, StalledAgrees
  <2>4. QED BY <1>1, <1>2, <2>1, <2>3, OneOrder DEF MarkRecoverableFailure
<1>3. QED BY <1>2 DEF MarkOutOfStock, MarkFailed

LEMMA RecoverAgrees ==
    ASSUME IInv, NEW S, RecoverRows(S)
    PROVE  RowsInv'
<1>1. /\ order \in [Orders -> OrderRow] /\ attempt \in [Orders -> AttemptRow]
      /\ TypeOK /\ RowsInv
  BY TypeRows DEF IInv
<1> SUFFICES ASSUME NEW o \in Orders
             PROVE  RowsAgree(order'[o], attempt'[o], ledger'[o])
  BY DEF RowsInv
<1>2. CASE o \in S \cap Stale
  <2>1. attempt[o].status = "processing" /\ order[o].status = "delivering"
    BY <1>1, <1>2, RunningJob DEF Stale
  <2>2. /\ order'[o].status = "delivery_failed"
        /\ order'[o].paid = order[o].paid
        /\ attempt'[o].status = "failed" /\ attempt'[o].next = "due"
    BY <1>1, <1>2, <2>1 DEF RecoverRows, OrderRow, AttemptRow
  <2>3. QED BY <2>1, <2>2, StalledAgrees DEF RecoverRows
<1>3. CASE o \notin S \cap Stale
  BY <1>1, <1>3 DEF RecoverRows, RowsInv
<1>4. QED BY <1>2, <1>3

LEMMA RetryAgrees ==
    ASSUME IInv, NEW o \in Orders, RetryDelivery(o)
    PROVE  RowsInv'
<1>1. /\ order \in [Orders -> OrderRow] /\ attempt \in [Orders -> AttemptRow]
      /\ TypeOK /\ RowsInv
  BY TypeRows DEF IInv
<1>2. order[o].status \in PaidStatus \ {"delivered"}
  BY <1>1 DEF RetryDelivery, OrderRow, OrderStatus, PaidStatus
<1>3. attempt[o].status \in {"pending"} \cup Idle
        => order[o].status \in Claimable
  BY <1>1, WaitingJob
<1>4. /\ [order EXCEPT ![o].status = "paid"][o].status = "paid"
      /\ [order EXCEPT ![o].status = "paid"][o].paid = order[o].paid
  BY <1>1 DEF OrderRow
<1>5. /\ order'[o].status = "paid" /\ order'[o].paid = order[o].paid
      /\ attempt'[o].status = "pending" /\ attempt'[o].next = "due"
  <2>1. CASE /\ attempt' = [attempt EXCEPT ![o] = PendingAttempt]
             /\ order' = [order EXCEPT ![o].status = "paid"]
    BY <1>1, <1>4, <2>1 DEF PendingAttempt, NoAttempt
  <2>2. ASSUME NEW lease,
               attempt[o].status \in {"pending"} \cup Idle,
               attempt' = [attempt EXCEPT ![o].status = "pending",
                                          ![o].next = "due",
                                          ![o].lease = lease],
               order' = IF order[o].status \in Claimable
                        THEN [order EXCEPT ![o].status = "paid"]
                        ELSE order
        PROVE  /\ order'[o].status = "paid" /\ order'[o].paid = order[o].paid
               /\ attempt'[o].status = "pending" /\ attempt'[o].next = "due"
    BY <1>1, <1>3, <1>4, <2>2 DEF AttemptRow
  <2>3. QED BY <2>1, <2>2 DEF RetryDelivery
<1>6. JobAgrees(attempt'[o]) /\ <<"paid", "pending">> \in Pairs
  BY <1>5 DEF JobAgrees, Idle, Pairs, StatusPairs
<1>7. RowsAgree(order'[o], attempt'[o], ledger[o])
  BY <1>1, <1>2, <1>5, <1>6, MoveAgrees DEF RowsInv, PaidStatus
<1>8. QED BY <1>1, <1>7, OneOrder DEF RetryDelivery

LEMMA RepairAgrees ==
    ASSUME IInv, NEW S, RepairRows(S)
    PROVE  RowsInv'
<1>1. /\ attempt \in [Orders -> AttemptRow] /\ RowsInv
  BY TypeRows DEF IInv
<1> SUFFICES ASSUME NEW o \in Orders
             PROVE  RowsAgree(order[o], attempt'[o], ledger[o])
  BY DEF RowsInv, RepairRows
<1>2. RowsAgree(order[o], attempt[o], ledger[o])
  BY <1>1 DEF RowsInv
<1>0. o \notin UnscheduledJobs
  BY <1>2 DEF UnscheduledJobs, RowsAgree, JobAgrees
<1>3. CASE o \in S \cap MissingJobs
  <2>1. attempt'[o] = PendingAttempt
    BY <1>0, <1>3 DEF RepairRows
  <2>2. <<order[o].status, "pending">> \in Pairs
    <3>1. order[o].status \in Claimable /\ attempt[o].status = "none"
      BY <1>3 DEF MissingJobs
    <3>2. <<order[o].status, attempt[o].status>> \in Pairs
      BY <1>2 DEF RowsAgree, StatusesAgree
    <3>3. QED BY <3>1, <3>2 DEF Pairs, StatusPairs, LossPairs, Claimable
  <2>3. /\ PendingAttempt.status = "pending" /\ PendingAttempt.next = "due"
        /\ JobAgrees(PendingAttempt)
    BY DEF JobAgrees, PendingAttempt, NoAttempt, Idle
  <2>4. QED BY <1>2, <2>1, <2>2, <2>3 DEF RowsAgree, StatusesAgree
<1>4. CASE o \notin S \cap MissingJobs
  <2>1. attempt'[o] = attempt[o]
    BY <1>0, <1>1, <1>4 DEF RepairRows
  <2>2. QED BY <1>2, <2>1
<1>5. QED BY <1>3, <1>4

LEMMA TimeAgrees ==
    ASSUME IInv, NEW o \in Orders,
           NextAttemptDue(o) \/ LeaseExpires(o) \/ LoseAttempt(o)
    PROVE  RowsInv'
<1>1. /\ attempt \in [Orders -> AttemptRow] /\ TypeOK /\ RowsInv
  BY TypeRows DEF IInv
<1>2. RowsAgree(order[o], attempt[o], ledger[o])
  BY <1>1 DEF RowsInv
<1>3. CASE NextAttemptDue(o) \/ LeaseExpires(o)
  <2>1. /\ attempt'[o].status = attempt[o].status
        /\ \/ /\ attempt'[o].next = attempt[o].next
              /\ attempt[o].lease # "null" /\ attempt'[o].lease = "expired"
           \/ /\ attempt'[o].lease = attempt[o].lease
              /\ attempt[o].next # "null" /\ attempt'[o].next = "due"
    BY <1>1, <1>3 DEF NextAttemptDue, LeaseExpires, AttemptRow
  <2>2. RowsAgree(order[o], attempt'[o], ledger[o])
    BY <1>2, <2>1 DEF RowsAgree, StatusesAgree, JobAgrees
  <2>3. QED BY <1>1, <1>3, <2>2, OneOrder DEF NextAttemptDue, LeaseExpires
<1>4. CASE LoseAttempt(o)
  <2>1. order[o].status \in Claimable /\ RowLoss
    BY <1>1, <1>4, WaitingJob DEF LoseAttempt
  <2>2. attempt'[o] = NoAttempt
    BY <1>1, <1>4 DEF LoseAttempt
  <2>3. <<order[o].status, "none">> \in Pairs
    BY <2>1 DEF Pairs, LossPairs
  <2>4. RowsAgree(order[o], attempt'[o], ledger[o])
    BY <1>2, <2>2, <2>3 DEF RowsAgree, StatusesAgree, JobAgrees, NoAttempt, Idle
  <2>5. QED BY <1>1, <1>4, <2>4, OneOrder DEF LoseAttempt
<1>5. QED BY <1>3, <1>4

-----------------------------------------------------------------------------
(* The invariant of Store: the rows of every order agree.                  *)

LEMMA RowsInit == Init => IInv
<1> SUFFICES ASSUME Init, NEW o \in Orders
             PROVE  RowsAgree(order[o], attempt[o], ledger[o])
  BY TypeInit DEF IInv, RowsInv
<1>1. /\ order[o] = NoOrder /\ attempt[o] = NoAttempt
      /\ ledger[o] = [payment |-> 0, delivery |-> 0]
  BY DEF Init
<1>2. QED BY <1>1 DEF NoOrder, NoAttempt, RowsAgree, StatusesAgree, Pairs,
             StatusPairs, PaidAgrees, PaidStatus, LedgerAgrees, JobAgrees, Idle

LEMMA RowsNext == IInv /\ [Next]_vars => RowsInv'
<1> SUFFICES ASSUME IInv, [Next]_vars PROVE RowsInv'
  OBVIOUS
<1>1. ASSUME NEW o \in Orders, NEW amount \in Amounts, CreateOrder(o, amount)
      PROVE  RowsInv'
  BY <1>1, CreateAgrees
<1>2. ASSUME NEW e \in Events, NEW o \in Orders, NEW kind \in Kinds,
             NEW amount \in Amounts, ProcessPayment(e, o, kind, amount)
      PROVE  RowsInv'
  BY <1>2, ProcessAgrees
<1>3. ASSUME NEW o \in Orders, NEW p \in Providers, NEW c \in Codes,
             MarkDelivered(o, p, c)
      PROVE  RowsInv'
  BY <1>3, DeliverAgrees
<1>4. ASSUME NEW o \in Orders, ClaimNextJob(o) PROVE RowsInv'
  BY <1>4, ClaimAgrees
<1>5. ASSUME NEW o \in Orders, MarkOutOfStock(o) \/ MarkFailed(o)
      PROVE  RowsInv'
  BY <1>5, FailAgrees
<1>6. ASSUME NEW o \in Orders, RetryDelivery(o) PROVE RowsInv'
  BY <1>6, RetryAgrees
<1>7. ASSUME NEW o \in Orders,
             NextAttemptDue(o) \/ LeaseExpires(o) \/ LoseAttempt(o)
      PROVE  RowsInv'
  BY <1>7, TimeAgrees
<1>8. CASE RecoverStaleJobs
  BY <1>8, RecoverAgrees DEF RecoverStaleJobs
<1>9. CASE Repair
  BY <1>9, RepairAgrees DEF Repair
<1>10. CASE UNCHANGED vars
  BY <1>10 DEF vars, IInv, RowsInv
<1>11. QED
  BY <1>1, <1>2, <1>3, <1>4, <1>5, <1>6, <1>7, <1>8, <1>9, <1>10 DEF Next

(* In every reachable state the tables are well typed and the rows of      *)
(* every order agree: no transaction, in whatever order they commit,       *)
(* breaks what the next one relies on.                                     *)
THEOREM RowsCorrect == Spec => []IInv
<1>1. Init => IInv
  BY RowsInit
<1>2. IInv /\ [Next]_vars => IInv'
  BY TypeNext, RowsNext DEF IInv
<1>3. QED BY <1>1, <1>2, PTL DEF Spec

(* The statuses of an order and of its job never contradict each other     *)
(* (orders.status and delivery_attempts.status).                           *)
THEOREM StatusesCorrect == Spec => []StatusAgreement
<1>1. IInv => StatusAgreement
  BY DEF IInv, RowsInv, RowsAgree, StatusesAgree, Pairs, StatusAgreement
<1>2. QED BY <1>1, RowsCorrect, PTL

(* Exactly one payment entry for a paid order and one delivery entry for a *)
(* delivered one, however the transactions interleave.                     *)
THEOREM LedgerCorrect == Spec => []LedgerAgreement
<1>1. IInv => LedgerAgreement
  BY DEF IInv, RowsInv, RowsAgree, LedgerAgrees, LedgerAgreement
<1>2. QED BY <1>1, RowsCorrect, PTL

(* A paid order is never forgotten: until it is delivered it has a         *)
(* scheduled or a leased job, or one that Repair recreates.                *)
THEOREM JobsCorrect == Spec => []PaidOrderHasJob
<1>1. ASSUME IInv, NEW o \in Orders, order[o].paid,
             order[o].status # "delivered"
      PROVE  \/ /\ attempt[o].status \in {"pending"} \cup Idle
                /\ attempt[o].next # "null"
                /\ order[o].status \in Claimable
             \/ attempt[o].status = "processing" /\ attempt[o].lease # "null"
             \/ RowLoss /\ o \in MissingJobs
  <2>1. /\ <<order[o].status, attempt[o].status>> \in Pairs
        /\ order[o].status \in PaidStatus /\ JobAgrees(attempt[o])
    BY <1>1 DEF IInv, RowsInv, RowsAgree, StatusesAgree, PaidAgrees
  <2>2. \/ attempt[o].status \in {"pending", "processing"} \cup Idle
        \/ /\ RowLoss /\ attempt[o].status = "none"
           /\ order[o].status \in Claimable
    BY <1>1, <2>1 DEF Pairs, StatusPairs, LossPairs, PaidStatus, Idle,
                     Claimable
  <2>3. CASE attempt[o].status \in {"pending"} \cup Idle
    BY <1>1, <2>1, <2>3, WaitingJob DEF IInv, JobAgrees
  <2>4. CASE attempt[o].status = "processing"
    BY <2>1, <2>4 DEF JobAgrees
  <2>5. CASE /\ RowLoss /\ attempt[o].status = "none"
             /\ order[o].status \in Claimable
    BY <1>1, <2>5 DEF MissingJobs
  <2>6. QED BY <2>2, <2>3, <2>4, <2>5
<1>2. IInv => PaidOrderHasJob
  BY <1>1 DEF PaidOrderHasJob
<1>3. QED BY <1>2, RowsCorrect, PTL

(* In every state each of the audit queries of BuildReport finds nothing   *)
(* amiss, and the query for paid orders without goods misses none.         *)
THEOREM AuditCorrect == Spec => []AuditClean
<1>1. ASSUME IInv, NEW o \in Orders
      PROVE  /\ o \notin DeliveredNotPaid
             /\ o \notin StatusMismatches
             /\ o \notin LedgerMismatches
             /\ o \notin PaidNotDelivered =>
                  order[o].status \in {"absent", "created", "payment_failed",
                                       "delivered"}
  <2>1. /\ order[o] \in OrderRow /\ <<order[o].status, attempt[o].status>> \in Pairs
        /\ PaidAgrees(order[o]) /\ LedgerAgrees(order[o], ledger[o])
    BY <1>1, TypeRows DEF IInv, RowsInv, RowsAgree, StatusesAgree
  <2>2. order[o].status = "delivered" <=> attempt[o].status = "delivered"
    BY <2>1 DEF Pairs, StatusPairs, LossPairs, Claimable
  <2>3. /\ order[o].status = "delivered" => order[o].paid
        /\ order[o].paid => ledger[o].payment = 1
        /\ order[o].status = "delivered" => ledger[o].delivery = 1
    BY <2>1 DEF PaidAgrees, PaidStatus, LedgerAgrees
  <2>4. order[o].status \in PaidStatus \cup {"absent", "created",
                                            "payment_failed"}
    BY <2>1 DEF OrderRow, OrderStatus, PaidStatus
  <2>5. QED BY <2>1, <2>2, <2>3, <2>4 DEF DeliveredNotPaid, StatusMismatches,
       LedgerMismatches, PaidNotDelivered, PaidAgrees
<1>2. IInv => AuditClean
  BY <1>1 DEF AuditClean, DeliveredNotPaid, StatusMismatches,
              LedgerMismatches
<1>3. QED BY <1>2, RowsCorrect, PTL

-----------------------------------------------------------------------------
(* What a step may not do.                                                 *)

(* A payment does nothing to the rows of a delivered order.                *)
LEMMA DeliveredRows ==
    ASSUME NEW r, NEW a, NEW l, NEW kind, r.status = "delivered"
    PROVE  /\ OrderAfter(r, kind) = r /\ AttemptAfter(r, a, kind) = a
           /\ LedgerAfter(r, l, kind) = l
<1>1. ~TakesPayment(r, kind)
  BY DEF TakesPayment
<1>2. QED BY <1>1 DEF OrderAfter, AttemptAfter, LedgerAfter

(* Nor does a recovery or a repair, of whichever orders.                   *)
LEMMA PartDelivered ==
    ASSUME IInv, NEW S, RecoverRows(S) \/ RepairRows(S), NEW o \in Orders,
           attempt[o].status = "delivered"
    PROVE  /\ attempt'[o] = attempt[o] /\ order'[o] = order[o]
           /\ ledger'[o] = ledger[o]
<1>1. CASE RecoverRows(S)
  BY <1>1 DEF RecoverRows, Stale
<1>2. CASE RepairRows(S)
  BY <1>2 DEF RepairRows, MissingJobs, UnscheduledJobs, Idle
<1>3. QED BY <1>1, <1>2

(* No step changes the rows of a delivered order.                          *)
LEMMA DeliveredNext ==
    ASSUME IInv, [Next]_vars, NEW o \in Orders,
           attempt[o].status = "delivered"
    PROVE  /\ attempt'[o] = attempt[o] /\ order'[o] = order[o]
           /\ ledger'[o] = ledger[o]
<1> DEFINE Kept == /\ attempt'[o] = attempt[o] /\ order'[o] = order[o]
                   /\ ledger'[o] = ledger[o]
<1>0. /\ order \in [Orders -> OrderRow] /\ attempt \in [Orders -> AttemptRow]
      /\ ledger \in [Orders -> LedgerRow]
  BY TypeRows DEF IInv
<1>d. order[o].status = "delivered"
  <2>1. <<order[o].status, attempt[o].status>> \in Pairs
    BY DEF IInv, RowsInv, RowsAgree, StatusesAgree
  <2>2. QED BY <2>1 DEF Pairs, StatusPairs, LossPairs
<1>1. ASSUME NEW q \in Orders, NEW amount \in Amounts, CreateOrder(q, amount)
      PROVE  Kept
  <2>1. q # o
    BY <1>1, <1>d DEF CreateOrder, Exists
  <2>2. QED BY <1>0, <1>1, <2>1 DEF CreateOrder, ApplyPayment
<1>2. ASSUME NEW e \in Events, NEW q \in Orders, NEW kind \in Kinds,
             NEW amount \in Amounts, ProcessPayment(e, q, kind, amount)
      PROVE  Kept
  <2>1. CASE UNCHANGED <<order, attempt, ledger>>
    BY <2>1
  <2>2. CASE ApplyPayment(q, order[q], kind)
    BY <1>0, <1>d, <2>2, DeliveredRows DEF ApplyPayment
  <2>3. QED BY <1>2, <2>1, <2>2 DEF ProcessPayment, vars
<1>3. ASSUME NEW q \in Orders, NEW p \in Providers, NEW c \in Codes,
             MarkDelivered(q, p, c)
      PROVE  Kept
  BY <1>0, <1>3 DEF MarkDelivered
<1>4. ASSUME NEW q \in Orders,
             \/ ClaimNextJob(q) \/ MarkOutOfStock(q) \/ MarkFailed(q)
             \/ RetryDelivery(q) \/ LoseAttempt(q)
      PROVE  Kept
  <2>1. attempt[q].status # "delivered"
    BY <1>4 DEF ClaimNextJob, MarkOutOfStock, MarkFailed,
                MarkRecoverableFailure, RetryDelivery, LoseAttempt, Idle
  <2>2. q # o
    BY <2>1
  <2>3. QED BY <1>0, <1>4, <2>2 DEF ClaimNextJob, MarkOutOfStock, MarkFailed,
               MarkRecoverableFailure, RetryDelivery, LoseAttempt
<1>5. ASSUME NEW q \in Orders, NextAttemptDue(q) \/ LeaseExpires(q)
      PROVE  Kept
  <2>1. CASE q # o
    BY <1>0, <1>5, <2>1 DEF NextAttemptDue, LeaseExpires
  <2>2. CASE q = o
    BY <1>0, <1>5, <2>2 DEF NextAttemptDue, LeaseExpires, IInv, RowsInv,
                            RowsAgree, JobAgrees
  <2>3. QED BY <2>1, <2>2
<1>6. CASE RecoverStaleJobs \/ Repair
  BY <1>6, PartDelivered DEF RecoverStaleJobs, Repair
<1>7. CASE UNCHANGED vars
  BY <1>7 DEF vars
<1>8. QED BY <1>1, <1>2, <1>3, <1>4, <1>5, <1>6, <1>7 DEF Next

(* Nothing rewrites a delivered row, whoever comes late.                   *)
THEOREM DeliveredFinal == Spec => DeliveredIsFinal
<1>1. IInv /\ [Next]_vars
        => [\A o \in Orders : attempt[o].status = "delivered" =>
              /\ attempt'[o] = attempt[o]
              /\ order'[o] = order[o]
              /\ ledger'[o] = ledger[o]]_vars
  BY DeliveredNext
<1>2. QED BY <1>1, RowsCorrect, PTL DEF Spec, DeliveredIsFinal

(* A recovery or a repair, of whichever orders, throws back none but one   *)
(* whose lease is over.                                                    *)
LEMMA PartRunning ==
    ASSUME IInv, NEW S, RecoverRows(S) \/ RepairRows(S), NEW o \in Orders,
           attempt[o].status = "processing"
    PROVE  /\ attempt'[o].status \notin {"none", "pending"}
           /\ attempt'[o].status = "failed" /\ attempt'[o].next = "due"
                => attempt[o].lease = "expired"
<1>0. attempt \in [Orders -> AttemptRow]
  BY TypeRows DEF IInv
<1>1. CASE RecoverRows(S) /\ o \in S \cap Stale
  <2>1. attempt'[o].status = "failed" /\ attempt[o].lease = "expired"
    BY <1>0, <1>1 DEF RecoverRows, Stale, AttemptRow
  <2>2. QED BY <2>1
<1>2. CASE attempt'[o] = attempt[o]
  BY <1>2
<1>3. CASE RecoverRows(S) /\ o \notin S \cap Stale
  BY <1>2, <1>3 DEF RecoverRows
<1>4. CASE RepairRows(S)
  BY <1>2, <1>4 DEF RepairRows, MissingJobs, UnscheduledJobs, Idle
<1>5. QED BY <1>1, <1>3, <1>4

(* What a step may make of a running job.                                  *)
LEMMA RunningNext ==
    ASSUME IInv, [Next]_vars, NEW o \in Orders,
           attempt[o].status = "processing"
    PROVE  /\ attempt'[o].status \notin {"none", "pending"}
           /\ attempt'[o].status = "failed" /\ attempt'[o].next = "due"
                => attempt[o].lease = "expired"
<1> DEFINE Left == /\ attempt'[o].status \notin {"none", "pending"}
                   /\ attempt'[o].status = "failed"
                      /\ attempt'[o].next = "due"
                        => attempt[o].lease = "expired"
<1>0. /\ order \in [Orders -> OrderRow] /\ attempt \in [Orders -> AttemptRow]
      /\ order[o].status = "delivering"
  BY TypeRows, RunningJob DEF IInv
<1>a. ASSUME attempt'[o].status = "processing" PROVE Left
  BY <1>a
<1>1. ASSUME NEW q \in Orders, NEW amount \in Amounts, CreateOrder(q, amount)
      PROVE  Left
  <2>1. q # o
    BY <1>0, <1>1 DEF CreateOrder, Exists
  <2>2. attempt'[o] = attempt[o]
    BY <1>0, <1>1, <2>1 DEF CreateOrder, ApplyPayment
  <2>3. QED BY <1>a, <2>2
<1>2. ASSUME NEW e \in Events, NEW q \in Orders, NEW kind \in Kinds,
             NEW amount \in Amounts, ProcessPayment(e, q, kind, amount)
      PROVE  Left
  <2>1. AttemptAfter(order[o], attempt[o], kind) = attempt[o]
    BY DEF AttemptAfter, UpsertAttempt, Idle
  <2>2. attempt'[o] = attempt[o]
    BY <1>0, <1>2, <2>1 DEF ProcessPayment, ApplyPayment, vars
  <2>3. QED BY <1>a, <2>2
<1>3. ASSUME NEW q \in Orders, NEW p \in Providers, NEW c \in Codes,
             MarkDelivered(q, p, c)
      PROVE  Left
  <2>1. attempt'[o] = attempt[o] \/ attempt'[o].status = "delivered"
    BY <1>0, <1>3 DEF MarkDelivered
  <2>2. QED BY <1>a, <2>1
<1>4. ASSUME NEW q \in Orders,
             \/ ClaimNextJob(q) \/ RetryDelivery(q) \/ LoseAttempt(q)
      PROVE  Left
  <2>1. attempt[q].status # "processing"
    BY <1>4 DEF ClaimNextJob, RetryDelivery, LoseAttempt, Idle
  <2>2. attempt'[o] = attempt[o]
    BY <1>0, <1>4, <2>1 DEF ClaimNextJob, RetryDelivery, LoseAttempt
  <2>3. QED BY <1>a, <2>2
<1>5. ASSUME NEW q \in Orders, MarkOutOfStock(q) \/ MarkFailed(q)
      PROVE  Left
  <2>1. CASE q # o
    <3>1. attempt'[o] = attempt[o]
      BY <1>0, <1>5, <2>1 DEF MarkOutOfStock, MarkFailed,
                              MarkRecoverableFailure
    <3>2. QED BY <1>a, <3>1
  <2>2. CASE q = o
    <3>1. /\ attempt'[o].status \in {"out_of_stock", "failed"}
          /\ attempt'[o].next = "later"
      BY <1>0, <1>5, <2>2 DEF MarkOutOfStock, MarkFailed,
                              MarkRecoverableFailure, AttemptRow
    <3>2. QED BY <3>1
  <2>3. QED BY <2>1, <2>2
<1>6. CASE RecoverStaleJobs \/ Repair
  BY <1>6, PartRunning DEF RecoverStaleJobs, Repair
<1>7. ASSUME NEW q \in Orders, NextAttemptDue(q) \/ LeaseExpires(q)
      PROVE  Left
  <2>1. attempt'[o].status = attempt[o].status
    BY <1>0, <1>7 DEF NextAttemptDue, LeaseExpires, AttemptRow
  <2>2. QED BY <1>a, <2>1
<1>8. CASE UNCHANGED vars
  BY <1>8, <1>a DEF vars
<1>9. QED
  BY <1>1, <1>2, <1>3, <1>4, <1>5, <1>6, <1>7, <1>8 DEF Next

(* A running job returns to the queue only by a result of its own or       *)
(* because its lease expired.                                              *)
THEOREM RunningJobLeftAlone == Spec => RunningJobIsLeftAlone
<1>1. IInv /\ [Next]_vars
        => [\A o \in Orders : attempt[o].status = "processing" =>
              /\ attempt'[o].status \notin {"none", "pending"}
              /\ attempt'[o].status = "failed" /\ attempt'[o].next = "due"
                    => attempt[o].lease = "expired"]_vars
  BY RunningNext
<1>2. QED BY <1>1, RowsCorrect, PTL DEF Spec, RunningJobIsLeftAlone

-----------------------------------------------------------------------------
(* Payments: why the first event of the right amount decides an order.     *)

(* The events of an order, and those of its amount, in the rows ev.        *)
Of(ev, o) == {e \in Events : ev[e].status # "none" /\ ev[e].order = o}
Right(ev, o, r) == {e \in Of(ev, o) : ev[e].amount = r.amount}
Earliest(ev, M, e) == e \in M /\ \A f \in M : ev[e].at <= ev[f].at

(* What e says has become of row r.                                        *)
DecidedBy(r, kind) == /\ r.paid <=> kind = "paid"
                      /\ r.status = "payment_failed" <=> kind = "failed"

(* What creation and webhooks leave behind for row r of order o: an order  *)
(* that does not exist has its events waiting, an order that exists has    *)
(* none waiting and is what its first event of the right amount says.      *)
EventsAgree(ev, o, r) ==
    IF r.status = "absent" THEN \A e \in Of(ev, o) : ~ev[e].processed
    ELSE /\ \A e \in Of(ev, o) : ev[e].processed
         /\ r.status = "created" <=> Right(ev, o, r) = {}
         /\ \A e \in Events : Earliest(ev, Right(ev, o, r), e)
                                => DecidedBy(r, ev[e].status)

(* Events have arrived, each at a time of its own.                         *)
Arrived(ev, now) ==
    \A e \in Events : ev[e].status # "none" =>
        /\ ev[e].at < now
        /\ \A f \in Events : ev[f].status # "none" /\ ev[f].at = ev[e].at
                               => f = e

PaymentInv == /\ Arrived(event, clock)
              /\ \A o \in Orders : EventsAgree(event, o, order[o])

-----------------------------------------------------------------------------
(* The delivery side moves an order among the statuses of a paid one.      *)
LEMMA MovedAgrees ==
    ASSUME NEW ev \in [Events -> EventRow], NEW o \in Orders,
           NEW r \in OrderRow, NEW s \in PaidStatus, r.status \in PaidStatus,
           EventsAgree(ev, o, r)
    PROVE  EventsAgree(ev, o, [r EXCEPT !.status = s])
<1> DEFINE m == [r EXCEPT !.status = s]
<1>1. /\ m.status = s /\ m.amount = r.amount /\ m.paid = r.paid
      /\ s \notin {"absent", "created", "payment_failed"}
      /\ r.status \notin {"absent", "created", "payment_failed"}
  BY DEF OrderRow, PaidStatus
<1>2. Right(ev, o, m) = Right(ev, o, r)
  BY <1>1 DEF Right
<1> HIDE DEF m
<1>3. \A kind : DecidedBy(r, kind) => DecidedBy(m, kind)
  BY <1>1 DEF DecidedBy
<1>4. EventsAgree(ev, o, m)
  BY <1>1, <1>2, <1>3 DEF EventsAgree
<1> QED BY <1>4 DEF m

(* An event of one order is nothing to another.                            *)
LEMMA OtherAgrees ==
    ASSUME NEW ev, NEW ew, NEW o \in Orders, NEW r,
           EventsAgree(ev, o, r),
           \A e \in Events : ew[e] = ev[e] \/ (e \notin Of(ev, o)
                                               /\ e \notin Of(ew, o))
    PROVE  EventsAgree(ew, o, r)
<1>1. Of(ew, o) = Of(ev, o) /\ \A e \in Of(ev, o) : ew[e] = ev[e]
  BY DEF Of
<1>2. Right(ew, o, r) = Right(ev, o, r)
  BY <1>1 DEF Right
<1>3. \A e \in Right(ev, o, r) : ew[e] = ev[e]
  BY <1>1 DEF Right
<1>4. \A e \in Events : Earliest(ew, Right(ew, o, r), e)
                          => Earliest(ev, Right(ev, o, r), e) /\ ew[e] = ev[e]
  BY <1>2, <1>3 DEF Earliest
<1>5. CASE r.status = "absent"
  BY <1>1, <1>5 DEF EventsAgree
<1>6. CASE r.status # "absent"
  BY <1>1, <1>2, <1>4, <1>6 DEF EventsAgree
<1> QED BY <1>5, <1>6

-----------------------------------------------------------------------------
(* A webhook.  n is the new row of payment_events, r the row of its order. *)
LEMMA ArrivesAgain ==
    ASSUME NEW ev \in [Events -> EventRow], NEW now \in Nat,
           Arrived(ev, now), NEW e \in Events, NEW n \in EventRow,
           n.at = now
    PROVE  Arrived([ev EXCEPT ![e] = n], now + 1)
<1> DEFINE ew == [ev EXCEPT ![e] = n]
<1>1. /\ ew[e] = n
      /\ \A f \in Events : f # e => ew[f] = ev[f]
  OBVIOUS
<1>2. \A f \in Events : ev[f].at \in Nat
  BY DEF EventRow
<1> HIDE DEF ew
<1>3. \A f \in Events : ew[f].status # "none" /\ f # e => ew[f].at < now
  BY <1>1 DEF Arrived
<1>4. ASSUME NEW f \in Events, ew[f].status # "none"
      PROVE  /\ ew[f].at < now + 1
             /\ \A g \in Events : ew[g].status # "none" /\ ew[g].at = ew[f].at
                                    => g = f
  <2>1. CASE f = e
    BY <1>1, <1>3, <2>1
  <2>2. CASE f # e
    <3>1. ew[f].at < now /\ ew[f].at \in Nat
      BY <1>1, <1>2, <1>3, <1>4, <2>2
    <3>2. ASSUME NEW g \in Events, ew[g].status # "none", ew[g].at = ew[f].at
          PROVE  g = f
      <4>1. g # e
        BY <1>1, <3>1, <3>2
      <4>2. QED BY <1>1, <1>4, <2>2, <3>2, <4>1 DEF Arrived
    <3>3. QED BY <3>1, <3>2
  <2>3. QED BY <2>1, <2>2
<1>5. Arrived(ew, now + 1)
  BY <1>4 DEF Arrived
<1> QED BY <1>5 DEF ew

(* ... of an order that is not there yet: it waits.                        *)
LEMMA EarlyEventAgrees ==
    ASSUME NEW ev \in [Events -> EventRow], NEW o \in Orders,
           NEW r, r.status = "absent", EventsAgree(ev, o, r),
           NEW e \in Events, NEW n \in EventRow, ~n.processed
    PROVE  EventsAgree([ev EXCEPT ![e] = n], o, r)
  BY DEF EventsAgree, Of

(* ... of another amount than the order has: it decides nothing.           *)
LEMMA WrongEventAgrees ==
    ASSUME NEW ev \in [Events -> EventRow], NEW o \in Orders,
           NEW r, r.status # "absent", EventsAgree(ev, o, r),
           NEW e \in Events, ev[e].status = "none",
           NEW n \in EventRow, n.processed, n.order = o, n.amount # r.amount
    PROVE  EventsAgree([ev EXCEPT ![e] = n], o, r)
<1> DEFINE ew == [ev EXCEPT ![e] = n]
<1>1. ew[e] = n /\ \A f \in Events : f # e => ew[f] = ev[f]
  OBVIOUS
<1> HIDE DEF ew
<1>2. Right(ew, o, r) = Right(ev, o, r) /\ e \notin Right(ev, o, r)
  BY <1>1 DEF Right, Of
<1>3. \A f \in Right(ev, o, r) : ew[f] = ev[f] /\ f \in Events
  BY <1>1, <1>2 DEF Right, Of
<1>4. \A f \in Of(ew, o) : ew[f].processed
  BY <1>1 DEF Of, EventsAgree
<1>5. \A f \in Events : Earliest(ew, Right(ew, o, r), f)
                          => Earliest(ev, Right(ev, o, r), f) /\ ew[f] = ev[f]
  BY <1>2, <1>3 DEF Earliest
<1>6. EventsAgree(ew, o, r)
  BY <1>2, <1>4, <1>5 DEF EventsAgree
<1> QED BY <1>6 DEF ew

(* A matching event decides a new order and no other.                      *)
LEMMA PaymentDecides ==
    ASSUME NEW r \in OrderRow, PaidAgrees(r), r.status # "absent",
           NEW kind \in Kinds
    PROVE  LET m == OrderAfter(r, kind)
           IN /\ m.amount = r.amount
              /\ m.status \notin {"absent", "created"}
              /\ r.status = "created" => DecidedBy(m, kind)
              /\ r.status # "created" =>
                    \A k \in Kinds : DecidedBy(r, k) => DecidedBy(m, k)
  BY DEF OrderRow, OrderStatus, PaidAgrees, PaidStatus, OrderAfter,
         TakesPayment, DecidedBy, Kinds

LEMMA RightEventAgrees ==
    ASSUME NEW ev \in [Events -> EventRow], NEW now \in Nat, Arrived(ev, now),
           NEW o \in Orders, NEW r \in OrderRow, PaidAgrees(r),
           r.status # "absent", EventsAgree(ev, o, r),
           NEW e \in Events, ev[e].status = "none",
           NEW n \in EventRow, n.status \in Kinds, n.processed, n.order = o,
           n.amount = r.amount, n.at = now
    PROVE  EventsAgree([ev EXCEPT ![e] = n], o, OrderAfter(r, n.status))
<1> DEFINE ew == [ev EXCEPT ![e] = n]
           m == OrderAfter(r, n.status)
<1>1. ew[e] = n /\ \A f \in Events : f # e => ew[f] = ev[f]
  OBVIOUS
<1>2. /\ m.amount = r.amount
      /\ m.status \notin {"absent", "created"}
      /\ r.status = "created" => DecidedBy(m, n.status)
      /\ r.status # "created" =>
            \A k \in Kinds : DecidedBy(r, k) => DecidedBy(m, k)
  BY PaymentDecides
<1> HIDE DEF ew, m
<1>3. Right(ew, o, m) = Right(ev, o, r) \cup {e} /\ e \notin Right(ev, o, r)
  BY <1>1, <1>2 DEF Right, Of, Kinds
<1>4. \A f \in Right(ev, o, r) :
         /\ f \in Events /\ ew[f] = ev[f] /\ ev[f].at < now
         /\ ev[f].status \in Kinds /\ ev[f].at \in Nat
  BY <1>1, <1>3 DEF Right, Of, Arrived, EventRow
<1>5. \A f \in Of(ew, o) : ew[f].processed
  BY <1>1 DEF Of, EventsAgree
<1>6. r.status = "created" <=> Right(ev, o, r) = {}
  BY DEF EventsAgree
<1>7. ASSUME NEW f \in Events, Earliest(ew, Right(ew, o, m), f)
      PROVE  DecidedBy(m, ew[f].status)
  <2>1. CASE r.status = "created"
    <3>1. f = e
      BY <1>3, <1>6, <1>7, <2>1 DEF Earliest
    <3>2. QED BY <1>1, <1>2, <2>1, <3>1
  <2>2. CASE r.status # "created"
    <3>1. PICK g \in Right(ev, o, r) : TRUE
      BY <1>6, <2>2
    <3>2. f # e
      <4>1. ew[f].at <= ew[g].at /\ ew[g].at < now /\ ew[g].at \in Nat
        BY <1>3, <1>4, <1>7, <3>1 DEF Earliest
      <4>2. ew[e].at = now
        BY <1>1
      <4>3. QED BY <4>1, <4>2
    <3>3. f \in Right(ev, o, r)
      BY <1>3, <1>7, <3>2 DEF Earliest
    <3>4. \A h \in Right(ev, o, r) : ev[f].at <= ev[h].at
      BY <1>3, <1>4, <1>7, <3>3 DEF Earliest
    <3>5. DecidedBy(r, ev[f].status)
      BY <3>3, <3>4 DEF EventsAgree, Earliest
    <3>6. QED BY <1>2, <1>4, <2>2, <3>3, <3>5
  <2>3. QED BY <2>1, <2>2
<1>8. EventsAgree(ew, o, m)
  BY <1>2, <1>3, <1>5, <1>7 DEF EventsAgree
<1> QED BY <1>8 DEF ew, m

-----------------------------------------------------------------------------
(* Creation.  The events P that wait for the order are marked.             *)
Marked(ev, P) == [e \in Events |-> IF e \in P
                                   THEN [ev[e] EXCEPT !.processed = TRUE]
                                   ELSE ev[e]]

LEMMA MarkedRows ==
    ASSUME NEW ev \in [Events -> EventRow], NEW P, NEW e \in Events
    PROVE  /\ Marked(ev, P)[e].status = ev[e].status
           /\ Marked(ev, P)[e].order = ev[e].order
           /\ Marked(ev, P)[e].amount = ev[e].amount
           /\ Marked(ev, P)[e].at = ev[e].at
           /\ e \in P => Marked(ev, P)[e].processed
           /\ e \notin P => Marked(ev, P)[e] = ev[e]
  BY DEF Marked, EventRow

(* The new row is what the first of them that matches says, or untouched.  *)
LEMMA CreationAgrees ==
    ASSUME NEW ev \in [Events -> EventRow], NEW now \in Nat, Arrived(ev, now),
           NEW o \in Orders, NEW m,
           m.status # "absent",
           \/ /\ m.status = "created"
              /\ \A f \in Of(ev, o) : ev[f].amount # m.amount
           \/ \E e \in Right(ev, o, m) :
                 /\ \A f \in Right(ev, o, m) : ev[e].at <= ev[f].at
                 /\ m.status # "created" /\ DecidedBy(m, ev[e].status)
    PROVE  EventsAgree(Marked(ev, Of(ev, o)), o, m)
<1> DEFINE ew == Marked(ev, Of(ev, o))
<1>1. \A e \in Events : /\ ew[e].status = ev[e].status
                        /\ ew[e].order = ev[e].order
                        /\ ew[e].amount = ev[e].amount
                        /\ ew[e].at = ev[e].at
                        /\ e \in Of(ev, o) => ew[e].processed
  BY MarkedRows
<1> HIDE DEF ew
<1>2. Of(ew, o) = Of(ev, o)
  BY <1>1 DEF Of
<1>3. Right(ew, o, m) = Right(ev, o, m)
  BY <1>1, <1>2 DEF Right, Of
<1>4. \A e \in Of(ew, o) : ew[e].processed
  BY <1>1, <1>2 DEF Of
<1>5. CASE /\ m.status = "created"
           /\ \A f \in Of(ev, o) : ev[f].amount # m.amount
  <2>1. Right(ew, o, m) = {}
    BY <1>3, <1>5 DEF Right
  <2>2. QED BY <1>4, <1>5, <2>1 DEF EventsAgree, Earliest, ew
<1>6. ASSUME NEW e \in Right(ev, o, m),
             \A f \in Right(ev, o, m) : ev[e].at <= ev[f].at,
             m.status # "created", DecidedBy(m, ev[e].status)
      PROVE  EventsAgree(ew, o, m)
  <2>1. ASSUME NEW f \in Events, Earliest(ew, Right(ew, o, m), f)
        PROVE  DecidedBy(m, ew[f].status)
    <3>1. /\ f \in Right(ev, o, m) /\ e \in Events
          /\ ev[f].status # "none" /\ ev[e].status # "none"
      BY <1>3, <2>1 DEF Earliest, Right, Of
    <3>2. ev[f].at <= ev[e].at /\ ev[e].at <= ev[f].at
      BY <1>1, <1>3, <1>6, <2>1, <3>1 DEF Earliest
    <3>3. ev[e].at \in Nat /\ ev[f].at \in Nat
      BY <3>1 DEF EventRow
    <3>4. f = e
      BY <3>1, <3>2, <3>3 DEF Arrived
    <3>5. QED BY <1>1, <1>6, <3>4
  <2>2. Right(ew, o, m) # {}
    BY <1>3
  <2>3. QED BY <1>4, <1>6, <2>1, <2>2 DEF EventsAgree
<1> QED BY <1>5, <1>6 DEF ew

LEMMA MarkedAgrees ==
    ASSUME NEW ev \in [Events -> EventRow], NEW now \in Nat, NEW P,
           Arrived(ev, now)
    PROVE  Arrived(Marked(ev, P), now)
<1>1. \A e \in Events : /\ Marked(ev, P)[e].status = ev[e].status
                        /\ Marked(ev, P)[e].at = ev[e].at
  BY MarkedRows
<1>2. QED BY <1>1 DEF Arrived

-----------------------------------------------------------------------------
(* The actions.                                                            *)
LEMMA PaymentInvInit == Init => PaymentInv
  BY DEF Init, PaymentInv, Arrived, EventsAgree, Of, NoOrder, NoEvent

LEMMA StoreRows ==
    IInv => /\ order \in [Orders -> OrderRow]
            /\ event \in [Events -> EventRow]
            /\ clock \in Nat
            /\ \A o \in Orders : PaidAgrees(order[o])
  BY TypeRows DEF IInv, RowsInv, RowsAgree

LEMMA CreateDecides ==
    ASSUME IInv, PaymentInv, NEW o \in Orders, NEW amount \in Amounts,
           CreateOrder(o, amount)
    PROVE  PaymentInv'
<1> DEFINE row == [status |-> "created", amount |-> amount, paid |-> FALSE]
<1>0. /\ order \in [Orders -> OrderRow]
      /\ event \in [Events -> EventRow] /\ clock \in Nat
  BY StoreRows
<1>1. Arrived(event, clock) /\ EventsAgree(event, o, order[o])
  BY DEF PaymentInv
<1>2. order[o].status = "absent"
  BY DEF CreateOrder, Exists
<1>3. Pending(o) = Of(event, o)
  BY <1>1, <1>2 DEF Pending, Of, EventsAgree, Recorded
<1>4. event' = Marked(event, Of(event, o)) /\ clock' = clock
  BY <1>3 DEF CreateOrder, Marked
<1>5. Arrived(event', clock')
  BY <1>0, <1>1, <1>4, MarkedAgrees
<1>6. row \in OrderRow /\ PaidAgrees(row)
  BY DEF OrderRow, OrderStatus, PaidAgrees, PaidStatus
<1>7. ASSUME NEW m, order' = [order EXCEPT ![o] = m],
             EventsAgree(event', o, m)
      PROVE  PaymentInv'
  <2>1. ASSUME NEW q \in Orders, q # o
        PROVE  EventsAgree(event', q, order'[q])
    <3>1. \A e \in Events : \/ event'[e] = event[e]
                            \/ e \notin Of(event, q) /\ e \notin Of(event', q)
      <4>1. ASSUME NEW e \in Events, e \in Of(event, o)
            PROVE  e \notin Of(event, q) /\ e \notin Of(event', q)
        <5>1. event[e].order = o /\ event'[e].order = event[e].order
          BY <1>0, <1>4, <4>1, MarkedRows DEF Of
        <5>2. QED BY <2>1, <5>1 DEF Of
      <4>2. ASSUME NEW e \in Events, e \notin Of(event, o)
            PROVE  event'[e] = event[e]
        BY <1>0, <1>4, <4>2, MarkedRows
      <4>3. QED BY <4>1, <4>2
    <3>2. EventsAgree(event, q, order[q])
      BY DEF PaymentInv
    <3>3. EventsAgree(event', q, order[q])
      BY <3>1, <3>2, OtherAgrees
    <3>4. order'[q] = order[q]
      BY <1>0, <1>7, <2>1
    <3>5. QED BY <3>3, <3>4
  <2>2. order'[o] = m
    BY <1>0, <1>7
  <2>3. QED BY <1>5, <1>7, <2>1, <2>2 DEF PaymentInv
<1>8. ASSUME NEW e \in Events, Decisive(o, amount, e),
             ApplyPayment(o, row, event[e].status)
      PROVE  PaymentInv'
  <2> DEFINE m == OrderAfter(row, event[e].status)
  <2>1. event[e].status \in Kinds
    BY <1>0, <1>8 DEF Decisive, Pending, Recorded, EventRow, Kinds
  <2>2. /\ m.amount = amount
        /\ m.status \notin {"absent", "created"}
        /\ DecidedBy(m, event[e].status)
    BY <1>6, <2>1, PaymentDecides
  <2>3. order' = [order EXCEPT ![o] = m]
    BY <1>8 DEF ApplyPayment
  <2> HIDE DEF m
  <2>4. /\ e \in Right(event, o, m)
        /\ \A f \in Right(event, o, m) : event[e].at <= event[f].at
    BY <1>3, <1>8, <2>2 DEF Decisive, Right
  <2>5. EventsAgree(event', o, m)
    BY <1>0, <1>1, <1>4, <2>2, <2>4, CreationAgrees
  <2>6. QED BY <1>7, <2>3, <2>5
<1>9. CASE /\ \A e \in Pending(o) : event[e].amount # amount
           /\ order' = [order EXCEPT ![o] = row]
  <2>1. /\ row.status = "created" /\ row.amount = amount
        /\ \A f \in Of(event, o) : event[f].amount # row.amount
    BY <1>3, <1>9
  <2>2. EventsAgree(event', o, row)
    BY <1>0, <1>1, <1>4, <2>1, CreationAgrees
  <2>3. QED BY <1>7, <1>9, <2>2
<1> QED BY <1>8, <1>9 DEF CreateOrder

LEMMA WebhookDecides ==
    ASSUME IInv, PaymentInv, NEW e \in Events, NEW o \in Orders,
           NEW kind \in Kinds, NEW amount \in Amounts,
           ~Recorded(e), ProcessPayment(e, o, kind, amount)
    PROVE  PaymentInv'
<1> DEFINE n == [status |-> kind, order |-> o, amount |-> amount,
                 processed |-> Exists(o), at |-> clock]
<1>0. /\ order \in [Orders -> OrderRow]
      /\ event \in [Events -> EventRow] /\ clock \in Nat
      /\ \A q \in Orders : PaidAgrees(order[q])
  BY StoreRows
<1>1. Arrived(event, clock) /\ EventsAgree(event, o, order[o])
  BY DEF PaymentInv
<1>2. /\ event' = [event EXCEPT ![e] = n] /\ clock' = clock + 1
      /\ IF Exists(o) /\ order[o].amount = amount
         THEN order' = [order EXCEPT ![o] = OrderAfter(order[o], kind)]
         ELSE order' = order
  BY DEF ProcessPayment, ApplyPayment
<1>3. n \in EventRow
  BY <1>0 DEF EventRow, Exists
<1>4. event[e].status = "none"
  BY DEF Recorded
<1>5. Arrived(event', clock')
  BY <1>0, <1>1, <1>2, <1>3, ArrivesAgain
<1>6. EventsAgree(event', o, order'[o])
  <2>1. CASE ~Exists(o)
    BY <1>0, <1>1, <1>2, <1>3, <2>1, EarlyEventAgrees DEF Exists
  <2>2. CASE Exists(o) /\ order[o].amount # amount
    BY <1>0, <1>1, <1>2, <1>3, <1>4, <2>2, WrongEventAgrees DEF Exists
  <2>3. CASE Exists(o) /\ order[o].amount = amount
    <3>1. EventsAgree([event EXCEPT ![e] = n], o, OrderAfter(order[o], n.status))
      BY <1>0, <1>1, <1>3, <1>4, <2>3, RightEventAgrees DEF Exists
    <3>2. order'[o] = OrderAfter(order[o], n.status)
      BY <1>0, <1>2, <2>3
    <3>3. QED BY <1>2, <3>1, <3>2
  <2>4. QED BY <2>1, <2>2, <2>3
<1>7. ASSUME NEW q \in Orders, q # o
      PROVE  EventsAgree(event', q, order'[q])
  <2>1. order'[q] = order[q]
    BY <1>0, <1>2, <1>7
  <2>2. \A f \in Events : \/ event'[f] = event[f]
                          \/ f \notin Of(event, q) /\ f \notin Of(event', q)
    BY <1>0, <1>2, <1>4, <1>7 DEF Of
  <2>3. EventsAgree(event, q, order[q])
    BY DEF PaymentInv
  <2>4. QED BY <2>1, <2>2, <2>3, OtherAgrees
<1> QED BY <1>5, <1>6, <1>7 DEF PaymentInv

(* Every other transaction leaves orders alone or moves them.              *)
LEMMA MoveDecides ==
    ASSUME IInv, PaymentInv, event' = event, clock' = clock,
           \A o \in Orders :
              \/ order'[o] = order[o]
              \/ /\ order[o].status \in PaidStatus
                 /\ \E s \in PaidStatus :
                       order'[o] = [order[o] EXCEPT !.status = s]
    PROVE  PaymentInv'
<1>1. order \in [Orders -> OrderRow] /\ event \in [Events -> EventRow]
  BY StoreRows
<1>2. ASSUME NEW o \in Orders PROVE EventsAgree(event, o, order'[o])
  <2>1. EventsAgree(event, o, order[o])
    BY DEF PaymentInv
  <2>2. ASSUME order[o].status \in PaidStatus, NEW s \in PaidStatus,
               order'[o] = [order[o] EXCEPT !.status = s]
        PROVE  EventsAgree(event, o, order'[o])
    BY <1>1, <2>1, <2>2, MovedAgrees
  <2>3. QED BY <2>1, <2>2
<1>3. QED BY <1>2 DEF PaymentInv

LEMMA PaymentInvNext == IInv /\ PaymentInv /\ [Next]_vars => PaymentInv'
<1> SUFFICES ASSUME IInv, PaymentInv, [Next]_vars PROVE PaymentInv'
  OBVIOUS
<1> DEFINE Moves == \A o \in Orders :
              \/ order'[o] = order[o]
              \/ /\ order[o].status \in PaidStatus
                 /\ \E s \in PaidStatus :
                       order'[o] = [order[o] EXCEPT !.status = s]
<1>0. order \in [Orders -> OrderRow]
  BY StoreRows
<1>1. ASSUME NEW o \in Orders, NEW amount \in Amounts, CreateOrder(o, amount)
      PROVE  PaymentInv'
  BY <1>1, CreateDecides
<1>2. ASSUME NEW e \in Events, NEW o \in Orders, NEW kind \in Kinds,
             NEW amount \in Amounts, ProcessPayment(e, o, kind, amount)
      PROVE  PaymentInv'
  <2>1. CASE ~Recorded(e)
    BY <1>2, <2>1, WebhookDecides
  <2>2. CASE Recorded(e)
    <3>1. event' = event /\ clock' = clock /\ order' = order
      BY <1>2, <2>2 DEF ProcessPayment, vars
    <3>2. QED BY <3>1, MoveDecides
  <2>3. QED BY <2>1, <2>2
<1>3. ASSUME NEW o \in Orders, NEW p \in Providers, NEW c \in Codes,
             MarkDelivered(o, p, c)
      PROVE  PaymentInv'
  <2>1. event' = event /\ clock' = clock /\ Moves
    BY <1>0, <1>3 DEF MarkDelivered, PaidStatus
  <2>2. QED BY <2>1, MoveDecides
<1>4. ASSUME NEW o \in Orders, ClaimNextJob(o)
      PROVE  PaymentInv'
  <2>1. event' = event /\ clock' = clock /\ Moves
    BY <1>0, <1>4 DEF ClaimNextJob, Claimable, PaidStatus
  <2>2. QED BY <2>1, MoveDecides
<1>5. ASSUME NEW o \in Orders, MarkOutOfStock(o) \/ MarkFailed(o)
      PROVE  PaymentInv'
  <2>1. event' = event /\ clock' = clock /\ Moves
    BY <1>0, <1>5 DEF MarkOutOfStock, MarkFailed, MarkRecoverableFailure,
                      PaidStatus
  <2>2. QED BY <2>1, MoveDecides
<1>6. ASSUME NEW o \in Orders, RetryDelivery(o)
      PROVE  PaymentInv'
  <2>1. order[o].status \in PaidStatus
    BY <1>0, <1>6 DEF RetryDelivery, OrderRow, OrderStatus, PaidStatus
  <2>2. event' = event /\ clock' = clock /\ Moves
    BY <1>0, <1>6, <2>1 DEF RetryDelivery, PaidStatus
  <2>3. QED BY <2>2, MoveDecides
<1>7. CASE RecoverStaleJobs
  <2>1. event' = event /\ clock' = clock /\ Moves
    BY <1>0, <1>7 DEF RecoverStaleJobs, RecoverRows, PaidStatus
  <2>2. QED BY <2>1, MoveDecides
<1>8. CASE \/ \E o \in Orders : \/ NextAttemptDue(o) \/ LeaseExpires(o)
                                \/ LoseAttempt(o)
           \/ Repair
           \/ UNCHANGED vars
  <2>1. event' = event /\ clock' = clock /\ order' = order
    BY <1>8 DEF NextAttemptDue, LeaseExpires, LoseAttempt, Repair,
              RepairRows, vars
  <2>2. QED BY <2>1, MoveDecides
<1> QED BY <1>1, <1>2, <1>3, <1>4, <1>5, <1>6, <1>7, <1>8 DEF Next

(* The first matching event decides an order, before it or after it, for   *)
(* any number of orders and of events in any order of arrival.             *)
THEOREM FirstMatchDecides == Spec => []FirstMatchWins
<1>1. IInv /\ PaymentInv => FirstMatchWins
  <2> SUFFICES ASSUME IInv, PaymentInv, NEW o \in Orders, Exists(o)
               PROVE  /\ Pending(o) = {}
                      /\ order[o].status = "created" <=> Matching(o) = {}
                      /\ \A e \in Events : First(o, e) =>
                           /\ order[o].paid <=> event[e].status = "paid"
                           /\ order[o].status = "payment_failed"
                                <=> event[e].status = "failed"
    BY DEF FirstMatchWins
  <2>1. EventsAgree(event, o, order[o]) /\ order[o].status # "absent"
    BY DEF PaymentInv, Exists
  <2>2. Matching(o) = Right(event, o, order[o])
    BY DEF Matching, Right, Of, Recorded
  <2>3. Pending(o) = {}
    BY <2>1 DEF EventsAgree, Pending, Of, Recorded
  <2>4. ASSUME NEW e \in Events, First(o, e)
        PROVE  DecidedBy(order[o], event[e].status)
    BY <2>1, <2>2, <2>4 DEF First, Earliest, EventsAgree
  <2>5. QED BY <2>1, <2>2, <2>3, <2>4 DEF EventsAgree, DecidedBy
<1>2. Init => PaymentInv
  BY PaymentInvInit
<1>3. IInv /\ PaymentInv /\ [Next]_vars => PaymentInv'
  BY PaymentInvNext
<1>4. QED BY <1>1, <1>2, <1>3, RowsCorrect, PTL DEF Spec
=============================================================================
