-------------------------- MODULE LifecycleProofs --------------------------
(***************************************************************************)
(* The tables of Store implement OrderLifecycle: every transaction is a    *)
(* step of the status graph or leaves it alone, and a code is handed over  *)
(* in the step that makes the order delivered, never before or after.      *)
(***************************************************************************)
EXTENDS StoreProofs

(* A row without a delivery holds no code.                                 *)
CodesInv == \A o \in Orders :
                attempt[o].status # "delivered" => attempt[o].code = None

(* What a payment makes of such a row is such a row.                       *)
LEMMA PaymentCodes ==
    ASSUME NEW r, NEW a \in AttemptRow, NEW kind,
           a.status # "delivered" => a.code = None
    PROVE  /\ AttemptAfter(r, a, kind).code = a.code
           /\ AttemptAfter(r, a, kind).status = "delivered"
                => a.status = "delivered"
  BY DEF AttemptAfter, UpsertAttempt, PendingAttempt, NoAttempt, AttemptRow, Idle

(* Every step but a delivery.                                              *)
Quiet ==
    \/ \E o \in Orders, amount \in Amounts : CreateOrder(o, amount)
    \/ \E e \in Events, o \in Orders, kind \in Kinds, amount \in Amounts :
          ProcessPayment(e, o, kind, amount)
    \/ \E o \in Orders : \/ ClaimNextJob(o) \/ MarkOutOfStock(o)
                         \/ MarkFailed(o) \/ RetryDelivery(o)
                         \/ NextAttemptDue(o) \/ LeaseExpires(o)
                         \/ LoseAttempt(o)
    \/ RecoverStaleJobs
    \/ Repair
    \/ UNCHANGED vars

(* Such a step keeps the codes there are and delivers nothing.             *)
LEMMA QuietCodes ==
    ASSUME TypeOK, CodesInv, Quiet, NEW o \in Orders
    PROVE  /\ attempt'[o].code = attempt[o].code
           /\ attempt'[o].status = "delivered"
                => attempt[o].status = "delivered"
<1> DEFINE Kept == /\ attempt'[o].code = attempt[o].code
                   /\ attempt'[o].status = "delivered"
                        => attempt[o].status = "delivered"
<1>0. /\ attempt \in [Orders -> AttemptRow]
      /\ attempt[o].status # "delivered" => attempt[o].code = None
  BY TypeRows DEF CodesInv
<1>a. ASSUME attempt'[o] = attempt[o] PROVE Kept
  BY <1>a
<1>b. ASSUME NEW q \in Orders, NEW r, NEW kind, ApplyPayment(q, r, kind)
      PROVE  Kept
  BY <1>0, <1>b, PaymentCodes DEF ApplyPayment
<1>1. ASSUME NEW q \in Orders, NEW amount \in Amounts, CreateOrder(q, amount)
      PROVE  Kept
  BY <1>1, <1>a, <1>b DEF CreateOrder
<1>2. ASSUME NEW e \in Events, NEW q \in Orders, NEW kind \in Kinds,
             NEW amount \in Amounts, ProcessPayment(e, q, kind, amount)
      PROVE  Kept
  BY <1>2, <1>a, <1>b DEF ProcessPayment, vars
<1>3. ASSUME NEW q \in Orders,
             \/ ClaimNextJob(q) \/ MarkOutOfStock(q) \/ MarkFailed(q)
      PROVE  Kept
  BY <1>0, <1>3 DEF ClaimNextJob, MarkOutOfStock, MarkFailed,
                    MarkRecoverableFailure, AttemptRow
<1>4. ASSUME NEW q \in Orders, RetryDelivery(q)
      PROVE  Kept
  <2>1. CASE attempt' = [attempt EXCEPT ![q] = PendingAttempt]
             /\ attempt[q].status = "none"
    BY <1>0, <2>1 DEF PendingAttempt, NoAttempt
  <2>2. ASSUME NEW lease,
               attempt' = [attempt EXCEPT ![q].status = "pending",
                                          ![q].next = "due",
                                          ![q].lease = lease]
        PROVE  Kept
    BY <1>0, <2>2 DEF AttemptRow
  <2>3. QED BY <1>4, <2>1, <2>2 DEF RetryDelivery
<1>5. ASSUME NEW q \in Orders,
             \/ NextAttemptDue(q) \/ LeaseExpires(q) \/ LoseAttempt(q)
      PROVE  Kept
  BY <1>0, <1>5 DEF NextAttemptDue, LeaseExpires, LoseAttempt, AttemptRow,
                    NoAttempt, Idle
<1>6. CASE RecoverStaleJobs
  BY <1>0, <1>6 DEF RecoverStaleJobs, RecoverRows, AttemptRow
<1>7. CASE Repair
  <2>1. \/ attempt'[o] = PendingAttempt /\ attempt[o].status = "none"
        \/ attempt'[o] = [attempt[o] EXCEPT !.next = "due"]
        \/ attempt'[o] = attempt[o]
    BY <1>7 DEF Repair, RepairRows, MissingJobs, UnscheduledJobs, Idle
  <2>2. QED BY <1>0, <2>1 DEF PendingAttempt, NoAttempt, AttemptRow
<1>8. CASE UNCHANGED vars
  BY <1>8, <1>a DEF vars
<1>9. QED
  BY <1>1, <1>2, <1>3, <1>4, <1>5, <1>6, <1>7, <1>8 DEF Quiet

(* The jobs after a step: all but a delivery keep the codes there are.     *)
LEMMA CodesNext ==
    ASSUME TypeOK, CodesInv, [Next]_vars, NEW o \in Orders
    PROVE  \/ /\ attempt'[o].code = attempt[o].code
              /\ attempt'[o].status = "delivered"
                   => attempt[o].status = "delivered"
           \/ attempt'[o].status = "delivered" /\ order[o].status = "delivering"
<1>1. CASE Quiet
  BY <1>1, QuietCodes
<1>2. ASSUME NEW q \in Orders, NEW p \in Providers, NEW c \in Codes,
             MarkDelivered(q, p, c)
      PROVE  \/ attempt'[o] = attempt[o]
             \/ attempt'[o].status = "delivered"
                /\ order[o].status = "delivering"
  BY <1>2, TypeRows DEF MarkDelivered
<1>3. QED BY <1>1, <1>2 DEF Next, Quiet

-----------------------------------------------------------------------------

Step == Lifecycle!Next \/ UNCHANGED Lifecycle!lifecycleVars

(* A step that changes the status of one order along an edge, or not at    *)
(* all, and leaves the codes alone.                                        *)
LEMMA OneStatus ==
    ASSUME NEW o \in Orders,
           \A q \in Orders \ {o} : order'[q].status = order[q].status,
           \A q \in Orders : attempt'[q].code = attempt[q].code,
           \/ order'[o].status = order[o].status
           \/ /\ order[o].status = "absent"
              /\ order'[o].status \in {"created", "paid", "payment_failed"}
           \/ /\ order[o].status = "created"
              /\ order'[o].status \in {"paid", "payment_failed"}
           \/ /\ order[o].status \in Claimable
              /\ order'[o].status = "delivering"
           \/ /\ order[o].status = "delivering"
              /\ order'[o].status \in {"out_of_stock", "delivery_failed"}
           \/ /\ order[o].status \in {"out_of_stock", "delivery_failed"}
              /\ order'[o].status = "paid"
    PROVE  Step
<1> DEFINE st == [q \in Orders |-> order[q].status]
           st1 == [q \in Orders |-> order'[q].status]
           sold == [q \in Orders |-> attempt[q].code]
           sold1 == [q \in Orders |-> attempt'[q].code]
<1>1. sold1 = sold
  OBVIOUS
<1>2. st1 = [st EXCEPT ![o] = order'[o].status]
  OBVIOUS
<1>3. CASE order'[o].status = order[o].status
  <2>1. st1 = st
    BY <1>3
  <2>2. QED BY <1>1, <2>1 DEF Step, Lifecycle!lifecycleVars
<1>4. CASE /\ order[o].status = "absent"
           /\ order'[o].status \in {"created", "paid", "payment_failed"}
  <2>1. Lifecycle!Register(o)
    BY <1>1, <1>2, <1>4 DEF Lifecycle!Register
  <2>2. QED BY <2>1 DEF Step, Lifecycle!Next
<1>5. CASE /\ order[o].status = "created"
           /\ order'[o].status \in {"paid", "payment_failed"}
  <2>1. Lifecycle!Settle(o)
    BY <1>1, <1>2, <1>5 DEF Lifecycle!Settle
  <2>2. QED BY <2>1 DEF Step, Lifecycle!Next
<1>6. CASE order[o].status \in Claimable /\ order'[o].status = "delivering"
  <2>1. Lifecycle!Dispatch(o)
    BY <1>1, <1>2, <1>6 DEF Lifecycle!Dispatch, Lifecycle!Waiting, Claimable
  <2>2. QED BY <2>1 DEF Step, Lifecycle!Next
<1>7. CASE order[o].status = "delivering" /\ order'[o].status = "out_of_stock"
  <2>1. Lifecycle!RunOut(o)
    BY <1>1, <1>2, <1>7 DEF Lifecycle!RunOut
  <2>2. QED BY <2>1 DEF Step, Lifecycle!Next
<1>8. CASE /\ order[o].status = "delivering"
           /\ order'[o].status = "delivery_failed"
  <2>1. Lifecycle!Fail({o})
    BY <1>1, <1>8 DEF Lifecycle!Fail
  <2>2. {o} \in SUBSET Orders
    OBVIOUS
  <2>3. QED BY <2>1, <2>2 DEF Step, Lifecycle!Next
<1>9. CASE /\ order[o].status \in {"out_of_stock", "delivery_failed"}
           /\ order'[o].status = "paid"
  <2>1. Lifecycle!Requeue(o)
    BY <1>1, <1>2, <1>9 DEF Lifecycle!Requeue
  <2>2. QED BY <2>1 DEF Step, Lifecycle!Next
<1>10. QED BY <1>3, <1>4, <1>5, <1>6, <1>7, <1>8, <1>9

(* A payment settles an order, revives one that waits for a retry, or does *)
(* nothing to its status.                                                  *)
LEMMA PaymentEdges ==
    ASSUME NEW r \in OrderRow, NEW kind \in Kinds
    PROVE  \/ OrderAfter(r, kind).status = r.status
           \/ /\ r.status = "created"
              /\ OrderAfter(r, kind).status \in {"paid", "payment_failed"}
           \/ /\ r.status \in {"out_of_stock", "delivery_failed"}
              /\ OrderAfter(r, kind).status = "paid"
  BY DEF OrderAfter, OrderRow, OrderStatus

(* Codes change hands only where an order becomes delivered.               *)
LEMMA CodesKept ==
    ASSUME IInv, CodesInv, [Next]_vars,
           \A q \in Orders : order[q].status = "delivering"
                              => order'[q].status # "delivered"
    PROVE  \A q \in Orders : attempt'[q].code = attempt[q].code
<1> SUFFICES ASSUME NEW q \in Orders
             PROVE  attempt'[q].code = attempt[q].code
  OBVIOUS
<1>1. <<order'[q].status, attempt'[q].status>> \in Pairs
  BY RowsNext DEF RowsInv, RowsAgree, StatusesAgree
<1>2. ASSUME attempt'[q].status = "delivered"
      PROVE  order'[q].status = "delivered"
  BY <1>1, <1>2 DEF Pairs, StatusPairs, LossPairs
<1>3. QED BY <1>2, CodesNext DEF IInv

(* Every step of Store is a step of OrderLifecycle or a stutter.           *)
LEMMA LifecycleNext == IInv /\ CodesInv /\ [Next]_vars => Step
<1> SUFFICES ASSUME IInv, CodesInv, [Next]_vars PROVE Step
  OBVIOUS
<1>0. /\ order \in [Orders -> OrderRow] /\ event \in [Events -> EventRow]
      /\ attempt \in [Orders -> AttemptRow] /\ RowsInv
  BY TypeRows DEF IInv
<1>1. ASSUME NEW o \in Orders, NEW amount \in Amounts, CreateOrder(o, amount)
      PROVE  Step
  <2> DEFINE row == [status |-> "created", amount |-> amount, paid |-> FALSE]
  <2>1. order[o].status = "absent"
    BY <1>1 DEF CreateOrder, Exists
  <2>2. ASSUME NEW e \in Events, Decisive(o, amount, e),
               ApplyPayment(o, row, event[e].status)
        PROVE  /\ order' = [order EXCEPT ![o] = order'[o]]
               /\ order'[o].status \in {"created", "paid", "payment_failed"}
    <3>1. row \in OrderRow /\ event[e].status \in Kinds
      BY <1>0, <2>2 DEF Decisive, Pending, Recorded, EventRow, Kinds,
                        OrderRow, OrderStatus
    <3>2. QED BY <1>0, <2>2, <3>1, PaymentEdges DEF ApplyPayment
  <2>3. /\ order' = [order EXCEPT ![o] = order'[o]]
        /\ order'[o].status \in {"created", "paid", "payment_failed"}
    <3>1. CASE order' = [order EXCEPT ![o] = row]
      BY <1>0, <3>1
    <3>2. QED BY <1>1, <2>2, <3>1 DEF CreateOrder
  <2>4. \A q \in Orders : attempt'[q].code = attempt[q].code
    BY <1>0, <2>1, <2>3, CodesKept
  <2>5. QED BY <1>0, <2>1, <2>3, <2>4, OneStatus
<1>2. ASSUME NEW e \in Events, NEW o \in Orders, NEW kind \in Kinds,
             NEW amount \in Amounts, ProcessPayment(e, o, kind, amount)
      PROVE  Step
  <2>1. /\ order' = [order EXCEPT ![o] = order'[o]]
        /\ order'[o] = order[o] \/ order'[o] = OrderAfter(order[o], kind)
    BY <1>0, <1>2 DEF ProcessPayment, ApplyPayment, vars
  <2>2. \A q \in Orders : attempt'[q].code = attempt[q].code
    BY <1>0, <2>1, PaymentEdges, CodesKept
  <2>3. QED BY <1>0, <2>1, <2>2, PaymentEdges, OneStatus
<1>3. ASSUME NEW o \in Orders, NEW p \in Providers, NEW c \in Codes,
             MarkDelivered(o, p, c)
      PROVE  Step
  <2>1. /\ [q \in Orders |-> order'[q].status]
             = [[q \in Orders |-> order[q].status] EXCEPT ![o] = "delivered"]
        /\ [q \in Orders |-> attempt'[q].code]
             = [[q \in Orders |-> attempt[q].code] EXCEPT ![o] = c]
        /\ order[o].status = "delivering"
    BY <1>0, <1>3 DEF MarkDelivered, OrderRow
  <2>2. Lifecycle!Deliver(o, c)
    BY <2>1 DEF Lifecycle!Deliver
  <2>3. QED BY <2>2 DEF Step, Lifecycle!Next
<1>4. ASSUME NEW o \in Orders, ClaimNextJob(o) PROVE Step
  <2>1. /\ order' = [order EXCEPT ![o] = order'[o]]
        /\ order[o].status \in Claimable /\ order'[o].status = "delivering"
    BY <1>0, <1>4 DEF ClaimNextJob, OrderRow
  <2>2. \A q \in Orders : attempt'[q].code = attempt[q].code
    BY <1>0, <2>1, CodesKept
  <2>3. QED BY <1>0, <2>1, <2>2, OneStatus
<1>5. ASSUME NEW o \in Orders, MarkOutOfStock(o) \/ MarkFailed(o)
      PROVE  Step
  <2>1. order[o].status = "delivering"
    BY <1>0, <1>5, RunningJob DEF MarkOutOfStock, MarkFailed,
                                  MarkRecoverableFailure
  <2>2. /\ order' = [order EXCEPT ![o] = order'[o]]
        /\ order'[o].status \in {"out_of_stock", "delivery_failed"}
    BY <1>0, <1>5, <2>1 DEF MarkOutOfStock, MarkFailed,
                            MarkRecoverableFailure, OrderRow
  <2>3. \A q \in Orders : attempt'[q].code = attempt[q].code
    BY <1>0, <2>2, CodesKept
  <2>4. QED BY <1>0, <2>1, <2>2, <2>3, OneStatus
<1>6. ASSUME NEW o \in Orders, RetryDelivery(o) PROVE Step
  <2>1. order[o].status \in Claimable
    <3>1. <<order[o].status, attempt[o].status>> \in Pairs
      BY <1>0 DEF RowsInv, RowsAgree, StatusesAgree
    <3>2. /\ attempt[o].status \in {"none", "pending"} \cup Idle
          /\ order[o].status \notin {"absent", "created", "payment_failed"}
      BY <1>6 DEF RetryDelivery
    <3>3. QED BY <3>1, <3>2 DEF Pairs, StatusPairs, LossPairs, Claimable, Idle
  <2>2. /\ order' = [order EXCEPT ![o] = order'[o]]
        /\ order'[o].status = "paid"
    BY <1>0, <1>6, <2>1 DEF RetryDelivery, OrderRow
  <2>3. \A q \in Orders : attempt'[q].code = attempt[q].code
    BY <1>0, <2>2, CodesKept
  <2>4. QED BY <1>0, <2>1, <2>2, <2>3, OneStatus DEF Claimable
<1>7. CASE RecoverStaleJobs
  <2>1. \A o \in Stale : order[o].status = "delivering"
    BY <1>0, RunningJob DEF Stale
  <2>2. \A o \in Orders : order'[o].status = IF o \in Stale
                            THEN "delivery_failed" ELSE order[o].status
    BY <1>0, <1>7, <2>1 DEF RecoverStaleJobs, RecoverRows, OrderRow
  <2>3. \A q \in Orders : attempt'[q].code = attempt[q].code
    BY <2>2, CodesKept
  <2>4. Stale # {} /\ Stale \in SUBSET Orders
    BY <1>7 DEF RecoverStaleJobs, Stale
  <2>5. PICK S \in SUBSET Orders : S = Stale
    BY <2>4
  <2>6. Lifecycle!Fail(S)
    BY <2>1, <2>2, <2>3, <2>4, <2>5 DEF Lifecycle!Fail
  <2>7. QED BY <2>6 DEF Step, Lifecycle!Next
<1>8. CASE \/ Repair \/ UNCHANGED vars
           \/ \E o \in Orders :
                 NextAttemptDue(o) \/ LeaseExpires(o) \/ LoseAttempt(o)
  <2>1. order' = order
    BY <1>8 DEF Repair, RepairRows, vars, NextAttemptDue, LeaseExpires,
                LoseAttempt
  <2>2. \A q \in Orders : attempt'[q].code = attempt[q].code
    BY <2>1, CodesKept
  <2>3. QED BY <2>1, <2>2 DEF Step, Lifecycle!lifecycleVars
<1>9. QED BY <1>1, <1>2, <1>3, <1>4, <1>5, <1>6, <1>7, <1>8 DEF Next

(* The tables implement the abstract life of an order: the statuses follow *)
(* the graph of the README and a code is sold once, with the delivery.     *)
THEOREM TablesImplementLifecycle == Spec => ImplementsLifecycle
<1>1. Init => CodesInv
  BY DEF Init, CodesInv, NoAttempt
<1>2. IInv /\ CodesInv /\ [Next]_vars => CodesInv'
  <2> SUFFICES ASSUME IInv, CodesInv, [Next]_vars, NEW o \in Orders,
                      attempt'[o].status # "delivered"
               PROVE  attempt'[o].code = None
    BY DEF CodesInv
  <2>1. attempt[o].status # "delivered"
    BY DeliveredNext
  <2>2. QED BY <2>1, CodesNext DEF IInv, CodesInv
<1>3. Init => Lifecycle!Init
  BY DEF Init, Lifecycle!Init, NoOrder, NoAttempt
<1>4. IInv /\ CodesInv /\ [Next]_vars
        => [Lifecycle!Next]_(Lifecycle!lifecycleVars)
  BY LifecycleNext DEF Step
<1>5. QED
  BY <1>1, <1>2, <1>3, <1>4, RowsCorrect, PTL
     DEF Spec, ImplementsLifecycle, Lifecycle!Spec
=============================================================================
