------------------------- MODULE ApplicationProofs -------------------------
(***************************************************************************)
(* The process and its clients run the transactions of Store, so that what *)
(* is proved of the tables holds under starts, stops and kills; and what a *)
(* client was told stays true, for any number of orders, events, requests. *)
(***************************************************************************)
EXTENDS Application, StoreProofs

(* A webhook carries what the payment system has to say, and what is on    *)
(* record is what it said.                                                 *)
NoticesInv ==
    \A e \in Events :
        /\ <<"pay", e>> \in open => notice[e] # None
        /\ Recorded(e) => /\ notice[e] # None
                          /\ event[e].order = notice[e].order
                          /\ event[e].status = notice[e].kind
                          /\ event[e].amount = notice[e].amount

(* What clients were told.                                                 *)
ToldInv ==
    /\ \A o \in Orders : /\ <<"created", o>> \in told => Exists(o)
                         /\ <<"delivered", o>> \in told
                              => attempt[o].status = "delivered"
    /\ \A e \in Events : <<"accepted", e>> \in told => Recorded(e)

AInv == IInv /\ ATypeOK /\ NoticesInv /\ ToldInv

LEMMA AInvInit == AInit => AInv
<1> SUFFICES ASSUME AInit PROVE AInv
  OBVIOUS
<1>1. IInv
  BY RowsInit DEF AInit
<1>2. ATypeOK
  BY DEF AInit, ATypeOK
<1>3. NoticesInv
  BY DEF AInit, Init, NoticesInv, Recorded, NoEvent
<1>4. ToldInv
  BY DEF AInit, ToldInv
<1>5. QED BY <1>1, <1>2, <1>3, <1>4 DEF AInv

-----------------------------------------------------------------------------
(* What transactions do to the facts clients were told.                    *)

(* Orders are never deleted.                                               *)
LEMMA OrdersStay ==
    ASSUME IInv, [Next]_vars, NEW o \in Orders, Exists(o)
    PROVE  Exists(o)'
<1> SUFFICES order'[o].status # "absent"
  BY DEF Exists
<1>0. order \in [Orders -> OrderRow] /\ order[o].status # "absent"
  BY StoreRows DEF Exists
<1>a. ASSUME order'[o] = order[o] PROVE order'[o].status # "absent"
  BY <1>0, <1>a
<1>1. ASSUME NEW q \in Orders, NEW amount \in Amounts, CreateOrder(q, amount)
      PROVE  order'[o].status # "absent"
  <2>1. q # o
    BY <1>0, <1>1 DEF CreateOrder, Exists
  <2>2. order'[o] = order[o]
    BY <1>0, <1>1, <2>1 DEF CreateOrder, ApplyPayment
  <2>3. QED BY <1>a, <2>2
<1>2. ASSUME NEW e \in Events, NEW q \in Orders, NEW kind \in Kinds,
             NEW amount \in Amounts, ProcessPayment(e, q, kind, amount)
      PROVE  order'[o].status # "absent"
  <2>1. order'[o] = order[o] \/ order'[o] = OrderAfter(order[o], kind)
    BY <1>0, <1>2 DEF ProcessPayment, ApplyPayment, vars
  <2>2. OrderAfter(order[o], kind).status # "absent"
    <3>1. PICK r \in OrderRow : r = order[o]
      BY <1>0
    <3>2. r.status # "absent"
      BY <1>0, <3>1
    <3>3. OrderAfter(r, kind).status # "absent"
      BY <3>2 DEF OrderAfter, OrderRow
    <3>4. QED BY <3>1, <3>3
  <2>3. QED BY <1>a, <2>1, <2>2
<1>3. CASE \A q \in Orders :
              \/ order'[q] = order[q]
              \/ \E s \in PaidStatus : order'[q] = [order[q] EXCEPT !.status = s]
  BY <1>0, <1>3 DEF OrderRow, PaidStatus
<1>4. ASSUME NEW q \in Orders,
             \/ \E p \in Providers, c \in Codes : MarkDelivered(q, p, c)
             \/ ClaimNextJob(q) \/ MarkOutOfStock(q) \/ MarkFailed(q)
             \/ RetryDelivery(q)
      PROVE  order'[o].status # "absent"
  BY <1>0, <1>3, <1>4 DEF MarkDelivered, ClaimNextJob, MarkOutOfStock,
       MarkFailed, MarkRecoverableFailure, RetryDelivery, PaidStatus
<1>5. CASE RecoverStaleJobs
  BY <1>0, <1>3, <1>5 DEF RecoverStaleJobs, RecoverRows, PaidStatus
<1>6. CASE \/ Repair \/ UNCHANGED vars
           \/ \E q \in Orders :
                 NextAttemptDue(q) \/ LeaseExpires(q) \/ LoseAttempt(q)
  BY <1>a, <1>6 DEF Repair, RepairRows, vars, NextAttemptDue, LeaseExpires,
                    LoseAttempt
<1>7. QED BY <1>1, <1>2, <1>4, <1>5, <1>6 DEF Next

(* Every transaction but a webhook keeps what events say.                  *)
Says(ev) == [e \in Events |-> <<ev[e].status, ev[e].order, ev[e].amount>>]

LEMMA CreationKeepsEvents ==
    ASSUME IInv, NEW o \in Orders, NEW amount \in Amounts,
           CreateOrder(o, amount)
    PROVE  Says(event') = Says(event)
<1>1. event \in [Events -> EventRow]
  BY StoreRows
<1>2. event' = Marked(event, Pending(o))
  BY DEF CreateOrder, Marked
<1>3. \A e \in Events : /\ event'[e].status = event[e].status
                        /\ event'[e].order = event[e].order
                        /\ event'[e].amount = event[e].amount
  BY <1>1, <1>2, MarkedRows
<1>4. QED BY <1>3 DEF Says

(* A payment, a creation or a retry leaves a running job running, and so   *)
(* do Repair and time.                                                     *)
LEMMA RunningStays ==
    ASSUME IInv, NEW j \in Orders, attempt[j].status = "processing",
           \/ \E o \in Orders, amount \in Amounts : CreateOrder(o, amount)
           \/ \E e \in Events, o \in Orders, kind \in Kinds, amount \in Amounts :
                 ProcessPayment(e, o, kind, amount)
           \/ \E o \in Orders : \/ RetryDelivery(o) \/ NextAttemptDue(o)
                                \/ LeaseExpires(o) \/ LoseAttempt(o)
           \/ Repair
           \/ UNCHANGED vars
    PROVE  attempt'[j].status = "processing"
<1>0. attempt \in [Orders -> AttemptRow] /\ RowsInv
  BY TypeRows DEF IInv
<1>a. ASSUME attempt'[j] = attempt[j] PROVE attempt'[j].status = "processing"
  BY <1>a
<1>1. ASSUME NEW o \in Orders, NEW amount \in Amounts, CreateOrder(o, amount)
      PROVE  attempt'[j] = attempt[j]
  <2>1. o # j
    BY <1>0, <1>1, RunningJob DEF CreateOrder, Exists
  <2>2. QED BY <1>0, <1>1, <2>1 DEF CreateOrder, ApplyPayment
<1>2. ASSUME NEW e \in Events, NEW o \in Orders, NEW kind \in Kinds,
             NEW amount \in Amounts, ProcessPayment(e, o, kind, amount)
      PROVE  attempt'[j] = attempt[j]
  <2>1. AttemptAfter(order[j], attempt[j], kind) = attempt[j]
    BY DEF AttemptAfter, UpsertAttempt, Idle
  <2>2. QED BY <1>0, <1>2, <2>1 DEF ProcessPayment, ApplyPayment, vars
<1>3. ASSUME NEW o \in Orders, RetryDelivery(o) \/ LoseAttempt(o)
      PROVE  attempt'[j] = attempt[j]
  <2>1. o # j
    BY <1>3 DEF RetryDelivery, LoseAttempt, Idle
  <2>2. QED BY <1>0, <1>3, <2>1 DEF RetryDelivery, LoseAttempt
<1>4. ASSUME NEW o \in Orders, NextAttemptDue(o) \/ LeaseExpires(o)
      PROVE  attempt'[j].status = "processing"
  BY <1>0, <1>4 DEF NextAttemptDue, LeaseExpires, AttemptRow
<1>5. CASE Repair
  BY <1>5 DEF Repair, RepairRows, MissingJobs, UnscheduledJobs, Idle
<1>6. CASE UNCHANGED vars
  BY <1>6 DEF vars
<1>7. QED BY <1>a, <1>1, <1>2, <1>3, <1>4, <1>5, <1>6

-----------------------------------------------------------------------------
(* A step that runs a transaction of Store or none, and tells nothing new, *)
(* keeps what was told.                                                    *)
LEMMA ToldStays ==
    ASSUME IInv, ToldInv, [Next]_vars, told' = told,
           \A e \in Events : Recorded(e) => Recorded(e)'
    PROVE  ToldInv'
<1>1. \A o \in Orders : Exists(o) => Exists(o)'
  BY OrdersStay
<1>2. \A o \in Orders : attempt[o].status = "delivered"
                          => attempt'[o].status = "delivered"
  BY DeliveredNext
<1>3. QED BY <1>1, <1>2 DEF ToldInv

(* An answer is of one kind and about one thing.                          *)
LEMMA AnswersDiffer ==
    ASSUME NEW k \in {"created", "delivered", "accepted"}, NEW x
    PROVE  \A l, y : <<k, x>> = <<l, y>> => l = k /\ y = x
  OBVIOUS

(* One that adds an answer keeps it, if the answer is true.                *)
LEMMA ToldGrows ==
    ASSUME IInv, ToldInv, [Next]_vars, NEW a, told' \in {told, told \cup {a}},
           \A e \in Events : Recorded(e) => Recorded(e)',
           \A o \in Orders : a = <<"created", o>> => Exists(o)',
           \A o \in Orders : a = <<"delivered", o>>
                               => attempt'[o].status = "delivered",
           \A e \in Events : a = <<"accepted", e>> => Recorded(e)'
    PROVE  ToldInv'
<1>1. \A o \in Orders : Exists(o) => Exists(o)'
  BY OrdersStay
<1>2. \A o \in Orders : attempt[o].status = "delivered"
                          => attempt'[o].status = "delivered"
  BY DeliveredNext
<1>3. QED BY <1>1, <1>2 DEF ToldInv

(* Notices stay true while events are kept and no webhook is added.        *)
LEMMA NoticesStay ==
    ASSUME NoticesInv, notice' = notice, Says(event') = Says(event),
           \A e \in Events : <<"pay", e>> \in open' => <<"pay", e>> \in open
    PROVE  NoticesInv' /\ \A e \in Events : Recorded(e) => Recorded(e)'
<1>1. \A e \in Events : /\ event'[e].status = event[e].status
                        /\ event'[e].order = event[e].order
                        /\ event'[e].amount = event[e].amount
  <2> SUFFICES ASSUME NEW e \in Events
               PROVE  /\ event'[e].status = event[e].status
                      /\ event'[e].order = event[e].order
                      /\ event'[e].amount = event[e].amount
    OBVIOUS
  <2>1. Says(event')[e] = Says(event)[e]
    OBVIOUS
  <2>2. QED BY <2>1 DEF Says
<1>2. QED BY <1>1 DEF NoticesInv, Recorded

(* A step in which no transaction commits and no client hears anything.    *)
LEMMA SilentStep ==
    ASSUME AInv, UNCHANGED <<vars, notice, told>>,
           \A e \in Events : <<"pay", e>> \in open' => <<"pay", e>> \in open
    PROVE  [Next]_vars /\ NoticesInv' /\ ToldInv'
<1>1. [Next]_vars /\ event' = event
  BY DEF vars
<1>2. NoticesInv' /\ \A e \in Events : Recorded(e) => Recorded(e)'
  BY <1>1, NoticesStay DEF AInv
<1>3. ToldInv'
  BY <1>1, <1>2, ToldStays DEF AInv
<1>4. QED BY <1>1, <1>2, <1>3

(* The process: start, stop, kill and what fails in it.                    *)
LEMMA ProcessStep ==
    ASSUME AInv,
           \/ Start \/ Interrupt \/ NoticeFailure \/ Exit \/ Kill
           \/ WorkerDrops \/ WorkerFindsNothing \/ WorkerPollsAgain
           \/ LoopFails
    PROVE  [Next]_vars /\ ATypeOK' /\ NoticesInv' /\ ToldInv'
<1>1. UNCHANGED <<vars, notice, told>> /\ open' \in {open, {}}
  BY DEF Start, Interrupt, NoticeFailure, Stop, Exit, Kill, WorkerDrops,
         WorkerFindsNothing, WorkerPollsAgain, LoopFails
<1>2. [Next]_vars /\ NoticesInv' /\ ToldInv'
  BY <1>1, SilentStep
<1>3. attempt' = attempt
  BY <1>1 DEF vars
<1>4. rest' \in BOOLEAN /\ (rest' => app' = "up" /\ job' = None)
  <2>0. rest \in BOOLEAN /\ (rest => app = "up" /\ job = None)
    BY DEF AInv, ATypeOK
  <2>1. CASE Start \/ Exit \/ WorkerDrops \/ LoopFails
    <3>1. CASE WorkerDrops
      BY <2>0, <3>1, Zenon DEF WorkerDrops
    <3>2. CASE LoopFails
      BY <2>0, <3>2, Zenon DEF LoopFails
    <3>3. CASE Start \/ Exit
      <4>1. app # "up" /\ rest' = rest
        BY <3>3 DEF Start, Exit
      <4>2. QED BY <2>0, <4>1, Zenon
    <3>4. QED BY <2>1, <3>1, <3>2, <3>3
  <2>2. CASE Interrupt \/ NoticeFailure \/ Kill \/ WorkerPollsAgain
    BY <2>2 DEF Interrupt, NoticeFailure, Stop, Kill, WorkerPollsAgain
  <2>3. CASE WorkerFindsNothing
    BY <2>3 DEF WorkerFindsNothing, Polls
  <2>4. QED BY <2>1, <2>2, <2>3
<1>5. ATypeOK'
  <2>0. ATypeOK
    BY DEF AInv
  <2>1. CASE Start \/ Exit
    BY <1>1, <1>3, <1>4, <2>0, <2>1 DEF ATypeOK, Start, Exit
  <2>2. CASE Interrupt \/ NoticeFailure \/ Kill
    BY <1>1, <1>3, <1>4, <2>0, <2>2
       DEF ATypeOK, Interrupt, NoticeFailure, Stop, Kill
  <2>3. CASE WorkerDrops \/ WorkerFindsNothing \/ WorkerPollsAgain
    BY <1>1, <1>3, <1>4, <2>0, <2>3
       DEF ATypeOK, WorkerDrops, WorkerFindsNothing, WorkerPollsAgain
  <2>4. CASE LoopFails
    BY <1>1, <1>3, <1>4, <2>0, <2>4 DEF ATypeOK, LoopFails
  <2>5. QED BY <2>1, <2>2, <2>3, <2>4
<1>6. QED BY <1>2, <1>5

(* The worker and the repair loop.                                         *)
LEMMA WorkStep ==
    ASSUME AInv,
           \/ WorkerClaims \/ WorkerFinishes \/ WorkerRecovers \/ LoopRepairs
    PROVE  [Next]_vars /\ ATypeOK' /\ NoticesInv' /\ ToldInv'
<1>0. attempt \in [Orders -> AttemptRow] /\ job \in Orders \cup {None}
  BY TypeRows DEF AInv, IInv, ATypeOK
<1>1. UNCHANGED <<app, loop, open, notice, told, event>>
  BY DEF WorkerClaims, WorkerFinishes, WorkerRecovers, LoopRepairs, processVars,
         ClaimNextJob, MarkDelivered, MarkFailed, MarkOutOfStock,
         MarkRecoverableFailure, RecoverStaleJobs, RecoverRows, Repair, RepairRows
<1>2. [Next]_vars
  BY <1>0 DEF WorkerClaims, WorkerFinishes, WorkerRecovers, LoopRepairs, Next
<1>3. NoticesInv' /\ \A e \in Events : Recorded(e) => Recorded(e)'
  BY <1>1, NoticesStay DEF AInv
<1>4. ToldInv'
  BY <1>1, <1>2, <1>3, ToldStays DEF AInv
<1>5. /\ job' \in Orders \cup {None}
      /\ job' # None => app = "up" /\ attempt'[job'].status = "processing"
  <2>1. ASSUME NEW o \in Orders, ClaimNextJob(o), app = "up", job' = o
        PROVE  app = "up" /\ attempt'[job'].status = "processing"
    BY <1>0, <2>1 DEF ClaimNextJob, AttemptRow
  <2>2. CASE WorkerFinishes
    BY <2>2 DEF WorkerFinishes
  <2>3. CASE WorkerRecovers
    BY <2>3 DEF WorkerRecovers, AInv, ATypeOK
  <2>4. CASE LoopRepairs
    <3>1. job' = job /\ Repair
      BY <2>4 DEF LoopRepairs, processVars
    <3>2. job # None => attempt'[job].status = "processing"
      BY <1>0, <3>1, RunningStays DEF AInv, ATypeOK
    <3>3. QED BY <1>0, <3>1, <3>2 DEF AInv, ATypeOK
  <2>5. QED BY <2>1, <2>2, <2>3, <2>4 DEF WorkerClaims, Polls
<1>6. rest' \in BOOLEAN /\ (rest' => app' = "up" /\ job' = None)
  <2>0. rest \in BOOLEAN /\ (rest => app = "up" /\ job = None)
    BY DEF AInv, ATypeOK
  <2>1. CASE WorkerClaims
    BY <2>0, <2>1, Zenon DEF WorkerClaims, Polls
  <2>2. CASE WorkerFinishes
    BY <2>0, <2>2, Zenon DEF WorkerFinishes
  <2>3. CASE WorkerRecovers
    BY <2>3 DEF WorkerRecovers
  <2>4. CASE LoopRepairs
    BY <2>0, <2>4, Zenon DEF LoopRepairs, processVars
  <2>5. QED BY <2>1, <2>2, <2>3, <2>4
<1>7. ATypeOK'
  BY <1>1, <1>5, <1>6 DEF AInv, ATypeOK
<1>8. QED BY <1>2, <1>3, <1>4, <1>7

(* A transaction that leaves running jobs alone, run by a handler or time. *)
LEMMA TypeStays ==
    ASSUME AInv, UNCHANGED <<app, loop, job, rest>>, open' \subseteq open,
           notice' \in [Events -> Notices \cup {None}], told' \subseteq Answers,
           \A j \in Orders : attempt[j].status = "processing"
                               => attempt'[j].status = "processing"
    PROVE  ATypeOK'
  BY DEF AInv, ATypeOK

(* Handlers and time.                                                      *)
LEMMA CreateStep ==
    ASSUME AInv, NEW o \in Orders, HandleCreate(o)
    PROVE  [Next]_vars /\ ATypeOK' /\ NoticesInv' /\ ToldInv'
<1>1. PICK amount \in Amounts : CreateOrder(o, amount)
  BY DEF HandleCreate
<1>2. /\ UNCHANGED <<app, loop, job, rest, notice>> /\ open' \subseteq open
      /\ told' \in {told, told \cup {<<"created", o>>}}
  BY DEF HandleCreate, Close, Tell
<1>3. [Next]_vars
  BY <1>1 DEF Next
<1>4. NoticesInv' /\ \A e \in Events : Recorded(e) => Recorded(e)'
  BY <1>1, <1>2, CreationKeepsEvents, NoticesStay DEF AInv
<1>5. order'[o].status # "absent"
  <2>1. order \in [Orders -> OrderRow]
    BY StoreRows DEF AInv
  <2>2. PICK r \in OrderRow :
           r = [status |-> "created", amount |-> amount, paid |-> FALSE]
    BY DEF OrderRow, OrderStatus
  <2>3. \A kind : OrderAfter(r, kind).status # "absent"
    BY <2>2 DEF OrderAfter, OrderRow
  <2>4. \/ order'[o] = r \/ \E kind : order'[o] = OrderAfter(r, kind)
    BY <1>1, <2>1, <2>2 DEF CreateOrder, ApplyPayment
  <2>5. r.status # "absent"
    BY <2>2
  <2>6. CASE order'[o] = r
    BY <2>5, <2>6
  <2>7. ASSUME NEW kind, order'[o] = OrderAfter(r, kind)
        PROVE  order'[o].status # "absent"
    BY <2>3, <2>7
  <2>8. QED BY <2>4, <2>6, <2>7
<1>6. ToldInv'
  <2>1. PICK a : a = <<"created", o>>
    OBVIOUS
  <2>2. \A q : /\ a = <<"created", q>> => q = o
               /\ a # <<"delivered", q>> /\ a # <<"accepted", q>>
    BY <2>1, AnswersDiffer
  <2>3. told' \in {told, told \cup {a}} /\ Exists(o)'
    BY <1>2, <1>5, <2>1 DEF Exists
  <2>4. QED BY <1>3, <1>4, <2>2, <2>3, ToldGrows DEF AInv
<1>7. \A j \in Orders : attempt[j].status = "processing"
                          => attempt'[j].status = "processing"
  BY <1>1, RunningStays DEF AInv
<1>8. ATypeOK'
  <2>1. told' \subseteq Answers /\ notice' \in [Events -> Notices \cup {None}]
    BY <1>2 DEF AInv, ATypeOK, Answers
  <2>2. QED BY <1>2, <1>7, <2>1, TypeStays
<1>9. QED BY <1>3, <1>4, <1>6, <1>8

LEMMA PaymentStep ==
    ASSUME AInv, NEW e \in Events, HandlePayment(e)
    PROVE  [Next]_vars /\ ATypeOK' /\ NoticesInv' /\ ToldInv'
<1> DEFINE n == notice[e]
<1>1. n \in Notices
  BY DEF HandlePayment, Close, AInv, NoticesInv, ATypeOK
<1>2. /\ n.order \in Orders /\ n.kind \in Kinds /\ n.amount \in Amounts
  BY <1>1 DEF Notices
<1>3. ProcessPayment(e, n.order, n.kind, n.amount)
  BY DEF HandlePayment
<1>4. /\ UNCHANGED <<app, loop, job, rest, notice>> /\ open' \subseteq open
      /\ told' \in {told, told \cup {<<"accepted", e>>}}
  BY DEF HandlePayment, Close, Tell
<1>5. [Next]_vars
  BY <1>2, <1>3 DEF Next
<1>6. /\ \A f \in Events \ {e} : event'[f] = event[f]
      /\ \/ event'[e] = event[e] /\ Recorded(e)
         \/ /\ event'[e].order = n.order /\ event'[e].status = n.kind
            /\ event'[e].amount = n.amount
  <2>1. event \in [Events -> EventRow]
    BY StoreRows DEF AInv
  <2>2. QED BY <1>3, <2>1 DEF ProcessPayment, vars
<1>7. Recorded(e)' /\ \A f \in Events : Recorded(f) => Recorded(f)'
  BY <1>2, <1>6 DEF Recorded, Kinds
<1>8. NoticesInv'
  <2>1. n # None
    BY <1>1, ApplicationAssumption
  <2>2. QED BY <1>4, <1>6, <2>1 DEF AInv, NoticesInv, Recorded
<1>9. ToldInv'
  <2>1. PICK a : a = <<"accepted", e>>
    OBVIOUS
  <2>2. \A q : /\ a = <<"accepted", q>> => q = e
               /\ a # <<"delivered", q>> /\ a # <<"created", q>>
    BY <2>1, AnswersDiffer
  <2>3. told' \in {told, told \cup {a}}
    BY <1>4, <2>1
  <2>4. QED BY <1>5, <1>7, <2>2, <2>3, ToldGrows DEF AInv
<1>10. \A j \in Orders : attempt[j].status = "processing"
                           => attempt'[j].status = "processing"
  BY <1>2, <1>3, RunningStays DEF AInv
<1>11. ATypeOK'
  <2>1. told' \subseteq Answers /\ notice' \in [Events -> Notices \cup {None}]
    BY <1>4 DEF AInv, ATypeOK, Answers
  <2>2. QED BY <1>4, <1>10, <2>1, TypeStays
<1>12. QED BY <1>5, <1>8, <1>9, <1>11

LEMMA OtherStep ==
    ASSUME AInv,
           \/ \E o \in Orders : HandleRetry(o)
           \/ HandleRepair \/ Passing
    PROVE  [Next]_vars /\ ATypeOK' /\ NoticesInv' /\ ToldInv'
<1>1. \/ \E o \in Orders : \/ RetryDelivery(o) \/ NextAttemptDue(o)
                           \/ LeaseExpires(o) \/ LoseAttempt(o)
      \/ Repair
  BY DEF HandleRetry, HandleRepair, Passing
<1>2. UNCHANGED <<app, loop, job, rest, notice, told>> /\ open' \subseteq open
  BY DEF HandleRetry, HandleRepair, Passing, Close, processVars
<1>3. event' = event /\ [Next]_vars
  BY <1>1 DEF RetryDelivery, NextAttemptDue, LeaseExpires, LoseAttempt, Repair,
              RepairRows, Next
<1>4. NoticesInv' /\ \A e \in Events : Recorded(e) => Recorded(e)'
  BY <1>2, <1>3, NoticesStay DEF AInv
<1>5. ToldInv'
  BY <1>2, <1>3, <1>4, ToldStays DEF AInv
<1>6. \A j \in Orders : attempt[j].status = "processing"
                          => attempt'[j].status = "processing"
  BY <1>1, RunningStays DEF AInv
<1>7. ATypeOK'
  BY <1>2, <1>6, TypeStays DEF AInv, ATypeOK
<1>8. QED BY <1>3, <1>4, <1>5, <1>7

(* Requests and answers that run no transaction.                           *)
LEMMA AnswerStep ==
    ASSUME AInv,
           \/ \E o \in Orders : HandleGet(o)
           \/ \E r \in open : Refuse(r)
    PROVE  [Next]_vars /\ ATypeOK' /\ NoticesInv' /\ ToldInv'
<1>1. /\ UNCHANGED <<vars, app, loop, job, rest, notice>> /\ open' \subseteq open
      /\ event' = event /\ attempt' = attempt /\ [Next]_vars
  BY DEF HandleGet, Refuse, Close, vars
<1>2. NoticesInv' /\ \A e \in Events : Recorded(e) => Recorded(e)'
  BY <1>1, NoticesStay DEF AInv
<1>3. told' \subseteq Answers /\ ToldInv'
  <2>1. ASSUME NEW o \in Orders, HandleGet(o)
        PROVE  told' \subseteq Answers /\ ToldInv'
    <3>1. told' \in {told, told \cup {<<"delivered", o>>}}
      BY <2>1 DEF HandleGet, Tell
    <3>2. attempt[o].status = "delivered"
      <4>1. <<order[o].status, attempt[o].status>> \in Pairs
        BY DEF AInv, IInv, RowsInv, RowsAgree, StatusesAgree
      <4>2. QED BY <2>1, <4>1 DEF HandleGet, Pairs, StatusPairs, LossPairs,
                                  Claimable
    <3>3. ToldInv'
      <4>1. PICK a : a = <<"delivered", o>>
        OBVIOUS
      <4>2. \A q : /\ a = <<"delivered", q>> => q = o
                   /\ a # <<"created", q>> /\ a # <<"accepted", q>>
        BY <4>1, AnswersDiffer
      <4>3. told' \in {told, told \cup {a}} /\ attempt'[o].status = "delivered"
        BY <1>1, <3>1, <3>2, <4>1
      <4>4. QED BY <1>1, <1>2, <4>2, <4>3, ToldGrows DEF AInv
    <3>4. QED BY <3>1, <3>3 DEF AInv, ATypeOK, Answers
  <2>2. CASE told' = told
    BY <1>1, <1>2, <2>2, ToldStays DEF AInv, ATypeOK
  <2>3. QED BY <2>1, <2>2 DEF Refuse
<1>4. ATypeOK'
  BY <1>1, <1>3, TypeStays DEF AInv, ATypeOK
<1>5. QED BY <1>1, <1>2, <1>3, <1>4

LEMMA ArriveStep ==
    ASSUME AInv,
           \/ OtherRequest
           \/ \E e \in Events : Send(e)
    PROVE  [Next]_vars /\ ATypeOK' /\ NoticesInv' /\ ToldInv'
<1>1. PICK r \in Requests :
         /\ Arrive(r)
         /\ \A e \in Events : r = <<"pay", e>> => notice[e] # None
  <2>1. ASSUME NEW r \in Requests, r[1] # "pay", Arrive(r)
        PROVE  \A e \in Events : r = <<"pay", e>> => notice[e] # None
    BY <2>1
  <2>2. ASSUME NEW e \in Events, notice[e] # None, Arrive(<<"pay", e>>)
        PROVE  /\ <<"pay", e>> \in Requests
               /\ \A f \in Events : <<"pay", e>> = <<"pay", f>>
                                    => notice[f] # None
    <3>1. <<"pay", e>> \in Requests
      BY DEF Requests
    <3>2. \A f : <<"pay", e>> = <<"pay", f>> => f = e
      OBVIOUS
    <3>3. QED BY <2>2, <3>1, <3>2
  <2>3. CASE OtherRequest
    BY <2>1, <2>3 DEF OtherRequest
  <2>4. ASSUME NEW e \in Events, Send(e)
        PROVE  \E r \in Requests :
                  /\ Arrive(r)
                  /\ \A f \in Events : r = <<"pay", f>> => notice[f] # None
    BY <2>2, <2>4 DEF Send
  <2>5. QED BY <2>3, <2>4
<1>2. /\ UNCHANGED <<vars, app, loop, job, rest, notice, told>>
      /\ open' = open \cup {r} /\ app = "up"
  BY <1>1 DEF Arrive
<1>3. [Next]_vars /\ event' = event /\ attempt' = attempt
  BY <1>2 DEF vars
<1>4. ToldInv'
  BY <1>2, <1>3, ToldStays DEF AInv, Recorded
<1>5. NoticesInv'
  BY <1>1, <1>2, <1>3 DEF AInv, NoticesInv, Recorded
<1>6. ATypeOK'
  BY <1>2, <1>3 DEF AInv, ATypeOK
<1>7. QED BY <1>3, <1>4, <1>5, <1>6

LEMMA PayStep ==
    ASSUME AInv, NEW e \in Events, Pay(e)
    PROVE  [Next]_vars /\ ATypeOK' /\ NoticesInv' /\ ToldInv'
<1>1. PICK n \in Notices : notice' = [notice EXCEPT ![e] = n]
  BY DEF Pay
<1>2. /\ UNCHANGED <<vars, app, loop, job, rest, open, told>> /\ notice[e] = None
      /\ event' = event /\ attempt' = attempt /\ [Next]_vars
  BY DEF Pay, processVars, vars
<1>3. ToldInv'
  BY <1>2, ToldStays DEF AInv, Recorded
<1>4. ~Recorded(e) /\ n # None /\ notice'[e] = n
      /\ \A f \in Events \ {e} : notice'[f] = notice[f]
  BY <1>1, <1>2, ApplicationAssumption DEF AInv, NoticesInv, ATypeOK
<1>5. NoticesInv'
  BY <1>2, <1>4 DEF AInv, NoticesInv, Recorded
<1>6. ATypeOK'
  BY <1>1, <1>2 DEF AInv, ATypeOK
<1>7. QED BY <1>2, <1>3, <1>5, <1>6

-----------------------------------------------------------------------------
LEMMA AStep == AInv /\ [ANext]_avars => [Next]_vars /\ AInv'
<1> SUFFICES ASSUME AInv, [ANext]_avars PROVE [Next]_vars /\ AInv'
  OBVIOUS
<1>1. [Next]_vars /\ ATypeOK' /\ NoticesInv' /\ ToldInv'
  <2>1. CASE UNCHANGED avars
    <3>1. UNCHANGED <<vars, app, loop, job, rest, open, notice, told>>
          /\ event' = event /\ attempt' = attempt
      BY <2>1 DEF avars, processVars, vars
    <3>2. [Next]_vars /\ NoticesInv' /\ ToldInv'
      BY <3>1, SilentStep
    <3>3. ATypeOK'
      BY <3>1, TypeStays DEF AInv, ATypeOK
    <3>4. QED BY <3>2, <3>3
  <2>2. CASE Handle
    BY <2>2, CreateStep, PaymentStep, OtherStep, AnswerStep DEF Handle
  <2>3. CASE ANext /\ ~Handle
    BY <2>3, ProcessStep, WorkStep, OtherStep, ArriveStep, PayStep DEF ANext
  <2>4. QED BY <2>1, <2>2, <2>3
<1>2. IInv'
  BY <1>1, TypeNext, RowsNext DEF AInv, IInv
<1>3. QED BY <1>1, <1>2 DEF AInv

(* The inductive invariant of the application.                             *)
THEOREM ApplicationCorrect == ASpec => []AInv
<1>1. AInit => AInv
  BY AInvInit
<1>2. AInv /\ [ANext]_avars => AInv'
  BY AStep
<1>3. QED BY <1>1, <1>2, PTL DEF ASpec

(* The process and its clients do nothing to the tables but transactions.  *)
THEOREM ApplicationUsesTables == ASpec => Spec
<1>1. AInit => Init
  BY DEF AInit
<1>2. AInv /\ [ANext]_avars => [Next]_vars
  BY AStep
<1>3. QED BY <1>1, <1>2, ApplicationCorrect, PTL DEF ASpec, Spec

(* The process never holds a job that is not its own to finish, and none   *)
(* at all once it stops.                                                   *)
THEOREM ApplicationTypes == ASpec => []ATypeOK
<1>1. AInv => ATypeOK
  BY DEF AInv
<1>2. QED BY <1>1, ApplicationCorrect, PTL

(* What a client was told is true and stays true.                          *)
THEOREM AnswersStayTrue == ASpec => []AnswersAreTrue
<1>1. AInv => AnswersAreTrue
  <2> SUFFICES ASSUME AInv PROVE AnswersAreTrue
    OBVIOUS
  <2>1. \A o \in Orders : attempt[o].status = "delivered"
                            => order[o].status = "delivered"
    <3> SUFFICES ASSUME NEW o \in Orders, attempt[o].status = "delivered"
                 PROVE  order[o].status = "delivered"
      OBVIOUS
    <3>1. <<order[o].status, attempt[o].status>> \in Pairs
      BY DEF AInv, IInv, RowsInv, RowsAgree, StatusesAgree
    <3>2. QED BY <3>1 DEF Pairs, StatusPairs, LossPairs
  <2>2. QED BY <2>1 DEF AInv, ToldInv, NoticesInv, AnswersAreTrue
<1>2. QED BY <1>1, ApplicationCorrect, PTL
=============================================================================
