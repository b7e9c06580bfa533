------------------------- MODULE TransactionsProofs -------------------------
(***************************************************************************)
(* Why the transactions of Store may be taken for atomic steps, for any    *)
(* number of them open at the same time and any number of orders and       *)
(* events.  What a transaction has read stays true for as long as it holds *)
(* the lock it read it under; what it has read without a lock is looked at *)
(* again, or cannot have changed in a way that matters.                    *)
(***************************************************************************)
EXTENDS Transactions, StoreProofs

CallRow == [pc : {"idle"} \cup Creating \cup Paying \cup Retrying
                 \cup Claiming \cup Reporting \cup Recovering \cup Repairing,
            order : Orders \cup {None}, event : Events \cup {None},
            kind : Kinds \cup Results \cup {"none"},
            amount : Amounts \cup {None}, at : Nat, todo : SUBSET Events,
            row : OrderRow, job : AttemptRow, booked : LedgerRow,
            done : SUBSET Events, left : SUBSET Orders, held : SUBSET Orders,
            taken : SUBSET Orders, seen : SUBSET Orders]

Inserting(j) == j.pc \in {"read", "apply"}
LocksEvent(j) == j.pc \in {"lock", "commit"}

(* Two transactions do not hold locks that exclude each other.             *)
Apart(j, k) ==
    /\ \A o \in Orders :
         /\ ~(Inserts(j, o) /\ Inserts(k, o))
         /\ ~(HoldsJob(j, o) /\ HoldsJob(k, o))
         /\ ~(HoldsOrder(j, o) /\ (HoldsOrder(k, o) \/ o \in k.taken))
         /\ ~(HoldsOrder(k, o) /\ o \in j.taken)
    /\ LocksEvent(j) /\ LocksEvent(k) => j.event # k.event

(* The row a creation starts from, and what its loop has made of it: the   *)
(* first event of the order's amount among those gone through decides.     *)
NewRow(amount) == [status |-> "created", paid |-> FALSE, amount |-> amount]
NoEntries == [payment |-> 0, delivery |-> 0]

Untouched(j, ev) ==
    /\ \A e \in j.done : ev[e].amount # j.amount
    /\ j.row = NewRow(j.amount) /\ j.job = NoAttempt /\ j.booked = NoEntries

Decided(j, ev, e) ==
    /\ e \in j.done /\ ev[e].amount = j.amount
    /\ \A f \in j.done : ev[f].amount = j.amount => ev[e].at <= ev[f].at
    /\ j.row = OrderAfter(NewRow(j.amount), ev[e].status)
    /\ j.job = AttemptAfter(NewRow(j.amount), NoAttempt, ev[e].status)
    /\ j.booked = LedgerAfter(NewRow(j.amount), NoEntries, ev[e].status)

Loop(j, ev) ==
    /\ \A e \in j.todo \cup j.done : /\ ev[e].status \in Kinds
                                     /\ ev[e].order = j.order
                                     /\ ~ev[e].processed
    /\ \A e \in j.done, f \in j.todo : ev[e].at <= ev[f].at
    /\ Untouched(j, ev) \/ \E e \in Events : Decided(j, ev, e)

(* What a transaction relies on of its inputs and of the events.           *)
CreateFacts(j, ev) ==
    /\ j.pc \in Creating => j.order \in Orders /\ j.amount \in Amounts
    /\ Inserting(j) => Loop(j, ev)
    /\ j.pc = "insert_order" =>
         /\ j.todo = {} /\ j.done = {}
         /\ j.job = NoAttempt /\ j.booked = NoEntries
    /\ j.pc = "read" => j.done = {}

PayFacts(j, ev) ==
    /\ j.pc \in Paying => /\ j.order \in Orders /\ j.event \in Events
                          /\ j.kind \in Kinds /\ j.amount \in Amounts
    /\ LocksEvent(j) => ev[j.event].status = "none"

InputFacts(j) ==
    /\ j.pc \in Claiming \cup Retrying \cup Reporting => j.order \in Orders
    /\ j.pc \in Reporting => j.kind \in Results

(* A recovery and a repair alone have rows of several orders; a running    *)
(* job is the job of an order that is being delivered.                     *)
RowSets(j) ==
    /\ j.taken \subseteq j.held
    /\ j.held # {} => j.pc \in Recovering \cup Repairing
    /\ j.pc \in Recovering => j.left \cup j.held \subseteq j.seen

Facts(j, ev) == /\ CreateFacts(j, ev) /\ PayFacts(j, ev)
                /\ InputFacts(j) /\ RowSets(j)

(* What it relies on of order o, whose rows are r and a.                   *)
OrderFacts(j, o, r) ==
    /\ Inserts(j, o) => r.status = "absent"
    /\ HoldsOrder(j, o) /\ j.pc = "commit" => j.row = r
    /\ HoldsOrder(j, o) /\ j.pc # "commit" =>
         /\ r.paid
         /\ r.status \notin {"absent", "created", "payment_failed",
                             "delivered"}
    /\ j.pc = "repair" /\ o \in j.left \cup j.held => r.paid

JobFacts(j, o, a) ==
    /\ HoldsJob(j, o) =>
         /\ j.pc = "claim" => /\ a.status \in {"pending"} \cup Idle
                              /\ a.next # "later"
         /\ j.pc = "mark" => a.status = "processing"
         /\ j.pc = "recover" => a.status = "processing" /\ a.lease = "expired"
         /\ j.pc = "repair" => a.status = "none"
    /\ HoldsOrder(j, o) /\ j.pc = "retry_insert" => a.status = "none"

(* A missing row is nothing but missing.                                   *)
Blank(r, a) == /\ r.status = "absent" => r = NoOrder
               /\ a.status = "none" => a = NoAttempt

TablesInv == IInv /\ \A o \in Orders : Blank(order[o], attempt[o])

CallsInv ==
    /\ call \in [Callers -> CallRow]
    /\ \A c \in Callers : Facts(call[c], event)
    /\ \A c \in Callers, o \in Orders : /\ OrderFacts(call[c], o, order[o])
                                        /\ JobFacts(call[c], o, attempt[o])
    /\ \A c, d \in Callers : c # d => Apart(call[c], call[d])

TInv == TablesInv /\ CallsInv

-----------------------------------------------------------------------------
(* A caller without a transaction relies on nothing and locks nothing.     *)
LEMMA NothingOpen ==
    /\ NoCall \in CallRow
    /\ \A ev : Facts(NoCall, ev)
    /\ \A o, r : OrderFacts(NoCall, o, r)
    /\ \A o, a : JobFacts(NoCall, o, a)
    /\ \A k : Apart(NoCall, k) /\ Apart(k, NoCall)
<1>1. /\ NoCall.pc = "idle" /\ NoCall.held = {} /\ NoCall.taken = {}
      /\ NoCall.left = {}
  BY DEF NoCall
<1>2. NoCall \in CallRow
  <2>1. NoOrder \in OrderRow /\ NoAttempt \in AttemptRow
        /\ [payment |-> 0, delivery |-> 0] \in LedgerRow
    BY DEF NoOrder, NoAttempt, OrderRow, AttemptRow, LedgerRow
  <2>2. QED BY <2>1 DEF NoCall, CallRow
<1>3. \A o : /\ ~Inserts(NoCall, o) /\ ~HoldsOrder(NoCall, o)
             /\ ~HoldsJob(NoCall, o)
  BY <1>1 DEF Inserts, HoldsOrder, HoldsJob
<1>4. ~Inserting(NoCall) /\ ~LocksEvent(NoCall)
  BY <1>1 DEF Inserting, LocksEvent
<1>5. \A ev : Facts(NoCall, ev)
  BY <1>1, <1>4 DEF Facts, CreateFacts, PayFacts, InputFacts, RowSets,
     Creating, Paying, Claiming, Retrying, Reporting, Recovering
<1>6. /\ \A o, r : OrderFacts(NoCall, o, r)
      /\ \A o, a : JobFacts(NoCall, o, a)
  BY <1>1, <1>3 DEF OrderFacts, JobFacts
<1>7. \A k : Apart(NoCall, k) /\ Apart(k, NoCall)
  BY <1>1, <1>3, <1>4 DEF Apart
<1>8. QED BY <1>2, <1>5, <1>6, <1>7

(* A statement that changes nothing but its own call.                      *)
LEMMA StatementStep ==
    ASSUME TInv, NEW c \in Callers, NEW n \in CallRow,
           call' = [call EXCEPT ![c] = n],
           UNCHANGED <<order, attempt, event, ledger>>, clock' \in Nat,
           Facts(n, event),
           \A o \in Orders : /\ OrderFacts(n, o, order[o])
                             /\ JobFacts(n, o, attempt[o]),
           \A d \in Callers \ {c} : Apart(n, call[d])
    PROVE  TInv'
<1>1. TablesInv'
  <2>1. TypeOK'
    BY TypeRows DEF TInv, TablesInv, IInv, TypeOK
  <2>2. QED BY <2>1 DEF TInv, TablesInv, IInv, RowsInv
<1>2. call' \in [Callers -> CallRow]
  BY DEF TInv, CallsInv
<1>3. \A d \in Callers : call'[d] = IF d = c THEN n ELSE call[d]
  BY DEF TInv, CallsInv
<1>4. \A d \in Callers : Facts(call'[d], event')
  BY <1>3 DEF TInv, CallsInv
<1>5. \A d \in Callers, o \in Orders : /\ OrderFacts(call'[d], o, order'[o])
                                       /\ JobFacts(call'[d], o, attempt'[o])
  BY <1>3 DEF TInv, CallsInv
<1>6. ASSUME NEW d \in Callers, NEW e \in Callers, d # e
      PROVE  Apart(call'[d], call'[e])
  <2>1. CASE d = c
    BY <1>3, <1>6, <2>1
  <2>2. CASE e = c
    <3>1. Apart(n, call[d])
      BY <1>6, <2>2
    <3>2. Apart(call[d], n)
      BY <3>1 DEF Apart
    <3>3. QED BY <1>3, <1>6, <2>2, <3>2
  <2>3. CASE d # c /\ e # c
    BY <1>3, <1>6, <2>3 DEF TInv, CallsInv
  <2>4. QED BY <2>1, <2>2, <2>3
<1>7. QED BY <1>1, <1>2, <1>4, <1>5, <1>6 DEF TInv, CallsInv

LEMMA RollbackStep ==
    ASSUME TInv, NEW c \in Callers, End(c), UNCHANGED vars
    PROVE  TInv'
<1>1. clock' \in Nat
  BY TypeRows DEF TInv, TablesInv, IInv, vars
<1>2. QED BY <1>1, StatementStep, NothingOpen DEF End, vars

-----------------------------------------------------------------------------
(* What a step of another transaction must leave alone for call j: of the  *)
(* events, and of the rows of an order, r and a before and r1 and a1 after.*)
Steady(a, a1) == /\ a1.status = a.status
                 /\ a.next # "later" => a1.next # "later"
                 /\ a.lease = "expired" => a1.lease = "expired"

EventsKept(j, ev, ev1) ==
    /\ Inserting(j) => \A e \in j.todo \cup j.done : ev1[e] = ev[e]
    /\ LocksEvent(j) => ev1[j.event] = ev[j.event]

Undisturbed(j, o, r, a, r1, a1) ==
    /\ Inserts(j, o) => r1.status = "absent"
    /\ HoldsOrder(j, o) => r1 = r
    /\ HoldsOrder(j, o) \/ HoldsJob(j, o) => Steady(a, a1)
    /\ r.paid => r1.paid

LEMMA LoopKept ==
    ASSUME NEW j \in CallRow, NEW ev, NEW ev1, Loop(j, ev),
           \A e \in j.todo \cup j.done : ev1[e] = ev[e]
    PROVE  Loop(j, ev1)
<1>1. CASE Untouched(j, ev)
  BY <1>1 DEF Loop, Untouched
<1>2. ASSUME NEW e \in Events, Decided(j, ev, e) PROVE Decided(j, ev1, e)
  <2>1. ev1[e] = ev[e] /\ \A f \in j.done : ev1[f] = ev[f]
    BY <1>2 DEF Decided
  <2>2. QED BY <1>2, <2>1 DEF Decided
<1>3. QED BY <1>1, <1>2 DEF Loop

LEMMA FactsKept ==
    ASSUME NEW j \in CallRow, NEW ev, NEW ev1, Facts(j, ev),
           EventsKept(j, ev, ev1)
    PROVE  Facts(j, ev1)
<1>1. CreateFacts(j, ev1)
  BY LoopKept DEF Facts, CreateFacts, EventsKept
<1>2. PayFacts(j, ev1)
  BY DEF Facts, PayFacts, EventsKept
<1>3. QED BY <1>1, <1>2 DEF Facts

LEMMA RowFactsKept ==
    ASSUME NEW j \in CallRow, NEW o, NEW r, NEW a, NEW r1, NEW a1,
           OrderFacts(j, o, r), JobFacts(j, o, a),
           Undisturbed(j, o, r, a, r1, a1)
    PROVE  OrderFacts(j, o, r1) /\ JobFacts(j, o, a1)
<1>1. OrderFacts(j, o, r1)
  BY DEF OrderFacts, Undisturbed
<1>2. JobFacts(j, o, a1)
  BY DEF JobFacts, Undisturbed, Steady
<1>3. QED BY <1>1, <1>2

(* Rows that have not changed disturb nobody.                              *)
LEMMA SameRows ==
    ASSUME NEW j, NEW o, NEW r, NEW a, OrderFacts(j, o, r)
    PROVE  Undisturbed(j, o, r, a, r, a)
  BY DEF OrderFacts, Undisturbed, Steady

(* A commit, of which the others notice nothing.                           *)
LEMMA CommitStep ==
    ASSUME TInv, NEW c \in Callers, End(c), TablesInv',
           \A d \in Callers \ {c} : EventsKept(call[d], event, event'),
           \A d \in Callers \ {c}, o \in Orders :
               Undisturbed(call[d], o, order[o], attempt[o],
                           order'[o], attempt'[o])
    PROVE  TInv'
<1>1. /\ call' \in [Callers -> CallRow]
      /\ \A d \in Callers : call'[d] = IF d = c THEN NoCall ELSE call[d]
      /\ \A d \in Callers : call[d] \in CallRow
  BY NothingOpen DEF End, TInv, CallsInv
<1>2. ASSUME NEW d \in Callers
      PROVE  Facts(call'[d], event')
  <2>1. CASE d = c
    BY <1>1, <2>1, NothingOpen
  <2>2. CASE d # c
    BY <1>1, <2>2, FactsKept DEF TInv, CallsInv
  <2>3. QED BY <2>1, <2>2
<1>3. ASSUME NEW d \in Callers, NEW o \in Orders
      PROVE  OrderFacts(call'[d], o, order'[o])
             /\ JobFacts(call'[d], o, attempt'[o])
  <2>1. CASE d = c
    BY <1>1, <2>1, NothingOpen
  <2>2. CASE d # c
    <3>1. OrderFacts(call[d], o, order[o]) /\ JobFacts(call[d], o, attempt[o])
      BY DEF TInv, CallsInv
    <3>2. QED BY <1>1, <2>2, <3>1, RowFactsKept
  <2>3. QED BY <2>1, <2>2
<1>4. ASSUME NEW d \in Callers, NEW e \in Callers, d # e
      PROVE  Apart(call'[d], call'[e])
  BY <1>1, <1>4, NothingOpen DEF TInv, CallsInv
<1>5. QED BY <1>1, <1>2, <1>3, <1>4 DEF TInv, CallsInv

-----------------------------------------------------------------------------
(* What the tables say of an order, and what an open call relies on.       *)
LEMMA Tables ==
    ASSUME TInv
    PROVE  /\ order \in [Orders -> OrderRow]
           /\ attempt \in [Orders -> AttemptRow]
           /\ event \in [Events -> EventRow] /\ clock \in Nat
           /\ ledger \in [Orders -> LedgerRow]
           /\ TypeOK /\ IInv /\ RowsInv
           /\ \A o \in Orders :
                /\ order[o] \in OrderRow /\ attempt[o] \in AttemptRow
                /\ ledger[o] \in LedgerRow
                /\ RowsAgree(order[o], attempt[o], ledger[o])
                /\ Blank(order[o], attempt[o])
  BY TypeRows DEF TInv, TablesInv, IInv, RowsInv

LEMMA OpenCall ==
    ASSUME TInv, NEW c \in Callers
    PROVE  /\ call \in [Callers -> CallRow] /\ call[c] \in CallRow
           /\ Facts(call[c], event)
           /\ CreateFacts(call[c], event) /\ PayFacts(call[c], event)
           /\ InputFacts(call[c]) /\ RowSets(call[c])
           /\ \A o \in Orders : /\ OrderFacts(call[c], o, order[o])
                                /\ JobFacts(call[c], o, attempt[o])
           /\ \A d \in Callers \ {c} : Apart(call[c], call[d])
  BY DEF TInv, CallsInv, Facts

(* An order that is being created has no job and is not paid; one that is  *)
(* there is not being created.                                             *)
LEMMA AbsentOrder ==
    ASSUME TInv, NEW o \in Orders, order[o].status = "absent"
    PROVE  /\ order[o] = NoOrder /\ attempt[o] = NoAttempt
           /\ ledger[o] = NoEntries /\ ~order[o].paid
<1>1. /\ RowsAgree(order[o], attempt[o], ledger[o])
      /\ Blank(order[o], attempt[o]) /\ ledger[o] \in LedgerRow
      /\ order[o] \in OrderRow
  BY Tables
<1>2. attempt[o].status = "none"
  BY <1>1 DEF RowsAgree, StatusesAgree, Pairs, StatusPairs, LossPairs,
              Claimable
<1>3. ~order[o].paid
  BY <1>1 DEF RowsAgree, PaidAgrees, PaidStatus
<1>4. ledger[o].payment = 0 /\ ledger[o].delivery = 0
  BY <1>1, <1>3 DEF RowsAgree, LedgerAgrees
<1>5. ledger[o] = NoEntries
  BY <1>1, <1>4 DEF LedgerRow, NoEntries
<1>6. QED BY <1>1, <1>2, <1>3, <1>5 DEF Blank

(* A commit that changes the rows of the orders in S only, and has them    *)
(* and their jobs to itself.                                               *)
LEMMA LoneCommit ==
    ASSUME TInv, NEW c \in Callers, End(c), TablesInv', NEW S,
           \A d \in Callers \ {c} : EventsKept(call[d], event, event'),
           \A o \in Orders \ S : /\ order'[o] = order[o]
                                 /\ attempt'[o] = attempt[o],
           \A o \in Orders \cap S :
               /\ order[o].status # "absent"
               /\ order[o].paid => order'[o].paid
               /\ \A d \in Callers \ {c} : /\ ~HoldsOrder(call[d], o)
                                           /\ ~HoldsJob(call[d], o)
    PROVE  TInv'
<1>1. ASSUME NEW d \in Callers \ {c}, NEW o \in Orders
      PROVE  Undisturbed(call[d], o, order[o], attempt[o],
                         order'[o], attempt'[o])
  <2>1. OrderFacts(call[d], o, order[o])
    BY OpenCall
  <2>2. CASE o \in S
    <3>1. ~Inserts(call[d], o)
      BY <2>1, <2>2 DEF OrderFacts
    <3>2. QED BY <2>2, <3>1 DEF Undisturbed
  <2>3. CASE o \notin S
    BY <2>1, <2>3, SameRows
  <2>4. QED BY <2>2, <2>3
<1>2. QED BY <1>1, CommitStep

LEMMA SingleCommit ==
    ASSUME TInv, NEW c \in Callers, End(c), TablesInv', NEW o \in Orders,
           \A d \in Callers \ {c} : EventsKept(call[d], event, event'),
           \A q \in Orders \ {o} : /\ order'[q] = order[q]
                                   /\ attempt'[q] = attempt[q],
           order[o].status # "absent", order[o].paid => order'[o].paid,
           \A d \in Callers \ {c} : /\ ~HoldsOrder(call[d], o)
                                    /\ ~HoldsJob(call[d], o)
    PROVE  TInv'
<1>1. PICK S : S = {o}
  OBVIOUS
<1>2. \A q \in Orders \ S : order'[q] = order[q] /\ attempt'[q] = attempt[q]
  BY <1>1
<1>3. \A q \in Orders \cap S :
         /\ order[q].status # "absent"
         /\ order[q].paid => order'[q].paid
         /\ \A d \in Callers \ {c} : /\ ~HoldsOrder(call[d], q)
                                     /\ ~HoldsJob(call[d], q)
  BY <1>1
<1>4. QED BY <1>2, <1>3, LoneCommit

LEMMA SameEvents ==
    ASSUME event' = event, NEW j PROVE EventsKept(j, event, event')
  BY DEF EventsKept

(* A step of Store that leaves only missing rows blank.                    *)
LEMMA TableStep ==
    ASSUME TInv, [Next]_vars,
           \A o \in Orders :
               /\ order'[o].status = "absent" => order'[o] = order[o]
               /\ attempt'[o].status = "none"
                    => attempt'[o] \in {attempt[o], NoAttempt}
    PROVE  TablesInv'
<1>1. IInv'
  BY TypeNext, RowsNext DEF TInv, TablesInv, IInv
<1>2. \A o \in Orders : Blank(order'[o], attempt'[o])
  BY DEF TInv, TablesInv, Blank
<1>3. QED BY <1>1, <1>2 DEF TablesInv

(* A recovery and a repair of whichever orders.                            *)
LEMMA PartStep ==
    ASSUME TInv, NEW S, RecoverRows(S) \/ RepairRows(S)
    PROVE  /\ TablesInv'
           /\ \A o \in Orders \ S : /\ order'[o] = order[o]
                                    /\ attempt'[o] = attempt[o]
           /\ \A o \in Orders : order[o].paid => order'[o].paid
<1>1. /\ order \in [Orders -> OrderRow] /\ attempt \in [Orders -> AttemptRow]
      /\ TypeOK /\ IInv /\ \A o \in Orders : Blank(order[o], attempt[o])
  BY Tables
<1>2. TypeOK'
  <2>1. /\ order' \in [Orders -> OrderRow]
        /\ attempt' \in [Orders -> AttemptRow]
        /\ event' = event /\ ledger' = ledger /\ clock' = clock
    BY <1>1, PartTypes
  <2>2. /\ event' \in [Events -> EventRow] /\ ledger' \in [Orders -> LedgerRow]
        /\ clock' \in Nat
    BY <2>1, Tables
  <2>3. QED BY <2>1, <2>2 DEF TypeOK, OrderRow, AttemptRow, EventRow, LedgerRow
<1>3. RowsInv'
  BY <1>1, RecoverAgrees, RepairAgrees
<1>4. ASSUME NEW o \in Orders
      PROVE  /\ Blank(order'[o], attempt'[o])
             /\ o \notin S => /\ order'[o] = order[o]
                              /\ attempt'[o] = attempt[o]
             /\ order[o].paid => order'[o].paid
  <2>1. CASE RecoverRows(S)
    <3>1. /\ order'[o] = order[o]
             \/ /\ order'[o] = [order[o] EXCEPT !.status = "delivery_failed"]
                /\ o \in S
          /\ attempt'[o] = attempt[o]
             \/ /\ attempt'[o] = [attempt[o] EXCEPT !.status = "failed",
                                      !.next = "due", !.lease = "null"]
                /\ o \in S
      BY <2>1 DEF RecoverRows
    <3>2. order[o] \in OrderRow /\ attempt[o] \in AttemptRow
      BY <1>1
    <3>3. \/ order'[o] = order[o]
          \/ /\ order'[o].status = "delivery_failed" /\ o \in S
             /\ order'[o].paid = order[o].paid
      BY <3>1, <3>2 DEF OrderRow
    <3>4. \/ attempt'[o] = attempt[o]
          \/ attempt'[o].status = "failed" /\ o \in S
      BY <3>1, <3>2 DEF AttemptRow
    <3>5. QED BY <1>1, <3>3, <3>4 DEF Blank
  <2>2. CASE RepairRows(S)
    <3>1. /\ order' = order
          /\ \/ attempt'[o] = attempt[o]
             \/ attempt'[o] = PendingAttempt /\ o \in S
             \/ /\ attempt'[o] = [attempt[o] EXCEPT !.next = "due"]
                /\ o \in S \cap UnscheduledJobs
      BY <2>2 DEF RepairRows
    <3>2. o \in UnscheduledJobs => attempt[o].status # "none"
      BY DEF UnscheduledJobs, Idle
    <3>3. QED BY <1>1, <3>1, <3>2
              DEF Blank, AttemptRow, PendingAttempt, NoAttempt
  <2>3. QED BY <2>1, <2>2
<1>5. QED BY <1>2, <1>3, <1>4 DEF TablesInv, IInv

-----------------------------------------------------------------------------
(* The commits of workers, recovery, operator and repair: each is a step   *)
(* of Store.                                                               *)

(* A worker's transaction has the job it locked and, when it commits, the  *)
(* order.                                                                  *)
LEMMA WorkerLocks ==
    ASSUME TInv, NEW c \in Callers, call[c].pc \in {"claim", "mark"},
           OrderFree(c, call[c].order)
    PROVE  /\ call[c].order \in Orders
           /\ JobFacts(call[c], call[c].order, attempt[call[c].order])
           /\ HoldsJob(call[c], call[c].order)
           /\ \A d \in Callers \ {c} : /\ ~HoldsOrder(call[d], call[c].order)
                                       /\ ~HoldsJob(call[d], call[c].order)
<1>1. call[c].order \in Orders
  BY OpenCall DEF InputFacts, Claiming, Reporting
<1>2. HoldsJob(call[c], call[c].order)
  BY DEF HoldsJob
<1>3. QED BY <1>1, <1>2, OpenCall DEF Apart, OrderFree

LEMMA ClaimCommits ==
    ASSUME TInv, NEW c \in Callers, CommitClaim(c)
    PROVE  /\ call[c].order \in Orders /\ ClaimNextJob(call[c].order) /\ TInv'
<1> DEFINE o == call[c].order
<1>0. call[c].pc = "claim" /\ OrderFree(c, o) /\ End(c)
  BY DEF CommitClaim
<1>1. /\ o \in Orders /\ JobFacts(call[c], o, attempt[o])
      /\ HoldsJob(call[c], o)
      /\ \A d \in Callers \ {c} : /\ ~HoldsOrder(call[d], o)
                                  /\ ~HoldsJob(call[d], o)
  BY <1>0, WorkerLocks
<1>2. /\ attempt[o].status \in {"pending"} \cup Idle
      /\ attempt[o].next # "later"
  BY <1>0, <1>1 DEF JobFacts
<1>3. order[o].status \in Claimable
  BY <1>1, <1>2, WaitingJob, Tables
<1>4. ClaimNextJob(o)
  BY <1>2, <1>3 DEF CommitClaim, ClaimNextJob
<1>5. TablesInv'
  <2>1. /\ order \in [Orders -> OrderRow] /\ attempt \in [Orders -> AttemptRow]
    BY <1>1, Tables
  <2>2. \A q \in Orders :
           /\ order'[q].status = "absent" => order'[q] = order[q]
           /\ attempt'[q].status = "none" => attempt'[q] = attempt[q]
    BY <1>1, <1>4, <2>1 DEF ClaimNextJob, OrderRow, AttemptRow
  <2>3. [Next]_vars
    BY <1>1, <1>4 DEF Next
  <2>4. QED BY <2>2, <2>3, TableStep
<1>6. /\ order'[o].paid = order[o].paid /\ order[o].status # "absent"
      /\ event' = event
      /\ \A q \in Orders \ {o} : order'[q] = order[q] /\ attempt'[q] = attempt[q]
  BY <1>1, <1>3, <1>4, Tables DEF ClaimNextJob, Claimable, OrderRow
<1>7. TInv'
  BY <1>0, <1>1, <1>5, <1>6, SingleCommit, SameEvents
<1> QED BY <1>1, <1>4, <1>7

LEMMA ReportCommits ==
    ASSUME TInv, NEW c \in Callers, CommitReport(c)
    PROVE  /\ call[c].order \in Orders
           /\ CASE call[c].kind = "failed" -> MarkFailed(call[c].order)
                [] call[c].kind = "out_of_stock" ->
                     MarkOutOfStock(call[c].order)
                [] OTHER -> \E p \in Providers, code \in Codes :
                               MarkDelivered(call[c].order, p, code)
           /\ TInv'
<1> DEFINE o == call[c].order
<1>0. call[c].pc = "mark" /\ OrderFree(c, o) /\ End(c)
  BY DEF CommitReport
<1>1. /\ o \in Orders /\ JobFacts(call[c], o, attempt[o])
      /\ HoldsJob(call[c], o)
      /\ \A d \in Callers \ {c} : /\ ~HoldsOrder(call[d], o)
                                  /\ ~HoldsJob(call[d], o)
  BY <1>0, WorkerLocks
<1>2. attempt[o].status = "processing" /\ call[c].kind \in Results
  BY <1>0, <1>1, OpenCall DEF JobFacts, InputFacts, Reporting
<1>3. order[o].status = "delivering"
  BY <1>1, <1>2, RunningJob, Tables
<1>5. /\ order \in [Orders -> OrderRow] /\ attempt \in [Orders -> AttemptRow]
  BY <1>1, Tables
<1>6. ASSUME NEW p \in Providers, NEW code \in Codes,
             MarkDelivered(o, p, code)
      PROVE  TInv'
  <2>1. [Next]_vars
    BY <1>1, <1>6 DEF Next
  <2>2. \A q \in Orders :
           /\ order'[q].status = "absent" => order'[q] = order[q]
           /\ attempt'[q].status = "none" => attempt'[q] = attempt[q]
    BY <1>1, <1>5, <1>6 DEF MarkDelivered, OrderRow
  <2>3. /\ order'[o].paid = order[o].paid /\ event' = event
        /\ \A q \in Orders \ {o} : /\ order'[q] = order[q]
                                   /\ attempt'[q] = attempt[q]
    BY <1>1, <1>5, <1>6 DEF MarkDelivered, OrderRow
  <2>4. TablesInv'
    BY <2>1, <2>2, TableStep
  <2>5. QED BY <1>0, <1>1, <1>3, <2>3, <2>4, SingleCommit, SameEvents
<1>7. ASSUME MarkFailed(o) \/ MarkOutOfStock(o)
      PROVE  TInv'
  <2>1. [Next]_vars
    BY <1>1, <1>7 DEF Next
  <2>2. \A q \in Orders :
           /\ order'[q].status = "absent" => order'[q] = order[q]
           /\ attempt'[q].status = "none" => attempt'[q] = attempt[q]
    BY <1>1, <1>5, <1>7 DEF MarkFailed, MarkOutOfStock,
       MarkRecoverableFailure, OrderRow, AttemptRow
  <2>3. /\ order'[o].paid = order[o].paid /\ event' = event
        /\ \A q \in Orders \ {o} : /\ order'[q] = order[q]
                                   /\ attempt'[q] = attempt[q]
    BY <1>1, <1>5, <1>7 DEF MarkFailed, MarkOutOfStock,
       MarkRecoverableFailure, OrderRow
  <2>4. TablesInv'
    BY <2>1, <2>2, TableStep
  <2>5. QED BY <1>0, <1>1, <1>3, <2>3, <2>4, SingleCommit, SameEvents
<1>8. CASE call[c].kind = "delivered"
  <2>1. PICK p \in Providers, code \in Codes : MarkDelivered(o, p, code)
    BY <1>3, <1>8 DEF CommitReport
  <2>2. QED BY <1>1, <1>6, <1>8, <2>1
<1>9. CASE call[c].kind = "failed"
  <2>1. MarkFailed(o)
    BY <1>9 DEF CommitReport, MarkFailed
  <2>2. QED BY <1>1, <1>7, <1>9, <2>1
<1>10. CASE call[c].kind = "out_of_stock"
  <2>1. MarkOutOfStock(o)
    BY <1>10 DEF CommitReport, MarkOutOfStock
  <2>2. QED BY <1>1, <1>7, <1>10, <2>1
<1> QED BY <1>2, <1>8, <1>9, <1>10 DEF Results

(* A recovery has every job it found stale under its lock and still stale, *)
(* and the orders of those jobs are being delivered.                       *)
LEMMA RecoveryCommits ==
    ASSUME TInv, NEW c \in Callers, CommitRecovery(c)
    PROVE  RecoverRows(call[c].held) /\ TInv'
<1> DEFINE S == call[c].held
<1>0. /\ call[c].pc = "recover" /\ End(c)
      /\ \A o \in (S \cap call[c].seen) \ call[c].taken : OrderFree(c, o)
  BY DEF CommitRecovery
<1>1. /\ S \subseteq Orders /\ S \subseteq call[c].seen
  BY <1>0, OpenCall DEF CallRow, RowSets, Recovering
<1>2. \A o \in S : HoldsJob(call[c], o)
  BY DEF HoldsJob
<1>3. \A o \in S : attempt[o].status = "processing"
                   /\ attempt[o].lease = "expired"
  BY <1>0, <1>1, <1>2, OpenCall DEF JobFacts
<1>4. S \subseteq Stale /\ \A o \in S : order[o].status = "delivering"
  BY <1>1, <1>3, RunningJob, Tables DEF Stale
<1>5. RecoverRows(S)
  <2>1. \A o \in Orders : o \in S <=> o \in S \cap Stale
    BY <1>4
  <2>2. \A o \in Orders : o \in S <=> o \in S \cap call[c].seen
    BY <1>1
  <2>3. attempt' = [o \in Orders |->
                      IF o \in S \cap Stale
                      THEN [attempt[o] EXCEPT !.status = "failed",
                                              !.next = "due",
                                              !.lease = "null"]
                      ELSE attempt[o]]
    BY <2>1 DEF CommitRecovery
  <2>4. order' = [o \in Orders |->
                    IF o \in S \cap Stale /\ order[o].status = "delivering"
                    THEN [order[o] EXCEPT !.status = "delivery_failed"]
                    ELSE order[o]]
    BY <2>1, <2>2 DEF CommitRecovery
  <2>5. UNCHANGED <<event, ledger, clock>>
    BY DEF CommitRecovery
  <2>6. QED BY <2>3, <2>4, <2>5 DEF RecoverRows
<1>6. \A d \in Callers \ {c}, o \in S :
         ~HoldsOrder(call[d], o) /\ ~HoldsJob(call[d], o)
  BY <1>0, <1>1, <1>2, OpenCall DEF Apart, OrderFree
<1>7. event' = event
  BY <1>5 DEF RecoverRows
<1>8. TInv'
  BY <1>0, <1>1, <1>4, <1>5, <1>6, <1>7, PartStep, LoneCommit, SameEvents
<1> QED BY <1>5, <1>8

(* A retry has the order to itself from its first statement on, and the    *)
(* job when it commits.                                                    *)
LEMMA RetryLocks ==
    ASSUME TInv, NEW c \in Callers,
           call[c].pc \in {"retry_job", "retry_insert"}
    PROVE  /\ call[c].order \in Orders /\ HoldsOrder(call[c], call[c].order)
           /\ order[call[c].order].paid
           /\ order[call[c].order].status \notin
                {"absent", "created", "payment_failed", "delivered"}
           /\ call[c].pc = "retry_insert"
                => attempt[call[c].order].status = "none"
           /\ \A d \in Callers \ {c} : ~HoldsOrder(call[d], call[c].order)
<1>1. call[c].order \in Orders
  BY OpenCall DEF InputFacts, Retrying
<1>2. HoldsOrder(call[c], call[c].order)
  BY DEF HoldsOrder
<1>3. /\ OrderFacts(call[c], call[c].order, order[call[c].order])
      /\ JobFacts(call[c], call[c].order, attempt[call[c].order])
      /\ \A d \in Callers \ {c} : Apart(call[c], call[d])
  BY <1>1, OpenCall
<1>4. QED BY <1>1, <1>2, <1>3 DEF OrderFacts, JobFacts, Apart

(* Its commit is a retry of Store.                                         *)
LEMMA RetryKeepsInv ==
    ASSUME TInv, NEW c \in Callers, JobFree(c, call[c].order), End(c),
           call[c].pc \in {"retry_job", "retry_insert"},
           RetryDelivery(call[c].order)
    PROVE  TInv'
<1> DEFINE o == call[c].order
<1>1. /\ o \in Orders /\ order[o].paid /\ order[o].status # "absent"
      /\ \A d \in Callers \ {c} : ~HoldsOrder(call[d], o)
      /\ \A d \in Callers \ {c} : ~HoldsJob(call[d], o)
  BY RetryLocks DEF JobFree
<1>2. /\ order \in [Orders -> OrderRow] /\ attempt \in [Orders -> AttemptRow]
  BY <1>1, Tables
<1>3. \A q \in Orders :
         /\ order'[q].status = "absent" => order'[q] = order[q]
         /\ attempt'[q].status = "none" => attempt'[q] = attempt[q]
         /\ q # o => order'[q] = order[q] /\ attempt'[q] = attempt[q]
  <2>1. CASE attempt' = [attempt EXCEPT ![o] = PendingAttempt]
    BY <1>1, <1>2, <2>1 DEF RetryDelivery, OrderRow, PendingAttempt,
                            NoAttempt
  <2>2. ASSUME NEW lease, attempt' = [attempt EXCEPT
                             ![o].status = "pending", ![o].next = "due",
                             ![o].lease = lease]
        PROVE  \A q \in Orders :
                  /\ order'[q].status = "absent" => order'[q] = order[q]
                  /\ attempt'[q].status = "none" => attempt'[q] = attempt[q]
                  /\ q # o => order'[q] = order[q] /\ attempt'[q] = attempt[q]
    BY <1>1, <1>2, <2>2 DEF RetryDelivery, OrderRow, AttemptRow
  <2>3. QED BY <2>1, <2>2 DEF RetryDelivery
<1>4. order'[o].paid /\ event' = event
  BY <1>1, <1>2 DEF RetryDelivery, OrderRow
<1>5. TablesInv'
  <2>1. [Next]_vars
    BY <1>1 DEF Next
  <2>2. QED BY <1>3, <2>1, TableStep
<1>6. QED BY <1>1, <1>3, <1>4, <1>5, SingleCommit, SameEvents

LEMMA InsertRetriedCommits ==
    ASSUME TInv, NEW c \in Callers, InsertRetried(c)
    PROVE  /\ call[c].order \in Orders /\ RetryDelivery(call[c].order)
           /\ TInv'
<1>1. call[c].pc = "retry_insert" /\ JobFree(c, call[c].order) /\ End(c)
  BY DEF InsertRetried
<1>2. /\ call[c].order \in Orders /\ order[call[c].order].paid
      /\ order[call[c].order].status \notin
           {"absent", "created", "payment_failed", "delivered"}
      /\ attempt[call[c].order].status = "none"
  BY <1>1, RetryLocks
<1>3. RetryDelivery(call[c].order)
  BY <1>2 DEF InsertRetried, RetryDelivery
<1>4. QED BY <1>1, <1>2, <1>3, RetryKeepsInv

LEMMA RetryCommits ==
    ASSUME TInv, NEW c \in Callers, CommitRetry(c)
    PROVE  /\ call[c].order \in Orders
           /\ RetryDelivery(call[c].order) \/ UNCHANGED vars
           /\ TInv'
<1>1. call[c].pc = "retry_job" /\ JobFree(c, call[c].order) /\ End(c)
  BY DEF CommitRetry
<1>2. /\ call[c].order \in Orders /\ order[call[c].order].paid
      /\ order[call[c].order].status \notin
           {"absent", "created", "payment_failed", "delivered"}
  BY <1>1, RetryLocks
<1>3. attempt[call[c].order] \in AttemptRow
  BY <1>2, Tables
<1>4. CASE attempt[call[c].order].status \in {"processing", "delivered"}
  <2>1. UNCHANGED vars
    BY <1>4 DEF CommitRetry
  <2>2. QED BY <1>1, <1>2, <2>1, RollbackStep
<1>5. CASE attempt[call[c].order].status \notin {"processing", "delivered"}
  <2>1. attempt[call[c].order].status \in {"pending"} \cup Idle
    BY <1>3, <1>5 DEF CommitRetry, AttemptRow, AttemptStatus, Idle
  <2>2. RetryDelivery(call[c].order)
    BY <1>2, <1>5, <2>1 DEF CommitRetry, RetryDelivery
  <2>3. QED BY <1>1, <1>2, <2>2, RetryKeepsInv
<1>6. QED BY <1>4, <1>5

(* A repair has inserted the jobs of paid orders that had none, and nobody *)
(* has given them one since.                                               *)
LEMMA RepairCommits ==
    ASSUME TInv, NEW c \in Callers, CommitRepair(c)
    PROVE  RepairRows(call[c].held) /\ TInv'
<1> DEFINE S == call[c].held
<1>0. /\ call[c].pc = "repair" /\ End(c)
      /\ \A o \in S \ call[c].taken : OrderFree(c, o)
  BY DEF CommitRepair
<1>1. S \subseteq Orders
  BY OpenCall DEF CallRow
<1>2. \A o \in S : HoldsJob(call[c], o)
  BY DEF HoldsJob
<1>3. \A o \in S : order[o].paid /\ attempt[o].status = "none"
  BY <1>0, <1>1, <1>2, OpenCall DEF OrderFacts, JobFacts
<1>4. ASSUME NEW o \in S PROVE order[o].status \in Claimable
  <2>1. RowsAgree(order[o], attempt[o], ledger[o])
    BY <1>1, Tables
  <2>2. order[o].status \in PaidStatus
    BY <1>3, <2>1 DEF RowsAgree, PaidAgrees
  <2>3. QED BY <1>3, <2>1, <2>2 DEF RowsAgree, StatusesAgree, Pairs,
               StatusPairs, LossPairs, Claimable, PaidStatus
<1>5. S \subseteq MissingJobs /\ S \cap UnscheduledJobs = {}
  BY <1>1, <1>3, <1>4 DEF MissingJobs, UnscheduledJobs, Idle
<1>6. RepairRows(S)
  <2>1. \A o \in Orders : /\ o \in S \cap MissingJobs <=> o \in S
                          /\ o \notin S \cap UnscheduledJobs
    BY <1>5
  <2>2. attempt' = [o \in Orders |-> IF o \in S THEN PendingAttempt
                                    ELSE attempt[o]]
    BY DEF CommitRepair
  <2>3. attempt' = [o \in Orders |->
                      CASE o \in S \cap MissingJobs -> PendingAttempt
                        [] o \in S \cap UnscheduledJobs ->
                             [attempt[o] EXCEPT !.next = "due"]
                        [] OTHER -> attempt[o]]
    BY <2>1, <2>2
  <2>4. UNCHANGED <<order, event, ledger, clock>>
    BY DEF CommitRepair
  <2>5. QED BY <2>3, <2>4 DEF RepairRows
<1>7. \A d \in Callers \ {c}, o \in S :
         ~HoldsOrder(call[d], o) /\ ~HoldsJob(call[d], o)
  BY <1>0, <1>1, <1>2, OpenCall DEF Apart, OrderFree
<1>8. event' = event /\ \A o \in S : order[o].status # "absent"
  BY <1>4, <1>6 DEF RepairRows, Claimable
<1>9. TInv'
  BY <1>0, <1>1, <1>6, <1>7, <1>8, PartStep, LoneCommit, SameEvents
<1> QED BY <1>6, <1>9

-----------------------------------------------------------------------------
(* A webhook.  What its commit does is what Store does in one step, unless *)
(* it did not find an order that is there by now.                          *)
LEMMA WebhookFacts ==
    ASSUME TInv, NEW c \in Callers, call[c].pc = "commit"
    PROVE  /\ call[c].order \in Orders /\ call[c].event \in Events
           /\ call[c].kind \in Kinds /\ call[c].amount \in Amounts
           /\ call[c].at \in Nat /\ event[call[c].event].status = "none"
           /\ call[c].row # NoOrder =>
                /\ call[c].row = order[call[c].order]
                /\ order[call[c].order].status # "absent"
                /\ HoldsOrder(call[c], call[c].order)
                /\ \A d \in Callers \ {c} :
                       ~HoldsOrder(call[d], call[c].order)
<1>1. /\ call[c] \in CallRow /\ PayFacts(call[c], event)
      /\ \A o \in Orders : OrderFacts(call[c], o, order[o])
      /\ \A d \in Callers \ {c} : Apart(call[c], call[d])
  BY OpenCall
<1>2. call[c].pc \in Paying /\ LocksEvent(call[c])
  BY DEF Paying, LocksEvent
<1>3. call[c].at \in Nat
  BY <1>1 DEF CallRow
<1>4. call[c].order \in Orders
  BY <1>1, <1>2 DEF PayFacts
<1>5. Blank(order[call[c].order], attempt[call[c].order])
  BY <1>4, Tables
<1>6. call[c].row # NoOrder => /\ HoldsOrder(call[c], call[c].order)
                              /\ call[c].row = order[call[c].order]
  BY <1>1, <1>4 DEF HoldsOrder, OrderFacts
<1>7. QED BY <1>1, <1>2, <1>3, <1>4, <1>5, <1>6 DEF PayFacts, Blank, Apart

(* Two webhooks of one event are not both about to insert it.              *)
LEMMA OtherEvents ==
    ASSUME TInv, NEW c \in Callers, call[c].pc = "commit",
           NEW n, event' = [event EXCEPT ![call[c].event] = n],
           NEW d \in Callers \ {c}
    PROVE  EventsKept(call[d], event, event')
<1>1. /\ call[c].event \in Events /\ event[call[c].event].status = "none"
  BY WebhookFacts
<1>2. /\ Apart(call[c], call[d]) /\ call[d] \in CallRow
      /\ CreateFacts(call[d], event) /\ PayFacts(call[d], event)
  BY OpenCall
<1>3. event \in [Events -> EventRow]
  BY Tables
<1>4. LocksEvent(call[d]) => /\ call[d].event # call[c].event
                             /\ call[d].event \in Events
  <2>1. LocksEvent(call[d]) => call[d].pc \in Paying
    BY DEF LocksEvent, Paying
  <2>2. QED BY <1>2, <2>1 DEF Apart, LocksEvent, PayFacts
<1>5. Inserting(call[d]) => \A e \in call[d].todo \cup call[d].done :
                               e # call[c].event /\ e \in Events
  BY <1>1, <1>2 DEF CreateFacts, Loop, CallRow, Kinds
<1>6. QED BY <1>3, <1>4, <1>5 DEF EventsKept

(* The new row of payment_events, with nothing applied.                    *)
LEMMA EventOnly ==
    ASSUME TInv, NEW c \in Callers, CommitPayment(c), ~Applies(call[c])
    PROVE  TInv'
<1> DEFINE n == [status |-> call[c].kind, order |-> call[c].order,
                 amount |-> call[c].amount, processed |-> FoundOrder(c),
                 at |-> call[c].at]
<1>1. /\ call[c].pc = "commit" /\ End(c)
      /\ event' = [event EXCEPT ![call[c].event] = n]
      /\ UNCHANGED <<order, attempt, ledger, clock>>
  BY DEF CommitPayment
<1>2. /\ call[c].order \in Orders /\ call[c].event \in Events
      /\ call[c].kind \in Kinds /\ call[c].amount \in Amounts
      /\ call[c].at \in Nat
  BY <1>1, WebhookFacts
<1>3. n \in EventRow
  BY <1>2 DEF EventRow, FoundOrder
<1> HIDE DEF n
<1>4. TypeOK' /\ RowsInv'
  <2>1. /\ order' \in [Orders -> OrderRow] /\ attempt' \in [Orders -> AttemptRow]
        /\ event' \in [Events -> EventRow] /\ ledger' \in [Orders -> LedgerRow]
        /\ clock' \in Nat
    BY <1>1, <1>2, <1>3, Tables
  <2>2. TypeOK'
    BY <2>1 DEF TypeOK, OrderRow, AttemptRow, EventRow, LedgerRow
  <2>3. QED BY <1>1, <2>2 DEF TInv, TablesInv, IInv, RowsInv
<1>5. TablesInv'
  BY <1>1, <1>4 DEF TInv, TablesInv, IInv
<1>6. \A d \in Callers \ {c} : EventsKept(call[d], event, event')
  BY <1>1, OtherEvents
<1>7. \A d \in Callers \ {c}, o \in Orders :
         Undisturbed(call[d], o, order[o], attempt[o], order'[o], attempt'[o])
  BY <1>1, OpenCall, SameRows
<1>8. QED BY <1>1, <1>5, <1>6, <1>7, CommitStep

(* ... with a payment applied to an order whose lock it holds.             *)
LEMMA EventApplied ==
    ASSUME TInv, NEW c \in Callers, CommitPayment(c), Applies(call[c])
    PROVE  TInv'
<1> DEFINE o == call[c].order
           kind == call[c].kind
           n == [status |-> call[c].kind, order |-> call[c].order,
                 amount |-> call[c].amount, processed |-> FoundOrder(c),
                 at |-> call[c].at]
           r1 == OrderAfter(order[o], kind)
           a1 == AttemptAfter(order[o], attempt[o], kind)
           l1 == LedgerAfter(order[o], ledger[o], kind)
<1>1. /\ call[c].pc = "commit" /\ End(c)
      /\ call[c].row # NoOrder
      /\ event' = [event EXCEPT ![call[c].event] = n] /\ clock' = clock
      /\ ApplyPayment(o, call[c].row, kind)
  BY DEF CommitPayment, Applies
<1>2. /\ o \in Orders /\ call[c].event \in Events
      /\ kind \in Kinds /\ call[c].amount \in Amounts /\ call[c].at \in Nat
      /\ call[c].row = order[o] /\ order[o].status # "absent"
  BY <1>1, WebhookFacts
<1>3. n \in EventRow
  BY <1>2 DEF EventRow, FoundOrder
<1>4. /\ order \in [Orders -> OrderRow] /\ attempt \in [Orders -> AttemptRow]
      /\ ledger \in [Orders -> LedgerRow] /\ event \in [Events -> EventRow]
      /\ order[o] \in OrderRow /\ attempt[o] \in AttemptRow
      /\ ledger[o] \in LedgerRow /\ clock \in Nat
      /\ RowsAgree(order[o], attempt[o], ledger[o]) /\ IInv
      /\ Blank(order[o], attempt[o])
  BY <1>2, Tables
<1>5. r1 \in OrderRow /\ a1 \in AttemptRow /\ l1 \in LedgerRow
  BY <1>2, <1>4, PaymentRows
<1>6. RowsAgree(r1, a1, l1)
  BY <1>2, <1>4, PaymentAgrees
<1>7. /\ order' = [order EXCEPT ![o] = r1]
      /\ attempt' = [attempt EXCEPT ![o] = a1]
      /\ ledger' = [ledger EXCEPT ![o] = l1]
  BY <1>1, <1>2 DEF ApplyPayment
<1>8. r1.status # "absent" /\ (order[o].paid => r1.paid)
  BY <1>2, <1>4 DEF OrderAfter, OrderRow
<1>9. a1 = attempt[o] \/ a1.status # "none"
  BY <1>4 DEF AttemptAfter, UpsertAttempt, PendingAttempt, NoAttempt,
              AttemptRow
<1> HIDE DEF n, r1, a1, l1
<1>10. TypeOK'
  <2>1. /\ order' \in [Orders -> OrderRow] /\ attempt' \in [Orders -> AttemptRow]
        /\ event' \in [Events -> EventRow] /\ ledger' \in [Orders -> LedgerRow]
        /\ clock' \in Nat
    BY <1>1, <1>2, <1>3, <1>4, <1>5, <1>7
  <2>2. QED BY <2>1 DEF TypeOK, OrderRow, AttemptRow, EventRow, LedgerRow
<1>11. RowsInv'
  BY <1>2, <1>4, <1>6, <1>7, OneOrder DEF IInv
<1>12. \A q \in Orders : Blank(order'[q], attempt'[q])
  BY <1>2, <1>4, <1>7, <1>8, <1>9 DEF Blank, TInv, TablesInv
<1>13. TablesInv'
  BY <1>10, <1>11, <1>12 DEF TablesInv, IInv
<1>14. \A d \in Callers \ {c} : EventsKept(call[d], event, event')
  BY <1>1, OtherEvents
<1>15. \A q \in Orders \ {o} : order'[q] = order[q] /\ attempt'[q] = attempt[q]
  BY <1>7
<1>16. order[o].paid => order'[o].paid
  BY <1>2, <1>4, <1>7, <1>8
<1>17. \A d \in Callers \ {c} : ~HoldsOrder(call[d], o)
  BY <1>1, WebhookFacts
<1>18. CASE TakesPayment(order[o], kind)
  <2>1. \A d \in Callers \ {c} : ~HoldsJob(call[d], o)
    BY <1>2, <1>18 DEF CommitPayment, JobFree
  <2>2. QED BY <1>1, <1>2, <1>13, <1>14, <1>15, <1>16, <1>17, <2>1,
               SingleCommit
<1>19. CASE ~TakesPayment(order[o], kind)
  <2>1. a1 = attempt[o]
    BY <1>19 DEF a1, AttemptAfter
  <2>2. attempt' = attempt
    BY <1>4, <1>7, <2>1
  <2>3. ASSUME NEW d \in Callers \ {c}, NEW q \in Orders
        PROVE  Undisturbed(call[d], q, order[q], attempt[q],
                           order'[q], attempt'[q])
    <3>1. OrderFacts(call[d], q, order[q])
      BY OpenCall
    <3>2. CASE q = o
      <4>1. ~Inserts(call[d], q)
        BY <1>2, <3>1, <3>2 DEF OrderFacts
      <4>2. QED BY <1>16, <1>17, <2>2, <3>2, <4>1 DEF Undisturbed, Steady
    <3>3. CASE q # o
      BY <1>15, <3>1, <3>3, SameRows
    <3>4. QED BY <3>2, <3>3
  <2>4. QED BY <1>1, <1>13, <1>14, <2>3, CommitStep
<1> QED BY <1>18, <1>19

LEMMA PaymentCommits ==
    ASSUME TInv, NEW c \in Callers, CommitPayment(c)
    PROVE  TInv'
  BY EventOnly, EventApplied

-----------------------------------------------------------------------------
(* A creation.  What its loop makes of the new row is what the first event *)
(* of the right amount makes of it: no later one changes anything more.    *)
LEMMA NewRows ==
    ASSUME NEW amount \in Amounts
    PROVE  /\ NewRow(amount) \in OrderRow /\ NoAttempt \in AttemptRow
           /\ NoEntries \in LedgerRow
           /\ RowsAgree(NewRow(amount), NoAttempt, NoEntries)
<1>1. /\ NewRow(amount) \in OrderRow /\ NoAttempt \in AttemptRow
      /\ NoEntries \in LedgerRow
  BY DEF NewRow, NoAttempt, NoEntries, OrderRow, AttemptRow, LedgerRow,
         OrderStatus
<1>2. RowsAgree(NewRow(amount), NoAttempt, NoEntries)
  BY DEF NewRow, NoAttempt, NoEntries, RowsAgree, StatusesAgree, Pairs,
         StatusPairs, PaidAgrees, PaidStatus, LedgerAgrees, JobAgrees, Idle
<1>3. QED BY <1>1, <1>2

LEMMA FirstOnly ==
    ASSUME NEW amount \in Amounts, NEW k \in Kinds, NEW m \in Kinds
    PROVE  LET r == OrderAfter(NewRow(amount), k)
               a == AttemptAfter(NewRow(amount), NoAttempt, k)
               l == LedgerAfter(NewRow(amount), NoEntries, k)
           IN /\ r.amount = amount /\ r.status \in {"paid", "payment_failed"}
              /\ a = NoAttempt \/ a.status # "none"
              /\ OrderAfter(r, m) = r /\ AttemptAfter(r, a, m) = a
              /\ LedgerAfter(r, l, m) = l
<1>1. CASE k = "paid"
  <2> DEFINE r == OrderAfter(NewRow(amount), k)
             l == LedgerAfter(NewRow(amount), NoEntries, k)
  <2>1. NewRow(amount).status = "created" /\ NewRow(amount) \in OrderRow
        /\ NewRow(amount).amount = amount
    BY NewRows DEF NewRow
  <2>2. TakesPayment(NewRow(amount), k)
    BY <1>1, <2>1 DEF TakesPayment
  <2>3. r = [NewRow(amount) EXCEPT !.status = "paid", !.paid = TRUE]
    <3>1. PICK r0 : r0 = NewRow(amount)
      OBVIOUS
    <3>2. OrderAfter(r0, k) = [r0 EXCEPT !.status = "paid", !.paid = TRUE]
      BY <1>1, <2>1, <2>2, <3>1 DEF OrderAfter
    <3>3. QED BY <3>1, <3>2 DEF r
  <2>4. r.status = "paid" /\ r.amount = amount
    BY <2>1, <2>3 DEF OrderRow
  <2>5. AttemptAfter(NewRow(amount), NoAttempt, k) = PendingAttempt
    <3>1. NoAttempt.status = "none"
      BY DEF NoAttempt
    <3>2. QED BY <2>2, <3>1 DEF AttemptAfter, UpsertAttempt, Idle
  <2>6. NoEntries.payment = 0 /\ NoEntries \in LedgerRow
    BY DEF NoEntries, LedgerRow
  <2>7. l = [NoEntries EXCEPT !.payment = 1]
    BY <2>2, <2>6 DEF LedgerAfter
  <2>8. l.payment # 0
    BY <2>6, <2>7 DEF LedgerRow
  <2>9. PendingAttempt.status = "pending"
    BY DEF PendingAttempt, NoAttempt
  <2> HIDE DEF r, l
  <2>10. OrderAfter(r, m) = r
    BY <2>4 DEF OrderAfter
  <2>11. LedgerAfter(r, l, m) = l
    BY <2>8 DEF LedgerAfter
  <2>12. AttemptAfter(r, PendingAttempt, m) = PendingAttempt
    BY <2>9 DEF AttemptAfter, UpsertAttempt, Idle
  <2>13. QED BY <2>4, <2>5, <2>9, <2>10, <2>11, <2>12 DEF r, l
<1>2. CASE k = "failed"
  <2>1. /\ OrderAfter(NewRow(amount), k)
             = [status |-> "payment_failed", paid |-> FALSE, amount |-> amount]
        /\ AttemptAfter(NewRow(amount), NoAttempt, k) = NoAttempt
        /\ LedgerAfter(NewRow(amount), NoEntries, k) = NoEntries
    BY <1>2 DEF OrderAfter, AttemptAfter, LedgerAfter, TakesPayment, NewRow
  <2>2. PICK r : r = [status |-> "payment_failed", paid |-> FALSE,
                      amount |-> amount]
    OBVIOUS
  <2>3. /\ OrderAfter(r, m) = r /\ AttemptAfter(r, NoAttempt, m) = NoAttempt
        /\ LedgerAfter(r, NoEntries, m) = NoEntries
    BY <2>2 DEF OrderAfter, AttemptAfter, LedgerAfter, TakesPayment
  <2>4. QED BY <2>1, <2>2, <2>3
<1>3. QED BY <1>1, <1>2 DEF Kinds

(* One more event e, not earlier than those gone through and not later     *)
(* than those to come.                                                     *)
LEMMA LoopNext ==
    ASSUME NEW j \in CallRow, NEW n \in CallRow, NEW e \in Events,
           NEW ev \in [Events -> EventRow], j.amount \in Amounts,
           Loop(j, ev), e \in j.todo,
           \A f \in j.todo : ev[e].at <= ev[f].at,
           n.amount = j.amount, n.order = j.order,
           n.todo = j.todo \ {e}, n.done = j.done \cup {e},
           IF ev[e].amount # j.row.amount
           THEN n.row = j.row /\ n.job = j.job /\ n.booked = j.booked
           ELSE /\ n.row = OrderAfter(j.row, ev[e].status)
                /\ n.job = AttemptAfter(j.row, j.job, ev[e].status)
                /\ n.booked = LedgerAfter(j.row, j.booked, ev[e].status)
    PROVE  Loop(n, ev)
<1>1. \A f \in n.todo \cup n.done : /\ ev[f].status \in Kinds
                                     /\ ev[f].order = n.order
                                     /\ ~ev[f].processed
  BY DEF Loop
<1>2. \A f \in n.done, g \in n.todo : ev[f].at <= ev[g].at
  BY DEF Loop
<1>3. ev[e].status \in Kinds /\ ev[e].at \in Nat
  BY DEF Loop, EventRow
<1>4. CASE Untouched(j, ev)
  <2>1. j.row.amount = j.amount
    BY <1>4 DEF Untouched, NewRow
  <2>2. CASE ev[e].amount # j.amount
    BY <1>1, <1>2, <1>4, <2>1, <2>2 DEF Loop, Untouched
  <2>3. CASE ev[e].amount = j.amount
    <3>1. \A f \in n.done : ev[f].amount = n.amount => f = e
      BY <1>4 DEF Untouched
    <3>2. Decided(n, ev, e)
      BY <1>3, <1>4, <2>1, <2>3, <3>1 DEF Decided, Untouched
    <3>3. QED BY <1>1, <1>2, <3>2 DEF Loop
  <2>4. QED BY <2>2, <2>3
<1>5. ASSUME NEW f \in Events, Decided(j, ev, f)
      PROVE  Loop(n, ev)
  <2>1. ev[f].status \in Kinds /\ ev[f].at <= ev[e].at
    BY <1>5 DEF Decided, Loop
  <2>2. /\ j.row.amount = j.amount
        /\ OrderAfter(j.row, ev[e].status) = j.row
        /\ AttemptAfter(j.row, j.job, ev[e].status) = j.job
        /\ LedgerAfter(j.row, j.booked, ev[e].status) = j.booked
    BY <1>3, <1>5, <2>1, FirstOnly DEF Decided
  <2>3. n.row = j.row /\ n.job = j.job /\ n.booked = j.booked
    BY <2>2
  <2>4. Decided(n, ev, f)
    BY <1>5, <2>1, <2>3 DEF Decided
  <2>5. QED BY <1>1, <1>2, <2>4 DEF Loop
<1>6. QED BY <1>4, <1>5 DEF Loop

(* What a creation commits.                                                *)
LEMMA CreatedRows ==
    ASSUME NEW j \in CallRow, NEW ev, j.amount \in Amounts, Loop(j, ev)
    PROVE  /\ RowsAgree(j.row, j.job, j.booked)
           /\ j.row.status # "absent"
           /\ j.job = NoAttempt \/ j.job.status # "none"
<1>1. CASE Untouched(j, ev)
  BY <1>1, NewRows DEF Untouched, NewRow
<1>2. ASSUME NEW e \in Events, Decided(j, ev, e)
      PROVE  /\ RowsAgree(j.row, j.job, j.booked)
             /\ j.row.status # "absent"
             /\ j.job = NoAttempt \/ j.job.status # "none"
  <2>1. ev[e].status \in Kinds
    BY <1>2 DEF Decided, Loop
  <2>2. NewRow(j.amount).status # "absent"
    BY DEF NewRow
  <2>3. RowsAgree(j.row, j.job, j.booked)
    BY <1>2, <2>1, <2>2, NewRows, PaymentAgrees DEF Decided
  <2>4. QED BY <1>2, <2>1, <2>3, FirstOnly DEF Decided
<1>3. QED BY <1>1, <1>2 DEF Loop

LEMMA CreationFacts ==
    ASSUME TInv, NEW c \in Callers, Inserting(call[c])
    PROVE  /\ call[c].order \in Orders /\ call[c].amount \in Amounts
           /\ call[c] \in CallRow /\ Loop(call[c], event)
           /\ order[call[c].order] = NoOrder
           /\ attempt[call[c].order] = NoAttempt
           /\ ledger[call[c].order] = NoEntries
           /\ ~order[call[c].order].paid
<1>1. call[c].pc \in Creating
  BY DEF Inserting, Creating
<1>2. /\ call[c].order \in Orders /\ call[c].amount \in Amounts
      /\ call[c] \in CallRow /\ Loop(call[c], event)
  BY <1>1, OpenCall DEF CreateFacts
<1>3. Inserts(call[c], call[c].order)
  BY DEF Inserts, Inserting
<1>4. order[call[c].order].status = "absent"
  BY <1>2, <1>3, OpenCall DEF OrderFacts
<1>5. QED BY <1>2, <1>4, AbsentOrder

(* Nobody else has to do with an order that is not there yet, except       *)
(* webhooks that do not find it.                                           *)
LEMMA NobodyElse ==
    ASSUME TInv, NEW c \in Callers, Inserting(call[c]),
           NEW d \in Callers \ {c}
    PROVE  /\ ~HoldsOrder(call[d], call[c].order)
           /\ ~HoldsJob(call[d], call[c].order)
           /\ ~Inserts(call[d], call[c].order)
           /\ call[c].order \notin call[d].taken
<1> DEFINE o == call[c].order
<1>1. /\ o \in Orders /\ order[o] = NoOrder /\ attempt[o] = NoAttempt
      /\ ~order[o].paid
  BY CreationFacts
<1>2. order[o].status = "absent" /\ attempt[o].status = "none"
  BY <1>1 DEF NoOrder, NoAttempt
<1>3. /\ OrderFacts(call[d], o, order[o]) /\ JobFacts(call[d], o, attempt[o])
      /\ RowSets(call[d]) /\ Apart(call[c], call[d])
  BY <1>1, OpenCall
<1>4. ~HoldsOrder(call[d], o)
  <2>1. call[d].pc = "commit" => call[d].row # order[o] \/ ~HoldsOrder(call[d], o)
    BY <1>1 DEF HoldsOrder
  <2>2. QED BY <1>1, <1>3, <2>1 DEF OrderFacts
<1>5. ~HoldsJob(call[d], o)
  <2>1. HoldsJob(call[d], o)
           => call[d].pc \in {"claim", "mark", "recover", "repair"}
    BY <1>3 DEF HoldsJob, RowSets, Recovering, Repairing
  <2>2. HoldsJob(call[d], o) /\ call[d].pc = "repair" => order[o].paid
    BY <1>3 DEF HoldsJob, OrderFacts
  <2>3. QED BY <1>1, <1>2, <1>3, <2>1, <2>2 DEF JobFacts, Idle
<1>6. ~Inserts(call[d], o)
  <2>1. Inserts(call[c], o)
    BY DEF Inserts, Inserting
  <2>2. QED BY <1>1, <1>3, <2>1 DEF Apart
<1>7. o \notin call[d].taken
  BY <1>3, <1>5 DEF RowSets, HoldsJob
<1>8. QED BY <1>4, <1>5, <1>6, <1>7

LEMMA CreationCommits ==
    ASSUME TInv, NEW c \in Callers, CommitCreate(c)
    PROVE  TInv'
<1> DEFINE o == call[c].order
<1>1. /\ call[c].pc = "apply" /\ Inserting(call[c]) /\ End(c)
      /\ order' = [order EXCEPT ![o] = call[c].row]
      /\ attempt' = [attempt EXCEPT ![o] = call[c].job]
      /\ ledger' = [ledger EXCEPT ![o] = call[c].booked]
      /\ event' = Marked(event, call[c].done)
      /\ clock' = clock
  BY DEF CommitCreate, Inserting, Marked
<1>2. /\ o \in Orders /\ call[c].amount \in Amounts
      /\ call[c] \in CallRow /\ Loop(call[c], event)
      /\ ~order[o].paid
  BY <1>1, CreationFacts
<1>3. /\ order \in [Orders -> OrderRow] /\ attempt \in [Orders -> AttemptRow]
      /\ ledger \in [Orders -> LedgerRow] /\ event \in [Events -> EventRow]
      /\ clock \in Nat /\ IInv
  BY <1>2, Tables
<1>4. /\ call[c].row \in OrderRow /\ call[c].job \in AttemptRow
      /\ call[c].booked \in LedgerRow
  BY <1>2 DEF CallRow
<1>5. TypeOK'
  <2>1. event' \in [Events -> EventRow]
    <3>1. \A e \in Events : [event[e] EXCEPT !.processed = TRUE] \in EventRow
      BY <1>3 DEF EventRow
    <3>2. QED BY <1>1, <1>3, <3>1 DEF Marked
  <2>2. /\ order' \in [Orders -> OrderRow] /\ attempt' \in [Orders -> AttemptRow]
        /\ ledger' \in [Orders -> LedgerRow] /\ clock' \in Nat
    BY <1>1, <1>3, <1>4
  <2>3. QED BY <2>1, <2>2 DEF TypeOK, OrderRow, AttemptRow, EventRow,
                              LedgerRow
<1>6. /\ RowsAgree(call[c].row, call[c].job, call[c].booked)
      /\ call[c].row.status # "absent"
      /\ call[c].job = NoAttempt \/ call[c].job.status # "none"
  BY <1>2, CreatedRows
<1>7. RowsInv'
  BY <1>1, <1>2, <1>3, <1>6, OneOrder DEF IInv
<1>8. \A q \in Orders : Blank(order'[q], attempt'[q])
  BY <1>1, <1>3, <1>6 DEF Blank, TInv, TablesInv
<1>9. TablesInv'
  BY <1>5, <1>7, <1>8 DEF TablesInv, IInv
<1>10. ASSUME NEW d \in Callers \ {c}
       PROVE  EventsKept(call[d], event, event')
  <2>1. CreateFacts(call[d], event) /\ PayFacts(call[d], event)
    BY OpenCall
  <2>2. LocksEvent(call[d]) => /\ call[d].event \in Events
                               /\ event[call[d].event].status = "none"
    BY <2>1 DEF PayFacts, LocksEvent, Paying
  <2>3. LocksEvent(call[d]) => call[d].event \notin call[c].done
    BY <1>2, <2>2 DEF Loop, Kinds
  <2>4. ASSUME Inserting(call[d]), NEW e \in call[d].todo \cup call[d].done
        PROVE  e \in Events /\ e \notin call[c].done
    <3>1. call[d].order # o
      BY <1>1, <2>4, NobodyElse DEF Inserts, Inserting
    <3>2. event[e].order = call[d].order /\ e \in Events
      BY <2>1, <2>4, OpenCall DEF CreateFacts, Loop, CallRow
    <3>3. QED BY <1>2, <3>1, <3>2 DEF Loop
  <2>5. QED BY <1>1, <1>3, <2>2, <2>3, <2>4, MarkedRows DEF EventsKept
<1>11. ASSUME NEW d \in Callers \ {c}, NEW q \in Orders
       PROVE  Undisturbed(call[d], q, order[q], attempt[q],
                          order'[q], attempt'[q])
  <2>1. CASE q = o
    BY <1>1, <1>2, <2>1, NobodyElse DEF Undisturbed
  <2>2. CASE q # o
    <3>1. order'[q] = order[q] /\ attempt'[q] = attempt[q]
      BY <1>1, <2>2
    <3>2. QED BY <3>1, OpenCall, SameRows
  <2>3. QED BY <2>1, <2>2
<1>12. QED BY <1>1, <1>9, <1>10, <1>11, CommitStep

(* ... is what Store creates in one step, if all pending events were read. *)
LEMMA CreationCreates ==
    ASSUME TInv, NEW c \in Callers, CommitCreate(c),
           Pending(call[c].order) = call[c].done
    PROVE  CreateOrder(call[c].order, call[c].amount)
<1> DEFINE o == call[c].order
           amount == call[c].amount
           row == [status |-> "created", amount |-> amount, paid |-> FALSE]
<1>1. /\ call[c].pc = "apply" /\ Inserting(call[c])
      /\ order' = [order EXCEPT ![o] = call[c].row]
      /\ attempt' = [attempt EXCEPT ![o] = call[c].job]
      /\ ledger' = [ledger EXCEPT ![o] = call[c].booked]
      /\ event' = [e \in Events |-> IF e \in call[c].done
                                    THEN [event[e] EXCEPT !.processed = TRUE]
                                    ELSE event[e]]
      /\ clock' = clock
  BY DEF CommitCreate, Inserting
<1>2. /\ o \in Orders /\ amount \in Amounts /\ call[c] \in CallRow
      /\ Loop(call[c], event) /\ order[o] = NoOrder
      /\ attempt[o] = NoAttempt /\ ledger[o] = NoEntries
  BY <1>1, CreationFacts
<1>3. /\ attempt \in [Orders -> AttemptRow] /\ ledger \in [Orders -> LedgerRow]
  BY <1>2, Tables
<1>4. row = NewRow(amount) /\ ~Exists(o)
  BY <1>2 DEF NewRow, NoOrder, Exists
<1>5. CASE Untouched(call[c], event)
  <2>1. \A e \in Pending(o) : event[e].amount # amount
    BY <1>5 DEF Untouched
  <2>2. order' = [order EXCEPT ![o] = row] /\ UNCHANGED <<attempt, ledger>>
    BY <1>1, <1>2, <1>3, <1>4, <1>5 DEF Untouched
  <2>3. QED BY <1>1, <1>4, <2>1, <2>2 DEF CreateOrder
<1>6. ASSUME NEW e \in Events, Decided(call[c], event, e)
      PROVE  CreateOrder(o, amount)
  <2>1. Decisive(o, amount, e)
    BY <1>6 DEF Decisive, Decided
  <2>2. ApplyPayment(o, row, event[e].status)
    <3>1. /\ call[c].row = OrderAfter(row, event[e].status)
          /\ call[c].job = AttemptAfter(row, attempt[o], event[e].status)
          /\ call[c].booked = LedgerAfter(row, ledger[o], event[e].status)
      BY <1>2, <1>4, <1>6 DEF Decided
    <3>2. QED BY <1>1, <3>1 DEF ApplyPayment
  <2>3. QED BY <1>1, <1>4, <2>1, <2>2 DEF CreateOrder
<1>7. QED BY <1>2, <1>5, <1>6 DEF Loop

-----------------------------------------------------------------------------
(* The statements that open a transaction lock nothing.                    *)
Opening == {"insert_order", "insert_event", "claim_lock", "mark_job",
            "retry_order", "recover", "repair"}

LEMMA OpeningStep ==
    ASSUME TInv, NEW c \in Callers, NEW n \in CallRow,
           call' = [call EXCEPT ![c] = n],
           UNCHANGED <<order, attempt, event, ledger>>, clock' \in Nat,
           n.pc \in Opening, n.held = {}, n.taken = {},
           n.pc \notin {"recover", "repair"} => n.order \in Orders,
           n.pc = "insert_order" => /\ n.amount \in Amounts
                                    /\ n.todo = {} /\ n.done = {}
                                    /\ n.job = NoAttempt
                                    /\ n.booked = NoEntries,
           n.pc = "insert_event" => /\ n.event \in Events /\ n.kind \in Kinds
                                    /\ n.amount \in Amounts,
           n.pc = "mark_job" => n.kind \in Results,
           n.pc = "recover" => n.left \subseteq n.seen,
           n.pc = "repair" => \A o \in n.left : order[o].paid
    PROVE  TInv'
<1>1. \A o : ~HoldsOrder(n, o) /\ ~HoldsJob(n, o) /\ ~Inserts(n, o)
  BY DEF Opening, HoldsOrder, HoldsJob, Inserts
<1>2. ~LocksEvent(n) /\ ~Inserting(n)
  BY DEF Opening, LocksEvent, Inserting
<1>3. \A d \in Callers \ {c} : Apart(n, call[d])
  BY <1>1, <1>2 DEF Apart
<1>4. Facts(n, event)
  BY <1>2 DEF Opening, Facts, CreateFacts, PayFacts, InputFacts, RowSets,
     Creating, Paying, Claiming, Retrying, Reporting, Recovering, Repairing
<1>5. \A o \in Orders : OrderFacts(n, o, order[o]) /\ JobFacts(n, o, attempt[o])
  BY <1>1 DEF OrderFacts, JobFacts
<1>6. QED BY <1>3, <1>4, <1>5, StatementStep

LEMMA Begins ==
    ASSUME TInv, NEW c \in Callers, NEW o \in Orders,
           BeginClaim(c, o) \/ BeginRetry(c, o)
    PROVE  TInv'
<1>0. NoCall \in CallRow /\ NoCall.held = {} /\ NoCall.taken = {}
  BY NothingOpen DEF NoCall
<1>1. clock' \in Nat /\ UNCHANGED vars
  BY Tables DEF BeginClaim, BeginRetry, vars
<1>2. ASSUME NEW pc \in {"claim_lock", "retry_order"}, Begin(c, o, pc)
      PROVE  TInv'
  <2>1. PICK n : n = [NoCall EXCEPT !.pc = pc, !.order = o]
    OBVIOUS
  <2>2. /\ n \in CallRow /\ n.pc = pc /\ n.order = o
        /\ n.held = {} /\ n.taken = {}
    BY <1>0, <1>2, <2>1 DEF CallRow, Claiming, Retrying
  <2>3. call' = [call EXCEPT ![c] = n]
    BY <1>2, <2>1 DEF Begin
  <2>4. UNCHANGED <<order, attempt, event, ledger>>
    BY <1>1 DEF vars
  <2>5. QED BY <1>1, <1>2, <2>2, <2>3, <2>4, OpeningStep DEF Opening
<1>3. CASE BeginClaim(c, o)
  BY <1>2, <1>3 DEF BeginClaim
<1>4. CASE BeginRetry(c, o)
  BY <1>2, <1>4 DEF BeginRetry
<1>5. QED BY <1>3, <1>4

LEMMA CreationBegins ==
    ASSUME TInv, NEW c \in Callers, NEW o \in Orders, NEW amount \in Amounts,
           BeginCreate(c, o, amount)
    PROVE  TInv'
<1>1. PICK n : n = [NoCall EXCEPT !.pc = "insert_order", !.order = o,
                                  !.amount = amount]
  OBVIOUS
<1>2. /\ n \in CallRow /\ n.pc = "insert_order" /\ n.order = o
      /\ n.amount = amount
  BY <1>1, NothingOpen DEF CallRow, Creating
<1>3. /\ n.held = {} /\ n.taken = {} /\ n.todo = {} /\ n.done = {} /\ n.job = NoAttempt
      /\ n.booked = NoEntries
  BY <1>1 DEF NoCall, NoEntries
<1>4. call' = [call EXCEPT ![c] = n] /\ UNCHANGED vars
  BY <1>1 DEF BeginCreate
<1>5. clock' \in Nat /\ UNCHANGED <<order, attempt, event, ledger>>
  BY <1>4, Tables DEF vars
<1>6. QED BY <1>2, <1>3, <1>4, <1>5, OpeningStep DEF Opening

LEMMA PaymentBegins ==
    ASSUME TInv, NEW c \in Callers, NEW o \in Orders, NEW e \in Events,
           NEW kind \in Kinds, NEW amount \in Amounts,
           BeginPayment(c, e, o, kind, amount)
    PROVE  TInv'
<1>1. PICK n : n = [NoCall EXCEPT !.pc = "insert_event", !.event = e,
                                  !.order = o, !.kind = kind,
                                  !.amount = amount, !.at = clock]
  OBVIOUS
<1>2. clock \in Nat
  BY Tables
<1>3. /\ n \in CallRow /\ n.pc = "insert_event" /\ n.order = o
      /\ n.amount = amount /\ n.event = e /\ n.kind = kind
  BY <1>1, <1>2, NothingOpen DEF CallRow, Paying
<1>h. n.held = {} /\ n.taken = {}
  BY <1>1 DEF NoCall
<1>4. /\ call' = [call EXCEPT ![c] = n] /\ clock' \in Nat
      /\ UNCHANGED <<order, attempt, event, ledger>>
  BY <1>1, <1>2 DEF BeginPayment
<1>5. QED BY <1>3, <1>h, <1>4, OpeningStep DEF Opening

LEMMA ReportBegins ==
    ASSUME TInv, NEW c \in Callers, NEW o \in Orders, NEW result \in Results,
           BeginReport(c, o, result)
    PROVE  TInv'
<1>1. PICK n : n = [NoCall EXCEPT !.pc = "mark_job", !.order = o,
                                  !.kind = result]
  OBVIOUS
<1>2. /\ n \in CallRow /\ n.pc = "mark_job" /\ n.order = o
      /\ n.kind = result
  BY <1>1, NothingOpen DEF CallRow, Reporting
<1>h. n.held = {} /\ n.taken = {}
  BY <1>1 DEF NoCall
<1>3. call' = [call EXCEPT ![c] = n] /\ UNCHANGED vars
  BY <1>1 DEF BeginReport
<1>4. clock' \in Nat /\ UNCHANGED <<order, attempt, event, ledger>>
  BY <1>3, Tables DEF vars
<1>5. QED BY <1>2, <1>h, <1>3, <1>4, OpeningStep DEF Opening

(* A running job is the job of an order that is being delivered: the       *)
(* recovery has the orders of all stale jobs in its snapshot.              *)
LEMMA RecoveryBegins ==
    ASSUME TInv, NEW c \in Callers, BeginRecovery(c)
    PROVE  TInv'
<1>1. PICK seen : seen = {o \in Stale : order[o].status = "delivering"}
  OBVIOUS
<1>2. Stale \subseteq Orders /\ Stale \subseteq seen /\ seen \subseteq Orders
  BY <1>1, RunningJob, Tables DEF Stale
<1>3. PICK n : n = [NoCall EXCEPT !.pc = "recover", !.left = Stale,
                                  !.seen = seen]
  OBVIOUS
<1>4. n \in CallRow /\ n.pc = "recover" /\ n.left = Stale /\ n.seen = seen
  BY <1>2, <1>3, NothingOpen DEF CallRow, Recovering
<1>5. n.held = {} /\ n.taken = {}
  BY <1>3 DEF NoCall
<1>6. call' = [call EXCEPT ![c] = n] /\ UNCHANGED vars
  BY <1>1, <1>3 DEF BeginRecovery
<1>7. clock' \in Nat /\ UNCHANGED <<order, attempt, event, ledger>>
  BY <1>6, Tables DEF vars
<1>8. QED BY <1>2, <1>4, <1>5, <1>6, <1>7, OpeningStep DEF Opening

LEMMA RepairBegins ==
    ASSUME TInv, NEW c \in Callers, BeginRepair(c)
    PROVE  TInv'
<1>1. MissingJobs \subseteq Orders /\ \A o \in MissingJobs : order[o].paid
  BY DEF MissingJobs
<1>2. PICK n : n = [NoCall EXCEPT !.pc = "repair", !.left = MissingJobs]
  OBVIOUS
<1>3. n \in CallRow /\ n.pc = "repair" /\ n.left = MissingJobs
  BY <1>1, <1>2, NothingOpen DEF CallRow, Repairing
<1>4. n.held = {} /\ n.taken = {}
  BY <1>2 DEF NoCall
<1>5. call' = [call EXCEPT ![c] = n] /\ UNCHANGED vars
  BY <1>2 DEF BeginRepair
<1>6. clock' \in Nat /\ UNCHANGED <<order, attempt, event, ledger>>
  BY <1>5, Tables DEF vars
<1>7. QED BY <1>1, <1>3, <1>4, <1>5, <1>6, OpeningStep DEF Opening

-----------------------------------------------------------------------------
(* The statements in between.  A lock is granted when nobody has it; what  *)
(* is read under it is what the call relies on from then on.               *)

(* A call that never has rows of several orders.                           *)
LEMMA SingleRow ==
    ASSUME NEW n, RowSets(n), n.pc \notin Recovering \cup Repairing
    PROVE  /\ n.held = {} /\ n.taken = {}
           /\ \A o : HoldsJob(n, o) <=> n.order = o /\ n.pc \in {"claim", "mark"}
  BY DEF RowSets, HoldsJob

LEMMA Proceeds ==
    ASSUME TInv, NEW c \in Callers, NEW n \in CallRow,
           call' = [call EXCEPT ![c] = n], UNCHANGED vars, Facts(n, event),
           \A o \in Orders : /\ OrderFacts(n, o, order[o])
                             /\ JobFacts(n, o, attempt[o]),
           \A d \in Callers \ {c} : Apart(n, call[d])
    PROVE  TInv'
<1>1. clock' \in Nat /\ UNCHANGED <<order, attempt, event, ledger>>
  BY Tables DEF vars
<1>2. QED BY <1>1, StatementStep

LEMMA OrderInserted ==
    ASSUME TInv, NEW c \in Callers, InsertOrder(c)
    PROVE  TInv'
<1>1. call[c].pc = "insert_order" /\ call[c].pc \in Creating
      /\ UNCHANGED vars
      /\ \A d \in Callers : ~Inserts(call[d], call[c].order)
  BY DEF InsertOrder, Creating
<1>2. CASE Exists(call[c].order)
  BY <1>1, <1>2, RollbackStep DEF InsertOrder
<1>3. CASE ~Exists(call[c].order)
  <2>1. /\ call \in [Callers -> CallRow]
        /\ call[c].order \in Orders /\ call[c].amount \in Amounts
        /\ call[c] \in CallRow /\ RowSets(call[c])
        /\ call[c].todo = {} /\ call[c].done = {}
        /\ call[c].job = NoAttempt /\ call[c].booked = NoEntries
    BY <1>1, OpenCall DEF CreateFacts
  <2>2. PICK row : row = NewRow(call[c].amount)
    OBVIOUS
  <2>3. row \in OrderRow
    BY <2>1, <2>2, NewRows
  <2>4. PICK n : n = [call[c] EXCEPT !.pc = "read", !.row = row]
    OBVIOUS
  <2>5. call[c].held = {} /\ call[c].taken = {}
    BY <1>1, <2>1, SingleRow DEF Recovering, Repairing
  <2>6. /\ n \in CallRow /\ n.pc = "read" /\ n.row = row
        /\ n.order = call[c].order /\ n.amount = call[c].amount
        /\ n.todo = {} /\ n.done = {} /\ n.job = NoAttempt
        /\ n.booked = NoEntries /\ n.held = {} /\ n.taken = {}
    BY <2>1, <2>3, <2>4, <2>5 DEF CallRow, Creating
  <2>7. call' = [call EXCEPT ![c] = n]
    BY <1>1, <1>3, <2>1, <2>2, <2>4 DEF InsertOrder, NewRow
  <2>8. Loop(n, event)
    BY <2>2, <2>6 DEF Loop, Untouched
  <2>9. \A o : /\ ~HoldsOrder(n, o) /\ ~HoldsJob(n, o)
               /\ Inserts(n, o) <=> o = call[c].order
    BY <2>6 DEF HoldsOrder, HoldsJob, Inserts
  <2>10. Facts(n, event)
    BY <2>1, <2>6, <2>8 DEF Facts, CreateFacts, PayFacts, InputFacts,
       RowSets, Creating, Paying, Claiming, Retrying, Reporting, Recovering,
       LocksEvent
  <2>11. \A o \in Orders : /\ OrderFacts(n, o, order[o])
                           /\ JobFacts(n, o, attempt[o])
    BY <1>3, <2>6, <2>9 DEF OrderFacts, JobFacts, Exists
  <2>12. \A d \in Callers \ {c} : Apart(n, call[d])
    BY <1>1, <2>6, <2>9 DEF Apart, LocksEvent
  <2>13. QED BY <1>1, <2>6, <2>7, <2>10, <2>11, <2>12, Proceeds
<1>4. QED BY <1>2, <1>3

(* One step of a creation after another.                                   *)
LEMMA CreationGoesOn ==
    ASSUME TInv, NEW c \in Callers, NEW n \in CallRow, Inserting(call[c]),
           call' = [call EXCEPT ![c] = n], UNCHANGED vars, n.pc = "apply",
           n.order = call[c].order, n.amount = call[c].amount,
           n.held = call[c].held, n.taken = call[c].taken, Loop(n, event)
    PROVE  TInv'
<1>1. /\ call[c].order \in Orders /\ call[c].amount \in Amounts
      /\ order[call[c].order].status = "absent"
  BY CreationFacts DEF NoOrder
<1>2. n.held = {} /\ n.taken = {}
  BY OpenCall, SingleRow DEF Inserting, Recovering, Repairing
<1>3. \A o : /\ ~HoldsOrder(n, o) /\ ~HoldsJob(n, o)
             /\ Inserts(n, o) <=> o = call[c].order
  BY <1>2 DEF HoldsOrder, HoldsJob, Inserts
<1>4. Facts(n, event)
  BY <1>1, <1>2 DEF Facts, CreateFacts, PayFacts, InputFacts, RowSets,
     Creating, Paying, Claiming, Retrying, Reporting, Recovering, LocksEvent
<1>5. \A o \in Orders : OrderFacts(n, o, order[o]) /\ JobFacts(n, o, attempt[o])
  BY <1>1, <1>3 DEF OrderFacts, JobFacts
<1>6. \A d \in Callers \ {c} : Apart(n, call[d])
  <2>1. \A d \in Callers \ {c} : ~Inserts(call[d], call[c].order)
    BY NobodyElse
  <2>2. QED BY <1>2, <1>3, <2>1 DEF Apart, LocksEvent
<1>7. QED BY <1>4, <1>5, <1>6, Proceeds

LEMMA PendingRead ==
    ASSUME TInv, NEW c \in Callers, ReadPending(c)
    PROVE  TInv'
<1>1. /\ call[c].pc = "read" /\ Inserting(call[c])
      /\ UNCHANGED vars /\ call \in [Callers -> CallRow]
  BY DEF ReadPending, Inserting, TInv, CallsInv
<1>2. /\ call[c].order \in Orders /\ call[c] \in CallRow
      /\ Loop(call[c], event) /\ call[c].done = {}
  BY <1>1, CreationFacts, OpenCall DEF CreateFacts
<1>3. PICK todo : todo = Pending(call[c].order)
  OBVIOUS
<1>4. PICK n : n = [call[c] EXCEPT !.pc = "apply", !.todo = todo]
  OBVIOUS
<1>5. /\ n \in CallRow /\ n.pc = "apply" /\ n.order = call[c].order
      /\ n.amount = call[c].amount /\ n.todo = todo /\ n.done = {}
      /\ n.row = call[c].row /\ n.job = call[c].job
      /\ n.booked = call[c].booked
      /\ n.held = call[c].held /\ n.taken = call[c].taken
  BY <1>2, <1>3, <1>4 DEF CallRow, Creating, Pending
<1>6. call' = [call EXCEPT ![c] = n]
  BY <1>1, <1>3, <1>4 DEF ReadPending
<1>7. \A e \in todo : /\ event[e].status \in Kinds
                      /\ event[e].order = call[c].order
                      /\ ~event[e].processed
  BY <1>2, <1>3, Tables DEF Pending, Recorded, EventRow
<1>8. Untouched(n, event)
  BY <1>2, <1>5 DEF Loop, Untouched, Decided
<1>9. Loop(n, event)
  BY <1>5, <1>7, <1>8 DEF Loop
<1>10. QED BY <1>1, <1>5, <1>6, <1>9, CreationGoesOn

LEMMA EventsGoneThrough ==
    ASSUME TInv, NEW c \in Callers, ApplyNext(c)
    PROVE  TInv'
<1>1. /\ call[c].pc = "apply" /\ Inserting(call[c])
      /\ UNCHANGED vars /\ call \in [Callers -> CallRow]
  BY DEF ApplyNext, Inserting, TInv, CallsInv
<1>2. /\ call[c].order \in Orders /\ call[c].amount \in Amounts
      /\ call[c] \in CallRow /\ Loop(call[c], event)
      /\ event \in [Events -> EventRow]
  BY <1>1, CreationFacts, Tables
<1>3. PICK e \in call[c].todo :
         /\ \A f \in call[c].todo : event[e].at <= event[f].at
         /\ ApplyEvent(c, e)
  BY DEF ApplyNext
<1>4. e \in Events /\ event[e].status \in Kinds
  BY <1>2, <1>3 DEF CallRow, Loop
<1>5. PICK j : j = call[c]
  OBVIOUS
<1>6. PICK m : m = Applied(j, event[e].status, event[e].amount)
  OBVIOUS
<1>7. /\ m \in CallRow /\ m.pc = "apply"
      /\ m.order = j.order /\ m.amount = j.amount
      /\ m.todo = j.todo /\ m.done = j.done
      /\ m.held = j.held /\ m.taken = j.taken
      /\ IF event[e].amount # j.row.amount
         THEN m.row = j.row /\ m.job = j.job /\ m.booked = j.booked
         ELSE /\ m.row = OrderAfter(j.row, event[e].status)
              /\ m.job = AttemptAfter(j.row, j.job, event[e].status)
              /\ m.booked = LedgerAfter(j.row, j.booked, event[e].status)
  <2>1. CASE event[e].amount # j.row.amount
    BY <1>1, <1>2, <1>5, <1>6, <2>1 DEF Applied
  <2>2. CASE event[e].amount = j.row.amount
    <3>1. PICK r, a, l : /\ r = OrderAfter(j.row, event[e].status)
                         /\ a = AttemptAfter(j.row, j.job, event[e].status)
                         /\ l = LedgerAfter(j.row, j.booked, event[e].status)
      OBVIOUS
    <3>2. j.row \in OrderRow /\ j.job \in AttemptRow /\ j.booked \in LedgerRow
      BY <1>2, <1>5 DEF CallRow
    <3>3. r \in OrderRow /\ a \in AttemptRow /\ l \in LedgerRow
      BY <1>4, <3>1, <3>2, PaymentRows
    <3>4. m = [j EXCEPT !.row = r, !.job = a, !.booked = l]
      BY <1>2, <1>5, <1>6, <2>2, <3>1 DEF Applied, CallRow
    <3>5. /\ m \in CallRow /\ m.pc = "apply"
          /\ m.order = j.order /\ m.amount = j.amount
          /\ m.todo = j.todo /\ m.done = j.done
          /\ m.row = r /\ m.job = a /\ m.booked = l
          /\ m.held = j.held /\ m.taken = j.taken
      BY <1>1, <1>2, <1>5, <3>3, <3>4 DEF CallRow
    <3>6. QED BY <2>2, <3>1, <3>5
  <2>3. QED BY <2>1, <2>2
<1>8. PICK n : n = [m EXCEPT !.todo = @ \ {e}, !.done = @ \cup {e}]
  OBVIOUS
<1>9. /\ n \in CallRow /\ n.pc = "apply"
      /\ n.order = j.order /\ n.amount = j.amount
      /\ n.todo = j.todo \ {e} /\ n.done = j.done \cup {e}
      /\ n.row = m.row /\ n.job = m.job /\ n.booked = m.booked
      /\ n.held = j.held /\ n.taken = j.taken
  BY <1>4, <1>7, <1>8 DEF CallRow
<1>10. call' = [call EXCEPT ![c] = n]
  <2>1. call' = [call EXCEPT ![c] = [m EXCEPT !.todo = @ \ {e},
                                             !.done = @ \cup {e}]]
    BY <1>3, <1>5, <1>6 DEF ApplyEvent
  <2>2. QED BY <1>8, <2>1
<1>11. Loop(n, event)
  <2>1. n.row = m.row /\ n.job = m.job /\ n.booked = m.booked
    BY <1>9
  <2>2. IF event[e].amount # j.row.amount
        THEN n.row = j.row /\ n.job = j.job /\ n.booked = j.booked
        ELSE /\ n.row = OrderAfter(j.row, event[e].status)
             /\ n.job = AttemptAfter(j.row, j.job, event[e].status)
             /\ n.booked = LedgerAfter(j.row, j.booked, event[e].status)
    BY <1>7, <2>1
  <2>3. QED BY <1>2, <1>3, <1>4, <1>5, <1>9, <2>2, LoopNext
<1>12. QED BY <1>1, <1>5, <1>9, <1>10, <1>11, CreationGoesOn

(* A call that moves on from a statement to the next with nothing read.    *)
LEMMA MovedOn ==
    ASSUME TInv, NEW c \in Callers,
           call[c].pc \notin Recovering \cup Repairing,
           NEW pc \in {"lock", "claim", "mark", "retry_job", "retry_insert"}
    PROVE  LET n == [call[c] EXCEPT !.pc = pc]
           IN /\ n \in CallRow /\ n.pc = pc /\ n.order = call[c].order
              /\ n.event = call[c].event /\ n.kind = call[c].kind
              /\ n.amount = call[c].amount /\ n.row = call[c].row
              /\ n.held = {} /\ n.taken = {}
              /\ [call EXCEPT ![c].pc = pc] = [call EXCEPT ![c] = n]
<1>1. call[c] \in CallRow /\ call \in [Callers -> CallRow]
      /\ call[c].held = {} /\ call[c].taken = {}
  BY OpenCall, SingleRow
<1>2. PICK n : n = [call[c] EXCEPT !.pc = pc]
  OBVIOUS
<1>3. /\ n \in CallRow /\ n.pc = pc /\ n.order = call[c].order
      /\ n.event = call[c].event /\ n.kind = call[c].kind
      /\ n.amount = call[c].amount /\ n.row = call[c].row
      /\ n.held = {} /\ n.taken = {}
  BY <1>1, <1>2 DEF CallRow, Creating, Paying, Retrying, Claiming,
                    Reporting, Recovering, Repairing
<1>4. [call EXCEPT ![c].pc = pc] = [call EXCEPT ![c] = n]
  BY <1>1, <1>2
<1>5. QED BY <1>2, <1>3, <1>4

LEMMA EventInserted ==
    ASSUME TInv, NEW c \in Callers, InsertEvent(c)
    PROVE  TInv'
<1>1. /\ call[c].pc = "insert_event" /\ call[c].pc \in Paying
      /\ UNCHANGED vars
      /\ \A d \in Callers : ~HoldsEvent(call[d], call[c].event)
  BY DEF InsertEvent, Paying
<1>2. CASE Recorded(call[c].event)
  BY <1>1, <1>2, RollbackStep DEF InsertEvent
<1>3. CASE ~Recorded(call[c].event)
  <2>1. /\ call[c].order \in Orders /\ call[c].event \in Events
        /\ call[c].kind \in Kinds /\ call[c].amount \in Amounts
    BY <1>1, OpenCall DEF PayFacts
  <2>2. PICK n : n = [call[c] EXCEPT !.pc = "lock"]
    OBVIOUS
  <2>3. /\ n \in CallRow /\ n.pc = "lock" /\ n.order = call[c].order
        /\ n.event = call[c].event /\ n.kind = call[c].kind
        /\ n.amount = call[c].amount /\ n.held = {} /\ n.taken = {}
        /\ call' = [call EXCEPT ![c] = n]
    BY <1>1, <1>3, <2>2, MovedOn DEF InsertEvent, Recovering, Repairing
  <2>4. Facts(n, event)
    BY <1>3, <2>1, <2>3 DEF Facts, CreateFacts, PayFacts, InputFacts,
       RowSets, Creating, Paying, Claiming, Retrying, Reporting, Recovering,
       Inserting, Recorded
  <2>5. \A o : /\ ~HoldsOrder(n, o) /\ ~HoldsJob(n, o) /\ ~Inserts(n, o)
    BY <2>3 DEF HoldsOrder, HoldsJob, Inserts
  <2>6. \A o \in Orders : /\ OrderFacts(n, o, order[o])
                          /\ JobFacts(n, o, attempt[o])
    BY <2>3, <2>5 DEF OrderFacts, JobFacts
  <2>7. \A d \in Callers \ {c} :
           LocksEvent(call[d]) => call[d].event # n.event
    BY <1>1, <2>3 DEF HoldsEvent, LocksEvent
  <2>8. \A d \in Callers \ {c} : Apart(n, call[d])
    BY <2>3, <2>5, <2>7 DEF Apart
  <2>9. QED BY <1>1, <2>3, <2>4, <2>6, <2>8, Proceeds
<1>4. QED BY <1>2, <1>3

LEMMA OrderLocked ==
    ASSUME TInv, NEW c \in Callers, LockOrder(c)
    PROVE  TInv'
<1>1. /\ call[c].pc = "lock" /\ call[c].pc \in Paying /\ UNCHANGED vars
      /\ OrderUntouched(c, call[c].order) /\ LocksEvent(call[c])
  BY DEF LockOrder, Paying, LocksEvent
<1>2. /\ call \in [Callers -> CallRow] /\ call[c] \in CallRow
      /\ PayFacts(call[c], event) /\ RowSets(call[c])
      /\ \A d \in Callers \ {c} : Apart(call[c], call[d])
  BY OpenCall
<1>3. /\ call[c].order \in Orders /\ call[c].event \in Events
      /\ call[c].kind \in Kinds /\ call[c].amount \in Amounts
      /\ event[call[c].event].status = "none"
  BY <1>1, <1>2 DEF PayFacts
<1>4. PICK row : row = order[call[c].order]
  OBVIOUS
<1>5. row \in OrderRow
  BY <1>3, <1>4, Tables
<1>6. call[c].held = {} /\ call[c].taken = {}
  BY <1>1, <1>2, SingleRow DEF Recovering, Repairing
<1>7. PICK n : n = [call[c] EXCEPT !.pc = "commit", !.row = row]
  OBVIOUS
<1>8. /\ n \in CallRow /\ n.pc = "commit" /\ n.order = call[c].order
      /\ n.event = call[c].event /\ n.kind = call[c].kind
      /\ n.amount = call[c].amount /\ n.row = row
      /\ n.held = {} /\ n.taken = {}
  BY <1>2, <1>5, <1>6, <1>7 DEF CallRow, Paying
<1>9. call' = [call EXCEPT ![c] = n]
  BY <1>2, <1>4, <1>7 DEF LockOrder
<1>10. Facts(n, event)
  BY <1>3, <1>8 DEF Facts, CreateFacts, PayFacts, InputFacts, RowSets,
     Creating, Paying, Claiming, Retrying, Reporting, Recovering, Inserting,
     LocksEvent
<1>11. \A o : /\ ~HoldsJob(n, o) /\ ~Inserts(n, o)
              /\ HoldsOrder(n, o) => o = call[c].order
  BY <1>8 DEF HoldsOrder, HoldsJob, Inserts
<1>12. \A o \in Orders : OrderFacts(n, o, order[o]) /\ JobFacts(n, o, attempt[o])
  BY <1>4, <1>8, <1>11 DEF OrderFacts, JobFacts
<1>13. \A d \in Callers \ {c} : Apart(n, call[d])
  BY <1>1, <1>2, <1>8, <1>11 DEF Apart, OrderUntouched, OrderFree, LocksEvent
<1>14. QED BY <1>1, <1>8, <1>9, <1>10, <1>12, <1>13, Proceeds

(* The lock on the job of a worker.                                        *)
LEMMA JobLocked ==
    ASSUME TInv, NEW c \in Callers, UNCHANGED vars,
           call[c].pc \in {"claim_lock", "mark_job"},
           NEW pc \in {"claim", "mark"}, call' = [call EXCEPT ![c].pc = pc],
           JobFree(c, call[c].order),
           pc = "claim" =>
               /\ attempt[call[c].order].status \in {"pending"} \cup Idle
               /\ attempt[call[c].order].next # "later",
           pc = "mark" => /\ call[c].kind \in Results
                          /\ attempt[call[c].order].status = "processing"
    PROVE  TInv'
<1>1. call[c].order \in Orders
  BY OpenCall DEF InputFacts, Claiming, Reporting
<1>2. PICK n : n = [call[c] EXCEPT !.pc = pc]
  OBVIOUS
<1>3. /\ n \in CallRow /\ n.pc = pc /\ n.order = call[c].order
      /\ n.kind = call[c].kind /\ n.held = {} /\ n.taken = {}
      /\ call' = [call EXCEPT ![c] = n]
  <2>1. /\ pc \in {"lock", "claim", "mark", "retry_job", "retry_insert"}
        /\ call[c].pc \notin Recovering \cup Repairing
    BY DEF Recovering, Repairing
  <2>2. [call EXCEPT ![c].pc = pc] = [call EXCEPT ![c] = n]
    BY <1>2, <2>1, MovedOn
  <2>3. QED BY <1>2, <2>1, <2>2, MovedOn
<1>4. Facts(n, event)
  BY <1>1, <1>3 DEF Facts, CreateFacts, PayFacts, InputFacts, RowSets,
     Creating, Paying, Claiming, Retrying, Reporting, Recovering, Inserting,
     LocksEvent
<1>5. \A o : /\ ~HoldsOrder(n, o) /\ ~Inserts(n, o)
             /\ HoldsJob(n, o) <=> o = call[c].order
  BY <1>3 DEF HoldsOrder, HoldsJob, Inserts
<1>6. \A o \in Orders : OrderFacts(n, o, order[o]) /\ JobFacts(n, o, attempt[o])
  BY <1>3, <1>5 DEF OrderFacts, JobFacts
<1>7. \A d \in Callers \ {c} : Apart(n, call[d])
  BY <1>3, <1>5 DEF Apart, JobFree, LocksEvent
<1>8. QED BY <1>3, <1>4, <1>6, <1>7, Proceeds

LEMMA ClaimLocked ==
    ASSUME TInv, NEW c \in Callers, LockClaimed(c)
    PROVE  TInv'
<1>1. call[c].pc = "claim_lock" /\ UNCHANGED vars
  BY DEF LockClaimed
<1>2. CASE JobFree(c, call[c].order) /\ Due(call[c].order)
  <2>1. /\ attempt[call[c].order].status \in {"pending"} \cup Idle
        /\ attempt[call[c].order].next # "later"
        /\ call' = [call EXCEPT ![c].pc = "claim"]
    BY <1>2 DEF LockClaimed, Due
  <2>2. QED BY <1>1, <1>2, <2>1, JobLocked
<1>3. CASE ~(JobFree(c, call[c].order) /\ Due(call[c].order))
  BY <1>1, <1>3, RollbackStep DEF LockClaimed
<1>4. QED BY <1>2, <1>3

LEMMA ReportLocked ==
    ASSUME TInv, NEW c \in Callers, LockReported(c)
    PROVE  TInv'
<1>1. /\ call[c].pc = "mark_job" /\ UNCHANGED vars
      /\ JobFree(c, call[c].order)
  BY DEF LockReported
<1>2. CASE attempt[call[c].order].status = "processing"
  <2>1. call[c].kind \in Results
    BY <1>1, OpenCall DEF InputFacts, Reporting
  <2>2. call' = [call EXCEPT ![c].pc = "mark"]
    BY <1>2 DEF LockReported
  <2>3. QED BY <1>1, <1>2, <2>1, <2>2, JobLocked
<1>3. CASE attempt[call[c].order].status # "processing"
  BY <1>1, <1>3, RollbackStep DEF LockReported
<1>4. QED BY <1>2, <1>3

(* A row more of a recovery or a repair: it has a job nobody else has, or  *)
(* an order nobody has locked FOR UPDATE, or passes over one it no longer  *)
(* wants.                                                                  *)
LEMMA RowTaken ==
    ASSUME TInv, NEW c \in Callers, UNCHANGED vars, NEW n \in CallRow,
           call' = [call EXCEPT ![c] = n],
           n.pc = call[c].pc, n.pc \in {"recover", "repair"},
           n.seen = call[c].seen, n.taken \subseteq n.held,
           n.left \cup n.held \subseteq call[c].left \cup call[c].held,
           \A o \in n.held \ call[c].held :
               /\ JobFree(c, o)
               /\ n.pc = "recover" => /\ attempt[o].status = "processing"
                                      /\ attempt[o].lease = "expired"
               /\ n.pc = "repair" => attempt[o].status = "none",
           \A o \in n.taken \ call[c].taken : OrderFree(c, o)
    PROVE  TInv'
<1>1. /\ call[c] \in CallRow /\ RowSets(call[c])
      /\ \A o \in Orders : /\ OrderFacts(call[c], o, order[o])
                           /\ JobFacts(call[c], o, attempt[o])
      /\ \A d \in Callers \ {c} : Apart(call[c], call[d])
  BY OpenCall
<1>2. Facts(n, event)
  <2>1. CreateFacts(n, event) /\ PayFacts(n, event) /\ InputFacts(n)
    BY DEF CreateFacts, PayFacts, InputFacts, Creating, Paying,
       Claiming, Retrying, Reporting, Inserting, LocksEvent
  <2>2. RowSets(n)
    BY <1>1 DEF RowSets, Recovering, Repairing
  <2>3. QED BY <2>1, <2>2 DEF Facts
<1>3. \A o : /\ ~HoldsOrder(n, o) /\ ~Inserts(n, o)
             /\ HoldsJob(n, o) <=> o \in n.held
             /\ HoldsJob(call[c], o) <=> o \in call[c].held
  BY DEF HoldsOrder, HoldsJob, Inserts
<1>4. ASSUME NEW o \in Orders
      PROVE  OrderFacts(n, o, order[o]) /\ JobFacts(n, o, attempt[o])
  <2>1. OrderFacts(n, o, order[o])
    BY <1>1, <1>3 DEF OrderFacts
  <2>2. JobFacts(n, o, attempt[o])
    BY <1>1, <1>3 DEF JobFacts
  <2>3. QED BY <2>1, <2>2
<1>5. ASSUME NEW d \in Callers \ {c}
      PROVE  Apart(n, call[d])
  <2>1. Apart(call[c], call[d])
    BY <1>1
  <2>2. ~LocksEvent(n)
    BY DEF LocksEvent
  <2>3. \A o \in Orders : ~(HoldsJob(n, o) /\ HoldsJob(call[d], o))
    BY <1>3, <2>1 DEF Apart, JobFree
  <2>4. \A o \in Orders : ~(HoldsOrder(call[d], o) /\ o \in n.taken)
    BY <2>1 DEF Apart, OrderFree
  <2>5. QED BY <1>3, <2>2, <2>3, <2>4 DEF Apart
<1>6. QED BY <1>2, <1>4, <1>5, Proceeds

LEMMA StaleLocked ==
    ASSUME TInv, NEW c \in Callers, NEW o \in Orders, LockStale(c, o)
    PROVE  TInv'
<1>1. /\ call[c].pc = "recover" /\ o \in call[c].left /\ JobFree(c, o)
      /\ UNCHANGED vars
  BY DEF LockStale
<1>2. call[c] \in CallRow /\ RowSets(call[c])
  BY OpenCall
<1>3. PICK n : n = [call[c] EXCEPT !.left = @ \ {o},
                                   !.held = IF o \in Stale THEN @ \cup {o}
                                                          ELSE @]
  OBVIOUS
<1>4. /\ n \in CallRow /\ n.pc = "recover" /\ n.seen = call[c].seen
      /\ n.left = call[c].left \ {o} /\ n.taken = call[c].taken
      /\ n.held = IF o \in Stale THEN call[c].held \cup {o} ELSE call[c].held
  BY <1>1, <1>2, <1>3 DEF CallRow
<1>5. call' = [call EXCEPT ![c] = n]
  BY <1>3 DEF LockStale
<1>6. \A q \in n.held \ call[c].held : /\ JobFree(c, q)
                                       /\ attempt[q].status = "processing"
                                       /\ attempt[q].lease = "expired"
  BY <1>1, <1>4 DEF Stale
<1>7. /\ n.left \cup n.held \subseteq call[c].left \cup call[c].held
      /\ n.taken \subseteq n.held /\ n.taken \ call[c].taken = {}
  BY <1>1, <1>2, <1>4 DEF RowSets
<1>8. QED BY <1>1, <1>4, <1>5, <1>6, <1>7, RowTaken

LEMMA MissingInserted ==
    ASSUME TInv, NEW c \in Callers, NEW o \in Orders, InsertMissing(c, o)
    PROVE  TInv'
<1>1. /\ call[c].pc = "repair" /\ o \in call[c].left /\ UNCHANGED vars
      /\ attempt[o].status = "none" => JobFree(c, o)
  BY DEF InsertMissing
<1>2. call[c] \in CallRow /\ RowSets(call[c])
  BY OpenCall
<1>3. PICK n : n = IF attempt[o].status = "none"
                   THEN [call[c] EXCEPT !.left = @ \ {o},
                                        !.held = @ \cup {o}]
                   ELSE [call[c] EXCEPT !.left = @ \ {o}]
  OBVIOUS
<1>4. /\ n \in CallRow /\ n.pc = "repair" /\ n.seen = call[c].seen
      /\ n.left = call[c].left \ {o} /\ n.taken = call[c].taken
      /\ n.held = IF attempt[o].status = "none" THEN call[c].held \cup {o}
                                                ELSE call[c].held
  BY <1>1, <1>2, <1>3 DEF CallRow
<1>5. call' = [call EXCEPT ![c] = n]
  BY <1>3 DEF InsertMissing
<1>6. \A q \in n.held \ call[c].held : /\ JobFree(c, q)
                                       /\ attempt[q].status = "none"
  BY <1>1, <1>4
<1>7. /\ n.left \cup n.held \subseteq call[c].left \cup call[c].held
      /\ n.taken \subseteq n.held /\ n.taken \ call[c].taken = {}
  BY <1>1, <1>2, <1>4 DEF RowSets
<1>8. QED BY <1>1, <1>4, <1>5, <1>6, <1>7, RowTaken

LEMMA OrderTaken ==
    ASSUME TInv, NEW c \in Callers, NEW o \in Orders,
           RecoverOrder(c, o) \/ ShareOrder(c, o)
    PROVE  TInv'
<1>1. /\ call[c].pc \in {"recover", "repair"} /\ o \in call[c].held
      /\ OrderFree(c, o) /\ UNCHANGED vars
  BY DEF RecoverOrder, ShareOrder
<1>2. call[c] \in CallRow /\ RowSets(call[c])
  BY OpenCall
<1>3. PICK n : n = [call[c] EXCEPT !.taken = @ \cup {o}]
  OBVIOUS
<1>4. /\ n \in CallRow /\ n.pc = call[c].pc /\ n.seen = call[c].seen
      /\ n.left = call[c].left /\ n.held = call[c].held
      /\ n.taken = call[c].taken \cup {o}
  BY <1>2, <1>3 DEF CallRow
<1>5. call' = [call EXCEPT ![c] = n]
  BY <1>3 DEF RecoverOrder, ShareOrder
<1>6. /\ n.left \cup n.held \subseteq call[c].left \cup call[c].held
      /\ n.held \ call[c].held = {} /\ n.taken \subseteq n.held
  BY <1>1, <1>2, <1>4 DEF RowSets
<1>7. \A q \in n.taken \ call[c].taken : OrderFree(c, q)
  BY <1>1, <1>4
<1>8. QED BY <1>1, <1>4, <1>5, <1>6, <1>7, RowTaken

(* A retry, from the lock on the order to the insert.                      *)
LEMMA RetryGoesOn ==
    ASSUME TInv, NEW c \in Callers, UNCHANGED vars,
           call[c].pc \in {"retry_order", "retry_job"},
           NEW pc \in {"retry_job", "retry_insert"},
           call' = [call EXCEPT ![c].pc = pc],
           order[call[c].order].paid,
           order[call[c].order].status \notin
             {"absent", "created", "payment_failed", "delivered"},
           pc = "retry_insert" => attempt[call[c].order].status = "none",
           OrderUntouched(c, call[c].order)
    PROVE  TInv'
<1>1. call[c].order \in Orders
  BY OpenCall DEF InputFacts, Retrying
<1>2. PICK n : n = [call[c] EXCEPT !.pc = pc]
  OBVIOUS
<1>3. /\ n \in CallRow /\ n.pc = pc /\ n.order = call[c].order
      /\ n.held = {} /\ n.taken = {} /\ call' = [call EXCEPT ![c] = n]
  <2>1. /\ pc \in {"lock", "claim", "mark", "retry_job", "retry_insert"}
        /\ call[c].pc \notin Recovering \cup Repairing
    BY DEF Recovering, Repairing
  <2>2. [call EXCEPT ![c].pc = pc] = [call EXCEPT ![c] = n]
    BY <1>2, <2>1, MovedOn
  <2>3. QED BY <1>2, <2>1, <2>2, MovedOn
<1>4. Facts(n, event)
  BY <1>1, <1>3 DEF Facts, CreateFacts, PayFacts, InputFacts, RowSets,
     Creating, Paying, Claiming, Retrying, Reporting, Recovering, Inserting,
     LocksEvent
<1>5. \A o : /\ ~HoldsJob(n, o) /\ ~Inserts(n, o)
             /\ HoldsOrder(n, o) <=> o = call[c].order
  BY <1>3 DEF HoldsOrder, HoldsJob, Inserts
<1>6. \A o \in Orders : OrderFacts(n, o, order[o]) /\ JobFacts(n, o, attempt[o])
  BY <1>3, <1>5 DEF OrderFacts, JobFacts
<1>7. \A d \in Callers \ {c} : Apart(n, call[d])
  BY <1>3, <1>5 DEF Apart, OrderUntouched, OrderFree, LocksEvent
<1>8. QED BY <1>3, <1>4, <1>6, <1>7, Proceeds

LEMMA RetriedLocked ==
    ASSUME TInv, NEW c \in Callers, LockRetried(c)
    PROVE  TInv'
<1> DEFINE row == order[call[c].order]
<1>1. /\ call[c].pc = "retry_order" /\ OrderUntouched(c, call[c].order)
      /\ UNCHANGED vars
  BY DEF LockRetried
<1>2. CASE /\ row.paid
           /\ row.status \notin {"absent", "created", "payment_failed",
                                 "delivered"}
  <2>1. call' = [call EXCEPT ![c].pc = "retry_job"]
    BY <1>2 DEF LockRetried
  <2>2. QED BY <1>1, <1>2, <2>1, RetryGoesOn
<1>3. CASE ~(/\ row.paid
             /\ row.status \notin {"absent", "created", "payment_failed",
                                   "delivered"})
  <2>1. End(c)
    BY <1>3 DEF LockRetried
  <2>2. QED BY <1>1, <2>1, RollbackStep
<1>4. QED BY <1>2, <1>3

LEMMA RetriedMissed ==
    ASSUME TInv, NEW c \in Callers, MissRetried(c)
    PROVE  TInv'
<1>1. /\ call[c].pc = "retry_job" /\ UNCHANGED vars
      /\ attempt[call[c].order].status = "none"
      /\ call' = [call EXCEPT ![c].pc = "retry_insert"]
  BY DEF MissRetried
<1>2. /\ call[c].order \in Orders /\ HoldsOrder(call[c], call[c].order)
      /\ order[call[c].order].paid
      /\ order[call[c].order].status \notin
           {"absent", "created", "payment_failed", "delivered"}
  BY <1>1, RetryLocks
<1>3. OrderUntouched(c, call[c].order)
  BY <1>2, OpenCall DEF Apart, OrderUntouched, OrderFree
<1>4. QED BY <1>1, <1>2, <1>3, RetryGoesOn

-----------------------------------------------------------------------------
(* Time passes, or a row is lost that nobody works on.                     *)
LEMMA TimePasses ==
    ASSUME TInv, Environment
    PROVE  TInv'
<1>1. /\ call \in [Callers -> CallRow] /\ call' = call
      /\ attempt \in [Orders -> AttemptRow]
      /\ \A c, d \in Callers : c # d => Apart(call[c], call[d])
      /\ \A c \in Callers : Facts(call[c], event)
  BY Tables DEF Environment, TInv, CallsInv
<1>2. PICK o \in Orders :
         \/ NextAttemptDue(o)
         \/ LeaseExpires(o)
         \/ /\ LoseAttempt(o)
            /\ \A c \in Callers : /\ call[c].order # o
                                  /\ o \notin call[c].left \cup call[c].held
  BY DEF Environment
<1>3. UNCHANGED <<order, event>> /\ [Next]_vars
  BY <1>2 DEF NextAttemptDue, LeaseExpires, LoseAttempt, Next
<1>4. TablesInv'
  <2>1. \A q \in Orders :
           attempt'[q].status = "none" => attempt'[q] \in {attempt[q], NoAttempt}
    <3>0. attempt[o].status = "none" => /\ attempt[o].next = "null"
                                        /\ attempt[o].lease = "null"
      BY DEF TInv, TablesInv, Blank, NoAttempt
    <3>1. CASE NextAttemptDue(o)
      BY <1>1, <3>0, <3>1 DEF NextAttemptDue, AttemptRow
    <3>2. CASE LeaseExpires(o)
      BY <1>1, <3>0, <3>2 DEF LeaseExpires, AttemptRow
    <3>3. CASE LoseAttempt(o)
      BY <1>1, <3>3 DEF LoseAttempt
    <3>4. QED BY <1>2, <3>1, <3>2, <3>3
  <2>2. QED BY <1>3, <2>1, TableStep
<1>5. ASSUME NEW c \in Callers, NEW q \in Orders
      PROVE  /\ OrderFacts(call[c], q, order'[q])
             /\ JobFacts(call[c], q, attempt'[q])
  <2>1. /\ OrderFacts(call[c], q, order[q]) /\ JobFacts(call[c], q, attempt[q])
        /\ call[c] \in CallRow /\ order'[q] = order[q]
    BY <1>3, OpenCall
  <2>2. CASE q = o /\ LoseAttempt(o)
    <3>1. \/ call[c].order # o /\ o \notin call[c].held
          \/ Steady(attempt[o], attempt'[o])
      <4>1. CASE NextAttemptDue(o) \/ LeaseExpires(o)
        BY <1>1, <4>1 DEF Steady, NextAttemptDue, LeaseExpires, AttemptRow
      <4>2. QED BY <1>2, <4>1
    <3>2. call[c].order # o /\ o \notin call[c].held
             => ~HoldsOrder(call[c], o) /\ ~HoldsJob(call[c], o)
      BY DEF HoldsOrder, HoldsJob
    <3>3. Undisturbed(call[c], q, order[q], attempt[q], order'[q], attempt'[q])
      BY <2>1, <2>2, <3>1, <3>2 DEF Undisturbed, OrderFacts
    <3>4. QED BY <2>1, <3>3, RowFactsKept
  <2>3. CASE q = o /\ ~LoseAttempt(o)
    <3>1. Steady(attempt[o], attempt'[o])
      BY <1>1, <1>2, <2>3 DEF Steady, NextAttemptDue, LeaseExpires, AttemptRow
    <3>2. Undisturbed(call[c], q, order[q], attempt[q], order'[q], attempt'[q])
      BY <2>1, <2>3, <3>1 DEF Undisturbed, OrderFacts
    <3>3. QED BY <2>1, <3>2, RowFactsKept
  <2>4. CASE q # o
    <3>1. attempt'[q] = attempt[q]
      BY <1>1, <1>2, <2>4 DEF NextAttemptDue, LeaseExpires, LoseAttempt
    <3>2. QED BY <2>1, <3>1
  <2>5. QED BY <2>2, <2>3, <2>4
<1>6. QED BY <1>1, <1>3, <1>4, <1>5 DEF TInv, CallsInv

-----------------------------------------------------------------------------
LEMMA TransactionsInit == TInit => TInv
<1> SUFFICES ASSUME TInit PROVE TInv
  OBVIOUS
<1>1. Init /\ call = [c \in Callers |-> NoCall]
  BY DEF TInit
<1>2. IInv
  BY <1>1, TypeInit, RowsInit DEF IInv
<1>3. TablesInv
  BY <1>1, <1>2 DEF TablesInv, Blank, Init
<1>4. CallsInv
  BY <1>1, NothingOpen DEF CallsInv
<1>5. QED BY <1>3, <1>4 DEF TInv

LEMMA TransactionsStep == TInv /\ [TNext]_tvars => TInv'
<1> SUFFICES ASSUME TInv, [TNext]_tvars PROVE TInv'
  OBVIOUS
<1>1. ASSUME NEW c \in Callers, NEW o \in Orders,
             \/ \E amount \in Amounts : BeginCreate(c, o, amount)
             \/ \E e \in Events, kind \in Kinds, amount \in Amounts :
                   BeginPayment(c, e, o, kind, amount)
             \/ \E result \in Results : BeginReport(c, o, result)
             \/ BeginClaim(c, o) \/ BeginRetry(c, o)
             \/ LockStale(c, o) \/ RecoverOrder(c, o)
             \/ InsertMissing(c, o) \/ ShareOrder(c, o)
      PROVE  TInv'
  BY <1>1, CreationBegins, PaymentBegins, ReportBegins, Begins, StaleLocked,
     MissingInserted, OrderTaken
<1>2. ASSUME NEW c \in Callers,
             \/ InsertOrder(c) \/ ReadPending(c) \/ ApplyNext(c)
             \/ CommitCreate(c)
             \/ InsertEvent(c) \/ LockOrder(c) \/ CommitPayment(c)
      PROVE  TInv'
  BY <1>2, OrderInserted, PendingRead, EventsGoneThrough, CreationCommits,
     EventInserted, OrderLocked, PaymentCommits
<1>3. ASSUME NEW c \in Callers,
             \/ LockClaimed(c) \/ CommitClaim(c)
             \/ LockReported(c) \/ CommitReport(c)
             \/ BeginRecovery(c) \/ CommitRecovery(c)
      PROVE  TInv'
  BY <1>3, ClaimLocked, ClaimCommits, ReportLocked, ReportCommits,
     RecoveryBegins, RecoveryCommits
<1>4. ASSUME NEW c \in Callers,
             \/ LockRetried(c) \/ MissRetried(c) \/ InsertRetried(c)
             \/ CommitRetry(c)
             \/ BeginRepair(c) \/ CommitRepair(c)
      PROVE  TInv'
  BY <1>4, RetriedLocked, RetriedMissed, InsertRetriedCommits, RetryCommits,
     RepairBegins, RepairCommits
<1>5. ASSUME NEW c \in Callers, Abort(c) PROVE TInv'
  BY <1>5, RollbackStep DEF Abort
<1>6. CASE Environment
  BY <1>6, TimePasses
<1>7. CASE UNCHANGED tvars
  BY <1>7 DEF tvars, vars, TInv, TablesInv, IInv, TypeOK, RowsInv, CallsInv
<1>8. QED
  BY <1>1, <1>2, <1>3, <1>4, <1>5, <1>6, <1>7 DEF TNext, Quiet

(* However many transactions are open and however their statements are     *)
(* interleaved, every one of them finds at its commit what it relied on,   *)
(* and what is committed agrees with itself.                               *)
THEOREM TransactionsCorrect == TSpec => []TInv
  BY TransactionsInit, TransactionsStep, PTL DEF TSpec

(* A call holds what its transaction may hold.                             *)
THEOREM TransactionTypes == TSpec => []TTypeOK
<1>1. TInv => TTypeOK
  BY DEF TInv, CallsInv, CallRow, TTypeOK, OrderRow
<1>2. QED BY <1>1, TransactionsCorrect, PTL

(* orders.status and delivery_attempts.status never contradict each other, *)
(* whatever statements are interleaved.                                    *)
THEOREM TransactionStatuses == TSpec => []StatusAgreement
<1>1. TInv => StatusAgreement
  BY DEF TInv, TablesInv, IInv, RowsInv, RowsAgree, StatusesAgree, Pairs,
         StatusAgreement
<1>2. QED BY <1>1, TransactionsCorrect, PTL

(* Nor is money or are goods booked twice or not at all by transactions    *)
(* that run at the same time.                                              *)
THEOREM TransactionLedger == TSpec => []LedgerAgreement
<1>1. TInv => LedgerAgreement
  BY DEF TInv, TablesInv, IInv, RowsInv, RowsAgree, LedgerAgrees,
         LedgerAgreement
<1>2. QED BY <1>1, TransactionsCorrect, PTL

-----------------------------------------------------------------------------
(* Refinement: what each transaction commits is a step of Store.           *)

(* The transactions of workers, of the recovery, of operators and of the   *)
(* repair loop commit what Store does in one step.                         *)
THEOREM DeliverySideAtomic == TSpec => DeliverySideIsAtomic
<1>1. ASSUME TInv, NEW c \in Callers
      PROVE  /\ CommitClaim(c) => ClaimNextJob(call[c].order)
             /\ CommitReport(c) =>
                   CASE call[c].kind = "failed" -> MarkFailed(call[c].order)
                     [] call[c].kind = "out_of_stock" ->
                          MarkOutOfStock(call[c].order)
                     [] OTHER -> \E p \in Providers, code \in Codes :
                                    MarkDelivered(call[c].order, p, code)
             /\ CommitRecovery(c) => RecoverRows(call[c].held)
             /\ InsertRetried(c) => RetryDelivery(call[c].order)
             /\ CommitRetry(c)
                  => RetryDelivery(call[c].order) \/ UNCHANGED vars
             /\ CommitRepair(c) => RepairRows(call[c].held)
  BY <1>1, ClaimCommits, ReportCommits, RecoveryCommits,
     InsertRetriedCommits, RetryCommits, RepairCommits
<1>2. TInv /\ [TNext]_tvars =>
        [\A c \in Callers :
            LET o == call[c].order
            IN /\ CommitClaim(c) => ClaimNextJob(o)
               /\ CommitReport(c) =>
                     CASE call[c].kind = "failed" -> MarkFailed(o)
                       [] call[c].kind = "out_of_stock" -> MarkOutOfStock(o)
                       [] OTHER -> \E p \in Providers, code \in Codes :
                                      MarkDelivered(o, p, code)
               /\ CommitRecovery(c) => RecoverRows(call[c].held)
               /\ InsertRetried(c) => RetryDelivery(o)
               /\ CommitRetry(c) => RetryDelivery(o) \/ UNCHANGED vars
               /\ CommitRepair(c) => RepairRows(call[c].held)]_tvars
  BY <1>1
<1>3. QED
  BY <1>2, TransactionsCorrect, PTL DEF TSpec, DeliverySideIsAtomic

(* A creation, whatever webhooks of its order have come before it.         *)
THEOREM CreationAtomic == TSpec => CreationIsAtomic
<1>1. TInv /\ [TNext]_tvars =>
        [\A c \in Callers :
            CommitCreate(c) /\ Pending(call[c].order) = call[c].done
              => CreateOrder(call[c].order, call[c].amount)]_tvars
  BY CreationCreates
<1>2. QED BY <1>1, TransactionsCorrect, PTL DEF TSpec, CreationIsAtomic

(* A webhook acts on the order as it is when it commits, and no other      *)
(* webhook of the same event_id has been there before it.                  *)
THEOREM PaymentAtomic == TSpec => PaymentIsAtomic
<1>1. ASSUME TInv, NEW c \in Callers, CommitPayment(c),
             FoundOrder(c) = Exists(call[c].order)
      PROVE  /\ ~Recorded(call[c].event)
             /\ event'[call[c].event].processed = Exists(call[c].order)
             /\ IF /\ Exists(call[c].order)
                   /\ order[call[c].order].amount = call[c].amount
                THEN ApplyPayment(call[c].order, order[call[c].order],
                                  call[c].kind)
                ELSE UNCHANGED <<order, attempt, ledger>>
  <2>1. /\ call[c].pc = "commit"
        /\ event' = [event EXCEPT ![call[c].event] =
                       [status |-> call[c].kind, order |-> call[c].order,
                        amount |-> call[c].amount,
                        processed |-> FoundOrder(c), at |-> call[c].at]]
        /\ IF Applies(call[c])
           THEN ApplyPayment(call[c].order, call[c].row, call[c].kind)
           ELSE UNCHANGED <<order, attempt, ledger>>
    BY <1>1 DEF CommitPayment
  <2>2. /\ call[c].event \in Events /\ event[call[c].event].status = "none"
        /\ call[c].row # NoOrder => call[c].row = order[call[c].order]
        /\ event \in [Events -> EventRow]
    BY <1>1, <2>1, WebhookFacts, Tables
  <2>3. event'[call[c].event].processed = Exists(call[c].order)
    BY <1>1, <2>1, <2>2
  <2>4. Applies(call[c]) <=> /\ Exists(call[c].order)
                             /\ order[call[c].order].amount = call[c].amount
    BY <1>1, <2>2 DEF Applies, FoundOrder
  <2>5. Applies(call[c]) => call[c].row = order[call[c].order]
    BY <2>2 DEF Applies
  <2>6. QED BY <2>1, <2>2, <2>3, <2>4, <2>5 DEF Recorded
<1>2. TInv /\ [TNext]_tvars =>
        [\A c \in Callers :
            CommitPayment(c) /\ FoundOrder(c) = Exists(call[c].order)
              => LET j == call[c]
                 IN /\ ~Recorded(j.event)
                    /\ event'[j.event].processed = Exists(j.order)
                    /\ IF Exists(j.order) /\ order[j.order].amount = j.amount
                       THEN ApplyPayment(j.order, order[j.order], j.kind)
                       ELSE UNCHANGED <<order, attempt, ledger>>]_tvars
  BY <1>1
<1>3. QED BY <1>2, TransactionsCorrect, PTL DEF TSpec, PaymentIsAtomic

-----------------------------------------------------------------------------
(* What a statement may not do to the rows of an order.                    *)

(* A step of Transactions is, for the rows, one of Store's, a recovery or  *)
(* repair of some orders, a payment for the order as it is, or a creation. *)
PaidFor(o) == \E kind \in Kinds : ApplyPayment(o, order[o], kind)

Appears(o) == /\ order[o].status = "absent"
              /\ \A q \in Orders \ {o} : /\ order'[q] = order[q]
                                         /\ attempt'[q] = attempt[q]
                                         /\ ledger'[q] = ledger[q]

LEMMA RowsStep ==
    ASSUME TInv, [TNext]_tvars
    PROVE  \/ [Next]_vars \/ UNCHANGED <<order, attempt, ledger>>
           \/ \E c \in Callers : \/ RecoverRows(call[c].held)
                                \/ RepairRows(call[c].held)
           \/ \E o \in Orders : PaidFor(o) \/ Appears(o)
<1> DEFINE Good == \/ [Next]_vars \/ UNCHANGED <<order, attempt, ledger>>
                   \/ \E c \in Callers : \/ RecoverRows(call[c].held)
                                        \/ RepairRows(call[c].held)
                   \/ \E o \in Orders : PaidFor(o) \/ Appears(o)
<1>1. ASSUME NEW c \in Callers, CommitCreate(c) PROVE Good
  <2>1. Inserting(call[c])
    BY <1>1 DEF CommitCreate, Inserting
  <2>2. /\ call[c].order \in Orders /\ order[call[c].order] = NoOrder
        /\ order \in [Orders -> OrderRow]
        /\ attempt \in [Orders -> AttemptRow]
        /\ ledger \in [Orders -> LedgerRow]
    BY <2>1, CreationFacts, Tables
  <2>3. Appears(call[c].order)
    BY <1>1, <2>2 DEF CommitCreate, Appears, NoOrder
  <2>4. QED BY <2>2, <2>3
<1>2. ASSUME NEW c \in Callers, CommitPayment(c) PROVE Good
  <2>1. CASE ~Applies(call[c])
    BY <1>2, <2>1 DEF CommitPayment
  <2>2. CASE Applies(call[c])
    <3>1. /\ call[c].pc = "commit"
          /\ ApplyPayment(call[c].order, call[c].row, call[c].kind)
      BY <1>2, <2>2 DEF CommitPayment
    <3>2. /\ call[c].order \in Orders /\ call[c].kind \in Kinds
          /\ call[c].row = order[call[c].order]
      BY <2>2, <3>1, WebhookFacts DEF Applies
    <3>3. QED BY <3>1, <3>2 DEF PaidFor
  <2>3. QED BY <2>1, <2>2
<1>3. ASSUME NEW c \in Callers,
             \/ CommitClaim(c) \/ CommitReport(c) \/ CommitRecovery(c)
             \/ InsertRetried(c) \/ CommitRetry(c) \/ CommitRepair(c)
      PROVE  Good
  <2>1. CASE CommitClaim(c)
    <3>1. Next
      BY <2>1, ClaimCommits DEF Next
    <3>2. QED BY <3>1
  <2>2. CASE CommitReport(c)
    <3>1. CASE call[c].kind = "failed"
      <4>1. call[c].order \in Orders /\ MarkFailed(call[c].order)
        BY <2>2, <3>1, ReportCommits
      <4>2. Next
        BY <4>1 DEF Next
      <4>3. QED BY <4>2
    <3>2. CASE call[c].kind = "out_of_stock"
      <4>1. call[c].order \in Orders /\ MarkOutOfStock(call[c].order)
        BY <2>2, <3>2, ReportCommits
      <4>2. Next
        BY <4>1 DEF Next
      <4>3. QED BY <4>2
    <3>3. CASE call[c].kind \notin {"failed", "out_of_stock"}
      <4>1. /\ call[c].order \in Orders
            /\ \E p \in Providers, code \in Codes :
                  MarkDelivered(call[c].order, p, code)
        BY <2>2, <3>3, ReportCommits
      <4>2. Next
        BY <4>1 DEF Next
      <4>3. QED BY <4>2
    <3>4. QED BY <3>1, <3>2, <3>3
  <2>3. CASE CommitRetry(c) \/ InsertRetried(c)
    <3>1. /\ call[c].order \in Orders
          /\ RetryDelivery(call[c].order) \/ UNCHANGED vars
      BY <2>3, RetryCommits, InsertRetriedCommits
    <3>2. RetryDelivery(call[c].order) => Next
      BY <3>1 DEF Next
    <3>3. QED BY <3>1, <3>2
  <2>4. CASE CommitRecovery(c) \/ CommitRepair(c)
    BY <2>4, RecoveryCommits, RepairCommits
  <2>5. QED BY <1>3, <2>1, <2>2, <2>3, <2>4
<1>4. ASSUME NEW c \in Callers, NEW o \in Orders,
             \/ \E amount \in Amounts : BeginCreate(c, o, amount)
             \/ \E e \in Events, kind \in Kinds, amount \in Amounts :
                   BeginPayment(c, e, o, kind, amount)
             \/ \E result \in Results : BeginReport(c, o, result)
             \/ BeginClaim(c, o) \/ BeginRetry(c, o)
             \/ LockStale(c, o) \/ RecoverOrder(c, o)
             \/ InsertMissing(c, o) \/ ShareOrder(c, o)
      PROVE  UNCHANGED <<order, attempt, ledger>>
  <2>1. \A amount \in Amounts : BeginCreate(c, o, amount) => UNCHANGED vars
    BY DEF BeginCreate
  <2>2. \A e \in Events, kind \in Kinds, amount \in Amounts :
           BeginPayment(c, e, o, kind, amount)
             => UNCHANGED <<order, attempt, event, ledger>>
    BY DEF BeginPayment
  <2>3. \A result \in Results : BeginReport(c, o, result) => UNCHANGED vars
    BY DEF BeginReport
  <2>4. /\ BeginClaim(c, o) => UNCHANGED vars
        /\ BeginRetry(c, o) => UNCHANGED vars
        /\ LockStale(c, o) => UNCHANGED vars
        /\ RecoverOrder(c, o) => UNCHANGED vars
        /\ InsertMissing(c, o) => UNCHANGED vars
        /\ ShareOrder(c, o) => UNCHANGED vars
    BY DEF BeginClaim, BeginRetry, LockStale, RecoverOrder, InsertMissing,
           ShareOrder
  <2>5. QED BY <1>4, <2>1, <2>2, <2>3, <2>4 DEF vars
<1>5. ASSUME NEW c \in Callers,
             \/ InsertOrder(c) \/ ReadPending(c) \/ ApplyNext(c)
             \/ InsertEvent(c) \/ LockOrder(c) \/ LockClaimed(c)
             \/ LockReported(c) \/ BeginRecovery(c) \/ LockRetried(c)
             \/ MissRetried(c) \/ BeginRepair(c) \/ Abort(c)
      PROVE  UNCHANGED <<order, attempt, ledger>>
  BY <1>5 DEF InsertOrder, ReadPending, ApplyNext, InsertEvent, LockOrder,
     LockClaimed, LockReported, BeginRecovery, LockRetried, MissRetried,
     BeginRepair, Abort, vars
<1>6. CASE Environment
  BY <1>6 DEF Environment, Next
<1>7. CASE UNCHANGED tvars
  BY <1>7 DEF tvars, vars
<1>8. QED BY <1>1, <1>2, <1>3, <1>4, <1>5, <1>6, <1>7 DEF TNext, Quiet

(* A delivered row is final, although the result of a worker, a retry and  *)
(* a payment each rest on what an earlier statement has read.              *)
THEOREM TransactionsKeepDelivered == TSpec => DeliveredIsFinal
<1>1. ASSUME TInv, [TNext]_tvars, NEW o \in Orders,
             attempt[o].status = "delivered"
      PROVE  /\ attempt'[o] = attempt[o] /\ order'[o] = order[o]
             /\ ledger'[o] = ledger[o]
  <2>1. /\ IInv /\ order \in [Orders -> OrderRow]
        /\ attempt \in [Orders -> AttemptRow]
        /\ ledger \in [Orders -> LedgerRow]
    BY <1>1, TypeRows DEF TInv, TablesInv, IInv
  <2>2. order[o].status = "delivered"
    <3>1. <<order[o].status, attempt[o].status>> \in Pairs
      BY <2>1 DEF IInv, RowsInv, RowsAgree, StatusesAgree
    <3>2. QED BY <1>1, <3>1 DEF Pairs, StatusPairs, LossPairs
  <2>3. CASE [Next]_vars
    BY <1>1, <2>1, <2>3, DeliveredNext
  <2>4. CASE UNCHANGED <<order, attempt, ledger>>
    BY <2>4
  <2>5. ASSUME NEW q \in Orders, PaidFor(q)
        PROVE  /\ attempt'[o] = attempt[o] /\ order'[o] = order[o]
               /\ ledger'[o] = ledger[o]
    BY <2>1, <2>2, <2>5, DeliveredRows DEF PaidFor, ApplyPayment
  <2>6. ASSUME NEW q \in Orders, Appears(q)
        PROVE  /\ attempt'[o] = attempt[o] /\ order'[o] = order[o]
               /\ ledger'[o] = ledger[o]
    BY <2>2, <2>6 DEF Appears
  <2>7. ASSUME NEW c \in Callers,
               RecoverRows(call[c].held) \/ RepairRows(call[c].held)
        PROVE  /\ attempt'[o] = attempt[o] /\ order'[o] = order[o]
               /\ ledger'[o] = ledger[o]
    BY <1>1, <2>1, <2>7, PartDelivered
  <2>8. QED BY <1>1, <2>3, <2>4, <2>5, <2>6, <2>7, RowsStep
<1>2. TInv /\ [TNext]_tvars
        => [\A o \in Orders : attempt[o].status = "delivered" =>
              /\ attempt'[o] = attempt[o]
              /\ order'[o] = order[o]
              /\ ledger'[o] = ledger[o]]_vars
  BY <1>1
<1>3. QED BY <1>2, TransactionsCorrect, PTL DEF TSpec, DeliveredIsFinal

(* Nor does any statement throw a running job back into the queue but one  *)
(* of its own result or of a recovery that locked it with its lease over.  *)
THEOREM TransactionsLeaveRunningJob == TSpec => RunningJobIsLeftAlone
<1>1. ASSUME TInv, [TNext]_tvars, NEW o \in Orders,
             attempt[o].status = "processing"
      PROVE  /\ attempt'[o].status \notin {"none", "pending"}
             /\ attempt'[o].status = "failed" /\ attempt'[o].next = "due"
                  => attempt[o].lease = "expired"
  <2>1. /\ IInv /\ order[o].status = "delivering"
        /\ attempt \in [Orders -> AttemptRow]
    BY <1>1, RunningJob, TypeRows DEF TInv, TablesInv, IInv
  <2>2. CASE [Next]_vars
    BY <1>1, <2>1, <2>2, RunningNext
  <2>3. CASE UNCHANGED <<order, attempt, ledger>>
    BY <1>1, <2>3
  <2>4. ASSUME NEW q \in Orders, PaidFor(q)
        PROVE  attempt'[o] = attempt[o]
    <3>1. \A row, kind : AttemptAfter(row, attempt[o], kind) = attempt[o]
      BY <1>1 DEF AttemptAfter, UpsertAttempt, Idle
    <3>2. QED BY <2>1, <2>4, <3>1 DEF PaidFor, ApplyPayment
  <2>5. ASSUME NEW q \in Orders, Appears(q)
        PROVE  attempt'[o] = attempt[o]
    BY <2>1, <2>5 DEF Appears
  <2>6. CASE attempt'[o] = attempt[o]
    BY <1>1, <2>6
  <2>7. ASSUME NEW c \in Callers,
               RecoverRows(call[c].held) \/ RepairRows(call[c].held)
        PROVE  /\ attempt'[o].status \notin {"none", "pending"}
               /\ attempt'[o].status = "failed" /\ attempt'[o].next = "due"
                    => attempt[o].lease = "expired"
    BY <1>1, <2>1, <2>7, PartRunning
  <2>8. QED BY <1>1, <2>2, <2>3, <2>4, <2>5, <2>6, <2>7, RowsStep
<1>2. TInv /\ [TNext]_tvars
        => [\A o \in Orders : attempt[o].status = "processing" =>
              /\ attempt'[o].status \notin {"none", "pending"}
              /\ attempt'[o].status = "failed" /\ attempt'[o].next = "due"
                    => attempt[o].lease = "expired"]_vars
  BY <1>1
<1>3. QED BY <1>2, TransactionsCorrect, PTL DEF TSpec, RunningJobIsLeftAlone
=============================================================================
