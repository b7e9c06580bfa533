---------------------------- MODULE SupplyProofs ----------------------------
(***************************************************************************)
(* Where the codes come from.  Whatever workers, faults and retries do, a  *)
(* delivered order holds a code its supplier issued for it, and no code is *)
(* issued or sold twice, for any number of workers, orders and codes.      *)
(***************************************************************************)
EXTENDS DeliveryProofs

Held(j) == \/ j.pc = "deliver"
           \/ j.pc = "call" /\ j.reply = "ok"

HasCode(j) == Held(j) => j.code = issued[j.provider][j.order]

(* A key is issued by the supplier that has it, and to one order.          *)
SupplyInv ==
    \A p \in Providers, o \in Orders : issued[p][o] # None =>
        /\ issued[p][o] \in Keys[p]
        /\ \A q \in Orders \ {o} : issued[p][q] # issued[p][o]

(* The code in the hands of a worker is the one issued for its order.      *)
HeldInv == \A w \in Workers : HasCode(worker[w])

(* The code of a delivered order is the one issued for it.                 *)
SalesInv ==
    \A o \in Orders : attempt[o].status = "delivered" =>
        /\ attempt[o].provider \in Providers
        /\ attempt[o].code \in Codes
        /\ attempt[o].code = issued[attempt[o].provider][o]

SInv == /\ IInv /\ JobsInv /\ CodesInv
        /\ SupplyInv /\ HeldInv /\ SalesInv

-----------------------------------------------------------------------------
(* A step of the suppliers issues at most one key, that is free.           *)
IssuesFree ==
    \/ UNCHANGED issued
    \/ \E p \in Providers, o \in Orders :
          /\ issued[p][o] = None
          /\ \E code \in Free(p) : issued' = [issued EXCEPT ![p][o] = code]

LEMMA SupplierStep == JobsInv /\ [DNext]_dvars => IssuesFree
<1>1. SUFFICES ASSUME JobsInv, [DNext]_dvars PROVE IssuesFree
  OBVIOUS
<1>2. ASSUME NEW p \in Providers, NEW o \in Orders, NEW code \in Codes,
             Issue(p, o, code)
      PROVE  IssuesFree
  BY <1>2 DEF Issue, IssuesFree
<1>3. CASE UNCHANGED issued
  BY <1>3 DEF IssuesFree
<1>4. ASSUME NEW w \in Workers, SupplierIssues(w) PROVE IssuesFree
  <2>1. PICK code \in Codes : Issue(worker[w].provider, worker[w].order, code)
    BY <1>4 DEF SupplierIssues
  <2>2. worker[w].provider \in Providers /\ worker[w].order \in Orders
    BY <1>1, <1>4 DEF SupplierIssues, Unanswered, JobsInv, JobKnown
  <2>3. QED BY <1>2, <2>1, <2>2
<1>5. ASSUME NEW p \in Providers, NEW o \in Orders, HandleLate(p, o)
      PROVE  IssuesFree
  BY <1>2, <1>3, <1>5 DEF HandleLate
<1>6. ASSUME NEW w \in Workers, Serve(w) PROVE IssuesFree
  BY <1>3, <1>4, <1>6
     DEF Serve, Claim, FindNothing, PollAgain, Recover, Send, Receive,
         Timeout, NetworkError, Lose, Garble, SupplierRefuses, SupplierIsOut,
         Complete, Fail, RunOut, FindFinished, Crash
<1>7. CASE Shop \/ UNCHANGED dvars
  BY <1>3, <1>7 DEF Shop, dvars, workerVars
<1>8. QED BY <1>1, <1>5, <1>6, <1>7 DEF DNext

(* What is issued stays issued.                                            *)
LEMMA IssuedForGood ==
    ASSUME JobsInv, IssuesFree, NEW p \in Providers, NEW o \in Orders,
           issued[p][o] # None
    PROVE  issued'[p][o] = issued[p][o]
<1>1. CASE UNCHANGED issued
  BY <1>1
<1>2. ASSUME NEW q \in Providers, NEW u \in Orders, issued[q][u] = None,
             NEW code, issued' = [issued EXCEPT ![q][u] = code]
      PROVE  issued'[p][o] = issued[p][o]
  BY <1>2 DEF JobsInv
<1>3. QED BY <1>1, <1>2 DEF IssuesFree

LEMMA SupplyNext == JobsInv /\ SupplyInv /\ IssuesFree => SupplyInv'
<1>1. SUFFICES ASSUME JobsInv, SupplyInv, IssuesFree PROVE SupplyInv'
  OBVIOUS
<1>2. CASE UNCHANGED issued
  BY <1>1, <1>2 DEF SupplyInv
<1>3. ASSUME NEW p \in Providers, NEW o \in Orders, NEW code \in Free(p),
             issued' = [issued EXCEPT ![p][o] = code]
      PROVE  SupplyInv'
  <2>1. /\ code \in Keys[p]
        /\ \A q \in Orders : issued[p][q] # code
    BY DEF Free
  <2>2. ASSUME NEW r \in Providers, NEW u \in Orders, issued'[r][u] # None
        PROVE  /\ issued'[r][u] \in Keys[r]
               /\ \A q \in Orders \ {u} : issued'[r][q] # issued'[r][u]
    <3>1. \A q \in Orders :
             issued'[r][q] = IF r = p /\ q = o THEN code ELSE issued[r][q]
      BY <1>1, <1>3 DEF JobsInv
    <3>2. CASE r = p /\ u = o
      BY <2>1, <3>1, <3>2
    <3>3. CASE ~(r = p /\ u = o)
      BY <1>1, <2>1, <2>2, <3>1, <3>3 DEF SupplyInv
    <3>4. QED BY <3>2, <3>3
  <2>3. QED BY <2>2 DEF SupplyInv
<1>4. QED BY <1>1, <1>2, <1>3 DEF IssuesFree

-----------------------------------------------------------------------------
(* A worker that holds its code still does when another one has acted.     *)
LEMMA StillHeld ==
    ASSUME JobsInv, HeldInv, IssuesFree, NEW v \in Workers,
           worker'[v] = worker[v]
    PROVE  HasCode(worker[v])'
<1>1. SUFFICES ASSUME Held(worker[v])
               PROVE  worker[v].code = issued'[worker[v].provider][worker[v].order]
  BY DEF HasCode, Held
<1>2. /\ worker[v].provider \in Providers /\ worker[v].order \in Orders
      /\ worker[v].code \in Codes
  BY <1>1 DEF JobsInv, JobKnown, Held, Finishing
<1>3. worker[v].code = issued[worker[v].provider][worker[v].order]
  BY <1>1 DEF HeldInv, HasCode
<1>4. worker[v].code # None
  BY <1>2, StoreAssumption
<1>5. QED BY <1>2, <1>3, <1>4, IssuedForGood

(* A call that failed leaves no code in the hands of the worker.           *)
LEMMA FailedHoldsNone ==
    ASSUME NEW j \in JobRow, NEW err
    PROVE  ~Held(AfterError(j, err))
<1>1. AfterError(j, err).pc \in {"send", "out_of_stock", "fail"}
  BY DEF AfterError, AfterSupplier, JobRow
<1>2. QED BY <1>1 DEF Held

LEMMA HeldNext == JobsInv /\ HeldInv /\ [DNext]_dvars => HeldInv'
<1>1. SUFFICES ASSUME JobsInv, HeldInv, [DNext]_dvars, NEW v \in Workers
               PROVE  HasCode(worker[v])'
  BY DEF HeldInv
<1>2. IssuesFree
  BY <1>1, SupplierStep
<1>3. /\ worker \in [Workers -> JobRow] /\ worker[v] \in JobRow
      /\ JobKnown(worker[v])
      /\ issued \in [Providers -> [Orders -> Codes \cup {None}]]
  BY <1>1 DEF JobsInv
<1>4. CASE worker'[v] = worker[v]
  BY <1>1, <1>2, <1>4, StillHeld
<1>5. CASE ~Held(worker'[v])
  BY <1>5 DEF HasCode, Held
<1>6. ASSUME NEW w \in Workers, w # v, Serve(w) PROVE worker'[v] = worker[v]
  BY <1>3, <1>6
     DEF Serve, Claim, FindNothing, PollAgain, Recover, Send, Receive,
         Timeout, NetworkError, Lose, Garble, SupplierIssues,
         SupplierRefuses, SupplierIsOut, Complete, Fail, RunOut,
         FindFinished, Crash, Rest
<1>7. ASSUME \/ Claim(v) \/ FindNothing(v) \/ PollAgain(v) \/ Recover(v)
             \/ Send(v)
      PROVE  ~Held(worker'[v])
  <2>1. CASE Claim(v)
    <3>1. worker'[v].pc = "send"
      BY <1>3, <2>1, RestingJob DEF Claim, Resting
    <3>2. QED BY <3>1 DEF Held
  <2>2. CASE FindNothing(v) \/ PollAgain(v) \/ Recover(v)
    <3>1. worker'[v].pc \in {"poll", "idle"}
      BY <1>3, <2>2 DEF FindNothing, PollAgain, Recover, JobRow
    <3>2. QED BY <3>1 DEF Held
  <2>3. CASE Send(v)
    <3>1. worker'[v].pc = "call" /\ worker'[v].reply = "none"
      BY <1>3, <2>3 DEF Send, JobRow
    <3>2. QED BY <3>1 DEF Held
  <2>4. QED BY <1>7, <2>1, <2>2, <2>3
<1>8. ASSUME Timeout(v) \/ NetworkError(v) \/ Garble(v)
      PROVE  ~Held(worker'[v])
  <2>1. PICK err : worker' = [worker EXCEPT ![v] = AfterError(Unsure(@), err)]
    BY <1>8 DEF Timeout, NetworkError, Lose, Garble
  <2>2. worker[v].pc = "call"
    BY <1>8 DEF Timeout, NetworkError, Lose, Garble
  <2>3. PICK j \in JobRow : j = Unsure(worker[v])
    BY <1>3, <2>2, ForgottenAnswer
  <2>4. worker'[v] = AfterError(j, err)
    BY <1>3, <2>1, <2>3
  <2>5. QED BY <2>4, FailedHoldsNone
<1>9. ASSUME Receive(v) PROVE HasCode(worker[v])'
  <2>1. worker[v].pc = "call"
    BY <1>9 DEF Receive
  <2>2. CASE worker[v].reply = "ok"
    <3>1. /\ worker'[v].code = worker[v].code
          /\ worker'[v].provider = worker[v].provider
          /\ worker'[v].order = worker[v].order
          /\ UNCHANGED issued
      BY <1>3, <1>9, <2>2 DEF Receive, JobRow
    <3>2. worker[v].code = issued[worker[v].provider][worker[v].order]
      BY <1>1, <2>1, <2>2 DEF HeldInv, HasCode, Held
    <3>3. QED BY <3>1, <3>2 DEF HasCode
  <2>3. CASE worker[v].reply # "ok"
    <3>1. PICK j \in JobRow : j = Forget(worker[v])
      BY <1>3, <2>1, ForgottenAnswer
    <3>2. worker'[v] = AfterError(j, worker[v].reply)
      BY <1>3, <1>9, <2>3, <3>1 DEF Receive
    <3>3. QED BY <1>5, <3>2, FailedHoldsNone
  <2>4. QED BY <2>2, <2>3
<1>10. ASSUME SupplierIssues(v) PROVE HasCode(worker[v])'
  <2>1. PICK code \in Codes :
           /\ Issue(worker[v].provider, worker[v].order, code)
           /\ worker' = [worker EXCEPT ![v].reply = "ok", ![v].code = code]
    BY <1>10 DEF SupplierIssues
  <2>2. worker[v].provider \in Providers /\ worker[v].order \in Orders
    BY <1>3, <1>10 DEF SupplierIssues, Unanswered, JobKnown
  <2>3. /\ worker'[v].code = code
        /\ worker'[v].provider = worker[v].provider
        /\ worker'[v].order = worker[v].order
    BY <1>3, <2>1 DEF JobRow
  <2>4. issued'[worker[v].provider][worker[v].order] = code
    BY <1>3, <2>1, <2>2 DEF Issue
  <2>5. QED BY <2>3, <2>4 DEF HasCode
<1>11. ASSUME SupplierRefuses(v) \/ SupplierIsOut(v)
       PROVE  ~Held(worker'[v])
  <2>1. worker'[v].pc = "call" /\ worker'[v].reply # "ok"
    BY <1>3, <1>11 DEF SupplierRefuses, SupplierIsOut, Unanswered, JobRow
  <2>2. QED BY <2>1 DEF Held
<1>12. ASSUME \/ Complete(v) \/ Fail(v) \/ RunOut(v) \/ FindFinished(v)
              \/ Crash(v)
       PROVE  ~Held(worker'[v])
  <2>1. worker'[v] = Resting
    BY <1>3, <1>12 DEF Complete, Fail, RunOut, FindFinished, Crash, Rest
  <2>2. QED BY <2>1 DEF Held, Resting
<1>13. ASSUME Serve(v) PROVE HasCode(worker[v])'
  BY <1>5, <1>7, <1>8, <1>9, <1>10, <1>11, <1>12, <1>13 DEF Serve
<1>14. CASE \/ Shop \/ UNCHANGED dvars
            \/ \E p \in Providers, o \in Orders : HandleLate(p, o)
  BY <1>4, <1>14 DEF Shop, dvars, workerVars, HandleLate
<1>15. QED BY <1>1, <1>4, <1>6, <1>13, <1>14 DEF DNext

-----------------------------------------------------------------------------

LEMMA SalesNext == SInv /\ [DNext]_dvars => SalesInv' /\ CodesInv'
<1>1. SUFFICES ASSUME SInv, [DNext]_dvars PROVE SalesInv' /\ CodesInv'
  OBVIOUS
<1>2. /\ attempt \in [Orders -> AttemptRow] /\ TypeOK /\ IInv
      /\ JobsInv /\ CodesInv /\ SalesInv /\ HeldInv
  BY <1>1, TypeRows DEF SInv, IInv
<1>3. [Next]_vars /\ IssuesFree
  BY <1>1, <1>2, StepOnTables, SupplierStep
<1>4. ASSUME NEW o \in Orders, attempt[o].status = "delivered",
             attempt'[o] = attempt[o]
      PROVE  /\ attempt'[o].provider \in Providers
             /\ attempt'[o].code \in Codes
             /\ attempt'[o].code = issued'[attempt'[o].provider][o]
  <2>1. /\ attempt[o].provider \in Providers
        /\ attempt[o].code \in Codes
        /\ attempt[o].code = issued[attempt[o].provider][o]
    BY <1>2, <1>4 DEF SalesInv
  <2>2. attempt[o].code # None
    BY <2>1, StoreAssumption
  <2>3. issued'[attempt[o].provider][o] = issued[attempt[o].provider][o]
    BY <1>2, <1>3, <2>1, <2>2, IssuedForGood
  <2>4. QED BY <1>4, <2>1, <2>3
<1>5. ASSUME NEW o \in Orders, attempt[o].status = "delivered"
      PROVE  attempt'[o] = attempt[o]
  BY <1>2, <1>3, <1>5, DeliveredNext
<1>6. CASE Quiet
  <2>1. \A o \in Orders :
           /\ attempt'[o].code = attempt[o].code
           /\ attempt'[o].status = "delivered"
                => attempt[o].status = "delivered"
    BY <1>2, <1>6, QuietCodes
  <2>2. SalesInv'
    BY <1>4, <1>5, <2>1 DEF SalesInv
  <2>3. CodesInv'
    BY <1>2, <1>5, <2>1 DEF CodesInv
  <2>4. QED BY <2>2, <2>3
<1>7. ASSUME NEW w \in Workers, Complete(w) PROVE SalesInv' /\ CodesInv'
  <2>1. /\ worker[w].pc = "deliver"
        /\ MarkDelivered(worker[w].order, worker[w].provider, worker[w].code)
        /\ UNCHANGED issued
    BY <1>7 DEF Complete
  <2>2. /\ worker[w].order \in Orders /\ worker[w].provider \in Providers
        /\ worker[w].code \in Codes
    BY <1>2, <2>1 DEF JobsInv, JobKnown, Finishing
  <2>3. worker[w].code = issued[worker[w].provider][worker[w].order]
    BY <1>2, <2>1 DEF HeldInv, HasCode, Held
  <2>4. ASSUME NEW o \in Orders, o # worker[w].order
        PROVE  attempt'[o] = attempt[o]
    BY <1>2, <2>1, <2>4 DEF MarkDelivered
  <2>5. attempt'[worker[w].order] =
           [status |-> "delivered", next |-> "null", lease |-> "null",
            provider |-> worker[w].provider, code |-> worker[w].code]
    BY <1>2, <2>1, <2>2 DEF MarkDelivered
  <2>6. SalesInv'
    BY <1>4, <2>1, <2>2, <2>3, <2>4, <2>5 DEF SalesInv
  <2>7. CodesInv'
    BY <1>2, <2>4, <2>5 DEF CodesInv
  <2>8. QED BY <2>6, <2>7
<1>8. QED BY <1>1, <1>2, <1>6, <1>7, QuietOrComplete

(* The inductive invariant of the codes.                                   *)
THEOREM CodesCorrect == DSpec => []SInv
<1>1. DInit => SInv
  <2>1. SUFFICES ASSUME DInit PROVE SInv
    OBVIOUS
  <2>2. IInv /\ JobsInv
    BY <2>1, RowsInit, JobsInit DEF DInit
  <2>3. CodesInv /\ SalesInv
    BY <2>1 DEF DInit, Init, NoAttempt, CodesInv, SalesInv
  <2>4. SupplyInv /\ HeldInv
    BY <2>1 DEF DInit, SupplyInv, HeldInv, HasCode, Held, Resting
  <2>5. QED BY <2>2, <2>3, <2>4 DEF SInv
<1>2. SInv /\ [DNext]_dvars => SInv'
  <2>1. SUFFICES ASSUME SInv, [DNext]_dvars PROVE SInv'
    OBVIOUS
  <2>2. IInv' /\ JobsInv'
    BY <2>1, JobsNext, StepOnTables, TypeNext, RowsNext DEF SInv, IInv
  <2>3. SupplyInv' /\ HeldInv'
    BY <2>1, SupplierStep, SupplyNext, HeldNext DEF SInv
  <2>4. QED BY <2>1, <2>2, <2>3, SalesNext DEF SInv
<1>3. QED BY <1>1, <1>2, PTL DEF DSpec

(* Whatever is lost, repeated, overtaken or restarted, a delivered order   *)
(* holds a code that the supplier named in its row issued for it.          *)
THEOREM DeliveredCodes == DSpec => []DeliveredCodeWasIssued
<1>1. SInv => DeliveredCodeWasIssued
  BY StoreAssumption DEF SInv, SalesInv, DeliveredCodeWasIssued
<1>2. QED BY <1>1, CodesCorrect, PTL

(* No supplier issues a code twice, and no two orders are delivered the    *)
(* same code, suppliers having no code in common.                          *)
THEOREM SoldOnce == DSpec => []NoCodeSoldTwice
<1>1. SInv => NoCodeSoldTwice
  <2>1. SUFFICES ASSUME SInv, NEW o \in Orders, NEW q \in Orders, o # q
                 PROVE  /\ attempt[o].code # None
                             => attempt[o].code # attempt[q].code
                        /\ \A p \in Providers : issued[p][o] # None
                             => issued[p][o] # issued[p][q]
    BY DEF NoCodeSoldTwice
  <2>2. \A p \in Providers : issued[p][o] # None
                               => issued[p][o] # issued[p][q]
    BY <2>1 DEF SInv, SupplyInv
  <2>3. ASSUME NEW u \in Orders, attempt[u].code # None
        PROVE  /\ attempt[u].provider \in Providers
               /\ attempt[u].code = issued[attempt[u].provider][u]
               /\ attempt[u].code \in Keys[attempt[u].provider]
    <3>1. attempt[u].status = "delivered"
      BY <2>1, <2>3 DEF SInv, CodesInv
    <3>2. QED BY <2>1, <2>3, <3>1 DEF SInv, SalesInv, SupplyInv
  <2>4. ASSUME attempt[o].code # None, attempt[o].code = attempt[q].code
        PROVE  FALSE
    <3>1. attempt[q].code # None
      BY <2>4
    <3>2. CASE attempt[o].provider = attempt[q].provider
      BY <2>1, <2>2, <2>3, <2>4, <3>1, <3>2
    <3>3. CASE attempt[o].provider # attempt[q].provider
      BY <2>1, <2>3, <2>4, <3>1, <3>3, DeliveryAssumption
    <3>4. QED BY <3>2, <3>3
  <2>5. QED BY <2>2, <2>4
<1>2. QED BY <1>1, CodesCorrect, PTL

-----------------------------------------------------------------------------
(* Without faults.  A code that was issued is in the hands of the worker   *)
(* that asked for it until the order is delivered with it: the worker does *)
(* not stop, nobody else has its job, and no call outlives its caller.     *)
InHand(j, p, o) == Held(j) /\ j.provider = p /\ j.order = o

Sold(p, o) == /\ attempt[o].status = "delivered" /\ attempt[o].provider = p
              /\ attempt[o].code = issued[p][o]

NotInVain ==
    \A p \in Providers, o \in Orders : issued[p][o] # None =>
        Sold(p, o) \/ \E w \in Workers : InHand(worker[w], p, o)

VainInv == LInv /\ SInv /\ late = {} /\ NotInVain

(* Only the answer to a call that is waited for issues a code.             *)
LEMMA NobodyLate ==
    ASSUME Faults = {}, late = {}, [DNext]_dvars
    PROVE  /\ late' = {}
           /\ issued' = issued \/ \E w \in Workers : SupplierIssues(w)
<1>1. CASE Shop \/ UNCHANGED dvars
  BY <1>1 DEF Shop, dvars, workerVars
<1>2. ASSUME NEW w \in Workers, Serve(w)
      PROVE  late' = {} /\ (issued' = issued \/ SupplierIssues(w))
  <2>1. CASE SupplierIssues(w)
    BY <2>1 DEF SupplierIssues
  <2>2. CASE \/ Claim(w) \/ FindNothing(w) \/ PollAgain(w) \/ Recover(w)
             \/ Send(w) \/ Receive(w) \/ Garble(w) \/ SupplierRefuses(w)
             \/ SupplierIsOut(w) \/ Complete(w) \/ Fail(w) \/ RunOut(w)
             \/ FindFinished(w)
    BY <2>2 DEF Claim, FindNothing, PollAgain, Recover, Send, Receive, Garble,
       SupplierRefuses, SupplierIsOut, Complete, Fail, RunOut, FindFinished
  <2>3. ~Timeout(w) /\ ~NetworkError(w) /\ ~Crash(w)
    BY DEF Timeout, NetworkError, Crash
  <2>4. QED BY <1>2, <2>1, <2>2, <2>3 DEF Serve
<1>3. \A p \in Providers, o \in Orders : ~HandleLate(p, o)
  BY DEF HandleLate
<1>4. QED BY <1>1, <1>2, <1>3 DEF DNext

(* A worker keeps its code until it completes its job.                     *)
LEMMA CodeInHand ==
    ASSUME Faults = {}, Slow = {}, LInv, [DNext]_dvars,
           NEW w \in Workers, Held(worker[w])
    PROVE  \/ Complete(w)
           \/ InHand(worker'[w], worker[w].provider, worker[w].order)
<1>1. /\ worker \in [Workers -> JobRow] /\ worker[w] \in JobRow
      /\ JobKnown(worker[w]) /\ IInv /\ LeaseInv
      /\ worker[w].pc \in {"call", "deliver"}
      /\ worker[w].pc = "call" => worker[w].reply = "ok"
  BY DEF LInv, JobsInv, Held
<1>2. CASE worker'[w] = worker[w]
  BY <1>2 DEF InHand, Held
<1>3. ASSUME NEW v \in Workers, v # w, Serve(v) PROVE worker'[w] = worker[w]
  BY <1>1, <1>3
     DEF Serve, Claim, FindNothing, PollAgain, Recover, Send, Receive,
         Timeout, NetworkError, Lose, Garble, SupplierIssues,
         SupplierRefuses, SupplierIsOut, Complete, Fail, RunOut,
         FindFinished, Crash, Rest
<1>4. ASSUME Receive(w)
      PROVE  InHand(worker'[w], worker[w].provider, worker[w].order)
  <2>1. worker' = [worker EXCEPT ![w].pc = "deliver"]
    BY <1>1, <1>4 DEF Receive
  <2>2. /\ worker'[w].pc = "deliver"
        /\ worker'[w].provider = worker[w].provider
        /\ worker'[w].order = worker[w].order
    BY <1>1, <2>1 DEF JobRow
  <2>3. QED BY <2>2 DEF InHand, Held
<1>5. ~FindFinished(w)
  <2>1. SUFFICES ASSUME FindFinished(w) PROVE FALSE
    OBVIOUS
  <2>2. worker[w].pc \in Finishing /\ Busy(w) /\ worker[w].order \in Orders
    BY <1>1, <2>1 DEF FindFinished, Busy, JobKnown
  <2>3. attempt[worker[w].order].status = "processing"
    BY <1>1, <2>2 DEF LeaseInv, InTime, Leased
  <2>4. order[worker[w].order].status = "delivering"
    BY <1>1, <2>2, <2>3, RunningJob DEF IInv
  <2>5. QED BY <2>1, <2>3, <2>4 DEF FindFinished
<1>6. /\ ~Claim(w) /\ ~FindNothing(w) /\ ~PollAgain(w) /\ ~Recover(w)
      /\ ~Send(w) /\ ~Timeout(w) /\ ~NetworkError(w) /\ ~Garble(w)
      /\ ~Fail(w) /\ ~RunOut(w) /\ ~Crash(w)
  BY <1>1 DEF Claim, FindNothing, PollAgain, Recover, Send, Timeout,
     NetworkError, Garble, Fail, RunOut, Crash
<1>7. ~SupplierIssues(w) /\ ~SupplierRefuses(w) /\ ~SupplierIsOut(w)
  BY <1>1 DEF SupplierIssues, SupplierRefuses, SupplierIsOut, Unanswered
<1>8. CASE \/ Shop \/ UNCHANGED dvars
           \/ \E p \in Providers, o \in Orders : HandleLate(p, o)
  BY <1>2, <1>8 DEF Shop, dvars, workerVars, HandleLate
<1>9. QED BY <1>2, <1>3, <1>4, <1>5, <1>6, <1>7, <1>8 DEF DNext, Serve

LEMMA VainNext ==
    ASSUME Faults = {}, Slow = {}, VainInv, [DNext]_dvars
    PROVE  NotInVain'
<1>1. /\ worker \in [Workers -> JobRow] /\ JobsInv /\ IInv
      /\ \A w \in Workers : worker[w] \in JobRow /\ JobKnown(worker[w])
      /\ attempt \in [Orders -> AttemptRow] /\ HeldInv
      /\ issued \in [Providers -> [Orders -> Codes \cup {None}]]
  BY TypeRows DEF VainInv, LInv, SInv, JobsInv, IInv
<1>2. [Next]_vars /\ IssuesFree
  BY <1>1, StepOnTables, SupplierStep
<1>3. ASSUME NEW p \in Providers, NEW o \in Orders, issued[p][o] # None
      PROVE  Sold(p, o)' \/ \E w \in Workers : InHand(worker'[w], p, o)
  <2>1. issued'[p][o] = issued[p][o]
    BY <1>1, <1>2, <1>3, IssuedForGood
  <2>2. CASE Sold(p, o)
    <3>1. attempt'[o] = attempt[o]
      BY <1>1, <1>2, <2>2, DeliveredNext DEF Sold
    <3>2. QED BY <2>1, <2>2, <3>1 DEF Sold
  <2>3. ASSUME NEW w \in Workers, InHand(worker[w], p, o)
        PROVE  Sold(p, o)' \/ InHand(worker'[w], p, o)
    <3>1. /\ Held(worker[w]) /\ worker[w].provider = p /\ worker[w].order = o
      BY <2>3 DEF InHand
    <3>2. CASE InHand(worker'[w], p, o)
      BY <3>2
    <3>3. CASE Complete(w)
      <4>1. worker[w].code = issued[p][o]
        BY <1>1, <3>1 DEF HeldInv, HasCode
      <4>2. attempt'[o] = [status |-> "delivered", next |-> "null",
                           lease |-> "null", provider |-> p,
                           code |-> worker[w].code]
        BY <1>1, <3>1, <3>3 DEF Complete, MarkDelivered
      <4>3. /\ attempt'[o].status = "delivered"
            /\ attempt'[o].provider = p
            /\ attempt'[o].code = worker[w].code
        BY <4>2
      <4>4. QED BY <2>1, <4>1, <4>3 DEF Sold
    <3>4. QED BY <3>1, <3>2, <3>3, CodeInHand DEF VainInv
  <2>4. QED BY <1>3, <2>2, <2>3 DEF VainInv, NotInVain
<1>4. ASSUME NEW w \in Workers, SupplierIssues(w),
             NEW p \in Providers, NEW o \in Orders,
             issued[p][o] = None, issued'[p][o] # None
      PROVE  InHand(worker'[w], p, o)
  <2>1. PICK code \in Codes :
           /\ Issue(worker[w].provider, worker[w].order, code)
           /\ worker' = [worker EXCEPT ![w].reply = "ok", ![w].code = code]
    BY <1>4 DEF SupplierIssues
  <2>2. worker[w].pc = "call"
    BY <1>4 DEF SupplierIssues, Unanswered
  <2>3. /\ worker'[w].pc = "call" /\ worker'[w].reply = "ok"
        /\ worker'[w].provider = worker[w].provider
        /\ worker'[w].order = worker[w].order
    BY <1>1, <2>1, <2>2 DEF JobRow
  <2>4. worker[w].provider = p /\ worker[w].order = o
    BY <1>1, <1>4, <2>1 DEF Issue
  <2>5. QED BY <2>3, <2>4 DEF InHand, Held
<1>5. issued' = issued \/ \E w \in Workers : SupplierIssues(w)
  BY NobodyLate DEF VainInv
<1>6. ASSUME NEW p \in Providers, NEW o \in Orders, issued'[p][o] # None
      PROVE  Sold(p, o)' \/ \E w \in Workers : InHand(worker'[w], p, o)
  BY <1>3, <1>4, <1>5, <1>6
<1>7. QED BY <1>6 DEF NotInVain, InHand, Held

(* With suppliers that always answer, workers that do not stop and jobs    *)
(* that keep within their leases, every code issued is sold or about to be.*)
LEMMA ReliableCorrect ==
    ASSUME Faults = {}, Slow = {}
    PROVE  DSpec => []VainInv
<1>1. DInit => LInv /\ late = {} /\ NotInVain
  <2>1. SUFFICES ASSUME DInit PROVE LeaseInv /\ NotInVain /\ late = {}
    BY RowsInit, JobsInit DEF DInit, LInv
  <2>2. QED BY <2>1 DEF DInit, LeaseInv, InTime, Busy, Resting, Finishing,
                        NotInVain
<1>2. LInv /\ [DNext]_dvars => LInv'
  BY LeaseNext, JobsNext, StepOnTables, TypeNext, RowsNext DEF LInv, IInv
<1>3. DSpec => []LInv
  BY <1>1, <1>2, PTL DEF DSpec
<1>4. late = {} /\ [DNext]_dvars => (late = {})'
  BY NobodyLate
<1>5. VainInv /\ [DNext]_dvars => NotInVain'
  BY VainNext
<1>6. QED BY <1>1, <1>3, <1>4, <1>5, CodesCorrect, PTL DEF DSpec, VainInv

(* NoCodeIssuedInVain: a code that was issued belongs to the order sold     *)
(* with it or to the worker about to sell it, when no answer is lost, no   *)
(* worker stops and no job outlives its lease.                             *)
THEOREM NoneInVain ==
    ASSUME Faults = {}, Slow = {}
    PROVE  DSpec => []NoCodeIssuedInVain
<1>1. VainInv => NoCodeIssuedInVain
  BY DEF VainInv, SInv, NotInVain, HeldInv, HasCode, Sold, InHand,
         NoCodeIssuedInVain
<1>2. QED BY <1>1, ReliableCorrect, PTL

(* AtMostOneSupplierIssues under the same conditions: the fallback buys a  *)
(* code only where the primary supplier issued none.  A finished order     *)
(* names one supplier, and one worker at a time has its job.               *)
THEOREM OneSupplierIssues ==
    ASSUME Faults = {}, Slow = {}
    PROVE  DSpec => []AtMostOneSupplierIssues
<1>1. ASSUME VainInv PROVE AtMostOneSupplierIssues
  <2>1. SUFFICES ASSUME NEW o \in Orders,
                        issued[A][o] # None, issued[B][o] # None
                 PROVE  FALSE
    BY DEF AtMostOneSupplierIssues
  <2>2. /\ A \in Providers /\ B \in Providers /\ A # B
    BY DeliveryAssumption
  <2>3. ~(Sold(A, o) /\ Sold(B, o))
    BY <2>2 DEF Sold
  <2>4. ASSUME NEW p \in Providers, NEW w \in Workers, InHand(worker[w], p, o)
        PROVE  /\ attempt[o].status = "processing"
               /\ worker[w].provider = p
               /\ \A v \in Workers, q \in Providers :
                     InHand(worker[v], q, o) => v = w
    <3>1. /\ LeaseInv /\ worker[w].order = o /\ worker[w].provider = p
          /\ Busy(w)
      BY <1>1, <2>4 DEF VainInv, LInv, InHand, Held, Busy, Finishing
    <3>2. /\ attempt[o].status = "processing"
          /\ \A v \in Workers \ {w} : Busy(v) => worker[v].order # o
      BY <3>1 DEF LeaseInv, InTime, Leased
    <3>3. ASSUME NEW v \in Workers, NEW q \in Providers,
                 InHand(worker[v], q, o)
          PROVE  v = w
      BY <3>2, <3>3 DEF InHand, Held, Busy, Finishing
    <3>4. QED BY <3>1, <3>2, <3>3
  <2>5. \A p \in Providers : p \in {A, B} =>
          (Sold(p, o) \/ \E w \in Workers : InHand(worker[w], p, o))
    BY <1>1, <2>1 DEF VainInv, NotInVain
  <2>6. \A p \in Providers : Sold(p, o) => attempt[o].status # "processing"
    BY DEF Sold
  <2>7. QED BY <2>2, <2>3, <2>4, <2>5, <2>6
<1>2. QED BY <1>1, ReliableCorrect, PTL
=============================================================================
