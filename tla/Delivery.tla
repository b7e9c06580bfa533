------------------------------ MODULE Delivery ------------------------------
(***************************************************************************)
(* Delivery workers at work on the tables of Store: the poll loop of       *)
(* delivery/worker.go, the two-supplier protocol of delivery/service.go,   *)
(* the HTTP client of delivery/http_provider.go, and the suppliers, which  *)
(* behave as providermock/server.go does.  A call may outlive its caller:  *)
(* a request given up on is handled later, or never.                       *)
(***************************************************************************)
EXTENDS Store, FiniteSets

CONSTANTS
    Workers,    \* delivery workers, one in each running application
    A, B,       \* the two suppliers, asked in this order
    Keys,       \* the codes each supplier has in provider_keys for the SKU
    RetryCount, \* attempts at one supplier in one job
    Faults,     \* what may go wrong besides an honest 503 or out_of_stock
    Slow        \* orders whose jobs may take longer than their lease

ASSUME DeliveryAssumption ==
    /\ A # B /\ Providers = {A, B}
    /\ Keys \in [Providers -> SUBSET Codes]
    /\ Keys[A] \cap Keys[B] = {}     \* provider_keys_code_unique
    /\ RetryCount \in Nat \ {0}
    /\ Faults \subseteq {"timeout", "network", "garble", "crash"}
    /\ Slow \subseteq Orders
    /\ RowLoss = FALSE

VARIABLES
    worker,     \* what each worker is doing
    issued,     \* provider_issues: the code a supplier issued for an order
    late        \* requests on their way to a supplier with no caller left

workerVars == <<worker, issued, late>>
dvars == <<vars, workerVars>>

(* The errors of delivery/provider.go, and "broken" for the unnamed error  *)
(* of a response whose body cannot be read.                                *)
Errors == {"unavailable", "timeout", "out_of_stock", "invalid", "broken"}

(* reply is the supplier's answer while it is under way; errA is what      *)
(* Process keeps of supplier A once it has turned to B.  unsure is not in  *)
(* the code: it remembers that a call to A in this job had no known result.*)
Resting == [pc |-> "poll", order |-> None, provider |-> None, try |-> 0,
            reply |-> "none", code |-> None, errA |-> "none",
            unsure |-> FALSE]

Finishing == {"deliver", "fail", "out_of_stock"}
Busy(w) == worker[w].pc \in {"send", "call"} \cup Finishing

DTypeOK ==
    /\ worker \in [Workers ->
         [pc : {"poll", "idle", "send", "call"} \cup Finishing,
          order : Orders \cup {None}, provider : Providers \cup {None},
          try : 0..RetryCount, reply : {"none", "ok"} \cup Errors,
          code : Codes \cup {None}, errA : {"none"} \cup Errors,
          unsure : BOOLEAN]]
    /\ issued \in [Providers -> [Orders -> Codes \cup {None}]]
    /\ late \subseteq Providers \X Orders

DInit ==
    /\ Init
    /\ worker = [w \in Workers |-> Resting]
    /\ issued = [p \in Providers |-> [o \in Orders |-> None]]
    /\ late = {}

-----------------------------------------------------------------------------
(* The poll loop: Run and processNext.                                     *)

Claim(w) ==
    /\ worker[w].pc = "poll"
    /\ \E o \in Orders :
         /\ ClaimNextJob(o)
         /\ worker' = [worker EXCEPT ![w] =
                         [Resting EXCEPT !.pc = "send", !.order = o,
                                         !.provider = A, !.try = 1]]
    /\ UNCHANGED <<issued, late>>

(* No job: none is due, others hold the rows (SKIP LOCKED), or the         *)
(* transaction failed.                                                     *)
FindNothing(w) ==
    /\ worker[w].pc = "poll"
    /\ worker' = [worker EXCEPT ![w].pc = "idle"]
    /\ UNCHANGED <<vars, issued, late>>

PollAgain(w) ==
    /\ worker[w].pc = "idle"
    /\ worker' = [worker EXCEPT ![w].pc = "poll"]
    /\ UNCHANGED <<vars, issued, late>>

(* The recovery ticker is looked at only here, between two polls that      *)
(* found nothing.                                                          *)
Recover(w) ==
    /\ worker[w].pc = "idle"
    /\ RecoverStaleJobs
    /\ worker' = [worker EXCEPT ![w].pc = "poll"]
    /\ UNCHANGED <<issued, late>>

-----------------------------------------------------------------------------
(* One call to a supplier: Issue of http_provider.go.                      *)

Send(w) ==
    /\ worker[w].pc = "send"
    /\ worker' = [worker EXCEPT ![w].pc = "call", ![w].reply = "none",
                                ![w].code = None]
    /\ UNCHANGED <<vars, issued, late>>

(* Faulty: one attempt too many.                                           *)
AnotherTryTooMany(j, err) ==
    err \notin {"out_of_stock", "invalid"} /\ j.try <= RetryCount

(* issueWithRetry: OutOfStock and InvalidResponse end the attempts at a    *)
(* supplier, every other error is retried, and only the last one is kept.  *)
AnotherTry(j, err) ==
    err \notin {"out_of_stock", "invalid"} /\ j.try < RetryCount

(* Process: what comes after the attempts at a supplier ended with err.    *)
AfterSupplier(j, err) ==
    CASE j.provider = A /\ err \in {"unavailable", "out_of_stock"} ->
            [j EXCEPT !.pc = "send", !.provider = B, !.try = 1, !.errA = err]
      [] j.provider = B /\ err = "out_of_stock" /\ j.errA = "out_of_stock" ->
            [j EXCEPT !.pc = "out_of_stock"]
      [] OTHER -> [j EXCEPT !.pc = "fail"]

AfterError(j, err) ==
    IF AnotherTry(j, err) THEN [j EXCEPT !.pc = "send", !.try = @ + 1]
                          ELSE AfterSupplier(j, err)

Forget(j) == [j EXCEPT !.reply = "none", !.code = None]

Receive(w) ==
    /\ worker[w].pc = "call" /\ worker[w].reply # "none"
    /\ worker' = [worker EXCEPT ![w] =
                    IF @.reply = "ok" THEN [@ EXCEPT !.pc = "deliver"]
                    ELSE AfterError(Forget(@), @.reply)]
    /\ UNCHANGED <<vars, issued, late>>

(* The caller gives up on a call; the request may still be on its way.     *)
(* One that would only be told a code issued before is not kept: nobody    *)
(* hears it.                                                               *)
GiveUp(w) ==
    LET call == <<worker[w].provider, worker[w].order>>
    IN  late' = IF worker[w].reply = "none" /\ issued[call[1]][call[2]] = None
                THEN late \cup {call} ELSE late

Unsure(j) == [Forget(j) EXCEPT !.unsure = @ \/ j.provider = A]

(* The result of the call is unknown: the deadline passed (ErrProviderTime-*)
(* out), or the connection broke, which Issue reports as unavailable.      *)
Lose(w, err) ==
    /\ worker[w].pc = "call"
    /\ GiveUp(w)
    /\ worker' = [worker EXCEPT ![w] = AfterError(Unsure(@), err)]
    /\ UNCHANGED <<vars, issued>>

Timeout(w) == "timeout" \in Faults /\ Lose(w, "timeout")
NetworkError(w) == "network" \in Faults /\ Lose(w, "unavailable")

-----------------------------------------------------------------------------
(* The suppliers: issueCode of providermock/server.go.  request_id is a    *)
(* function of the order, so an order names the request.                   *)

Free(p) == Keys[p] \ {issued[p][o] : o \in Orders}

(* Faulty: a key that is issued already is issued again.                   *)
IssueAnyKey(p, o, code) ==
    IF issued[p][o] # None
    THEN code = issued[p][o] /\ UNCHANGED issued
    ELSE code \in Keys[p] /\ issued' = [issued EXCEPT ![p][o] = code]

(* The code of a request: the one issued before, else any free one.        *)
Issue(p, o, code) ==
    IF issued[p][o] # None
    THEN code = issued[p][o] /\ UNCHANGED issued
    ELSE code \in Free(p) /\ issued' = [issued EXCEPT ![p][o] = code]

Unanswered(w) == worker[w].pc = "call" /\ worker[w].reply = "none"

SupplierIssues(w) ==
    /\ Unanswered(w)
    /\ \E code \in Codes :
         /\ Issue(worker[w].provider, worker[w].order, code)
         /\ worker' = [worker EXCEPT ![w].reply = "ok", ![w].code = code]
    /\ late' = late \ {<<worker[w].provider, worker[w].order>>}
    /\ UNCHANGED vars

(* An explicit 5xx comes before a code is issued and never after; a        *)
(* supplier that fails while it commits is covered by NetworkError.        *)
SupplierRefuses(w) ==
    /\ Unanswered(w)
    /\ issued[worker[w].provider][worker[w].order] = None
    /\ worker' = [worker EXCEPT ![w].reply = "unavailable"]
    /\ UNCHANGED <<vars, issued, late>>

(* Requests of other orders at the same supplier may each hold the lock of *)
(* a free key, which SKIP LOCKED passes over.                              *)
Competing(p, o) ==
    {q \in Orders \ {o} :
        /\ issued[p][q] = None
        /\ \/ <<p, q>> \in late
           \/ \E v \in Workers : /\ Unanswered(v) /\ worker[v].order = q
                                 /\ worker[v].provider = p}

SupplierIsOut(w) ==
    /\ Unanswered(w)
    /\ LET p == worker[w].provider
           o == worker[w].order
       IN /\ issued[p][o] = None
          /\ Cardinality(Free(p)) <= Cardinality(Competing(p, o))
    /\ worker' = [worker EXCEPT ![w].reply = "out_of_stock"]
    /\ UNCHANGED <<vars, issued, late>>

(* An answer Issue does not accept, or one whose body breaks off.          *)
Garble(w) ==
    /\ "garble" \in Faults
    /\ worker[w].pc = "call" /\ worker[w].reply # "none"
    /\ \E err \in {"invalid", "broken"} :
         worker' = [worker EXCEPT ![w] = AfterError(Unsure(@), err)]
    /\ UNCHANGED <<vars, issued, late>>

HandleLate(p, o) ==
    /\ <<p, o>> \in late
    /\ late' = late \ {<<p, o>>}
    /\ UNCHANGED <<vars, worker>>
    /\ \/ \E code \in Codes : Issue(p, o, code)
       \/ UNCHANGED issued

-----------------------------------------------------------------------------
(* The end of a job: complete, fail and outOfStock.                        *)

Rest(w) == worker' = [worker EXCEPT ![w] = Resting]

(* Faulty: the row names the first supplier, whoever issued the code.      *)
CompleteAsA(w) ==
    /\ worker[w].pc = "deliver"
    /\ MarkDelivered(worker[w].order, A, worker[w].code)
    /\ Rest(w) /\ UNCHANGED <<issued, late>>

Complete(w) ==
    /\ worker[w].pc = "deliver"
    /\ MarkDelivered(worker[w].order, worker[w].provider, worker[w].code)
    /\ Rest(w) /\ UNCHANGED <<issued, late>>

Fail(w) ==
    /\ worker[w].pc = "fail"
    /\ MarkFailed(worker[w].order)
    /\ Rest(w) /\ UNCHANGED <<issued, late>>

RunOut(w) ==
    /\ worker[w].pc = "out_of_stock"
    /\ MarkOutOfStock(worker[w].order)
    /\ Rest(w) /\ UNCHANGED <<issued, late>>

(* Another worker has finished the job meanwhile: the row is delivered     *)
(* (nothing to do) or no longer processing, or the order is not being      *)
(* delivered (errors that are logged).                                     *)
FindFinished(w) ==
    /\ worker[w].pc \in Finishing
    /\ \/ attempt[worker[w].order].status # "processing"
       \/ /\ worker[w].pc = "deliver"
          /\ order[worker[w].order].status # "delivering"
    /\ Rest(w) /\ UNCHANGED <<vars, issued, late>>

(* The process stops, is shut down, or loses the database just when the    *)
(* result is to be stored: the row stays processing, a worker starts anew. *)
Crash(w) ==
    /\ "crash" \in Faults
    /\ Busy(w)
    /\ IF worker[w].pc = "call" THEN GiveUp(w) ELSE UNCHANGED late
    /\ Rest(w) /\ UNCHANGED <<vars, issued>>

-----------------------------------------------------------------------------
(* The rest of the system goes on changing the tables; Repair is left out, *)
(* it has nothing to do while no row is lost.  Only the jobs of Slow       *)
(* orders take longer than their lease of two minutes.                     *)

Shop ==
    /\ \/ \E o \in Orders, amount \in Amounts : CreateOrder(o, amount)
       \/ \E e \in Events, o \in Orders, kind \in Kinds, amount \in Amounts :
             ProcessPayment(e, o, kind, amount)
       \/ \E o \in Orders : RetryDelivery(o)
       \/ \E o \in Orders : NextAttemptDue(o)
       \/ \E o \in Orders :
            /\ o \in Slow \/ \A w \in Workers : Busy(w) => worker[w].order # o
            /\ LeaseExpires(o)
    /\ UNCHANGED workerVars

Serve(w) ==
    \/ Claim(w) \/ FindNothing(w) \/ PollAgain(w) \/ Recover(w)
    \/ Send(w) \/ Receive(w) \/ Timeout(w) \/ NetworkError(w) \/ Garble(w)
    \/ SupplierIssues(w) \/ SupplierRefuses(w) \/ SupplierIsOut(w)
    \/ Complete(w) \/ Fail(w) \/ RunOut(w) \/ FindFinished(w) \/ Crash(w)

DNext ==
    \/ Shop
    \/ \E w \in Workers : Serve(w)
    \/ \E p \in Providers, o \in Orders : HandleLate(p, o)

DSpec == DInit /\ [][DNext]_dvars
-----------------------------------------------------------------------------
(* What the workers promise.                                               *)

(* Whatever is lost, repeated, overtaken or restarted, a delivered order   *)
(* holds a code that the supplier named in its row issued for this order.  *)
DeliveredCodeWasIssued ==
    \A o \in Orders : attempt[o].status = "delivered" =>
        /\ attempt[o].code # None
        /\ attempt[o].code = issued[attempt[o].provider][o]

(* No two customers get the same code, and no supplier gives it twice.     *)
NoCodeSoldTwice ==
    \A o, q \in Orders : o # q =>
        /\ attempt[o].code # None => attempt[o].code # attempt[q].code
        /\ \A p \in Providers :
              issued[p][o] # None => issued[p][o] # issued[p][q]

(* A job that does not outlive its lease has one worker, however often     *)
(* workers crash, leases expire and recovery, retries and further payments *)
(* requeue it, and whatever happens to the jobs that do outlive theirs.    *)
OneWorkerPerJob ==
    \A w \in Workers : Busy(w) /\ worker[w].order \notin Slow =>
        /\ attempt[worker[w].order].status = "processing"
        /\ \A v \in Workers \ {w} :
              Busy(v) => worker[v].order # worker[w].order

(* With suppliers that always answer and workers that never stop, no code  *)
(* is issued in vain: it is in the hands of the one worker that delivers   *)
(* the order, or delivered.  An order that failed or ran out has cost no   *)
(* code anywhere, and supplier B is never paid for what A has issued.      *)
NoCodeIssuedInVain ==
    \A p \in Providers, o \in Orders : issued[p][o] # None =>
        \/ attempt[o].provider = p /\ attempt[o].code = issued[p][o]
        \/ \E w \in Workers : /\ worker[w].order = o /\ worker[w].provider = p
                              /\ worker[w].code = issued[p][o]

(* The promise of the README that an order is delivered exactly once, seen *)
(* from the suppliers: only one of them has issued a code for it.          *)
AtMostOneSupplierIssues ==
    \A o \in Orders : issued[A][o] = None \/ issued[B][o] = None

(* The rule of Process: once a call to A timed out, B is not asked in this *)
(* job, because A may have issued a code already.                          *)
NoFallbackAfterTimeout ==
    \A w \in Workers :
        worker[w].pc = "call" /\ worker[w].provider = B => ~worker[w].unsure

(* Time passes and workers go on with what they do.  Strong fairness says  *)
(* of a step that faults and crashes do not forestall it for ever: a job   *)
(* that is due is claimed, stale jobs are looked for by a worker that is   *)
(* idle again and again, a request is sent, a supplier issues a code, and  *)
(* the code is received and stored.                                        *)
Answer(w) == SupplierIssues(w) \/ SupplierRefuses(w) \/ SupplierIsOut(w)
Finish(w) == Fail(w) \/ RunOut(w) \/ FindFinished(w)
ReceiveCode(w) == worker[w].reply = "ok" /\ Receive(w)

Fairness ==
    /\ \A o \in Orders : /\ WF_dvars(NextAttemptDue(o) /\ Shop)
                         /\ WF_dvars(LeaseExpires(o) /\ Shop)
    /\ \A w \in Workers : /\ WF_dvars(PollAgain(w) \/ FindNothing(w))
                          /\ WF_dvars(Receive(w)) /\ WF_dvars(Answer(w))
                          /\ WF_dvars(Finish(w))
                          /\ SF_dvars(Claim(w)) /\ SF_dvars(Recover(w))
                          /\ SF_dvars(Send(w)) /\ SF_dvars(SupplierIssues(w))
                          /\ SF_dvars(ReceiveCode(w))
                          /\ SF_dvars(Complete(w))

FairDSpec == DSpec /\ Fairness

(* Every paid order is delivered in the end, through crashes, leases that  *)
(* expire, timeouts and refusals, if suppliers have codes enough.          *)
PaidIsDelivered ==
    \A o \in Orders : order[o].paid ~> (order[o].status = "delivered")

(* A job left behind by a crashed worker is recovered, as the comment on   *)
(* RecoverStaleJobs says.                                                  *)
StaleJobIsRecovered ==
    \A o \in Orders : (o \in Stale) ~> (o \notin Stale)
=============================================================================
