---------------------------- MODULE Application -----------------------------
(***************************************************************************)
(* One application process of cmd/api/main.go on the tables of Store: its  *)
(* start, its three goroutines (HTTP server, delivery worker, repair loop),*)
(* its graceful stop, and kills at any time; and what the clients of the   *)
(* HTTP server are told (httpapi/server.go, httpapi/operations.go).        *)
(***************************************************************************)
EXTENDS Store, FiniteSets

CONSTANT
    MaxOpen     \* requests the server handles at the same time

VARIABLES
    app,        \* the process: "down", "up", or "draining" after stop()
    loop,       \* RunRepairLoop: "off", "on", or "failed": returned an error
    job,        \* the job in the worker's hands
    rest,       \* the worker found nothing and waits in its select
    open,       \* the requests that have arrived and are not answered
    notice,     \* the payment system: what each of its events says
    told        \* history: the answers that reached a client

processVars == <<app, loop, job, rest, open>>
avars == <<vars, processVars, notice, told>>

Notices == [order : Orders, kind : Kinds, amount : Amounts]

Requests ==
    ({"create", "retry", "get"} \X Orders) \cup ({"pay"} \X Events)
        \cup {<<"repair", None>>}
Answers == ({"created", "delivered"} \X Orders) \cup ({"accepted"} \X Events)

ASSUME ApplicationAssumption ==
    MaxOpen \in Nat \ {0} /\ None \notin Notices

ATypeOK ==
    /\ app \in {"down", "up", "draining"}
    /\ loop \in {"off", "on", "failed"}
    /\ loop # "off" <=> app = "up"
    /\ job \in Orders \cup {None}
    /\ job # None => app = "up" /\ attempt[job].status = "processing"
    /\ rest \in BOOLEAN /\ (rest => app = "up" /\ job = None)
    /\ open \subseteq Requests /\ (app = "down" => open = {})
    /\ notice \in [Events -> Notices \cup {None}]
    /\ told \subseteq Answers

AInit ==
    /\ Init
    /\ app = "down" /\ loop = "off" /\ job = None /\ rest = FALSE /\ open = {}
    /\ notice = [e \in Events |-> None]
    /\ told = {}

-----------------------------------------------------------------------------
(* The process.                                                            *)

(* database.Open succeeds; if not, the process exits and is started again  *)
(* (restart: unless-stopped).                                              *)
Start ==
    /\ app = "down"
    /\ app' = "up" /\ loop' = "on"
    /\ UNCHANGED <<vars, job, rest, open, notice, told>>

(* Faulty: the result of the running job is thought to be stored later.    *)
StopWithJob ==
    /\ app' = "draining" /\ loop' = "off" /\ rest' = FALSE
    /\ UNCHANGED <<vars, job, open, notice, told>>

(* stop() cancels the context of worker and repair loop; nobody waits for  *)
(* them, a result can no longer be stored, and a claimed row is left       *)
(* processing.  Requests have contexts of their own.                       *)
Stop ==
    /\ app' = "draining" /\ loop' = "off" /\ job' = None /\ rest' = FALSE
    /\ UNCHANGED <<vars, open, notice, told>>

(* SIGTERM, or ListenAndServe fails.                                       *)
Interrupt == app = "up" /\ Stop

(* Faulty: main does not watch reconciliationError.                        *)
NoticeNothing == app = "up" /\ loop = "failed" /\ UNCHANGED avars

(* main's select receives the error of the repair loop.                    *)
NoticeFailure == app = "up" /\ loop = "failed" /\ Stop

(* Shutdown has waited for the open requests, or for five seconds; then    *)
(* Close cuts their connections, and their transactions roll back.         *)
Exit ==
    /\ app = "draining"
    /\ app' = "down" /\ open' = {}
    /\ UNCHANGED <<vars, loop, job, rest, notice, told>>

Kill ==
    /\ app # "down"
    /\ app' = "down" /\ loop' = "off" /\ job' = None /\ rest' = FALSE
    /\ open' = {}
    /\ UNCHANGED <<vars, notice, told>>

-----------------------------------------------------------------------------
(* The worker, one poll after another.  A poll that found nothing, or whose*)
(* query failed, is followed by the select, one that processed a job by the*)
(* next poll (continue).  Delivery has what happens between a claim and its*)
(* result.                                                                 *)

Polls == app = "up" /\ job = None /\ ~rest

WorkerClaims ==
    /\ Polls
    /\ \E o \in Orders : ClaimNextJob(o) /\ job' = o
    /\ UNCHANGED <<app, loop, rest, open, notice, told>>

(* No job is due, the rows of those that are are locked, or a query failed.*)
WorkerFindsNothing ==
    /\ Polls
    /\ rest' = TRUE
    /\ UNCHANGED <<vars, app, loop, job, open, notice, told>>

WorkerFinishes ==
    /\ app = "up" /\ job # None
    /\ \/ \E p \in Providers, c \in Codes : MarkDelivered(job, p, c)
       \/ MarkFailed(job)
       \/ MarkOutOfStock(job)
    /\ job' = None
    /\ UNCHANGED <<app, loop, rest, open, notice, told>>

(* The transaction that stores the result fails; the error is logged.      *)
WorkerDrops ==
    /\ job # None
    /\ job' = None
    /\ UNCHANGED <<vars, app, loop, rest, open, notice, told>>

(* The select receives from the recovery ticker.                           *)
WorkerRecovers ==
    /\ rest
    /\ RecoverStaleJobs
    /\ rest' = FALSE
    /\ UNCHANGED <<app, loop, job, open, notice, told>>

(* ... or from the poll timer; or the recovery failed or found nothing.    *)
WorkerPollsAgain ==
    /\ rest
    /\ rest' = FALSE
    /\ UNCHANGED <<vars, app, loop, job, open, notice, told>>

-----------------------------------------------------------------------------
(* The repair loop: at once and then with every tick, until the first error*)
(* (the database is away, or Repair was chosen to break a deadlock).       *)

LoopRepairs ==
    /\ loop = "on"
    /\ Repair
    /\ UNCHANGED <<processVars, notice, told>>

LoopFails ==
    /\ loop = "on"
    /\ loop' = "failed"
    /\ UNCHANGED <<vars, app, job, rest, open, notice, told>>

-----------------------------------------------------------------------------
(* The HTTP server.  Answers get lost.                                     *)

Tell(answer) == told' = told \/ told' = told \cup {answer}

Arrive(r) ==
    /\ app = "up"
    /\ r \notin open /\ Cardinality(open) < MaxOpen
    /\ open' = open \cup {r}
    /\ UNCHANGED <<vars, app, loop, job, rest, notice, told>>

Close(r) == /\ r \in open
            /\ open' = open \ {r}
            /\ UNCHANGED <<app, loop, job, rest, notice>>

(* 201.                                                                    *)
HandleCreate(o) ==
    /\ \E amount \in Amounts : CreateOrder(o, amount)
    /\ Close(<<"create", o>>)
    /\ Tell(<<"created", o>>)

(* Faulty: an event that is there already is an error.                     *)
HandlePaymentOnce(e) ==
    /\ ~Recorded(e)
    /\ Close(<<"pay", e>>)
    /\ ProcessPayment(e, notice[e].order, notice[e].kind, notice[e].amount)
    /\ Tell(<<"accepted", e>>)

(* Faulty: the answer does not wait for the transaction.                   *)
HandlePaymentSoon(e) ==
    /\ Close(<<"pay", e>>)
    /\ \/ ProcessPayment(e, notice[e].order, notice[e].kind, notice[e].amount)
       \/ UNCHANGED vars
    /\ Tell(<<"accepted", e>>)

(* 200, for an event that is there already as well.                        *)
HandlePayment(e) ==
    /\ Close(<<"pay", e>>)
    /\ ProcessPayment(e, notice[e].order, notice[e].kind, notice[e].amount)
    /\ Tell(<<"accepted", e>>)

HandleGet(o) ==
    /\ order[o].status = "delivered"
    /\ Close(<<"get", o>>)
    /\ Tell(<<"delivered", o>>)
    /\ UNCHANGED vars

HandleRetry(o) ==
    /\ RetryDelivery(o)
    /\ Close(<<"retry", o>>)
    /\ UNCHANGED told

HandleRepair ==
    /\ Repair
    /\ Close(<<"repair", None>>)
    /\ UNCHANGED told

(* An answer that has no part in the properties: a 400, 404 or 409, another*)
(* status, a repair that found nothing, or a 500 after a transaction that  *)
(* failed, as the second creation of an order does.                        *)
Refuse(r) ==
    /\ Close(r)
    /\ UNCHANGED <<vars, told>>

Handle ==
    \/ \E o \in Orders : HandleCreate(o) \/ HandleGet(o) \/ HandleRetry(o)
    \/ \E e \in Events : HandlePayment(e)
    \/ HandleRepair
    \/ \E r \in open : Refuse(r)

-----------------------------------------------------------------------------
(* Clients and time.                                                       *)

(* A payment is made, or fails; the payment system sends its event again   *)
(* and again, at least until it is accepted.                               *)
Pay(e) ==
    /\ notice[e] = None
    /\ \E n \in Notices : notice' = [notice EXCEPT ![e] = n]
    /\ UNCHANGED <<vars, processVars, told>>

Send(e) == notice[e] # None /\ Arrive(<<"pay", e>>)

OtherRequest == \E r \in Requests : r[1] # "pay" /\ Arrive(r)

Passing ==
    /\ \E o \in Orders : NextAttemptDue(o) \/ LeaseExpires(o) \/ LoseAttempt(o)
    /\ UNCHANGED <<processVars, notice, told>>

ANext ==
    \/ Start \/ Interrupt \/ NoticeFailure \/ Exit \/ Kill
    \/ WorkerClaims \/ WorkerFindsNothing \/ WorkerFinishes \/ WorkerDrops
    \/ WorkerRecovers \/ WorkerPollsAgain
    \/ LoopRepairs \/ LoopFails
    \/ Handle \/ OtherRequest \/ Passing
    \/ \E e \in Events : Pay(e) \/ Send(e)

(* The container is restarted, main goes on, leases grow old, and failures *)
(* do not forestall a repair, an answer, or the ticker of a worker that    *)
(* waits in its select again and again, for ever.  That the worker ever    *)
(* waits there is not granted: it may be busy with other jobs all the time.*)
(* Requests are under no deadline of the server once it drains.            *)
Accept(e) == HandlePayment(e) /\ told' = told \cup {<<"accepted", e>>}

AFairness ==
    /\ WF_avars(Start) /\ WF_avars(NoticeFailure) /\ WF_avars(Exit)
    /\ SF_avars(LoopRepairs) /\ SF_avars(WorkerRecovers)
    /\ \A o \in Orders :
          WF_avars(LeaseExpires(o) /\ UNCHANGED <<processVars, notice, told>>)
    /\ WF_avars(app = "up" /\ Handle)
    /\ \A e \in Events : SF_avars(Send(e)) /\ SF_avars(Accept(e))

ASpec == AInit /\ [][ANext]_avars /\ AFairness
-----------------------------------------------------------------------------
(* What a client was told is true and stays true, whatever is killed after *)
(* it: an order that was created exists, an accepted payment is on record  *)
(* as it was sent, and a delivered order is never anything else again.     *)
AnswersAreTrue ==
    /\ \A o \in Orders : /\ <<"created", o>> \in told => Exists(o)
                         /\ <<"delivered", o>> \in told
                              => order[o].status = "delivered"
    /\ \A e \in Events : <<"accepted", e>> \in told =>
          /\ event[e].order = notice[e].order
          /\ event[e].status = notice[e].kind
          /\ event[e].amount = notice[e].amount

(* A process whose repair loop has died does not live on without it, and   *)
(* one that is to stop does: the application comes back whole.             *)
ServiceIsRestored == (loop # "on") ~> (loop = "on")

(* A job left processing by a stop, a kill or a result that could not be   *)
(* stored is taken up again by a process that finds nothing else to do     *)
(* again and again, whatever stops it in between.                          *)
Left(o) == attempt[o].status = "processing" /\ job # o

LeftJobIsRecovered ==
    ([]<>rest) => \A o \in Orders : Left(o) ~> ~Left(o)

(* The answer to a webhook may be lost after the commit, and the process   *)
(* may die before it: the payment system is told "accepted" in the end,    *)
(* because an event on record is accepted again.                           *)
PaymentIsAccepted ==
    \A e \in Events : (notice[e] # None) ~> (<<"accepted", e>> \in told)
=============================================================================
