--------------------------- MODULE DeliveryProofs ---------------------------
(***************************************************************************)
(* The workers of Delivery change the tables by the transactions of Store  *)
(* and in no other way, for any number of workers, attempts and faults, so *)
(* what StoreProofs shows of the tables holds while they are at work; and  *)
(* a job that keeps within its lease has one worker.                       *)
(***************************************************************************)
EXTENDS Delivery, LifecycleProofs

PCs == {"poll", "idle", "send", "call"} \cup Finishing
Tries == 0..RetryCount
Replies == {"none", "ok"} \cup Errors
JobRow == [pc : PCs, order : Orders \cup {None},
           provider : Providers \cup {None}, try : Tries, reply : Replies,
           code : Codes \cup {None}, errA : {"none"} \cup Errors,
           unsure : BOOLEAN]

(* What a worker knows of its job: the order, the supplier it asks, and,   *)
(* once there is a code, the code.                                         *)
JobKnown(j) ==
    /\ j.pc \in {"send", "call"} \cup Finishing => j.order \in Orders
    /\ j.pc \in {"send", "call", "deliver"} =>
          j.provider \in Providers /\ j.try \in 1..RetryCount
    /\ j.pc = "call" /\ j.reply = "ok" => j.code \in Codes
    /\ j.pc = "deliver" => j.code \in Codes

JobsInv ==
    /\ worker \in [Workers -> JobRow]
    /\ \A w \in Workers : JobKnown(worker[w])
    /\ issued \in [Providers -> [Orders -> Codes \cup {None}]]
    /\ late \subseteq Providers \X Orders

-----------------------------------------------------------------------------

LEMMA RestingJob == Resting \in JobRow /\ JobKnown(Resting)
<1>1. 0 \in Tries
  BY DeliveryAssumption DEF Tries
<1>2. QED
  BY <1>1 DEF Resting, JobRow, JobKnown, Finishing, PCs, Replies

(* Fields that may be changed in a job.                                    *)
LEMMA JobMoves ==
    ASSUME NEW j \in JobRow, NEW pc \in PCs
    PROVE  [j EXCEPT !.pc = pc] \in JobRow
  BY DEF JobRow

LEMMA JobRetries ==
    ASSUME NEW j \in JobRow, NEW t \in Tries
    PROVE  [j EXCEPT !.pc = "send", !.try = t] \in JobRow
<1>1. "send" \in PCs
  BY DEF PCs
<1>2. QED BY <1>1 DEF JobRow

LEMMA JobTurns ==
    ASSUME NEW j \in JobRow, NEW p \in Providers, NEW t \in Tries,
           NEW err \in Errors
    PROVE  [j EXCEPT !.pc = "send", !.provider = p, !.try = t, !.errA = err]
              \in JobRow
<1>1. "send" \in PCs
  BY DEF PCs
<1>2. QED BY <1>1 DEF JobRow

(* What a job becomes when its call has failed.                            *)
LEMMA FailedCall ==
    ASSUME NEW j \in JobRow, JobKnown(j), j.pc = "call", NEW err \in Errors
    PROVE  AfterError(j, err) \in JobRow /\ JobKnown(AfterError(j, err))
<1>1. /\ RetryCount \in Nat \ {0} /\ A \in Providers /\ B \in Providers
      /\ j.order \in Orders /\ j.provider \in Providers
      /\ j.try \in 1..RetryCount
  BY DeliveryAssumption DEF JobKnown
<1>2. CASE AnotherTry(j, err)
  <2>1. j.try + 1 \in 1..RetryCount /\ j.try + 1 \in Tries /\ "send" \in PCs
    BY <1>1, <1>2 DEF AnotherTry, Tries, PCs
  <2> DEFINE again == [j EXCEPT !.pc = "send", !.try = j.try + 1]
  <2>2. AfterError(j, err) = again
    BY <1>2 DEF AfterError
  <2>3. again \in JobRow
    BY <2>1, JobRetries
  <2>a. /\ again.pc = "send" /\ again.order = j.order
        /\ again.provider = j.provider /\ again.try = j.try + 1
    BY DEF JobRow
  <2> HIDE DEF again
  <2>4. JobKnown(again)
    BY <1>1, <2>1, <2>a DEF JobKnown, Finishing
  <2>5. QED BY <2>2, <2>3, <2>4
<1>3. CASE ~AnotherTry(j, err)
  <2> DEFINE toB == [j EXCEPT !.pc = "send", !.provider = B, !.try = 1,
                              !.errA = err]
             out == [j EXCEPT !.pc = "out_of_stock"]
             fail == [j EXCEPT !.pc = "fail"]
  <2>1. AfterError(j, err) \in {toB, out, fail}
    BY <1>3 DEF AfterError, AfterSupplier
  <2>2. toB \in JobRow /\ out \in JobRow /\ fail \in JobRow
    <3>1. /\ {"send", "out_of_stock", "fail"} \subseteq PCs /\ 1 \in Tries
      BY <1>1 DEF PCs, Finishing, Tries
    <3>2. QED BY <1>1, <3>1, JobMoves, JobTurns
  <2>a. /\ toB.pc = "send" /\ toB.order = j.order
        /\ toB.provider = B /\ toB.try = 1
        /\ out.pc = "out_of_stock" /\ out.order = j.order
        /\ fail.pc = "fail" /\ fail.order = j.order
    BY DEF JobRow
  <2> HIDE DEF toB, out, fail
  <2>3. JobKnown(toB)
    BY <1>1, <2>a DEF JobKnown, Finishing
  <2>4. JobKnown(out) /\ JobKnown(fail)
    BY <1>1, <2>a DEF JobKnown, Finishing
  <2>5. QED BY <2>1, <2>2, <2>3, <2>4
<1>4. QED BY <1>2, <1>3

(* An answer that is forgotten leaves the call as it was.                  *)
LEMMA ForgottenAnswer ==
    ASSUME NEW j \in JobRow, JobKnown(j), j.pc = "call"
    PROVE  /\ Forget(j) \in JobRow /\ JobKnown(Forget(j))
           /\ Forget(j).pc = "call"
           /\ Unsure(j) \in JobRow /\ JobKnown(Unsure(j))
           /\ Unsure(j).pc = "call"
<1>1. /\ Forget(j) \in JobRow /\ Forget(j).pc = "call"
      /\ Forget(j).order = j.order /\ Forget(j).provider = j.provider
      /\ Forget(j).try = j.try /\ Forget(j).reply = "none"
  BY DEF Forget, JobRow, Replies
<1>2. /\ Unsure(j) \in JobRow /\ Unsure(j).pc = "call"
      /\ Unsure(j).order = j.order /\ Unsure(j).provider = j.provider
      /\ Unsure(j).try = j.try /\ Unsure(j).reply = "none"
  <2>1. ASSUME NEW u \in BOOLEAN
        PROVE  /\ [Forget(j) EXCEPT !.unsure = u] \in JobRow
               /\ [Forget(j) EXCEPT !.unsure = u].pc = "call"
               /\ [Forget(j) EXCEPT !.unsure = u].order = j.order
               /\ [Forget(j) EXCEPT !.unsure = u].provider = j.provider
               /\ [Forget(j) EXCEPT !.unsure = u].try = j.try
               /\ [Forget(j) EXCEPT !.unsure = u].reply = "none"
    BY <1>1 DEF JobRow
  <2>2. (Forget(j).unsure \/ j.provider = A) \in BOOLEAN
    OBVIOUS
  <2>3. Unsure(j) = [Forget(j) EXCEPT
                       !.unsure = Forget(j).unsure \/ j.provider = A]
    BY Zenon DEF Unsure
  <2>4. QED BY <2>1, <2>2, <2>3
<1>3. JobKnown(Forget(j)) /\ JobKnown(Unsure(j))
  BY <1>1, <1>2 DEF JobKnown, Finishing
<1>4. QED BY <1>1, <1>2, <1>3

(* A step of one worker that leaves it with a job it knows.                *)
LEMMA OneWorker ==
    ASSUME JobsInv, NEW w \in Workers, NEW j \in JobRow, JobKnown(j),
           worker' = [worker EXCEPT ![w] = j],
           issued' \in [Providers -> [Orders -> Codes \cup {None}]],
           late' \subseteq Providers \X Orders
    PROVE  JobsInv'
<1>1. worker' \in [Workers -> JobRow]
  BY DEF JobsInv
<1>2. ASSUME NEW v \in Workers PROVE JobKnown(worker'[v])
  BY DEF JobsInv
<1>3. QED BY <1>1, <1>2 DEF JobsInv

(* A supplier's table stays well typed, and so does the code it returns.   *)
LEMMA IssueType ==
    ASSUME issued \in [Providers -> [Orders -> Codes \cup {None}]],
           NEW p \in Providers, NEW o \in Orders, NEW code \in Codes,
           Issue(p, o, code)
    PROVE  issued' \in [Providers -> [Orders -> Codes \cup {None}]]
<1>1. CASE UNCHANGED issued
  BY <1>1
<1>2. CASE issued' = [issued EXCEPT ![p][o] = code]
  BY <1>2
<1>3. QED BY <1>1, <1>2 DEF Issue

-----------------------------------------------------------------------------

LEMMA JobsInit == DInit => JobsInv
<1>1. SUFFICES ASSUME DInit PROVE JobsInv
  OBVIOUS
<1>2. /\ worker \in [Workers -> JobRow]
      /\ \A w \in Workers : JobKnown(worker[w])
  BY <1>1, RestingJob DEF DInit
<1>3. QED BY <1>1, <1>2 DEF DInit, JobsInv

LEMMA JobsNext == JobsInv /\ [DNext]_dvars => JobsInv'
<1>1. SUFFICES ASSUME JobsInv, [DNext]_dvars PROVE JobsInv'
  OBVIOUS
<1>2. /\ worker \in [Workers -> JobRow]
      /\ \A w \in Workers : worker[w] \in JobRow /\ JobKnown(worker[w])
      /\ issued \in [Providers -> [Orders -> Codes \cup {None}]]
      /\ late \subseteq Providers \X Orders
      /\ A \in Providers /\ 1 \in 1..RetryCount /\ 1 \in Tries
  BY <1>1, DeliveryAssumption DEF JobsInv, Tries
<1>3. CASE UNCHANGED workerVars
  BY <1>1, <1>3 DEF JobsInv, workerVars
<1>4. ASSUME NEW w \in Workers, worker' = [worker EXCEPT ![w] = Resting],
             UNCHANGED issued, late' \subseteq Providers \X Orders
      PROVE  JobsInv'
  BY <1>1, <1>2, <1>4, OneWorker, RestingJob
<1>5. ASSUME NEW w \in Workers, Claim(w) PROVE JobsInv'
  <2>1. PICK o \in Orders :
           worker' = [worker EXCEPT ![w] =
                        [Resting EXCEPT !.pc = "send", !.order = o,
                                        !.provider = A, !.try = 1]]
    BY <1>5 DEF Claim
  <2> DEFINE j == [Resting EXCEPT !.pc = "send", !.order = o,
                                  !.provider = A, !.try = 1]
  <2>2. j \in JobRow
    BY <1>2, RestingJob DEF JobRow, PCs
  <2>3. /\ j.pc = "send" /\ j.order = o /\ j.provider = A /\ j.try = 1
    BY DEF Resting
  <2> HIDE DEF j
  <2>4. JobKnown(j)
    BY <1>2, <2>3 DEF JobKnown, Finishing
  <2>5. worker' = [worker EXCEPT ![w] = j]
    BY <2>1 DEF j
  <2>6. QED BY <1>1, <1>2, <1>5, <2>2, <2>4, <2>5, OneWorker DEF Claim
<1>6. ASSUME NEW w \in Workers, FindNothing(w) \/ PollAgain(w) \/ Recover(w)
      PROVE  JobsInv'
  <2>1. PICK pc \in {"poll", "idle"} :
           worker' = [worker EXCEPT ![w].pc = pc]
    BY <1>6 DEF FindNothing, PollAgain, Recover
  <2> DEFINE j == [worker[w] EXCEPT !.pc = pc]
  <2>2. j \in JobRow
    BY <1>2, JobMoves DEF PCs
  <2>3. j.pc = pc
    BY <1>2 DEF JobRow
  <2>4. worker' = [worker EXCEPT ![w] = j]
    BY <2>1
  <2> HIDE DEF j
  <2>5. JobKnown(j)
    BY <2>1, <2>3 DEF JobKnown, Finishing
  <2>6. QED BY <1>1, <1>2, <1>6, <2>2, <2>4, <2>5, OneWorker
            DEF FindNothing, PollAgain, Recover
<1>7. ASSUME NEW w \in Workers, Send(w) PROVE JobsInv'
  <2> DEFINE j == [worker[w] EXCEPT !.pc = "call", !.reply = "none",
                                    !.code = None]
  <2>1. j \in JobRow
    BY <1>2 DEF JobRow, PCs, Replies
  <2>2. /\ j.pc = "call" /\ j.reply = "none" /\ j.order = worker[w].order
        /\ j.provider = worker[w].provider /\ j.try = worker[w].try
    BY <1>2 DEF JobRow
  <2>3. worker' = [worker EXCEPT ![w] = j]
    BY <1>7 DEF Send
  <2> HIDE DEF j
  <2>4. JobKnown(j)
    BY <1>2, <1>7, <2>2 DEF JobKnown, Finishing, Send
  <2>5. QED BY <1>1, <1>2, <1>7, <2>1, <2>3, <2>4, OneWorker DEF Send
<1>8. ASSUME NEW w \in Workers, Receive(w) PROVE JobsInv'
  <2>1. worker[w].pc = "call" /\ worker[w].reply # "none"
    BY <1>8 DEF Receive
  <2>2. CASE worker[w].reply = "ok"
    <3> DEFINE j == [worker[w] EXCEPT !.pc = "deliver"]
    <3>1. j \in JobRow
      BY <1>2, JobMoves DEF PCs, Finishing
    <3>2. /\ j.pc = "deliver" /\ j.order = worker[w].order
          /\ j.provider = worker[w].provider /\ j.try = worker[w].try
          /\ j.code = worker[w].code
      BY <1>2 DEF JobRow
    <3>3. worker' = [worker EXCEPT ![w] = j]
      BY <1>8, <2>2 DEF Receive
    <3> HIDE DEF j
    <3>4. JobKnown(j)
      BY <1>2, <2>1, <2>2, <3>2 DEF JobKnown, Finishing
    <3>5. QED BY <1>1, <1>2, <1>8, <3>1, <3>3, <3>4, OneWorker DEF Receive
  <2>3. CASE worker[w].reply # "ok"
    <3>1. PICK err \in Errors : err = worker[w].reply
      BY <1>2, <2>1, <2>3 DEF JobRow, Replies
    <3>2. PICK f \in JobRow : /\ f = Forget(worker[w]) /\ JobKnown(f)
                              /\ f.pc = "call"
      BY <1>2, <2>1, ForgottenAnswer
    <3>3. worker' = [worker EXCEPT ![w] = AfterError(f, err)]
      BY <1>8, <2>3, <3>1, <3>2 DEF Receive
    <3>4. PICK j \in JobRow : j = AfterError(f, err) /\ JobKnown(j)
      BY <3>2, FailedCall
    <3>5. QED BY <1>1, <1>2, <1>8, <3>3, <3>4, OneWorker DEF Receive
  <2>4. QED BY <2>2, <2>3
<1>9. ASSUME NEW w \in Workers, worker[w].pc = "call", NEW err \in Errors,
             worker' = [worker EXCEPT ![w] = AfterError(Unsure(@), err)],
             UNCHANGED issued, late' \subseteq Providers \X Orders
      PROVE  JobsInv'
  <2>1. PICK f \in JobRow : /\ f = Unsure(worker[w]) /\ JobKnown(f)
                            /\ f.pc = "call"
    BY <1>2, <1>9, ForgottenAnswer
  <2>2. PICK j \in JobRow : j = AfterError(f, err) /\ JobKnown(j)
    BY <2>1, FailedCall
  <2>3. QED BY <1>1, <1>2, <1>9, <2>1, <2>2, OneWorker
<1>10. ASSUME NEW w \in Workers, worker[w].pc = "call", GiveUp(w)
       PROVE  late' \subseteq Providers \X Orders
  <2>1. worker[w].provider \in Providers /\ worker[w].order \in Orders
    BY <1>2, <1>10 DEF JobKnown
  <2>2. QED BY <1>2, <1>10, <2>1 DEF GiveUp
<1>11. ASSUME NEW w \in Workers, Timeout(w) \/ NetworkError(w) PROVE JobsInv'
  <2>1. PICK err \in {"timeout", "unavailable"} : Lose(w, err)
    BY <1>11 DEF Timeout, NetworkError
  <2>2. err \in Errors /\ worker[w].pc = "call" /\ GiveUp(w)
    BY <2>1 DEF Errors, Lose
  <2>3. late' \subseteq Providers \X Orders
    BY <2>2, <1>10
  <2>4. QED BY <1>9, <2>1, <2>2, <2>3 DEF Lose
<1>12. ASSUME NEW w \in Workers, Garble(w) PROVE JobsInv'
  <2>1. PICK err \in {"invalid", "broken"} :
           worker' = [worker EXCEPT ![w] = AfterError(Unsure(@), err)]
    BY <1>12 DEF Garble
  <2>2. err \in Errors
    BY DEF Errors
  <2>3. QED BY <1>2, <1>9, <1>12, <2>1, <2>2 DEF Garble
<1>13. ASSUME NEW w \in Workers, SupplierIssues(w) PROVE JobsInv'
  <2>1. PICK code \in Codes :
           /\ Issue(worker[w].provider, worker[w].order, code)
           /\ worker' = [worker EXCEPT ![w].reply = "ok", ![w].code = code]
    BY <1>13 DEF SupplierIssues
  <2>2. worker[w].pc = "call"
    BY <1>13 DEF SupplierIssues, Unanswered
  <2>3. worker[w].provider \in Providers /\ worker[w].order \in Orders
    BY <1>2, <2>2 DEF JobKnown
  <2>4. issued' \in [Providers -> [Orders -> Codes \cup {None}]]
    BY <1>2, <2>1, <2>3, IssueType
  <2> DEFINE j == [worker[w] EXCEPT !.reply = "ok", !.code = code]
  <2>5. j \in JobRow
    BY <1>2 DEF JobRow, Replies
  <2>6. /\ j.pc = "call" /\ j.code = code /\ j.order = worker[w].order
        /\ j.provider = worker[w].provider /\ j.try = worker[w].try
    BY <1>2, <2>2 DEF JobRow
  <2>7. worker' = [worker EXCEPT ![w] = j]
    BY <2>1
  <2> HIDE DEF j
  <2>8. JobKnown(j)
    BY <1>2, <2>2, <2>6 DEF JobKnown, Finishing
  <2>9. QED BY <1>1, <1>2, <1>13, <2>4, <2>5, <2>7, <2>8, OneWorker
            DEF SupplierIssues
<1>14. ASSUME NEW w \in Workers, SupplierRefuses(w) \/ SupplierIsOut(w)
       PROVE  JobsInv'
  <2>1. PICK err \in {"unavailable", "out_of_stock"} :
           worker' = [worker EXCEPT ![w].reply = err]
    BY <1>14 DEF SupplierRefuses, SupplierIsOut
  <2>2. worker[w].pc = "call"
    BY <1>14 DEF SupplierRefuses, SupplierIsOut, Unanswered
  <2> DEFINE j == [worker[w] EXCEPT !.reply = err]
  <2>3. j \in JobRow
    BY <1>2 DEF JobRow, Replies, Errors
  <2>4. /\ j.pc = "call" /\ j.reply # "ok" /\ j.order = worker[w].order
        /\ j.provider = worker[w].provider /\ j.try = worker[w].try
    BY <1>2, <2>2 DEF JobRow
  <2>5. worker' = [worker EXCEPT ![w] = j]
    BY <2>1
  <2> HIDE DEF j
  <2>6. JobKnown(j)
    BY <1>2, <2>2, <2>4 DEF JobKnown, Finishing
  <2>7. QED BY <1>1, <1>2, <1>14, <2>3, <2>5, <2>6, OneWorker
            DEF SupplierRefuses, SupplierIsOut
<1>15. ASSUME NEW w \in Workers,
              Complete(w) \/ Fail(w) \/ RunOut(w) \/ FindFinished(w)
       PROVE  JobsInv'
  BY <1>2, <1>4, <1>15 DEF Complete, Fail, RunOut, FindFinished, Rest
<1>16. ASSUME NEW w \in Workers, Crash(w) PROVE JobsInv'
  <2>1. late' \subseteq Providers \X Orders
    BY <1>2, <1>10, <1>16 DEF Crash
  <2>2. QED BY <1>4, <1>16, <2>1 DEF Crash, Rest
<1>17. ASSUME NEW p \in Providers, NEW o \in Orders, HandleLate(p, o)
       PROVE  JobsInv'
  <2>1. issued' \in [Providers -> [Orders -> Codes \cup {None}]]
    BY <1>2, <1>17, IssueType DEF HandleLate
  <2>2. QED BY <1>1, <1>17, <2>1 DEF JobsInv, HandleLate
<1>18. CASE Shop
  BY <1>3, <1>18 DEF Shop
<1>19. CASE UNCHANGED dvars
  BY <1>3, <1>19 DEF dvars
<1>20. ASSUME NEW w \in Workers, Serve(w) PROVE JobsInv'
  BY <1>5, <1>6, <1>7, <1>8, <1>11, <1>12, <1>13, <1>14, <1>15, <1>16, <1>20
     DEF Serve
<1>21. QED BY <1>1, <1>17, <1>18, <1>19, <1>20 DEF DNext

(* What the workers know is always of the type the code gives it.          *)
LEMMA JobsType == JobsInv => DTypeOK
  BY DEF JobsInv, DTypeOK, JobRow, PCs, Tries, Replies

THEOREM WorkersTypeCorrect == DSpec => []DTypeOK
<1>1. QED BY JobsInit, JobsNext, JobsType, PTL DEF DSpec

-----------------------------------------------------------------------------

(* A worker stores a code of a supplier; every other step of the workers,  *)
(* the suppliers and the shop is another transaction of Store, or none.    *)
LEMMA QuietOrComplete ==
    JobsInv /\ [DNext]_dvars => Quiet \/ \E w \in Workers : Complete(w)
<1>1. SUFFICES ASSUME JobsInv, [DNext]_dvars,
                      \A w \in Workers : ~Complete(w)
               PROVE  Quiet
  OBVIOUS
<1>2. CASE Shop
  BY <1>2 DEF Shop, Quiet
<1>3. ASSUME NEW w \in Workers, Serve(w) PROVE Quiet
  <2>1. CASE Claim(w) \/ Recover(w)
    BY <2>1 DEF Claim, Recover, Quiet
  <2>2. CASE Fail(w) \/ RunOut(w)
    <3>1. PICK o \in Orders : MarkFailed(o) \/ MarkOutOfStock(o)
      BY <1>1, <2>2 DEF JobsInv, JobKnown, Finishing, Fail, RunOut
    <3>2. QED BY <3>1 DEF Quiet
  <2>3. CASE FindNothing(w) \/ PollAgain(w) \/ Send(w) \/ Receive(w)
    BY <2>3 DEF FindNothing, PollAgain, Send, Receive, Quiet
  <2>4. CASE Timeout(w) \/ NetworkError(w) \/ Garble(w)
    BY <2>4 DEF Timeout, NetworkError, Garble, Lose, Quiet
  <2>5. CASE SupplierIssues(w) \/ SupplierRefuses(w) \/ SupplierIsOut(w)
    BY <2>5 DEF SupplierIssues, SupplierRefuses, SupplierIsOut, Quiet
  <2>6. CASE FindFinished(w) \/ Crash(w)
    BY <2>6 DEF FindFinished, Crash, Quiet
  <2>7. QED
    BY <1>1, <1>3, <2>1, <2>2, <2>3, <2>4, <2>5, <2>6 DEF Serve
<1>4. CASE UNCHANGED dvars
  BY <1>4 DEF dvars, Quiet
<1>5. CASE \E p \in Providers, o \in Orders : HandleLate(p, o)
  BY <1>5 DEF HandleLate, Quiet
<1>6. QED BY <1>1, <1>2, <1>3, <1>4, <1>5 DEF DNext

LEMMA StepOnTables == JobsInv /\ [DNext]_dvars => [Next]_vars
<1>1. SUFFICES ASSUME JobsInv, [DNext]_dvars PROVE [Next]_vars
  OBVIOUS
<1>2. CASE Quiet
  BY <1>2 DEF Quiet, Next
<1>3. ASSUME NEW w \in Workers, Complete(w) PROVE [Next]_vars
  <2>1. PICK o \in Orders, p \in Providers, c \in Codes :
           MarkDelivered(o, p, c)
    BY <1>1, <1>3 DEF JobsInv, JobKnown, Complete, Finishing
  <2>2. QED BY <2>1 DEF Next
<1>4. QED BY <1>1, <1>2, <1>3, QuietOrComplete

(* Workers and suppliers at work implement the tables of Store: nothing    *)
(* they do, and nothing that happens to them, is outside its transactions. *)
THEOREM WorkersUseTables == DSpec => Spec
<1>1. DInit => Init
  BY DEF DInit
<1>2. QED BY <1>1, JobsInit, JobsNext, StepOnTables, PTL DEF DSpec, Spec

(* What StoreProofs shows of the tables therefore holds while they work:   *)
(* the books agree, and a delivered row is rewritten by nobody.            *)
THEOREM LedgerUnderWorkers == DSpec => []LedgerAgreement
<1>1. QED BY WorkersUseTables, LedgerCorrect, PTL

(* The order moves along the status graph and gets one code at most.       *)
THEOREM LifecycleUnderWorkers == DSpec => ImplementsLifecycle
<1>1. QED BY WorkersUseTables, TablesImplementLifecycle

(* The second result of a job that two workers ended up with changes       *)
(* nothing.                                                                *)
THEOREM DeliveredFinalUnderWorkers == DSpec => DeliveredIsFinal
<1>1. QED BY WorkersUseTables, DeliveredFinal

(* Nor does it come to statuses that contradict each other, ...            *)
THEOREM StatusesUnderWorkers == DSpec => []StatusAgreement
<1>1. QED BY WorkersUseTables, StatusesCorrect

(* ... or to a paid order that nobody will ever deliver because it has no  *)
(* job that is scheduled or leased.                                        *)
THEOREM JobsUnderWorkers == DSpec => []PaidOrderHasJob
<1>1. QED BY WorkersUseTables, JobsCorrect

-----------------------------------------------------------------------------
(* Why a job has one worker: the row is processing under a fresh lease for *)
(* as long as a worker is busy with it, and everything that could hand the *)
(* job to another worker needs a row that is not.  The lease is a matter   *)
(* of time: what is proved is about the jobs that do not take longer.      *)
BusyJob(j) == j.pc \in {"send", "call"} \cup Finishing

Leased(a) == a.status = "processing" /\ a.lease = "fresh"

(* Busy with a job that does not outlive its lease.                        *)
InTime(w) == Busy(w) /\ worker[w].order \notin Slow

LeaseInv ==
    \A w \in Workers : InTime(w) =>
        /\ Leased(attempt[worker[w].order])
        /\ \A v \in Workers \ {w} :
              Busy(v) => worker[v].order # worker[w].order

LInv == IInv /\ JobsInv /\ LeaseInv

-----------------------------------------------------------------------------
(* A step after which nobody is busy with another job than before, and     *)
(* every job somebody is still busy with is leased.                        *)
LEMMA NoNewJob ==
    ASSUME LeaseInv,
           \A v \in Workers : Busy(v)' =>
               Busy(v) /\ worker'[v].order = worker[v].order,
           \A v \in Workers : InTime(v)' => Leased(attempt'[worker[v].order])
    PROVE  LeaseInv'
  BY DEF LeaseInv, Leased, InTime

(* A failed call is still a call for the same order.                       *)
LEMMA SameOrder ==
    ASSUME NEW j \in JobRow, NEW err
    PROVE  /\ AfterError(j, err).order = j.order
           /\ Forget(j).order = j.order
           /\ Unsure(j).order = j.order
<1>1. AfterError(j, err).order = j.order
  BY DEF AfterError, AfterSupplier, JobRow
<1>2. Forget(j).order = j.order
  BY DEF Forget, JobRow
<1>3. Unsure(j).order = Forget(j).order
  BY DEF Unsure, Forget, JobRow
<1>4. QED BY <1>1, <1>2, <1>3

(* A running job whose lease is fresh is left alone by the shop.           *)
LEMMA ShopKeepsLease ==
    ASSUME LInv, Shop, NEW w \in Workers, InTime(w)
    PROVE  Leased(attempt'[worker[w].order])
<1> DEFINE o == worker[w].order
<1>1. /\ o \in Orders /\ Leased(attempt[o]) /\ attempt \in [Orders -> AttemptRow]
      /\ RowsInv /\ JobsInv
  BY TypeRows DEF LInv, LeaseInv, JobsInv, JobKnown, Busy, InTime, IInv
<1> HIDE DEF o
<1>2. order[o].status = "delivering"
  BY <1>1, RunningJob DEF Leased
<1>a. ASSUME attempt'[o].status = attempt[o].status,
             attempt'[o].lease = attempt[o].lease
      PROVE  Leased(attempt'[o])
  BY <1>1, <1>a DEF Leased
<1>3. ASSUME NEW q \in Orders, NEW amount \in Amounts, CreateOrder(q, amount)
      PROVE  Leased(attempt'[o])
  <2>1. q # o
    BY <1>2, <1>3 DEF CreateOrder, Exists
  <2>2. attempt'[o] = attempt[o]
    BY <1>1, <1>3, <2>1 DEF CreateOrder, ApplyPayment
  <2>3. QED BY <1>a, <2>2
<1>4. ASSUME NEW e \in Events, NEW q \in Orders, NEW kind \in Kinds,
             NEW amount \in Amounts, ProcessPayment(e, q, kind, amount)
      PROVE  Leased(attempt'[o])
  <2>1. AttemptAfter(order[o], attempt[o], kind) = attempt[o]
    BY <1>1 DEF AttemptAfter, UpsertAttempt, Idle, Leased
  <2>2. attempt'[o] = attempt[o]
    BY <1>1, <1>4, <2>1 DEF ProcessPayment, ApplyPayment, vars
  <2>3. QED BY <1>a, <2>2
<1>5. ASSUME NEW q \in Orders, RetryDelivery(q) PROVE Leased(attempt'[o])
  <2>1. attempt[q].status # "processing"
    BY <1>5 DEF RetryDelivery, Idle
  <2>2. attempt'[o] = attempt[o]
    BY <1>1, <1>5, <2>1 DEF RetryDelivery, Leased
  <2>3. QED BY <1>a, <2>2
<1>6. ASSUME NEW q \in Orders, NextAttemptDue(q) PROVE Leased(attempt'[o])
  <2>1. /\ attempt'[o].status = attempt[o].status
        /\ attempt'[o].lease = attempt[o].lease
    BY <1>1, <1>6 DEF NextAttemptDue, AttemptRow
  <2>2. QED BY <1>a, <2>1
<1>7. ASSUME NEW q \in Orders, LeaseExpires(q),
             q \in Slow \/ \A v \in Workers : Busy(v) => worker[v].order # q
      PROVE  Leased(attempt'[o])
  <2>1. q # o
    BY <1>7 DEF o, InTime
  <2>2. attempt'[o] = attempt[o]
    BY <1>1, <1>7, <2>1 DEF LeaseExpires
  <2>3. QED BY <1>a, <2>2
<1>8. QED BY <1>3, <1>4, <1>5, <1>6, <1>7 DEF Shop, o

-----------------------------------------------------------------------------

LEMMA LeaseNext ==
    ASSUME LInv, [DNext]_dvars
    PROVE  LeaseInv'
<1>1. /\ worker \in [Workers -> JobRow] /\ LeaseInv
      /\ \A v \in Workers : worker[v] \in JobRow /\ JobKnown(worker[v])
      /\ \A v \in Workers : Busy(v) => worker[v].order \in Orders
      /\ attempt \in [Orders -> AttemptRow]
  BY TypeRows DEF LInv, JobsInv, IInv, Busy, JobKnown
<1>2. CASE Shop
  <2>1. UNCHANGED worker
    BY <1>2 DEF Shop, workerVars
  <2>2. ASSUME NEW v \in Workers, InTime(v)'
        PROVE  Leased(attempt'[worker[v].order])
    <3>1. InTime(v)
      BY <2>1, <2>2 DEF InTime, Busy
    <3>2. QED BY <1>2, <3>1, ShopKeepsLease
  <2>3. QED BY <1>1, <2>1, <2>2, NoNewJob DEF Busy
<1>3. ASSUME UNCHANGED attempt,
             \A v \in Workers : Busy(v)' =>
                 Busy(v) /\ worker'[v].order = worker[v].order
      PROVE  LeaseInv'
  <2>1. \A v \in Workers : InTime(v)' => InTime(v)
    BY <1>3 DEF InTime
  <2>2. \A v \in Workers : InTime(v)' => Leased(attempt'[worker[v].order])
    BY <1>1, <1>3, <2>1 DEF Leased, LeaseInv
  <2>3. QED BY <1>1, <1>3, <2>2, NoNewJob
<1>4. CASE \/ UNCHANGED dvars
           \/ \E p \in Providers, o \in Orders : HandleLate(p, o)
  <2>1. UNCHANGED <<attempt, worker>>
    BY <1>4 DEF dvars, vars, workerVars, HandleLate
  <2>2. QED BY <1>3, <2>1 DEF Busy
<1>5. ASSUME NEW w \in Workers, Claim(w) PROVE LeaseInv'
  <2>1. PICK o \in Orders :
           /\ ClaimNextJob(o)
           /\ worker' = [worker EXCEPT ![w] =
                           [Resting EXCEPT !.pc = "send", !.order = o,
                                           !.provider = A, !.try = 1]]
    BY <1>5 DEF Claim
  <2>2. Leased(attempt'[o]) /\ attempt[o].status # "processing"
    BY <1>1, <2>1 DEF ClaimNextJob, Leased, Idle, AttemptRow
  <2>3. \A q \in Orders \ {o} : attempt'[q] = attempt[q]
    BY <1>1, <2>1 DEF ClaimNextJob
  <2>4. worker'[w].order = o /\ \A v \in Workers \ {w} : worker'[v] = worker[v]
    BY <1>1, <2>1 DEF Resting
  <2>5. \A v \in Workers \ {w} : Busy(v)' => Busy(v)
    BY <2>4 DEF Busy
  <2>6. ASSUME NEW v \in Workers, InTime(v), worker[v].order = o PROVE FALSE
    BY <1>1, <2>2, <2>6 DEF LeaseInv, Leased
  <2>7. ASSUME NEW u \in Workers, InTime(u)'
        PROVE  /\ Leased(attempt'[worker'[u].order])
               /\ \A v \in Workers \ {u} :
                     Busy(v)' => worker'[v].order # worker'[u].order
    <3>1. CASE u = w
      <4>1. o \notin Slow
        BY <2>4, <2>7, <3>1 DEF InTime
      <4>2. ASSUME NEW v \in Workers \ {w}, Busy(v)'
            PROVE  worker'[v].order # o
        BY <2>4, <2>5, <2>6, <4>1, <4>2 DEF InTime
      <4>3. QED BY <2>2, <2>4, <3>1, <4>2 DEF Leased
    <3>2. CASE u # w
      <4>1. InTime(u) /\ worker'[u] = worker[u]
        BY <2>4, <2>5, <2>7, <3>2 DEF InTime
      <4>2. /\ worker[u].order \in Orders \ {o}
            /\ Leased(attempt'[worker[u].order])
        BY <1>1, <2>3, <2>6, <4>1 DEF LeaseInv, Leased, InTime
      <4>3. ASSUME NEW v \in Workers \ {u}, Busy(v)'
            PROVE  worker'[v].order # worker'[u].order
        <5>1. CASE v = w
          BY <2>4, <4>1, <4>2, <5>1
        <5>2. CASE v # w
          BY <1>1, <2>4, <2>5, <4>1, <4>3, <5>2 DEF LeaseInv
        <5>3. QED BY <5>1, <5>2
      <4>4. QED BY <4>1, <4>2, <4>3 DEF Leased
    <3>3. QED BY <3>1, <3>2
  <2>8. QED BY <2>7 DEF LeaseInv, Leased
<1>6. ASSUME NEW w \in Workers, UNCHANGED attempt, NEW j,
             worker' = [worker EXCEPT ![w] = j],
             BusyJob(j) => Busy(w) /\ j.order = worker[w].order
      PROVE  LeaseInv'
  <2>1. ASSUME NEW v \in Workers, Busy(v)'
        PROVE  Busy(v) /\ worker'[v].order = worker[v].order
    BY <1>1, <1>6, <2>1 DEF Busy, BusyJob
  <2>2. QED BY <1>3, <1>6, <2>1
<1>7. ASSUME NEW w \in Workers, FindNothing(w) \/ PollAgain(w)
      PROVE  LeaseInv'
  <2>1. PICK pc \in {"poll", "idle"} :
           worker' = [worker EXCEPT ![w] = [@ EXCEPT !.pc = pc]]
    BY <1>7 DEF FindNothing, PollAgain
  <2>2. PICK j : j = [worker[w] EXCEPT !.pc = pc]
    OBVIOUS
  <2>3. ~BusyJob(j)
    BY <1>1, <2>1, <2>2 DEF BusyJob, Finishing, JobRow
  <2>4. QED BY <1>6, <1>7, <2>1, <2>2, <2>3
            DEF FindNothing, PollAgain, vars
<1>8. ASSUME NEW w \in Workers, Recover(w) PROVE LeaseInv'
  <2>1. \A v \in Workers : Busy(v)' => Busy(v) /\ worker'[v] = worker[v]
    BY <1>1, <1>8 DEF Recover, Busy, Finishing, JobRow
  <2>2. \A q \in Orders : Leased(attempt[q]) => attempt'[q] = attempt[q]
    BY <1>8 DEF Recover, RecoverStaleJobs, RecoverRows, Stale, Leased
  <2>3. \A v \in Workers : InTime(v)' => Leased(attempt'[worker[v].order])
    BY <1>1, <2>1, <2>2 DEF LeaseInv, Leased, InTime
  <2>4. QED BY <1>1, <2>1, <2>3, NoNewJob
<1>9. ASSUME NEW w \in Workers, Send(w) PROVE LeaseInv'
  <2>1. PICK j : j = [worker[w] EXCEPT !.pc = "call", !.reply = "none",
                                       !.code = None]
    OBVIOUS
  <2>2. j.order = worker[w].order
    BY <1>1, <2>1 DEF JobRow
  <2>3. Busy(w) /\ worker' = [worker EXCEPT ![w] = j]
    BY <1>9, <2>1 DEF Send, Busy
  <2>4. QED BY <1>6, <1>9, <2>2, <2>3 DEF Send, vars
<1>10. ASSUME NEW w \in Workers, Receive(w) PROVE LeaseInv'
  <2>1. Busy(w) /\ worker[w].pc = "call"
    BY <1>10 DEF Receive, Busy
  <2>2. PICK f \in JobRow : f = Forget(worker[w]) /\ f.order = worker[w].order
    BY <1>1, <2>1, ForgottenAnswer, SameOrder
  <2>3. PICK j : j = IF worker[w].reply = "ok"
                     THEN [worker[w] EXCEPT !.pc = "deliver"]
                     ELSE AfterError(f, worker[w].reply)
    OBVIOUS
  <2>4. j.order = worker[w].order
    BY <1>1, <2>2, <2>3, SameOrder DEF JobRow
  <2>5. worker' = [worker EXCEPT ![w] = j]
    BY <1>10, <2>2, <2>3 DEF Receive
  <2>6. QED BY <1>6, <1>10, <2>1, <2>4, <2>5 DEF Receive, vars
<1>11. ASSUME NEW w \in Workers, Timeout(w) \/ NetworkError(w) \/ Garble(w)
       PROVE  LeaseInv'
  <2>1. PICK err : worker' = [worker EXCEPT ![w] = AfterError(Unsure(@), err)]
    BY <1>11 DEF Timeout, NetworkError, Lose, Garble
  <2>2. Busy(w) /\ worker[w].pc = "call" /\ UNCHANGED attempt
    BY <1>11 DEF Timeout, NetworkError, Lose, Garble, Busy, vars
  <2>3. PICK f \in JobRow : f = Unsure(worker[w]) /\ f.order = worker[w].order
    BY <1>1, <2>2, ForgottenAnswer, SameOrder
  <2>4. PICK j : j = AfterError(f, err) /\ j.order = worker[w].order
    BY <2>3, SameOrder
  <2>5. worker' = [worker EXCEPT ![w] = j]
    BY <2>1, <2>3, <2>4
  <2>6. QED BY <1>6, <2>2, <2>4, <2>5
<1>12. ASSUME NEW w \in Workers,
              SupplierIssues(w) \/ SupplierRefuses(w) \/ SupplierIsOut(w)
       PROVE  LeaseInv'
  <2>1. /\ UNCHANGED attempt
        /\ \A v \in Workers : /\ worker'[v].pc = worker[v].pc
                              /\ worker'[v].order = worker[v].order
    BY <1>1, <1>12 DEF SupplierIssues, SupplierRefuses, SupplierIsOut, vars,
                       JobRow
  <2>2. QED BY <1>3, <2>1 DEF Busy
<1>13. ASSUME NEW w \in Workers, Complete(w) \/ Fail(w) \/ RunOut(w)
       PROVE  LeaseInv'
  <2>1. /\ worker' = [worker EXCEPT ![w] = Resting] /\ Busy(w)
        /\ worker[w].order \in Orders
    BY <1>1, <1>13 DEF Complete, Fail, RunOut, Rest, Busy, Finishing
  <2>2. \A q \in Orders \ {worker[w].order} : attempt'[q] = attempt[q]
    BY <1>1, <1>13 DEF Complete, Fail, RunOut, MarkDelivered, MarkFailed,
                       MarkOutOfStock, MarkRecoverableFailure
  <2>3. \A v \in Workers : Busy(v)' =>
           v # w /\ worker'[v] = worker[v] /\ Busy(v)
    BY <1>1, <2>1 DEF Busy, Resting, Finishing
  <2>4. ASSUME NEW v \in Workers, InTime(v)'
        PROVE  Leased(attempt'[worker[v].order])
    <3>1. v # w /\ InTime(v)
      BY <2>3, <2>4 DEF InTime
    <3>2. /\ worker[v].order \in Orders \ {worker[w].order}
          /\ Leased(attempt[worker[v].order])
      BY <1>1, <2>1, <3>1 DEF LeaseInv, InTime
    <3>3. QED BY <2>2, <3>2 DEF Leased
  <2>5. QED BY <1>1, <2>3, <2>4, NoNewJob
<1>14. ASSUME NEW w \in Workers, FindFinished(w) \/ Crash(w) PROVE LeaseInv'
  <2>1. PICK j : j = Resting
    OBVIOUS
  <2>2. ~BusyJob(j)
    BY <2>1 DEF BusyJob, Resting, Finishing
  <2>3. worker' = [worker EXCEPT ![w] = j] /\ UNCHANGED attempt
    BY <1>14, <2>1 DEF FindFinished, Crash, Rest, vars
  <2>4. QED BY <1>6, <2>2, <2>3
<1>15. ASSUME NEW w \in Workers, Serve(w) PROVE LeaseInv'
  BY <1>5, <1>7, <1>8, <1>9, <1>10, <1>11, <1>12, <1>13, <1>14, <1>15
     DEF Serve
<1>16. QED BY <1>2, <1>4, <1>15 DEF DNext

(* No two workers work on a job that does not outlive its lease, however   *)
(* often workers crash and jobs are recovered, retried and paid.           *)
THEOREM JobsHaveOneWorker == DSpec => []OneWorkerPerJob
<1>1. DInit => LInv
  <2>1. SUFFICES ASSUME DInit PROVE LeaseInv
    BY RowsInit, JobsInit DEF DInit, LInv
  <2>2. QED BY <2>1 DEF DInit, LeaseInv, InTime, Busy, Resting, Finishing
<1>2. LInv /\ [DNext]_dvars => LInv'
  BY LeaseNext, JobsNext, StepOnTables, TypeNext, RowsNext DEF LInv, IInv
<1>3. LInv => OneWorkerPerJob
  BY DEF LInv, LeaseInv, InTime, Leased, OneWorkerPerJob
<1>4. QED BY <1>1, <1>2, <1>3, PTL DEF DSpec
=============================================================================
