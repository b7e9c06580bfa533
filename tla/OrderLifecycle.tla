--------------------------- MODULE OrderLifecycle ---------------------------
(***************************************************************************)
(* What the shop promises about one order, whatever transactions, workers  *)
(* and retries bring it about: the status graph of the README, a code that *)
(* is handed over once, at the moment the order becomes delivered, and two *)
(* statuses nothing leaves.                                                *)
(***************************************************************************)
CONSTANTS Orders, Codes, None

VARIABLES
    status,     \* status of every order, "absent" before it is created
    sold        \* the code handed over for an order

lifecycleVars == <<status, sold>>

Waiting == {"paid", "out_of_stock", "delivery_failed"}

Init ==
    /\ status = [o \in Orders |-> "absent"]
    /\ sold = [o \in Orders |-> None]

(* An order may be settled while it is created: its payment came first.    *)
Register(o) ==
    /\ status[o] = "absent"
    /\ \E s \in {"created", "paid", "payment_failed"} :
          status' = [status EXCEPT ![o] = s]
    /\ UNCHANGED sold

Settle(o) ==
    /\ status[o] = "created"
    /\ \E s \in {"paid", "payment_failed"} :
          status' = [status EXCEPT ![o] = s]
    /\ UNCHANGED sold

Dispatch(o) ==
    /\ status[o] \in Waiting
    /\ status' = [status EXCEPT ![o] = "delivering"]
    /\ UNCHANGED sold

Deliver(o, code) ==
    /\ status[o] = "delivering"
    /\ status' = [status EXCEPT ![o] = "delivered"]
    /\ sold' = [sold EXCEPT ![o] = code]

RunOut(o) ==
    /\ status[o] = "delivering"
    /\ status' = [status EXCEPT ![o] = "out_of_stock"]
    /\ UNCHANGED sold

(* Deliveries fail one at a time, or together when their leases expire.    *)
Fail(S) ==
    /\ S # {}
    /\ \A o \in S : status[o] = "delivering"
    /\ status' = [o \in Orders |-> IF o \in S THEN "delivery_failed"
                                              ELSE status[o]]
    /\ UNCHANGED sold

Requeue(o) ==
    /\ status[o] \in {"out_of_stock", "delivery_failed"}
    /\ status' = [status EXCEPT ![o] = "paid"]
    /\ UNCHANGED sold

Next ==
    \/ \E o \in Orders : \/ Register(o) \/ Settle(o) \/ Dispatch(o)
                         \/ RunOut(o) \/ Requeue(o)
    \/ \E o \in Orders, code \in Codes : Deliver(o, code)
    \/ \E S \in SUBSET Orders : Fail(S)

Spec == Init /\ [][Next]_lifecycleVars
=============================================================================
