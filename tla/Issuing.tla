------------------------------ MODULE Issuing -------------------------------
(***************************************************************************)
(* What a supplier promises a shop: an order that asks gets a code once,   *)
(* the code stays its own, and no other order gets it.                     *)
(***************************************************************************)
CONSTANTS Orders, Keys, None

VARIABLE issued     \* the code each order was given

Init == issued = [o \in Orders |-> None]

Give(o, k) ==
    /\ issued[o] = None
    /\ \A q \in Orders : issued[q] # k
    /\ issued' = [issued EXCEPT ![o] = k]

Next == \E o \in Orders, k \in Keys : Give(o, k)

Spec == Init /\ [][Next]_issued
=============================================================================
