--------------------------- MODULE MCTransactions ---------------------------
(* Transactions on small instances; callers, events, orders and amounts    *)
(* are interchangeable.                                                    *)
EXTENDS Transactions, TLC

MCSymmetry == Permutations(Callers) \cup Permutations(Events)
                 \cup Permutations(Orders) \cup Permutations(Amounts)
=============================================================================
