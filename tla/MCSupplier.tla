----------------------------- MODULE MCSupplier -----------------------------
(***************************************************************************)
(* A supplier with fewer keys than orders and fewer connections than       *)
(* requests.                                                               *)
(***************************************************************************)
EXTENDS Supplier
=============================================================================
