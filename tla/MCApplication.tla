--------------------------- MODULE MCApplication ----------------------------
(***************************************************************************)
(* An application with one order, whose job row may get lost.              *)
(***************************************************************************)
EXTENDS Application
=============================================================================
