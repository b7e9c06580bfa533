----------------------------- MODULE MCCatalog ------------------------------
(***************************************************************************)
(* A catalogue a little longer than two of its largest pages.              *)
(***************************************************************************)
EXTENDS Catalog

MCProducts == 1..5
=============================================================================
