--------------------------- MODULE MCSpendBundle ---------------------------
(* SpendBundle with two registrable keys. *)
EXTENDS SpendBundle
=============================================================================
