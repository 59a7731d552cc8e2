------------------------------ MODULE MCContainer ------------------------------
(* Container with one launcher, started again and again. *)
EXTENDS Container

MCLaunchers == {"launcher"}
=============================================================================
