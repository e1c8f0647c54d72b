------------------------------ MODULE MCLayout ------------------------------
(* Layout for TLC. *)
EXTENDS Layout
=============================================================================
