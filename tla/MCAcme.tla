------------------------------- MODULE MCAcme -------------------------------
(* Instances of Acme for TLC. *)
EXTENDS Acme, TLC

CONSTANTS t1, d1, d2
=============================================================================
