------------------------------ MODULE MCClient ------------------------------
(* A client of two cycles, and another MpcSigner, on one port. *)
EXTENDS Client, TLC

CONSTANTS k1, k2, k3

SharedPort == [k \in Sdk |-> 1]
TwoCycles == <<k1, k2>>
=============================================================================
