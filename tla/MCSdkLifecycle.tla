--------------------------- MODULE MCSdkLifecycle ---------------------------
(* Two MpcSigners, on one port or on two. *)
EXTENDS SdkLifecycle, TLC

CONSTANTS k1, k2

SharedPort == [k \in Sdk |-> 1]
=============================================================================
