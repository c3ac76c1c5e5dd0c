--------------------------- MODULE MCEnclaveBoot ---------------------------
(***************************************************************************)
(* Two scripts, together or one after the other, in a calm environment, in *)
(* one where things fail, and in one where nothing can be relied on.       *)
(***************************************************************************)
EXTENDS EnclaveBoot, TLC

CONSTANTS l1, l2

MCEnvironments == {{}, {"failure", "early"}, Fault}
=============================================================================
