---------------------------- MODULE MCKeyDealer ----------------------------
(* Two accounts, dealt again and again. *)
EXTENDS KeyDealer, TLC

CONSTANTS a1, a2

AccountSymmetry == Permutations({a1, a2})
=============================================================================
