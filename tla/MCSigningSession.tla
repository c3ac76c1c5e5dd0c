-------------------------- MODULE MCSigningSession --------------------------
(* Two SDK instances, sessions that may meet in a room. *)
EXTENDS SigningSession, TLC

CONSTANTS g1, g2, s1, s2, s3
=============================================================================
