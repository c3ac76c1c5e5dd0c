---------------------------- MODULE MCSseBroker ----------------------------
(* Requests that race for rooms which do not exist yet. *)
EXTENDS SseBroker, TLC

CONSTANTS q1, q2, q3, m1, m2, roomA, roomB

RequestSymmetry == Permutations({q1, q2, q3})
BrokerSymmetry == Permutations({q1, q2, q3}) \cup Permutations({roomA, roomB})
                  \cup Permutations({m1, m2})
=============================================================================
