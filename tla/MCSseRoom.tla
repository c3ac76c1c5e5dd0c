----------------------------- MODULE MCSseRoom -----------------------------
(* Two broadcast requests at a time, clients that come, break off, resume. *)
EXTENDS SseRoom, TLC

CONSTANTS m1, m2, p1, p2, c1, c2

RoomSymmetry == Permutations({c1, c2}) \cup Permutations({p1, p2})
                \cup Permutations({m1, m2})
=============================================================================
