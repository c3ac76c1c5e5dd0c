---------------------------- MODULE BroadcastLog ----------------------------
(***************************************************************************)
(* What one room of the SSE broker promises to those who use it, with no   *)
(* lock, no wake-up, no connection and no event number in sight.           *)
(*                                                                         *)
(* A room is a log that only grows.  A client that joins starts at the     *)
(* first message ever posted, however late it joins, and receives the      *)
(* messages of the log one by one, in the order of the log, none skipped   *)
(* and none twice.  The participants of a signing session rely on all of   *)
(* it: the one that joins second must find the round messages the first    *)
(* one has already posted.                                                 *)
(***************************************************************************)
EXTENDS Sequences, Naturals

CONSTANTS Message,     \* what can be posted
          Client       \* those who read the room

VARIABLES log,         \* the messages of the room, oldest first
          got          \* got[c]: what c has received since it joined

vars == <<log, got>>

TypeOK == /\ log \in Seq(Message)
          /\ got \in [Client -> Seq(Message)]

Init == /\ log = <<>>
        /\ got = [c \in Client |-> <<>>]

Post(m) == /\ log' = Append(log, m)
           /\ UNCHANGED got

\* The next message of the log, never another one.
Deliver(c) == /\ Len(got[c]) < Len(log)
              /\ got' = [got EXCEPT ![c] = Append(@, log[Len(@) + 1])]
              /\ UNCHANGED log

\* The client comes back as a newcomer and reads the room from the start.
Rejoin(c) == /\ got' = [got EXCEPT ![c] = <<>>]
             /\ UNCHANGED log

Next == \/ \E m \in Message : Post(m)
        \/ \E c \in Client : Deliver(c) \/ Rejoin(c)

Spec == Init /\ [][Next]_vars
=============================================================================
