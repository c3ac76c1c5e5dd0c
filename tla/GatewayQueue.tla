---------------------------- MODULE GatewayQueue ----------------------------
(***************************************************************************)
(* Calls of sign_tx at the gateway (sign-gateway/src/grpc.rs), with time.  *)
(* Every call waits for the one lock on the client to the sign-service and *)
(* keeps it until the sign-service has answered.  The SDK behind a call    *)
(* hosts the other participant, whose stream lasts Timeout ticks from the  *)
(* start of the call: the 60 s of reqwest's total timeout                  *)
(* (participant/src/client.rs).  The sign-service's participant starts     *)
(* when the call is forwarded and waits for its peer as long.              *)
(***************************************************************************)
EXTENDS Naturals, SequencesExt

CONSTANTS MaxCalls,     \* bound: calls at a time
          Duration,     \* a session whose participants have met takes at most this
          Timeout,      \* of a participant's stream
          Hold          \* the sign-service answers within this

ASSUME TimesAssumption ==
    /\ MaxCalls \in Nat /\ Duration \in Nat \ {0} /\ Timeout \in Nat /\ Hold \in Nat
    /\ Duration < Timeout /\ Timeout <= Hold

VARIABLES
    line,       \* the calls, first come first served: the lock's holder, its waiters
    locked,     \* the first in line has the lock and is with the sign-service
    held,       \* for how many ticks
    excused     \* ghost: an SDK has died, or too many have come at once,
                \* since the gateway was last idle

callVars == <<line, locked, held, excused>>

\* A call: ticks since it came, whether its SDK is still there, and (a ghost)
\* how many calls it found.
CallRecord == [age : Nat, alive : BOOLEAN, ahead : 0..(MaxCalls - 1)]

QueueTypeOK ==
    /\ line \in Seq(CallRecord) /\ Len(line) <= MaxCalls
    /\ locked \in BOOLEAN /\ (locked => line # <<>>)
    /\ held \in 0..Hold
    /\ excused \in BOOLEAN

QueueInit == line = <<>> /\ locked = FALSE /\ held = 0 /\ excused = FALSE

Calls == DOMAIN line

\* A call of sign comes in; its local participant has been called as well.
Arrive ==
    /\ Len(line) < MaxCalls
    /\ line' = Append(line, [age |-> 0, alive |-> TRUE, ahead |-> Len(line)])
    /\ excused' = (excused \/ (Len(line) + 1) * Duration >= Timeout)
    /\ UNCHANGED <<locked, held>>

\* Mutant of Forward: a lock that does not keep its waiters in order.
ForwardAny ==
    /\ ~locked
    /\ \E i \in Calls : line' = <<line[i]>> \o RemoveAt(line, i)
    /\ locked' = TRUE
    /\ UNCHANGED <<held, excused>>

\* The lock is free, and goes to the first in line.
Forward ==
    /\ ~locked /\ line # <<>>
    /\ locked' = TRUE
    /\ UNCHANGED <<line, held, excused>>

\* Mutant of Leaves: the lock is not given up with the call.
LeavesLocked(i) ==
    /\ line' = RemoveAt(line, i)
    /\ held' = IF i = 1 THEN 0 ELSE held
    /\ excused' = (excused /\ Len(line) > 1)
    /\ UNCHANGED locked

\* A call is over, and with it its guard or its place in line.
Leaves(i) ==
    /\ line' = RemoveAt(line, i)
    /\ locked' = (locked /\ i # 1)
    /\ held' = IF i = 1 THEN 0 ELSE held
    /\ excused' = (excused /\ Len(line) > 1)

\* The local participant is still on its stream.
PeerWaits(i) == line[i].alive /\ line[i].age < Timeout

Succeed == locked /\ PeerWaits(1) /\ Leaves(1)

\* The sign-service answers with an error: its participant's timeout, when the
\* peer is not there, or anything else, at any time.
Refused == locked /\ Leaves(1)

\* The SDK's process, or its network, is gone.  The gateway may not know yet.
Dies(i) ==
    /\ line[i].alive
    /\ line' = [line EXCEPT ![i].alive = FALSE]
    /\ excused' = TRUE
    /\ UNCHANGED <<locked, held>>

\* It learns of it: tonic drops the handler, and with it guard or waiter.
Cancelled(i) == ~line[i].alive /\ Leaves(i)

\* A session whose participants meet, at an SSE server that serves, is over
\* within Duration; the sign-service answers within Hold whatever happens.
Due(serving) == held >= (IF serving /\ PeerWaits(1) THEN Duration ELSE Hold)

\* Time passes.  A free lock is taken at once.
Tick(serving) ==
    /\ locked /\ ~Due(serving)
    /\ line' = [i \in Calls |-> [line[i] EXCEPT !.age = @ + 1]]
    /\ held' = held + 1
    /\ UNCHANGED <<locked, excused>>

-----------------------------------------------------------------------------
\* A call is answered within Hold for itself and for each call that was there
\* before it: nobody overtakes, and a session whose SDK is gone costs no more
\* than that.
WaitIsBounded == \A i \in Calls : line[i].age <= (line[i].ahead + 1) * Hold
=============================================================================
