--------------------------- MODULE ThresholdSigning ---------------------------
(***************************************************************************)
(* What a signing service promises, seen from outside: each request of     *)
(* Signer::sign (mpc-client/src/signer.rs) is put to both participants;    *)
(* each consents by contributing all of its messages, and ends the request *)
(* with a signature or without one, once and for all.  A signature needs   *)
(* the consent of the other.  That one participant has the signature and   *)
(* the other has failed is allowed: sign takes the first answer that is Ok.*)
(***************************************************************************)
CONSTANTS Request, Party

VARIABLES asked,        \* requests that have been put
          consent,      \* consent[r]: who has contributed everything
          outcome       \* of each participant of each request

vars == <<asked, consent, outcome>>

Init ==
    /\ asked = {}
    /\ consent = [r \in Request |-> {}]
    /\ outcome = [p \in Request \X Party |-> "open"]

Open(r, i) == r \in asked /\ outcome[<<r, i>>] = "open"

Ask(r) ==
    /\ r \notin asked
    /\ asked' = asked \cup {r}
    /\ UNCHANGED <<consent, outcome>>

Consent(r, i) ==
    /\ Open(r, i)
    /\ consent' = [consent EXCEPT ![r] = @ \cup {i}]
    /\ UNCHANGED <<asked, outcome>>

\* One participant has its signature: it agrees itself, and all others have
\* contributed.
Sign(r, i) ==
    /\ Open(r, i)
    /\ consent[r] \cup {i} = Party
    /\ outcome' = [outcome EXCEPT ![<<r, i>>] = "signed"]
    /\ UNCHANGED <<asked, consent>>

\* Any number of participants give up, one of them perhaps with its last
\* message delivered.
GiveUp(lost) ==
    /\ \A p \in lost : Open(p[1], p[2])
    /\ outcome' = [p \in Request \X Party |-> IF p \in lost THEN "failed" ELSE outcome[p]]
    /\ \/ UNCHANGED consent
       \/ \E p \in lost : consent' = [consent EXCEPT ![p[1]] = @ \cup {p[2]}]
    /\ UNCHANGED asked

Next ==
    \/ \E r \in Request : \/ Ask(r)
                          \/ \E i \in Party : Consent(r, i) \/ Sign(r, i)
    \/ \E lost \in SUBSET (Request \X Party) : GiveUp(lost)

Spec == Init /\ [][Next]_vars
=============================================================================
