----------------------- MODULE SigningService_proofs -----------------------
(***************************************************************************)
(* SigningSession implements ThresholdSigning, for any signers, sessions,  *)
(* rounds and widths and under every fault: each step of the sessions is a *)
(* step of the abstract service, or changes nothing it can see.            *)
(***************************************************************************)
EXTENDS SigningSession_proofs

-----------------------------------------------------------------------------
(* What a step changes of what is seen from outside *)

\* Initially nothing is asked, nobody has consented and all is open.
LEMMA ServiceInit == Init => Service!Init
<1> SUFFICES ASSUME Init PROVE Service!Init
  OBVIOUS
<1>1. asked = {}
  BY DEF Init, asked
<1>2. 1 \in 1..Rounds /\ posted = {}
  BY RoundsAssumption DEF Init
<1>3. consent = [s \in Session |-> {}]
  BY <1>2 DEF consent
<1>4. outcome = [p \in Session \X Party |-> "open"]
  BY DEF Init, outcome, Attempt
<1> QED BY <1>1, <1>3, <1>4 DEF Service!Init

\* Of a participant the outside sees its stage, and only whether it is over.
LEMMA OutcomeStep ==
  ASSUME TypeOK, NEW a \in Attempt, NEW from, NEW to, Becomes(a, from, to)
  PROVE  /\ to \notin Over /\ stage[a] \notin Over => outcome' = outcome
         /\ to = "ok" => outcome' = [outcome EXCEPT ![a] = "signed"]
         /\ to = "failed" =>
               outcome' = [p \in Attempt |-> IF p \in {a} THEN "failed" ELSE outcome[p]]
  BY DEF TypeOK, Becomes, outcome, Over

\* Consent is read off what was posted.
LEMMA ConsentUnchanged == posted' = posted => consent' = consent
  BY DEF consent

\* A message stored is the last one its sender's consent lacked, or not yet.
LEMMA ConsentStep ==
  ASSUME TypeOK, NEW a \in Attempt, Store(a)
  PROVE  \/ consent' = consent
         \/ consent' = [consent EXCEPT ![a[1]] = @ \cup {a[2]}]
<1> DEFINE full(s, i, p) == \A k \in 1..Rounds :
                               [eid |-> s, sender |-> i, round |-> k] \in p
<1>1. consent = [s \in Session |-> {i \in Party : full(s, i, posted)}]
  BY DEF consent
<1>2. consent' = [s \in Session |-> {i \in Party : full(s, i, posted')}]
  BY DEF consent
<1>3. posted' = posted \cup {MsgOf(a)}
  BY DEF Store
<1>4. \A s \in Session, i \in Party : full(s, i, posted) => full(s, i, posted')
  BY <1>3
<1>5. \A s \in Session, i \in Party :
         ~(s = a[1] /\ i = a[2]) /\ full(s, i, posted') => full(s, i, posted)
  BY <1>3 DEF MsgOf
<1>6. a[1] \in Session /\ a[2] \in Party
  BY AttemptParts
<1> HIDE DEF full
<1>7. CASE full(a[1], a[2], posted')
  <2>1. consent' = [consent EXCEPT ![a[1]] = @ \cup {a[2]}]
    BY <1>1, <1>2, <1>4, <1>5, <1>6, <1>7
  <2> QED BY <2>1
<1>8. CASE ~full(a[1], a[2], posted')
  <2>1. consent' = consent
    BY <1>1, <1>2, <1>4, <1>5, <1>6, <1>8
  <2> QED BY <2>1
<1> QED BY <1>7, <1>8

\* A participant whose call has begun, and is not over, is open.
LEMMA IsOpen ==
  ASSUME IInv, NEW a \in Attempt, stage[a] \notin Over, stage[a] # "idle"
  PROVE  Service!Open(a[1], a[2])
<1>1. a[1] \in asked
  BY AttemptParts, NoneAssumption, TxIdAssumption DEF IInv, Started, asked, TxId
<1>2. a = <<a[1], a[2]>>
  BY DEF Attempt
<1>3. outcome[a] = "open"
  BY DEF outcome, Over
<1> QED BY <1>1, <1>2, <1>3 DEF Service!Open

\* A participant that has held its peer's message of every round, the last one
\* now, has its peer's consent.
LEMMA PeerConsents ==
  ASSUME IInv, NEW a \in Attempt, Finish(a)
  PROVE  consent[a[1]] \cup {a[2]} = Party
<1>1. a[1] \in Session /\ a[2] \in Party
  BY AttemptParts
<1>2. \A k \in 1..Rounds : inbox[a][k] = a[1]
  BY HoldsAll DEF IInv
<1>3. \A k \in 1..Rounds : [eid |-> a[1], sender |-> Peer(a[2]), round |-> k] \in posted
  BY <1>1, <1>2 DEF IInv, HeldPosted
<1>4. Peer(a[2]) \in Party /\ {Peer(a[2]), a[2]} = Party
  BY <1>1 DEF Peer, Party
<1>5. Peer(a[2]) \in consent[a[1]]
  BY <1>1, <1>3, <1>4 DEF consent
<1>6. consent[a[1]] \subseteq Party
  BY <1>1 DEF consent
<1> QED BY <1>1, <1>4, <1>5, <1>6

-----------------------------------------------------------------------------
(* Step by step *)

\* A participant that fails gives up alone.
LEMMA FailsAlone ==
  ASSUME IInv, NEW a \in Attempt, NEW from, Becomes(a, from, "failed"),
         stage[a] \notin Over, stage[a] # "idle", asked' = asked,
         \/ consent' = consent
         \/ consent' = [consent EXCEPT ![a[1]] = @ \cup {a[2]}]
  PROVE  Service!Next
<1>1. \A p \in {a} : Service!Open(p[1], p[2])
  BY IsOpen
<1>2. outcome' = [p \in Session \X Party |-> IF p \in {a} THEN "failed" ELSE outcome[p]]
  BY OutcomeStep DEF IInv, Attempt
<1>3. Service!GiveUp({a})
  BY <1>1, <1>2 DEF Service!GiveUp
<1>4. {a} \in SUBSET (Session \X Party)
  BY DEF Attempt
<1> QED BY <1>3, <1>4 DEF Service!Next

\* The steps of a participant.
LEMMA AttemptServes ==
  ASSUME IInv, NEW a \in Attempt, AttemptStep(a)
  PROVE  Service!Next \/ UNCHANGED Service!vars
<1> USE DEF signerVars, brokerVars, partyVars
<1>1. asked' = asked
  <2>1. tx_id' = tx_id
    BY DEF AttemptStep, Join, Unreachable, Send, SendRejected, SendFails, Read,
           Advance, Finish, Reject, StreamError, StreamTimeout
  <2> QED BY <2>1 DEF asked
<1>2. a[1] \in Session /\ a[2] \in Party /\ a = <<a[1], a[2]>>
  BY DEF Attempt
<1>3. TypeOK
  BY DEF IInv
<1>4. CASE Join(a) \/ SendRejected(a) \/ Advance(a)
  <2>1. outcome' = outcome
    <3>1. \E from, to : Becomes(a, from, to) /\ to \notin Over /\ stage[a] \notin Over
      BY <1>4 DEF Join, SendRejected, Advance, Becomes, Over
    <3> QED BY <1>3, <3>1, OutcomeStep
  <2>2. posted' = posted
    BY <1>4 DEF Join, SendRejected, Advance
  <2> QED BY <1>1, <2>1, <2>2, ConsentUnchanged DEF Service!vars
<1>5. CASE Read(a)
  BY <1>1, <1>5, ConsentUnchanged DEF Read, outcome, Service!vars
<1>6. CASE Send(a)
  <2>1. outcome' = outcome
    <3>1. Becomes(a, {"sending"}, "waiting") /\ stage[a] \notin Over
      BY <1>6 DEF Send, Becomes, Over
    <3>2. "waiting" \notin Over
      BY DEF Over
    <3> QED BY <1>3, <3>1, <3>2, OutcomeStep
  <2>2. stage[a] \notin Over /\ stage[a] # "idle"
    BY <1>6 DEF Send, Becomes, Over
  <2>3. Service!Open(a[1], a[2])
    BY <2>2, IsOpen
  <2>4. CASE consent' = consent
    BY <1>1, <2>1, <2>4 DEF Service!vars
  <2>5. CASE consent' = [consent EXCEPT ![a[1]] = @ \cup {a[2]}]
    BY <1>1, <1>2, <2>1, <2>3, <2>5 DEF Service!Next, Service!Consent
  <2> QED BY <1>3, <1>6, <2>4, <2>5, ConsentStep DEF Send
<1>7. CASE Finish(a)
  <2>1. Becomes(a, {"waiting"}, "ok") /\ posted' = posted
        /\ stage[a] \notin Over /\ stage[a] # "idle"
    BY <1>7 DEF Finish, Leaves, Becomes, Over
  <2>2. outcome' = [outcome EXCEPT ![<<a[1], a[2]>>] = "signed"]
    BY <1>2, <1>3, <2>1, OutcomeStep
  <2>3. Service!Open(a[1], a[2])
    BY <2>1, IsOpen
  <2>4. consent[a[1]] \cup {a[2]} = Party
    BY <1>7, PeerConsents
  <2>5. Service!Sign(a[1], a[2])
    BY <1>1, <2>1, <2>2, <2>3, <2>4, ConsentUnchanged DEF Service!Sign
  <2> QED BY <1>2, <2>5 DEF Service!Next
<1>8. CASE SendFails(a)
  <2>1. Becomes(a, {"sending"}, "failed") /\ stage[a] \notin Over /\ stage[a] # "idle"
    BY <1>8 DEF SendFails, Leaves, Becomes, Over
  <2>2. \/ consent' = consent
        \/ consent' = [consent EXCEPT ![a[1]] = @ \cup {a[2]}]
    BY <1>3, <1>8, ConsentStep, ConsentUnchanged DEF SendFails
  <2> QED BY <1>1, <2>1, <2>2, FailsAlone
<1>9. CASE Unreachable(a) \/ Reject(a) \/ StreamError(a) \/ StreamTimeout(a)
  <2>1. \E from : Becomes(a, from, "failed") /\ stage[a] \notin Over /\ stage[a] # "idle"
    BY <1>9 DEF Unreachable, Reject, StreamError, StreamTimeout, Leaves, Becomes, Over
  <2>2. consent' = consent
    BY <1>9, ConsentUnchanged DEF Unreachable, Reject, StreamError, StreamTimeout
  <2> QED BY <1>1, <2>1, <2>2, FailsAlone
<1> QED BY <1>4, <1>5, <1>6, <1>7, <1>8, <1>9 DEF AttemptStep

\* A call of sign asks, and shows nothing else.
LEMMA SignAsks ==
  ASSUME IInv, NEW g \in Signer, NEW s \in Session, Sign(g, s)
  PROVE  Service!Next
<1>1. TypeOK /\ NextTxId(g) # None
  BY TxIdTyped, NoneAssumption, TxIdAssumption DEF IInv, TxId
<1>2. s \notin asked /\ asked' = asked \cup {s}
  BY <1>1 DEF Sign, asked, TypeOK
<1>3. consent' = consent
  BY ConsentUnchanged DEF Sign, brokerVars
<1>4. \A a \in Attempt : a[1] = s => stage[a] = "idle"
  BY NoneAssumption, TxIdAssumption DEF Sign, IInv, Started, TxId
<1>5. outcome' = outcome
  BY <1>4 DEF Sign, Called, outcome
<1> QED BY <1>2, <1>3, <1>5 DEF Service!Next, Service!Ask

\* Whoever takes some participants down makes them give up together.
LEMMA AllGiveUp ==
  ASSUME IInv, NEW lost \in SUBSET Attempt,
         \A a \in lost : a[1] \in asked /\ stage[a] \notin Over,
         stage' = [a \in Attempt |-> IF a \in lost THEN "failed" ELSE stage[a]],
         tx_id' = tx_id, posted' = posted
  PROVE  Service!Next
<1>1. \A a \in lost : Service!Open(a[1], a[2])
  BY DEF Service!Open, outcome, Over, Attempt
<1>2. outcome' = [a \in Session \X Party |-> IF a \in lost THEN "failed" ELSE outcome[a]]
  BY DEF outcome, Attempt
<1>3. asked' = asked /\ consent' = consent
  BY ConsentUnchanged DEF asked
<1>4. Service!GiveUp(lost)
  BY <1>1, <1>2, <1>3 DEF Service!GiveUp
<1>5. lost \in SUBSET (Session \X Party)
  BY DEF Attempt
<1> QED BY <1>4, <1>5 DEF Service!Next

\* A restart takes the calls that pass the gateway down, a crash those of its
\* SDK that have no signature yet.
LEMMA CrashGivesUp ==
  ASSUME IInv, Restart \/ \E g \in Signer : Crash(g)
  PROVE  Service!Next
<1>1. \A a \in Attempt : stage[a] # "idle" => a[1] \in asked
  BY AttemptParts, NoneAssumption, TxIdAssumption DEF IInv, Started, asked, TxId
<1>2. CASE Restart
  <2> DEFINE lost == {a \in Attempt : a[2] = Remote /\ stage[a] \notin Over \cup {"idle"}}
  <2>1. stage' = [a \in Attempt |-> IF a \in lost THEN "failed" ELSE stage[a]]
    BY <1>2 DEF Restart
  <2>2. tx_id' = tx_id /\ posted' = posted
    BY <1>2 DEF Restart, signerVars
  <2>3. \A a \in lost : a[1] \in asked /\ stage[a] \notin Over
    BY <1>1
  <2>4. lost \in SUBSET Attempt
    OBVIOUS
  <2> HIDE DEF lost
  <2> QED BY <2>1, <2>2, <2>3, <2>4, AllGiveUp
<1>3. ASSUME NEW g \in Signer, Crash(g) PROVE Service!Next
  <2> DEFINE lost == {a \in Attempt : a[1] = current[g] /\ stage[a] \notin Over}
  <2>1. stage' = [a \in Attempt |-> IF a \in lost THEN "failed" ELSE stage[a]]
    BY <1>3 DEF Crash, Ended, Over
  <2>2. tx_id' = tx_id /\ posted' = posted
    BY <1>3 DEF Crash, brokerVars
  <2>3. current[g] \in Session /\ tx_id[current[g]] # None
    BY <1>3, NoneAssumption, TxIdAssumption DEF IInv, TypeOK, Started, Crash, TxId
  <2>4. \A a \in lost : a[1] \in asked /\ stage[a] \notin Over
    BY <2>3 DEF asked
  <2>5. lost \in SUBSET Attempt
    OBVIOUS
  <2> HIDE DEF lost
  <2> QED BY <2>1, <2>2, <2>4, <2>5, AllGiveUp
<1> QED BY <1>2, <1>3

\* Each step of the sessions is one of the service, or none.
LEMMA ServiceNext ==
  ASSUME IInv, [Next]_vars
  PROVE  [Service!Next]_(Service!vars)
<1> USE DEF signerVars, brokerVars, partyVars
<1>1. ASSUME NEW g \in Signer, Return(g) PROVE UNCHANGED Service!vars
  BY <1>1, ConsentUnchanged DEF Return, asked, outcome, Service!vars
<1>2. ASSUME NEW s \in Session, Forward(s) PROVE UNCHANGED Service!vars
  <2>1. <<s, Remote>> \in Attempt
    BY DEF Attempt, Remote, Party
  <2>2. outcome' = outcome
    <3>1. Becomes(<<s, Remote>>, {"queued"}, "called") /\ stage[<<s, Remote>>] \notin Over
      BY <1>2 DEF Forward, Becomes, Over
    <3>2. "called" \notin Over
      BY DEF Over
    <3> QED BY <2>1, <3>1, <3>2, OutcomeStep DEF IInv
  <2> QED BY <1>2, <2>2, ConsentUnchanged DEF Forward, asked, Service!vars
<1>3. ASSUME NEW s \in Session, Answer(s) PROVE UNCHANGED Service!vars
  BY <1>3, ConsentUnchanged DEF Answer, asked, outcome, Service!vars
<1>4. CASE UNCHANGED vars
  BY <1>4, ConsentUnchanged DEF vars, asked, outcome, Service!vars
<1> QED BY <1>1, <1>2, <1>3, <1>4, SignAsks, AttemptServes, CrashGivesUp DEF Next

\* The signing sessions implement the abstract service: the outcome of each
\* participant is final and a signature has the peer's consent, whatever
\* fails, and however many participants a restart or a crash takes down.
THEOREM ImplementsService == Spec => ServiceSpec
<1>1. IInv /\ [Next]_vars => [Service!Next]_(Service!vars)
  BY ServiceNext
<1> QED BY <1>1, ServiceInit, Inductive, PTL DEF Spec, ServiceSpec, Service!Spec
=============================================================================
