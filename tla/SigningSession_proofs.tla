----------------------- MODULE SigningSession_proofs -----------------------
(***************************************************************************)
(* What SigningSession's runs check on small instances, for any set of     *)
(* signers and sessions, any number of rounds, any width of instance id    *)
(* and counter, and every combination of faults.                           *)
(***************************************************************************)
EXTENDS SigningSession, SequenceTheorems, TLAPS

-----------------------------------------------------------------------------
(* Types *)

\* A tx_id is instance_id's bits above the counter's.
LEMMA TxIdTyped ==
  ASSUME TypeOK, NEW g \in Signer
  PROVE  NextTxId(g) \in TxId
<1>1. /\ InstMod \in Nat \ {0} /\ CtrMod \in Nat \ {0}
      /\ instance_id[g] \in 0..(InstMod - 1) /\ tx_counter[g] \in 0..(CtrMod - 1)
  BY TxIdAssumption DEF TypeOK
<1>2. \A i, j, c \in Nat : i <= j => i * c <= j * c
  BY SMT
<1>3. instance_id[g] * CtrMod <= (InstMod - 1) * CtrMod
  BY <1>1, <1>2
<1>4. (InstMod - 1) * CtrMod = InstMod * CtrMod - CtrMod
  BY <1>1
<1>5. instance_id[g] * CtrMod \in Nat /\ InstMod * CtrMod \in Nat
  BY <1>1
<1> HIDE <1>2
<1> QED BY <1>1, <1>3, <1>4, <1>5 DEF NextTxId, TxId

\* The counter wraps at its width.
LEMMA CounterWraps == \A n \in Nat : (n + 1) % CtrMod \in 0..(CtrMod - 1)
  BY TxIdAssumption

-----------------------------------------------------------------------------
(* The invariant.  A participant that has been called has a room; what is in *)
(* a room was posted; what a router holds for a round its peer has posted    *)
(* for that round; a participant has moved on only from rounds for which it  *)
(* held a message of its own session; and by the time it has a signature its *)
(* peer has posted them all.                                                 *)

Started ==
    /\ \A a \in Attempt : stage[a] # "idle" => tx_id[a[1]] \in TxId
    /\ \A g \in Signer : current[g] # None => tx_id[current[g]] \in TxId

HistoryPosted ==
    \A x \in TxId : \A n \in 1..Len(hist[x]) : hist[x][n] \in posted

HeldPosted ==
    \A a \in Attempt, k \in 1..Rounds :
        inbox[a][k] \in Session =>
            [eid |-> inbox[a][k], sender |-> Peer(a[2]), round |-> k] \in posted

RoundsDone ==
    \A a \in Attempt :
        /\ stage[a] \notin Over =>
              \A k \in 1..Rounds : k < round[a] => inbox[a][k] = a[1]
        /\ stage[a] = "ok" =>
              \A k \in 1..Rounds :
                  [eid |-> a[1], sender |-> Peer(a[2]), round |-> k] \in posted

IInv == TypeOK /\ Started /\ HistoryPosted /\ HeldPosted /\ RoundsDone

\* Before the first call of sign every room is empty and nobody has been called.
LEMMA IInvInit == Init => IInv
<1> SUFFICES ASSUME Init PROVE IInv
  OBVIOUS
<1>1. <<>> \in Seq(Msg) /\ Len(<<>>) = 0
  BY EmptySeq
<1>2. TypeOK
  BY <1>1, RoundsAssumption, TxIdAssumption, MaxRestartsAssumption DEF Init, Empty, TypeOK, Held
<1>3. Started /\ HistoryPosted
  BY <1>1 DEF Init, Started, HistoryPosted
<1>4. HeldPosted
  BY NoneAssumption DEF Init, Empty, HeldPosted
<1>5. RoundsDone
  BY DEF Init, RoundsDone
<1> QED BY <1>2, <1>3, <1>4, <1>5 DEF IInv

\* Every attempt has its session and its party.
LEMMA AttemptParts == \A a \in Attempt : a[1] \in Session /\ a[2] \in Party
  BY DEF Attempt

\* The message of a participant's round.
LEMMA MsgTyped ==
  ASSUME TypeOK, NEW a \in Attempt
  PROVE  MsgOf(a) \in Msg
  BY AttemptParts DEF TypeOK, MsgOf, Msg

\* Posting appends to one room and leaves the others alone.
LEMMA StoreTyped ==
  ASSUME TypeOK, NEW a \in Attempt, tx_id[a[1]] \in TxId, Store(a)
  PROVE  /\ hist' \in [TxId -> Seq(Msg)]
         /\ posted' \subseteq Msg
         /\ restarts' = restarts
<1>1. MsgOf(a) \in Msg
  BY MsgTyped
<1>2. hist[tx_id[a[1]]] \in Seq(Msg)
  BY DEF TypeOK
<1>3. Append(hist[tx_id[a[1]]], MsgOf(a)) \in Seq(Msg)
  BY <1>1, <1>2, AppendProperties
<1> QED BY <1>1, <1>3 DEF TypeOK, Store

\* What Read takes off the history is a message that was posted.
LEMMA ReadsPosted ==
  ASSUME TypeOK, Started, HistoryPosted, NEW a \in Attempt, Read(a)
  PROVE  /\ History(a)[pos[a] + 1] \in Msg
         /\ History(a)[pos[a] + 1] \in posted
<1>1. tx_id[a[1]] \in TxId
  BY DEF Read, NeedsInput, Started
<1>2. History(a) \in Seq(Msg) /\ Len(History(a)) \in Nat /\ pos[a] \in Nat
  BY <1>1, LenProperties DEF TypeOK, History
<1>3. pos[a] + 1 \in 1..Len(History(a))
  BY <1>2 DEF Read
<1> QED BY <1>1, <1>2, <1>3, ElementOfSeq DEF HistoryPosted, History

\* The router keeps one slot per round.
LEMMA RoutedTyped ==
  ASSUME TypeOK, NEW a \in Attempt, NEW m \in Msg
  PROVE  Routed(a, m) \in [1..Rounds -> Held]
<1>1. inbox[a] \in [1..Rounds -> Held] /\ m.round \in 1..Rounds /\ m.eid \in Held
  BY DEF TypeOK, Msg, Held
<1>2. Clash \in Held
  BY DEF Held
<1> QED BY <1>1, <1>2 DEF Routed

\* A participant that leaves gives up its stream and what its router holds.
LEMMA EndTyped ==
  ASSUME TypeOK, NEW as \in SUBSET Attempt, StreamsEnd(as)
  PROVE  /\ pos' \in [Attempt -> Nat]
         /\ inbox' \in [Attempt -> [1..Rounds -> Held]]
<1>1. Empty \in [1..Rounds -> Held]
  BY DEF Empty, Held
<1> QED BY <1>1 DEF StreamsEnd, TypeOK

\* Every step keeps the types.
LEMMA TypeNext ==
  ASSUME IInv, [Next]_vars
  PROVE  TypeOK'
<1> USE DEF IInv, TypeOK, signerVars, brokerVars, partyVars, Becomes
<1>1. ASSUME NEW g \in Signer, NEW s \in Session, Sign(g, s) PROVE TypeOK'
  BY <1>1, TxIdTyped, CounterWraps DEF Sign, Called
<1>2. ASSUME NEW g \in Signer, Return(g) PROVE TypeOK'
  BY <1>2 DEF Return
<1>3. ASSUME NEW g \in Signer, Crash(g) PROVE TypeOK'
  <2>1. Ended(current[g]) \in SUBSET Attempt
    BY DEF Ended
  <2>2. /\ pos' \in [Attempt -> Nat]
        /\ inbox' \in [Attempt -> [1..Rounds -> Held]]
    BY <1>3, <2>1, EndTyped DEF Crash
  <2> QED BY <1>3, <2>2, TxIdAssumption DEF Crash
<1>4. ASSUME NEW s \in Session, Forward(s) PROVE TypeOK'
  BY <1>4 DEF Forward
<1>5. ASSUME NEW s \in Session, Answer(s) PROVE TypeOK'
  BY <1>5 DEF Answer
<1>6. ASSUME NEW a \in Attempt, Unreachable(a) \/ Finish(a) \/ Reject(a)
                                \/ StreamError(a) \/ StreamTimeout(a)
      PROVE  TypeOK'
  <2>1. /\ pos' \in [Attempt -> Nat]
        /\ inbox' \in [Attempt -> [1..Rounds -> Held]]
    BY <1>6, EndTyped DEF Unreachable, Finish, Reject, StreamError, StreamTimeout, Leaves
  <2> QED BY <1>6, <2>1 DEF Unreachable, Finish, Reject, StreamError, StreamTimeout, Leaves
<1>12. ASSUME NEW a \in Attempt, Join(a) \/ SendRejected(a) PROVE TypeOK'
  BY <1>12 DEF Join, SendRejected
<1>7. ASSUME NEW a \in Attempt, Send(a) \/ SendFails(a) PROVE TypeOK'
  <2>1. tx_id[a[1]] \in TxId
    BY <1>7 DEF Started, Send, SendFails, Leaves
  <2>2. Store(a) \/ UNCHANGED brokerVars
    BY <1>7 DEF Send, SendFails
  <2>3. /\ hist' \in [TxId -> Seq(Msg)]
        /\ posted' \subseteq Msg
        /\ restarts' = restarts
    BY <2>1, <2>2, StoreTyped
  <2>4. CASE Send(a)
    BY <2>3, <2>4 DEF Send
  <2>5. CASE SendFails(a)
    <3>1. /\ pos' \in [Attempt -> Nat]
          /\ inbox' \in [Attempt -> [1..Rounds -> Held]]
      BY <2>5, EndTyped DEF SendFails, Leaves
    <3> QED BY <2>3, <2>5, <3>1 DEF SendFails, Leaves
  <2> QED BY <1>7, <2>4, <2>5
<1>8. ASSUME NEW a \in Attempt, Read(a) PROVE TypeOK'
  <2>1. Routed(a, History(a)[pos[a] + 1]) \in [1..Rounds -> Held]
    BY <1>8, ReadsPosted, RoutedTyped
  <2> QED BY <1>8, <2>1 DEF Read
<1>9. ASSUME NEW a \in Attempt, Advance(a) PROVE TypeOK'
  BY <1>9, RoundsAssumption DEF Advance
<1>10. CASE Restart
  <2>1. <<>> \in Seq(Msg)
    BY EmptySeq
  <2>2. /\ pos' \in [Attempt -> Nat]
        /\ inbox' \in [Attempt -> [1..Rounds -> Held]]
    BY <1>10, EndTyped DEF Restart
  <2> QED BY <1>10, <2>1, <2>2, MaxRestartsAssumption DEF Restart
<1>11. CASE UNCHANGED vars
  BY <1>11 DEF vars
<1> QED BY <1>1, <1>2, <1>3, <1>4, <1>5, <1>6, <1>7, <1>8, <1>9, <1>10, <1>11, <1>12
        DEF Next, AttemptStep

\* A tx_id is drawn before anyone is called, and is kept to the end.
LEMMA StartedNext ==
  ASSUME IInv, [Next]_vars
  PROVE  Started'
<1> USE AttemptParts DEF IInv, TypeOK, Started, signerVars, brokerVars, partyVars, Becomes, Leaves
<1>1. ASSUME NEW g \in Signer, NEW s \in Session, Sign(g, s) PROVE Started'
  <2>1. /\ tx_id'[s] \in TxId
        /\ \A t \in Session : tx_id[t] \in TxId => tx_id'[t] \in TxId
    BY <1>1, TxIdTyped DEF Sign
  <2>2. \A a \in Attempt : stage'[a] # "idle" => stage[a] # "idle" \/ a[1] = s
    BY <1>1 DEF Sign, Called
  <2>3. \A h \in Signer : current'[h] = current[h] \/ current'[h] = s
    BY <1>1 DEF Sign
  <2> QED BY <2>1, <2>2, <2>3
<1>2. ASSUME NEW g \in Signer, Return(g) \/ Crash(g) PROVE Started'
  <2>1. tx_id' = tx_id /\ \A h \in Signer : current'[h] \in {current[h], None}
    BY <1>2 DEF Return, Crash
  <2>2. \A a \in Attempt : stage'[a] # "idle" =>
            \/ stage[a] # "idle"
            \/ current[g] # None /\ a[1] = current[g]
    BY <1>2 DEF Return, Crash, Ended
  <2> QED BY <2>1, <2>2
<1>3. ASSUME NEW s \in Session, Forward(s) \/ Answer(s) PROVE Started'
  BY <1>3 DEF Forward, Answer
<1>4. ASSUME NEW a \in Attempt, AttemptStep(a) PROVE Started'
  <2>1. /\ UNCHANGED <<tx_id, current>>
        /\ \A b \in Attempt : stage'[b] # "idle" => stage[b] # "idle"
    BY <1>4 DEF AttemptStep, Join, Unreachable, Send, SendRejected, SendFails, Read, Advance,
                Finish, Reject, StreamError, StreamTimeout
  <2> QED BY <2>1
<1>5. CASE Restart
  BY <1>5 DEF Restart
<1>6. CASE UNCHANGED vars
  BY <1>6 DEF vars
<1> QED BY <1>1, <1>2, <1>3, <1>4, <1>5, <1>6 DEF Next

\* A room's history only grows by posting, until a restart empties it.
LEMMA HistoryNext ==
  ASSUME IInv, [Next]_vars
  PROVE  HistoryPosted'
<1> USE DEF IInv, TypeOK, HistoryPosted, signerVars, brokerVars, partyVars
<1>1. ASSUME NEW a \in Attempt, tx_id[a[1]] \in TxId, Store(a) PROVE HistoryPosted'
  <2> DEFINE x == tx_id[a[1]]
  <2>1. MsgOf(a) \in Msg /\ hist[x] \in Seq(Msg) /\ Len(hist[x]) \in Nat
    BY <1>1, MsgTyped, LenProperties
  <2>2. /\ hist'[x] = Append(hist[x], MsgOf(a))
        /\ \A y \in TxId \ {x} : hist'[y] = hist[y]
        /\ posted' = posted \cup {MsgOf(a)}
    BY <1>1 DEF Store
  <2>3. /\ Len(Append(hist[x], MsgOf(a))) = Len(hist[x]) + 1
        /\ \A n \in 1..Len(hist[x]) : Append(hist[x], MsgOf(a))[n] = hist[x][n]
        /\ Append(hist[x], MsgOf(a))[Len(hist[x]) + 1] = MsgOf(a)
    BY <2>1, AppendProperties
  <2>4. ASSUME NEW n \in 1..Len(hist'[x]) PROVE hist'[x][n] \in posted'
    <3>1. n \in 1..Len(hist[x]) \/ n = Len(hist[x]) + 1
      BY <2>1, <2>2, <2>3
    <3> QED BY <1>1, <2>2, <2>3, <3>1
  <2> QED BY <2>2, <2>4
<1>2. ASSUME NEW a \in Attempt, Send(a) \/ SendFails(a) PROVE HistoryPosted'
  <2>1. tx_id[a[1]] \in TxId
    BY <1>2 DEF Started, Send, SendFails, Becomes, Leaves
  <2>2. Store(a) \/ UNCHANGED brokerVars
    BY <1>2 DEF Send, SendFails
  <2> QED BY <1>1, <2>1, <2>2
<1>3. CASE Restart
  <2>1. \A x \in TxId : Len(hist'[x]) = 0
    BY <1>3, EmptySeq DEF Restart
  <2> QED BY <2>1
<1>4. CASE UNCHANGED <<hist, posted>>
  BY <1>4
<1>5. ASSUME NEW a \in Attempt, AttemptStep(a), ~Send(a), ~SendFails(a)
      PROVE  UNCHANGED <<hist, posted>>
  BY <1>5 DEF AttemptStep, Join, Unreachable, SendRejected, Read, Advance, Finish, Reject,
              StreamError, StreamTimeout
<1>6. ASSUME NEW g \in Signer, (\E s \in Session : Sign(g, s)) \/ Return(g) \/ Crash(g)
      PROVE  UNCHANGED <<hist, posted>>
  BY <1>6 DEF Sign, Return, Crash
<1>7. ASSUME NEW s \in Session, Forward(s) \/ Answer(s) PROVE UNCHANGED <<hist, posted>>
  BY <1>7 DEF Forward, Answer
<1> QED BY <1>2, <1>3, <1>4, <1>5, <1>6, <1>7 DEF Next, vars

\* Nothing is ever unposted, a restart's ghost included.
LEMMA PostedGrows ==
  ASSUME [Next]_vars
  PROVE  posted \subseteq posted'
  BY DEF Next, vars, AttemptStep, Sign, Return, Crash, Forward, Answer, Join, Unreachable, Send,
         SendRejected, SendFails, Store, Read, Advance, Finish, Reject, StreamError,
         StreamTimeout, Restart, brokerVars

\* Only Read gives a router anything to hold.
LEMMA OnlyReadRoutes ==
  ASSUME TypeOK, [Next]_vars, \A a \in Attempt : ~Read(a)
  PROVE  \A a \in Attempt : inbox'[a] \in {inbox[a], Empty}
  BY DEF TypeOK, Next, vars, AttemptStep, Sign, Return, Crash, Forward, Answer, Join,
         Unreachable, Send, SendRejected, SendFails, Advance, Finish, Reject, StreamError,
         StreamTimeout, Restart, Leaves, StreamsEnd, partyVars

\* What a router takes in for a round, its peer has posted for that round.
LEMMA HeldNext ==
  ASSUME IInv, [Next]_vars
  PROVE  HeldPosted'
<1> USE DEF IInv
<1>1. posted \subseteq posted'
  BY PostedGrows
<1>2. ASSUME NEW a \in Attempt, Read(a) PROVE HeldPosted'
  <2> DEFINE m == History(a)[pos[a] + 1]
  <2>1. m \in Msg /\ m \in posted
    BY <1>2, ReadsPosted
  <2>2. inbox' = [inbox EXCEPT ![a] = Routed(a, m)]
    BY <1>2 DEF Read
  <2> HIDE DEF m
  <2>3. m = [eid |-> m.eid, sender |-> m.sender, round |-> m.round]
    BY <2>1 DEF Msg
  <2>4. m.sender # a[2] => m.sender = Peer(a[2])
    BY <2>1, AttemptParts DEF Msg, Party, Peer
  <2>5. ASSUME NEW k \in 1..Rounds, Routed(a, m)[k] \in Session
        PROVE  [eid |-> Routed(a, m)[k], sender |-> Peer(a[2]), round |-> k] \in posted
    <3>1. inbox[a] \in [1..Rounds -> Held]
      BY DEF TypeOK
    <3>2. CASE Routed(a, m)[k] = inbox[a][k]
      BY <2>5, <3>2 DEF HeldPosted
    <3>3. CASE Routed(a, m)[k] # inbox[a][k]
      <4>1. m.sender # a[2] /\ k = m.round /\ Routed(a, m)[k] \in {m.eid, Clash}
        BY <3>1, <3>3 DEF Routed
      <4> QED BY <2>1, <2>3, <2>4, <2>5, <4>1, NoneAssumption
    <3> QED BY <3>2, <3>3
  <2>6. ASSUME NEW b \in Attempt, NEW k \in 1..Rounds, inbox'[b][k] \in Session
        PROVE  [eid |-> inbox'[b][k], sender |-> Peer(b[2]), round |-> k] \in posted
    <3>1. CASE b = a
      BY <2>2, <2>5, <2>6, <3>1 DEF TypeOK
    <3>2. CASE b # a
      BY <2>2, <2>6, <3>2 DEF TypeOK, HeldPosted
    <3> QED BY <3>1, <3>2
  <2> QED BY <1>1, <2>6 DEF HeldPosted
<1>3. CASE \A a \in Attempt : ~Read(a)
  <2>1. \A a \in Attempt : inbox'[a] \in {inbox[a], Empty}
    BY <1>3, OnlyReadRoutes
  <2>2. \A k \in 1..Rounds : Empty[k] \notin Session
    BY NoneAssumption DEF Empty
  <2> QED BY <1>1, <2>1, <2>2 DEF HeldPosted
<1> QED BY <1>2, <1>3

\* A participant that finishes holds its session's message for every round.
LEMMA HoldsAll ==
  ASSUME TypeOK, RoundsDone, NEW a \in Attempt, Finish(a)
  PROVE  \A k \in 1..Rounds : inbox[a][k] = a[1]
<1>1. stage[a] \notin Over /\ round[a] = Rounds /\ inbox[a][Rounds] = a[1]
  BY DEF Finish, Over
<1>2. \A k \in 1..Rounds : k < Rounds \/ k = Rounds
  BY RoundsAssumption
<1> QED BY <1>1, <1>2 DEF RoundsDone

\* A participant moves on only from a round in which it holds its peer's
\* message for its own session, and a completed round's slot is left alone.
LEMMA RoundsNext ==
  ASSUME IInv, [Next]_vars
  PROVE  RoundsDone'
<1> USE DEF IInv, TypeOK, RoundsDone, Becomes, Over
<1>1. posted \subseteq posted'
  BY PostedGrows
<1>2. ASSUME NEW a \in Attempt, Read(a) PROVE RoundsDone'
  <2> DEFINE m == History(a)[pos[a] + 1]
  <2>1. /\ m \in Msg
        /\ inbox' = [inbox EXCEPT ![a] = Routed(a, m)]
        /\ UNCHANGED <<stage, round>>
        /\ stage[a] = "waiting"
    BY <1>2, ReadsPosted DEF Read, NeedsInput
  <2> HIDE DEF m
  <2>2. \A k \in 1..Rounds : k < round[a] => Routed(a, m)[k] = inbox[a][k]
    BY <2>1 DEF Routed, Msg
  <2> QED BY <1>1, <2>1, <2>2
<1>3. ASSUME NEW a \in Attempt, Advance(a) PROVE RoundsDone'
  <2>1. /\ inbox' = inbox
        /\ inbox[a][round[a]] = a[1]
        /\ round' = [round EXCEPT ![a] = @ + 1]
        /\ stage' = [stage EXCEPT ![a] = "sending"]
        /\ stage[a] = "waiting"
    BY <1>3 DEF Advance
  <2>2. \A k \in 1..Rounds : k < round[a] + 1 => k < round[a] \/ k = round[a]
    OBVIOUS
  <2> QED BY <1>1, <2>1, <2>2
<1>4. ASSUME NEW a \in Attempt, Finish(a) PROVE RoundsDone'
  <2>1. /\ stage' = [stage EXCEPT ![a] = "ok"]
        /\ round' = round
        /\ \A b \in Attempt : b # a => inbox'[b] = inbox[b]
    BY <1>4 DEF Finish, Leaves, StreamsEnd
  <2>2. \A k \in 1..Rounds : inbox[a][k] = a[1]
    BY <1>4, HoldsAll
  <2>3. \A k \in 1..Rounds :
            [eid |-> a[1], sender |-> Peer(a[2]), round |-> k] \in posted
    BY <2>2, AttemptParts DEF HeldPosted
  <2> QED BY <1>1, <2>1, <2>3
<1>5. ASSUME round' = round,
             \A b \in Attempt : /\ stage'[b] \notin Over =>
                                      stage[b] \notin Over /\ inbox'[b] = inbox[b]
                                /\ stage'[b] = "ok" => stage[b] = "ok"
      PROVE  RoundsDone'
  BY <1>1, <1>5
<1>6. ASSUME NEW a \in Attempt, AttemptStep(a), ~Read(a), ~Advance(a), ~Finish(a)
      PROVE  RoundsDone'
  BY <1>5, <1>6 DEF AttemptStep, Join, Unreachable, Send, SendRejected, SendFails, Reject,
              StreamError, StreamTimeout, Leaves, StreamsEnd
<1>7. ASSUME NEW g \in Signer, NEW s \in Session, Sign(g, s) PROVE RoundsDone'
  <2>1. \A b \in Attempt : b[1] = s => stage[b] = "idle"
    BY <1>7, NoneAssumption, TxIdAssumption DEF Sign, Started, TxId
  <2>2. /\ round' = round /\ inbox' = inbox
        /\ \A b \in Attempt : b[1] # s => stage'[b] = stage[b]
        /\ \A b \in Attempt : b[1] = s => stage'[b] \in {"queued", "called"}
    BY <1>7 DEF Sign, Called
  <2> QED BY <1>5, <2>1, <2>2
<1>8. ASSUME NEW g \in Signer, Return(g) \/ Crash(g) PROVE RoundsDone'
  BY <1>5, <1>8 DEF Return, Crash, Ended, StreamsEnd, partyVars
<1>9. ASSUME NEW s \in Session, Forward(s) \/ Answer(s) PROVE RoundsDone'
  BY <1>5, <1>9 DEF Forward, Answer, partyVars
<1>10. CASE Restart
  BY <1>5, <1>10 DEF Restart, StreamsEnd
<1>11. CASE UNCHANGED vars
  BY <1>5, <1>11 DEF vars, partyVars
<1> QED BY <1>2, <1>3, <1>4, <1>6, <1>7, <1>8, <1>9, <1>10, <1>11 DEF Next

\* The invariant behind SignatureFromBoth, in every reachable state: rooms
\* reused, brokers restarted, SDKs crashed, messages refused or lost.
THEOREM Inductive == Spec => []IInv
<1>1. IInv /\ [Next]_vars => IInv'
  BY TypeNext, StartedNext, HistoryNext, HeldNext, RoundsNext DEF IInv
<1> QED BY <1>1, IInvInit, PTL DEF Spec

\* Every variable stays in its type: in particular instance id and counter
\* make a tx_id of the width they have together, and no round is overrun.
THEOREM TypeCorrect == Spec => []TypeOK
<1>1. IInv => TypeOK
  BY DEF IInv
<1> QED BY <1>1, Inductive, PTL

\* No participant returns a signature unless its peer has posted every round
\* message under the same execution id, however often rooms are reused.
THEOREM NobodySignsAlone == Spec => []SignatureFromBoth
<1>1. IInv => SignatureFromBoth
  <2> SUFFICES ASSUME IInv, NEW s \in Session, NEW i \in Party, stage[<<s, i>>] = "ok",
                      NEW k \in 1..Rounds
               PROVE  [eid |-> s, sender |-> Peer(i), round |-> k] \in posted
    BY DEF SignatureFromBoth
  <2>1. <<s, i>> \in Attempt /\ <<s, i>>[1] = s /\ <<s, i>>[2] = i
    BY DEF Attempt
  <2> QED BY <2>1 DEF IInv, RoundsDone
<1> QED BY <1>1, Inductive, PTL

-----------------------------------------------------------------------------
(* What a participant on its stream has and has not seen.  One that has not  *)
(* joined has posted nothing and read nothing; what one that is cut off by   *)
(* no restart has stored is in its room's history; and it holds every        *)
(* message of its peer that its stream has delivered for an open round.      *)

MsgFor(a, k) == [eid |-> a[1], sender |-> a[2], round |-> k]

Live(a) == stage[a] \in {"sending", "waiting"} /\ a \notin cutOff

Fresh ==
    \A a \in Attempt : stage[a] \in {"idle", "queued", "called"} =>
        /\ pos[a] = 0
        /\ \A k \in 1..Rounds : MsgFor(a, k) \notin posted

InHistory ==
    \A a \in Attempt, k \in 1..Rounds :
        Live(a) /\ MsgFor(a, k) \in posted =>
            \E n \in 1..Len(History(a)) : History(a)[n] = MsgFor(a, k)

Seen ==
    \A a \in Attempt : Live(a) =>
        /\ pos[a] <= Len(History(a))
        /\ \A n \in 1..pos[a], k \in round[a]..Rounds :
              History(a)[n] = MsgFor(<<a[1], Peer(a[2])>>, k) => inbox[a][k] # None

StreamInv == Fresh /\ InHistory /\ Seen

LEMMA StreamInit == Init => StreamInv
  BY DEF Init, StreamInv, Fresh, InHistory, Seen, Live

\* A participant is told from the others by its session and party.
LEMMA SameAttempt ==
  ASSUME NEW a \in Attempt, NEW b \in Attempt, a[1] = b[1], a[2] = b[2]
  PROVE  a = b
  BY DEF Attempt

\* Storing a message leaves the histories as they were, up to its own, which
\* is the last one of its room.
LEMMA StoreExtends ==
  ASSUME TypeOK, NEW b \in Attempt, tx_id[b[1]] \in TxId, Store(b)
  PROVE  /\ \A x \in TxId : /\ Len(hist[x]) \in Nat /\ Len(hist'[x]) \in Nat
                            /\ Len(hist[x]) <= Len(hist'[x])
                            /\ \A n \in 1..Len(hist[x]) : hist'[x][n] = hist[x][n]
         /\ \E n \in 1..Len(hist'[tx_id[b[1]]]) : hist'[tx_id[b[1]]][n] = MsgOf(b)
<1> DEFINE x == tx_id[b[1]]
<1>1. MsgOf(b) \in Msg
  BY MsgTyped
<1>2. \A y \in TxId : hist[y] \in Seq(Msg) /\ Len(hist[y]) \in Nat
  BY LenProperties DEF TypeOK
<1>3. /\ hist'[x] = Append(hist[x], MsgOf(b))
      /\ \A y \in TxId \ {x} : hist'[y] = hist[y]
  BY DEF Store, TypeOK
<1>4. /\ Len(Append(hist[x], MsgOf(b))) = Len(hist[x]) + 1
      /\ \A n \in 1..Len(hist[x]) : Append(hist[x], MsgOf(b))[n] = hist[x][n]
      /\ Append(hist[x], MsgOf(b))[Len(hist[x]) + 1] = MsgOf(b)
  BY <1>1, <1>2, AppendProperties
<1>5. Len(hist[x]) + 1 \in 1..Len(hist'[x])
  BY <1>2, <1>3, <1>4
<1> HIDE DEF x
<1>6. x \in TxId
  BY DEF x
<1>7. ASSUME NEW y \in TxId
      PROVE  /\ Len(hist[y]) \in Nat /\ Len(hist'[y]) \in Nat
             /\ Len(hist[y]) <= Len(hist'[y])
             /\ \A n \in 1..Len(hist[y]) : hist'[y][n] = hist[y][n]
  <2>1. CASE y = x
    BY <1>2, <1>3, <1>4, <2>1
  <2>2. CASE y # x
    BY <1>2, <1>3, <2>2
  <2> QED BY <2>1, <2>2
<1>8. hist'[x][Len(hist[x]) + 1] = MsgOf(b)
  BY <1>3, <1>4
<1> QED BY <1>5, <1>7, <1>8 DEF x

\* What becomes posted in a step is the message of a participant that was
\* sending, stored in its room.
LEMMA PostedStep ==
  ASSUME IInv, [Next]_vars, NEW m \in posted', m \notin posted
  PROVE  \E b \in Attempt : /\ Store(b) /\ m = MsgOf(b)
                            /\ tx_id[b[1]] \in TxId /\ tx_id' = tx_id
                            /\ stage[b] = "sending"
                            /\ stage'[b] \in {"waiting", "failed"}
<1>1. PICK b \in Attempt : Send(b) \/ (SendFails(b) /\ Store(b))
  BY DEF Next, vars, AttemptStep, Sign, Return, Crash, Forward, Answer, Join, Unreachable,
         SendRejected, SendFails, Read, Advance, Finish, Reject, StreamError, StreamTimeout,
         Restart, brokerVars
<1>2. Store(b) /\ stage[b] = "sending" /\ tx_id' = tx_id
  BY <1>1 DEF Send, SendFails, Becomes, Leaves, signerVars
<1>3. m = MsgOf(b)
  BY <1>2 DEF Store
<1>4. stage'[b] \in {"waiting", "failed"}
  BY <1>1 DEF Send, SendFails, Becomes, Leaves, IInv, TypeOK
<1>5. tx_id[b[1]] \in TxId
  BY <1>2 DEF IInv, Started
<1> QED BY <1>2, <1>3, <1>4, <1>5

\* While a participant is at work only Read moves its stream on or gives its
\* router anything, and rounds only grow.
LEMMA PartyStep ==
  ASSUME IInv, [Next]_vars, NEW a \in Attempt, ~Read(a), stage'[a] \notin Over
  PROVE  pos'[a] = pos[a] /\ inbox'[a] = inbox[a] /\ round[a] <= round'[a]
<1> USE DEF IInv, TypeOK
<1>1. ASSUME NEW b \in Attempt, Read(b)
      PROVE  pos'[a] = pos[a] /\ inbox'[a] = inbox[a] /\ round' = round
  BY <1>1 DEF Read
<1>2. ASSUME NEW b \in Attempt, Advance(b)
      PROVE  pos' = pos /\ inbox' = inbox /\ round[a] <= round'[a]
  BY <1>2 DEF Advance
<1>3. ASSUME NEW b \in Attempt, AttemptStep(b), ~Read(b), ~Advance(b)
      PROVE  pos'[a] = pos[a] /\ inbox'[a] = inbox[a] /\ round' = round
  <2>1. CASE Join(b) \/ Send(b) \/ SendRejected(b)
    BY <2>1 DEF Join, Send, SendRejected
  <2>2. CASE \/ Unreachable(b) \/ SendFails(b) \/ Finish(b)
             \/ Reject(b) \/ StreamError(b) \/ StreamTimeout(b)
    <3>1. /\ stage'[b] \in Over
          /\ StreamsEnd({b})
          /\ round' = round
      BY <2>2 DEF Unreachable, SendFails, Finish, Reject, StreamError, StreamTimeout,
                  Leaves, Becomes, Over
    <3> QED BY <3>1 DEF StreamsEnd
  <2> QED BY <1>3, <2>1, <2>2 DEF AttemptStep
<1>4. ASSUME NEW g \in Signer, Crash(g)
      PROVE  pos'[a] = pos[a] /\ inbox'[a] = inbox[a] /\ round' = round
  <2>1. a \notin Ended(current[g])
    BY <1>4 DEF Crash, Over
  <2> QED BY <1>4, <2>1 DEF Crash, StreamsEnd
<1>5. CASE Restart
  BY <1>5 DEF Restart, StreamsEnd, Over
<1>6. CASE UNCHANGED <<pos, inbox, round>>
  BY <1>6
<1>7. ASSUME NEW g \in Signer, (\E s \in Session : Sign(g, s)) \/ Return(g)
      PROVE  UNCHANGED <<pos, inbox, round>>
  BY <1>7 DEF Sign, Return, partyVars
<1>8. ASSUME NEW s \in Session, Forward(s) \/ Answer(s)
      PROVE  UNCHANGED <<pos, inbox, round>>
  BY <1>8 DEF Forward, Answer, partyVars
<1> QED BY <1>1, <1>2, <1>3, <1>4, <1>5, <1>6, <1>7, <1>8 DEF Next, vars, partyVars

\* A participant that is on its stream after a step was before, in the same
\* room, or has just joined; and the room's history has only grown.
LEMMA LiveStep ==
  ASSUME IInv, [Next]_vars, NEW a \in Attempt, Live(a)'
  PROVE  /\ tx_id[a[1]] \in TxId /\ tx_id'[a[1]] = tx_id[a[1]]
         /\ Live(a) \/ stage[a] = "called"
         /\ Len(History(a)) \in Nat /\ Len(History(a)') \in Nat
         /\ Len(History(a)) <= Len(History(a)')
         /\ \A n \in 1..Len(History(a)) : History(a)'[n] = History(a)[n]
<1> USE AttemptParts DEF IInv, TypeOK
<1>1. /\ stage[a] \in {"called", "sending", "waiting"}
      /\ a \notin cutOff
      /\ tx_id'[a[1]] = tx_id[a[1]]
      /\ ~Restart
  <2>1. ASSUME NEW g \in Signer, NEW s \in Session, Sign(g, s)
        PROVE  stage[a] \in {"sending", "waiting"} /\ cutOff' = cutOff
               /\ tx_id'[a[1]] = tx_id[a[1]]
    <3>1. a[1] # s
      BY <2>1 DEF Sign, Called, Live
    <3> QED BY <2>1, <3>1 DEF Sign, Called, Live
  <2>2. ASSUME NEW g \in Signer, Return(g) \/ Crash(g)
        PROVE  /\ stage[a] \in {"sending", "waiting"}
               /\ a \in cutOff' <=> a \in cutOff
               /\ tx_id' = tx_id
    BY <2>2 DEF Return, Crash, Live, partyVars
  <2>3. ASSUME NEW s \in Session, Forward(s) \/ Answer(s)
        PROVE  stage[a] \in {"sending", "waiting"} /\ UNCHANGED <<cutOff, tx_id>>
    BY <2>3 DEF Forward, Answer, Live, partyVars, signerVars, Becomes
  <2>4. ASSUME NEW b \in Attempt, AttemptStep(b)
        PROVE  /\ stage[a] \in {"called", "sending", "waiting"}
               /\ a \in cutOff' <=> a \in cutOff
               /\ tx_id' = tx_id
    BY <2>4 DEF AttemptStep, Join, Unreachable, Send, SendRejected, SendFails, Read, Advance,
            Finish, Reject, StreamError, StreamTimeout, Live, signerVars, Becomes, Leaves
  <2>5. ~Restart
    BY DEF Restart, Live, Over
  <2>6. ASSUME UNCHANGED vars
        PROVE  stage[a] \in {"sending", "waiting"} /\ UNCHANGED <<cutOff, tx_id>>
    BY <2>6 DEF vars, partyVars, signerVars, Live
  <2>7. a \notin cutOff'
    BY DEF Live
  <2>8. \/ \E g \in Signer, s \in Session : Sign(g, s)
        \/ \E g \in Signer : Return(g) \/ Crash(g)
        \/ \E s \in Session : Forward(s) \/ Answer(s)
        \/ \E b \in Attempt : AttemptStep(b)
        \/ UNCHANGED vars
    BY <2>5 DEF Next
  <2> QED BY <2>1, <2>2, <2>3, <2>4, <2>5, <2>6, <2>7, <2>8 DEF vars, partyVars, signerVars
<1>2. tx_id[a[1]] \in TxId
  BY <1>1 DEF Started
<1>3. \A x \in TxId : /\ Len(hist[x]) \in Nat /\ Len(hist'[x]) \in Nat
                      /\ Len(hist[x]) <= Len(hist'[x])
                      /\ \A n \in 1..Len(hist[x]) : hist'[x][n] = hist[x][n]
  <2>1. CASE hist' = hist
    BY <2>1, LenProperties
  <2>2. CASE hist' # hist
    <3>1. PICK b \in Attempt : (Send(b) \/ SendFails(b)) /\ Store(b)
      BY <1>1, <2>2 DEF Next, vars, AttemptStep, Sign, Return, Crash, Forward, Answer, Join,
         Unreachable, Send, SendRejected, SendFails, Read, Advance, Finish, Reject, StreamError,
         StreamTimeout, brokerVars
    <3>2. tx_id[b[1]] \in TxId
      BY <3>1 DEF Started, Send, SendFails, Becomes, Leaves
    <3> QED BY <3>1, <3>2, StoreExtends
  <2> QED BY <2>1, <2>2
<1>4. (Live(a) \/ stage[a] = "called") /\ History(a)' = hist'[tx_id[a[1]]]
  BY <1>1 DEF Live, History
<1> QED BY <1>1, <1>2, <1>3, <1>4 DEF History

\* Nobody has posted or read before joining: a sender is past that.
LEMMA FreshNext ==
  ASSUME IInv, StreamInv, [Next]_vars
  PROVE  Fresh'
<1> USE AttemptParts DEF IInv, TypeOK, StreamInv
<1>1. SUFFICES ASSUME NEW a \in Attempt, stage'[a] \in {"idle", "queued", "called"}
               PROVE  /\ pos'[a] = 0
                      /\ \A k \in 1..Rounds : MsgFor(a, k) \notin posted'
  BY DEF Fresh, MsgFor
<1>2. stage[a] \in {"idle", "queued", "called"}
  <2>1. ASSUME NEW g \in Signer, NEW s \in Session, Sign(g, s)
        PROVE  stage[a] \in {"idle", "queued", "called"}
    <3>1. CASE a[1] = s
      <4>1. tx_id[s] \notin TxId
        BY <2>1, NoneAssumption DEF Sign, TxId
      <4> QED BY <3>1, <4>1 DEF Started
    <3>2. CASE a[1] # s
      BY <1>1, <2>1, <3>2 DEF Sign, Called
    <3> QED BY <3>1, <3>2
  <2>2. ASSUME NEW g \in Signer, Return(g) \/ Crash(g)
        PROVE  stage[a] \in {"idle", "queued", "called"}
    BY <1>1, <2>2 DEF Return, Crash, partyVars
  <2>3. ASSUME NEW s \in Session, Forward(s) \/ Answer(s)
        PROVE  stage[a] \in {"idle", "queued", "called"}
    BY <1>1, <2>3 DEF Forward, Answer, partyVars, Becomes
  <2>4. ASSUME NEW b \in Attempt, AttemptStep(b)
        PROVE  stage[a] \in {"idle", "queued", "called"}
    BY <1>1, <2>4 DEF AttemptStep, Join, Unreachable, Send, SendRejected, SendFails, Read,
            Advance, Finish, Reject, StreamError, StreamTimeout, Becomes, Leaves
  <2>5. CASE Restart
    BY <1>1, <2>5 DEF Restart
  <2>6. CASE UNCHANGED vars
    BY <1>1, <2>6 DEF vars, partyVars
  <2> QED BY <2>1, <2>2, <2>3, <2>4, <2>5, <2>6 DEF Next
<1>3. ~Read(a)
  BY <1>2 DEF Read, NeedsInput
<1>4. pos'[a] = 0
  BY <1>1, <1>2, <1>3, PartyStep DEF Fresh, Over
<1>5. ASSUME NEW k \in 1..Rounds, MsgFor(a, k) \in posted' PROVE FALSE
  <2>1. MsgFor(a, k) \notin posted
    BY <1>2 DEF Fresh
  <2>2. PICK b \in Attempt : MsgFor(a, k) = MsgOf(b) /\ stage[b] = "sending"
    BY <1>5, <2>1, PostedStep
  <2>3. a = b
    BY <2>2, SameAttempt DEF MsgFor, MsgOf
  <2> QED BY <1>2, <2>2, <2>3
<1> QED BY <1>4, <1>5

\* What a participant has stored is in its room's history, and stays there
\* for as long as its stream does.
LEMMA InHistoryNext ==
  ASSUME IInv, StreamInv, [Next]_vars
  PROVE  InHistory'
<1> USE AttemptParts DEF StreamInv
<1>1. SUFFICES ASSUME NEW a \in Attempt, NEW k \in 1..Rounds, Live(a)',
                      MsgFor(a, k) \in posted'
               PROVE  \E n \in 1..Len(History(a)') : History(a)'[n] = MsgFor(a, k)
  BY DEF InHistory, MsgFor
<1>2. /\ tx_id[a[1]] \in TxId /\ tx_id'[a[1]] = tx_id[a[1]]
      /\ Live(a) \/ stage[a] = "called"
      /\ Len(History(a)) \in Nat /\ Len(History(a)') \in Nat
      /\ Len(History(a)) <= Len(History(a)')
      /\ \A n \in 1..Len(History(a)) : History(a)'[n] = History(a)[n]
  BY <1>1, LiveStep
<1>3. CASE MsgFor(a, k) \in posted
  <2>1. Live(a)
    BY <1>2, <1>3 DEF Fresh
  <2>2. PICK n \in 1..Len(History(a)) : History(a)[n] = MsgFor(a, k)
    BY <1>3, <2>1 DEF InHistory
  <2>3. n \in 1..Len(History(a)') /\ History(a)'[n] = MsgFor(a, k)
    BY <1>2, <2>2
  <2> QED BY <2>3
<1>4. CASE MsgFor(a, k) \notin posted
  <2>1. PICK b \in Attempt : /\ Store(b) /\ MsgFor(a, k) = MsgOf(b)
                             /\ tx_id[b[1]] \in TxId
    BY <1>1, <1>4, PostedStep
  <2>2. a = b
    BY <2>1, SameAttempt DEF MsgFor, MsgOf
  <2>3. \E n \in 1..Len(hist'[tx_id[a[1]]]) : hist'[tx_id[a[1]]][n] = MsgOf(a)
    BY <2>1, <2>2, StoreExtends DEF IInv
  <2>4. History(a)' = hist'[tx_id[a[1]]]
    BY <1>2 DEF History
  <2> QED BY <2>1, <2>2, <2>3, <2>4
<1> QED BY <1>3, <1>4

\* What a stream delivers of the peer's for an open round, the router keeps.
LEMMA SeenNext ==
  ASSUME IInv, StreamInv, [Next]_vars
  PROVE  Seen'
<1> USE AttemptParts DEF StreamInv, IInv, TypeOK
<1>1. SUFFICES ASSUME NEW a \in Attempt, Live(a)'
               PROVE  /\ pos'[a] <= Len(History(a)')
                      /\ \A n \in 1..pos'[a], k \in round'[a]..Rounds :
                            History(a)'[n] = MsgFor(<<a[1], Peer(a[2])>>, k)
                                => inbox'[a][k] # None
  BY DEF Seen, MsgFor
<1>2. /\ Live(a) \/ stage[a] = "called"
      /\ Len(History(a)) \in Nat /\ Len(History(a)') \in Nat
      /\ Len(History(a)) <= Len(History(a)')
      /\ \A n \in 1..Len(History(a)) : History(a)'[n] = History(a)[n]
  BY <1>1, LiveStep
<1>3. pos[a] \in Nat /\ round[a] \in 1..Rounds /\ pos[a] <= Len(History(a))
  <2>1. pos[a] \in Nat /\ round[a] \in 1..Rounds
    OBVIOUS
  <2>2. CASE Live(a)
    BY <2>1, <2>2 DEF Seen
  <2>3. CASE stage[a] = "called"
    <3>1. pos[a] = 0
      BY <2>3 DEF Fresh
    <3> QED BY <1>2, <2>1, <3>1
  <2> QED BY <1>2, <2>2, <2>3
<1>4. ASSUME NEW n \in 1..pos[a], NEW k \in round[a]..Rounds,
             History(a)[n] = MsgFor(<<a[1], Peer(a[2])>>, k)
      PROVE  inbox[a][k] # None
  BY <1>2, <1>4 DEF Fresh, Seen
<1>5. CASE ~Read(a)
  <2>1. pos'[a] = pos[a] /\ inbox'[a] = inbox[a] /\ round[a] <= round'[a]
    BY <1>1, <1>5, PartyStep DEF Live, Over
  <2>2. ASSUME NEW n \in 1..pos'[a], NEW k \in round'[a]..Rounds,
               History(a)'[n] = MsgFor(<<a[1], Peer(a[2])>>, k)
        PROVE  inbox'[a][k] # None
    <3>1. n \in 1..pos[a] /\ n \in 1..Len(History(a))
      BY <1>3, <2>1
    <3>2. round'[a] \in 1..Rounds
      BY TypeNext
    <3>3. k \in round[a]..Rounds
      BY <1>3, <2>1, <3>2
    <3> QED BY <1>2, <1>4, <2>1, <2>2, <3>1, <3>3
  <2>3. pos'[a] <= Len(History(a)')
    BY <1>2, <1>3, <2>1
  <2> QED BY <2>2, <2>3
<1>6. CASE Read(a)
  <2> DEFINE m == History(a)[pos[a] + 1]
  <2>1. /\ pos'[a] = pos[a] + 1 /\ round' = round /\ pos[a] < Len(History(a))
        /\ inbox'[a] = Routed(a, m)
    BY <1>6 DEF Read
  <2>2. m \in Msg
    BY <1>6, ReadsPosted
  <2>3. m.eid # None
    BY <2>2, NoneAssumption DEF Msg
  <2> HIDE DEF m
  <2>4. inbox[a] \in [1..Rounds -> Held]
    OBVIOUS
  <2>5. \A k \in 1..Rounds : inbox[a][k] # None => Routed(a, m)[k] # None
    BY <2>3, <2>4, NoneAssumption DEF Routed
  <2>6. ASSUME NEW k \in round[a]..Rounds, m = MsgFor(<<a[1], Peer(a[2])>>, k)
        PROVE  Routed(a, m)[k] # None
    <3>1. m.sender = Peer(a[2]) /\ m.round = k
      BY <2>6 DEF MsgFor
    <3>2. m.sender # a[2]
      <4>1. a[2] = 0 \/ a[2] = 1
        BY DEF Party
      <4> QED BY <3>1, <4>1 DEF Peer
    <3>3. k \in 1..Rounds /\ ~(k < round[a])
      BY <1>3, <2>6
    <3> QED BY <2>3, <2>4, <3>1, <3>2, <3>3, NoneAssumption DEF Routed
  <2>7. ASSUME NEW n \in 1..pos'[a], NEW k \in round'[a]..Rounds,
               History(a)'[n] = MsgFor(<<a[1], Peer(a[2])>>, k)
        PROVE  inbox'[a][k] # None
    <3>1. n \in 1..Len(History(a)) /\ k \in round[a]..Rounds /\ k \in 1..Rounds
      BY <1>3, <2>1
    <3>2. History(a)[n] = MsgFor(<<a[1], Peer(a[2])>>, k)
      BY <1>2, <2>7, <3>1
    <3>3. CASE n = pos[a] + 1
      BY <2>1, <2>6, <3>1, <3>2, <3>3 DEF m
    <3>4. CASE n \in 1..pos[a]
      BY <1>4, <2>1, <2>5, <3>1, <3>2, <3>4
    <3> QED BY <1>3, <2>1, <3>3, <3>4
  <2>8. pos'[a] <= Len(History(a)')
    BY <1>2, <1>3, <2>1
  <2> QED BY <2>7, <2>8
<1> QED BY <1>5, <1>6

\* Both invariants, in every reachable state.
THEOREM StreamInductive == Spec => [](IInv /\ StreamInv)
<1>1. IInv /\ StreamInv /\ [Next]_vars => StreamInv'
  BY FreshNext, InHistoryNext, SeenNext DEF StreamInv
<1>2. Init => StreamInv
  BY StreamInit
<1> QED BY <1>1, <1>2, Inductive, PTL DEF Spec

\* Two participants of a session do not wait for each other when both have
\* read all there is and all they sent was stored.  The one in the earlier
\* round would have read its peer's message for that round: the peer has sent
\* it, so it is in the history, and what is in the history has been delivered.
THEOREM NobodyWaitsForWhatIsThere == Spec => []NoMutualWait
<1>1. ASSUME IInv, StreamInv, NEW a \in Attempt, NEW b \in Attempt,
             b[1] = a[1], b[2] = Peer(a[2]), round[a] <= round[b],
             NeedsInput(a), a \notin cutOff, NeedsInput(b), b \notin cutOff,
             \A k \in 1..round[b] : [MsgOf(b) EXCEPT !.round = k] \in posted
      PROVE  pos[a] < Len(History(a))
  <2> USE AttemptParts DEF IInv, TypeOK, StreamInv
  <2>1. Live(a) /\ Live(b) /\ History(a) = History(b)
    BY <1>1 DEF Live, NeedsInput, History
  <2>2. round[a] \in 1..Rounds /\ round[a] \in 1..round[b] /\ round[a] \in round[a]..Rounds
    BY <1>1
  <2>3. [MsgOf(b) EXCEPT !.round = round[a]] = MsgFor(b, round[a])
    BY DEF MsgOf, MsgFor
  <2>4. MsgFor(b, round[a]) \in posted
    BY <1>1, <2>2, <2>3
  <2>5. PICK n \in 1..Len(History(a)) : History(a)[n] = MsgFor(b, round[a])
    <3>1. round[b] \in 1..Rounds
      BY <1>1
    <3>2. \E n \in 1..Len(History(b)) : History(b)[n] = MsgFor(b, round[a])
      BY <1>1, <2>1, <2>2, <2>4 DEF InHistory
    <3> QED BY <2>1, <3>2
  <2>6. MsgFor(b, round[a]) = MsgFor(<<a[1], Peer(a[2])>>, round[a])
    BY <1>1 DEF MsgFor
  <2>7. inbox[a][round[a]] = None
    BY <1>1 DEF NeedsInput
  <2>8. ~(n \in 1..pos[a])
    BY <1>1, <2>1, <2>2, <2>5, <2>6, <2>7 DEF Seen
  <2>9. History(a) \in Seq(Msg) /\ pos[a] \in Nat
    <3>1. tx_id[a[1]] \in TxId
      BY <1>1 DEF NeedsInput, Started
    <3> QED BY <1>1, <3>1 DEF History
  <2>10. Len(History(a)) \in Nat
    BY <2>9, LenProperties
  <2> QED BY <2>5, <2>8, <2>9, <2>10
<1>2. IInv /\ StreamInv => NoMutualWait
  <2> SUFFICES ASSUME IInv, StreamInv, NEW s \in Session,
                      \A a \in {<<s, i>> : i \in Party} :
                          /\ NeedsInput(a) /\ a \notin cutOff
                          /\ \A k \in 1..round[a] : [MsgOf(a) EXCEPT !.round = k] \in posted
               PROVE  \E a \in {<<s, i>> : i \in Party} : pos[a] < Len(History(a))
    BY DEF NoMutualWait
  <2> DEFINE p == <<s, 0>>  q == <<s, 1>>
  <2>1. /\ p \in Attempt /\ q \in Attempt
        /\ p \in {<<s, i>> : i \in Party} /\ q \in {<<s, i>> : i \in Party}
    BY DEF Attempt, Party
  <2>2. p[1] = s /\ q[1] = s /\ p[2] = 0 /\ q[2] = 1 /\ Peer(0) = 1 /\ Peer(1) = 0
    BY DEF Peer
  <2>3. round[p] \in Nat /\ round[q] \in Nat
    BY <2>1 DEF IInv, TypeOK
  <2> HIDE DEF p, q
  <2>4. CASE round[p] <= round[q]
    BY <1>1, <2>1, <2>2, <2>4
  <2>5. CASE round[q] <= round[p]
    BY <1>1, <2>1, <2>2, <2>5
  <2> QED BY <2>3, <2>4, <2>5
<1> QED BY <1>2, StreamInductive, PTL
=============================================================================
