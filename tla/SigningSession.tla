--------------------------- MODULE SigningSession ---------------------------
(***************************************************************************)
(* Signing sessions end to end: SDK signers (mpc-client/src/signer.rs)     *)
(* allocate a tx_id and call two participants, the one they host           *)
(* themselves and, through the gateway, the sign-service.  The gateway     *)
(* (sign-gateway/src/grpc.rs) forwards one call at a time.  Each           *)
(* participant (participant/src/client.rs, signing.rs, lib.rs) subscribes  *)
(* to the room named after the tx_id, posts its round messages there and   *)
(* reads its peer's out of the history.                                    *)
(*                                                                         *)
(* The room is the log that SseRoom and SseBroker are shown to implement.  *)
(* cggmp21 and round-based are external, modelled from how signing.rs uses *)
(* them: round after round a party posts one message and then needs its    *)
(* peer's for the same round; a message for a completed round is ignored,  *)
(* a second one for an open round is an error, and one made under another  *)
(* execution id fails verification.                                        *)
(***************************************************************************)
EXTENDS Sequences, Naturals, FiniteSets

CONSTANTS Signer,       \* SDK instances
          Session,      \* calls of sign: each draws a fresh execution id (UUID)
          Rounds,       \* rounds of the protocol
          InstMod,      \* instance ids are drawn from 0..InstMod-1: 2^16 in the code
          CtrMod,       \* the tx counter wraps at this: 2^16 in the code
          Faults,       \* which faults the environment has, see Fault
          MaxRestarts,  \* bound: restarts of the broker
          None,         \* no message, no session, no tx_id
          Clash         \* two messages for one round from one sender

Fault == {"unreachable",  \* a participant cannot be called, or cannot subscribe
          "timeout",      \* the 60 s of reqwest's total timeout run out
          "stream",       \* an SSE connection breaks
          "post",         \* a POST fails in transport
          "reject",       \* a POST is answered 4xx or 5xx
          "restart",      \* the gateway restarts and loses every room
          "crash"}        \* an SDK's process dies, and starts again

ASSUME RoundsAssumption == Rounds \in Nat \ {0}
ASSUME TxIdAssumption == InstMod \in Nat \ {0} /\ CtrMod \in Nat \ {0}
ASSUME FaultsAssumption == Faults \subseteq Fault
ASSUME MaxRestartsAssumption == MaxRestarts \in Nat
ASSUME NoneAssumption ==
    /\ None \notin Session /\ Clash \notin Session /\ None # Clash
    /\ None \notin Nat

Party == {0, 1}           \* the hard-coded parties_indexes_at_keygen
Remote == 0               \* the sign-service's; the SDK hosts the other
Peer(i) == 1 - i
Attempt == Session \X Party
TxId == 0..(InstMod * CtrMod - 1)
Msg == [eid : Session, sender : Party, round : 1..Rounds]

VARIABLES
    instance_id, tx_counter,  \* of each signer
    current,      \* current[g]: the session g's sign is busy with, or None
    tx_id,        \* tx_id[s], or None while s has not been started
    hist,         \* hist[x]: history of room signing_x, as of the last restart
    restarts,     \* how often the broker has restarted
    upstream,     \* the session whose call the gateway forwards, or None
    stage,        \* of each participant's sign_tx
    round,        \* the round a participant is in
    pos,          \* how much of the history its stream has delivered; 0 without one
    inbox,        \* inbox[a][k]: whose round-k message the router holds
    cutOff,       \* participants whose stream a restart has cut
    posted        \* ghost: every message a broker ever stored

signerVars == <<instance_id, tx_counter, current, tx_id>>
brokerVars == <<hist, restarts, posted>>
partyVars == <<stage, round, pos, inbox, cutOff>>
vars == <<signerVars, brokerVars, upstream, partyVars>>

Held == Session \cup {None, Clash}

TypeOK ==
    /\ instance_id \in [Signer -> 0..(InstMod - 1)]
    /\ tx_counter \in [Signer -> 0..(CtrMod - 1)]
    /\ current \in [Signer -> Session \cup {None}]
    /\ tx_id \in [Session -> TxId \cup {None}]
    /\ hist \in [TxId -> Seq(Msg)]
    /\ restarts \in 0..MaxRestarts
    /\ upstream \in Session \cup {None}
    /\ stage \in [Attempt -> {"idle", "queued", "called", "sending", "waiting", "ok", "failed"}]
    /\ round \in [Attempt -> 1..Rounds]
    /\ pos \in [Attempt -> Nat]
    /\ inbox \in [Attempt -> [1..Rounds -> Held]]
    /\ cutOff \subseteq Attempt
    /\ posted \subseteq Msg

Empty == [k \in 1..Rounds |-> None]     \* what a new router holds

\* generate_instance_id: clock and random bits, so any value for any signer.
Init ==
    /\ instance_id \in [Signer -> 0..(InstMod - 1)]
    /\ tx_counter = [g \in Signer |-> 0]
    /\ current = [g \in Signer |-> None]
    /\ tx_id = [s \in Session |-> None]
    /\ hist = [x \in TxId |-> <<>>]
    /\ restarts = 0
    /\ upstream = None
    /\ stage = [a \in Attempt |-> "idle"]
    /\ round = [a \in Attempt |-> 1]
    /\ pos = [a \in Attempt |-> 0]
    /\ inbox = [a \in Attempt |-> Empty]
    /\ cutOff = {}
    /\ posted = {}

Becomes(a, from, to) ==
    /\ stage[a] \in from
    /\ stage' = [stage EXCEPT ![a] = to]

\* The streams of as are closed, and what their routers held is dropped.
StreamsEnd(as) ==
    /\ pos' = [a \in Attempt |-> IF a \in as THEN 0 ELSE pos[a]]
    /\ inbox' = [a \in Attempt |-> IF a \in as THEN Empty ELSE inbox[a]]

\* sign_tx returns, or is dropped.
Leaves(a, from, to) ==
    /\ Becomes(a, from, to)
    /\ StreamsEnd({a})
    /\ cutOff' = cutOff \ {a}

Over == {"ok", "failed"}
History(a) == hist[tx_id[a[1]]]
MsgOf(a) == [eid |-> a[1], sender |-> a[2], round |-> round[a]]

-----------------------------------------------------------------------------
(* The SDK: Signer::sign *)

\* next_tx_id: the instance id above, the counter, which wraps, below.
NextTxId(g) == instance_id[g] * CtrMod + tx_counter[g]

\* The participants a call to sign sends its SignMessage to.
Called(s) == [a \in Attempt |-> IF a[1] # s THEN stage[a]
                                ELSE IF a[2] = Remote THEN "queued" ELSE "called"]

\* Mutant of Sign: the counter does not wrap.
SignUnwrapped(g, s) ==
    /\ current[g] = None
    /\ tx_id[s] = None
    /\ tx_id' = [tx_id EXCEPT ![s] = NextTxId(g)]
    /\ tx_counter' = [tx_counter EXCEPT ![g] = @ + 1]
    /\ current' = [current EXCEPT ![g] = s]
    /\ stage' = Called(s)
    /\ UNCHANGED <<instance_id, brokerVars, upstream, round, pos, inbox, cutOff>>

\* sign starts: &mut self under MpcSigner's mutex, so one session at a time.
\* Both participants are sent the same tx_id and execution id.
Sign(g, s) ==
    /\ current[g] = None
    /\ tx_id[s] = None
    /\ tx_id' = [tx_id EXCEPT ![s] = NextTxId(g)]
    /\ tx_counter' = [tx_counter EXCEPT ![g] = (@ + 1) % CtrMod]
    /\ current' = [current EXCEPT ![g] = s]
    /\ stage' = Called(s)
    /\ UNCHANGED <<instance_id, brokerVars, upstream, round, pos, inbox, cutOff>>

\* join_all has both answers: the first Ok, or an error when there is none.
Return(g) ==
    /\ current[g] # None
    /\ \A i \in Party : stage[<<current[g], i>>] \in Over
    /\ upstream # current[g]
    /\ current' = [current EXCEPT ![g] = None]
    /\ UNCHANGED <<instance_id, tx_counter, tx_id, brokerVars, upstream, partyVars>>

-----------------------------------------------------------------------------
(* The gateway: sign_tx of its Participant and SignGateway services *)

\* The one client to the sign-service is locked for the whole call.
Forward(s) ==
    /\ upstream = None
    /\ Becomes(<<s, Remote>>, {"queued"}, "called")
    /\ upstream' = s
    /\ UNCHANGED <<signerVars, brokerVars, round, pos, inbox, cutOff>>

\* The sign-service's answer, or error, is passed on and the lock released, by
\* a handler whose caller is still there: one that was dropped answers nothing.
Answer(s) ==
    /\ upstream = s
    /\ \E g \in Signer : current[g] = s
    /\ stage[<<s, Remote>>] \in Over
    /\ upstream' = None
    /\ UNCHANGED <<signerVars, brokerVars, partyVars>>

-----------------------------------------------------------------------------
(* A participant: sign_tx, join_room, and the protocol over the room *)

\* Mutant of Join: the stream starts at what is posted from now on.
JoinAtEnd(a) ==
    /\ Becomes(a, {"called"}, "sending")
    /\ pos' = [pos EXCEPT ![a] = Len(History(a))]
    /\ UNCHANGED <<signerVars, upstream, brokerVars, round, inbox, cutOff>>

\* The GET that subscribes has been answered; the stream starts at event 0.
Join(a) ==
    /\ Becomes(a, {"called"}, "sending")
    /\ UNCHANGED <<signerVars, upstream, brokerVars, round, pos, inbox, cutOff>>

Unreachable(a) ==
    /\ "unreachable" \in Faults
    /\ Leaves(a, {"queued", "called"}, "failed")
    /\ UNCHANGED <<signerVars, upstream, brokerVars, round>>

Store(a) ==
    /\ hist' = [hist EXCEPT ![tx_id[a[1]]] = Append(@, MsgOf(a))]
    /\ posted' = posted \cup {MsgOf(a)}
    /\ UNCHANGED restarts

\* The round's message is posted.
Send(a) ==
    /\ Becomes(a, {"sending"}, "waiting")
    /\ Store(a)
    /\ UNCHANGED <<signerVars, upstream, round, pos, inbox, cutOff>>

\* broadcast looks at the transport's error only: a POST that was refused
\* with a status counts as sent.
SendRejected(a) ==
    /\ "reject" \in Faults
    /\ Becomes(a, {"sending"}, "waiting")
    /\ UNCHANGED <<signerVars, upstream, brokerVars, round, pos, inbox, cutOff>>

\* The sink fails the protocol, whether or not the message had got through.
SendFails(a) ==
    /\ "post" \in Faults
    /\ Leaves(a, {"sending"}, "failed")
    /\ Store(a) \/ UNCHANGED brokerVars
    /\ UNCHANGED <<signerVars, upstream, round>>

NeedsInput(a) == stage[a] = "waiting" /\ inbox[a][round[a]] = None

\* Mutant of Routed: our own messages are not filtered out.
RoutedUnfiltered(a, m) ==
    IF m.round < round[a]
    THEN inbox[a]
    ELSE [inbox[a] EXCEPT ![m.round] = IF @ = None THEN m.eid ELSE Clash]

\* Mutant of Routed: only what is addressed to our index passes the filter, and
\* broadcasts are lost.
RoutedP2POnly(a, m) == inbox[a]

\* What the router does with message m: join_room's filter drops what our own
\* index sent, completed rounds are over, a second message is a clash.
Routed(a, m) ==
    IF m.sender = a[2] \/ m.round < round[a]
    THEN inbox[a]
    ELSE [inbox[a] EXCEPT ![m.round] = IF @ = None THEN m.eid ELSE Clash]

Read(a) ==
    /\ NeedsInput(a)
    /\ a \notin cutOff
    /\ pos[a] < Len(History(a))
    /\ inbox' = [inbox EXCEPT ![a] = Routed(a, History(a)[pos[a] + 1])]
    /\ pos' = [pos EXCEPT ![a] = @ + 1]
    /\ UNCHANGED <<signerVars, upstream, brokerVars, stage, round, cutOff>>

\* The round is complete and verifies: on to the next, or done.
Advance(a) ==
    /\ stage[a] = "waiting"
    /\ inbox[a][round[a]] = a[1]
    /\ round[a] < Rounds
    /\ Becomes(a, {"waiting"}, "sending")
    /\ round' = [round EXCEPT ![a] = @ + 1]
    /\ UNCHANGED <<signerVars, upstream, brokerVars, pos, inbox, cutOff>>

\* Mutant of Finish: the messages of the last round are not verified.
FinishUnverified(a) ==
    /\ stage[a] = "waiting"
    /\ inbox[a][round[a]] # None
    /\ round[a] = Rounds
    /\ Leaves(a, {"waiting"}, "ok")
    /\ UNCHANGED <<signerVars, upstream, brokerVars, round>>

Finish(a) ==
    /\ stage[a] = "waiting"
    /\ inbox[a][round[a]] = a[1]
    /\ round[a] = Rounds
    /\ Leaves(a, {"waiting"}, "ok")
    /\ UNCHANGED <<signerVars, upstream, brokerVars, round>>

\* Not made for this execution id, or two messages where one belongs.
Reject(a) ==
    /\ stage[a] = "waiting"
    /\ inbox[a][round[a]] \notin {None, a[1]}
    /\ Leaves(a, {"waiting"}, "failed")
    /\ UNCHANGED <<signerVars, upstream, brokerVars, round>>

\* The stream ends with an error while the router needs a message from it;
\* nobody subscribes again.
StreamError(a) ==
    /\ NeedsInput(a)
    /\ "stream" \in Faults \/ a \in cutOff
    /\ Leaves(a, {"waiting"}, "failed")
    /\ UNCHANGED <<signerVars, upstream, brokerVars, round>>

\* Mutant of StreamTimeout: no timeout once the stream is established.
NoStreamTimeout(a) ==
    /\ "timeout" \in Faults
    /\ Leaves(a, {"called"}, "failed")
    /\ UNCHANGED <<signerVars, upstream, brokerVars, round>>

\* The client's 60 s total timeout, which covers the stream's body as well.
StreamTimeout(a) ==
    /\ NeedsInput(a)
    /\ "timeout" \in Faults
    /\ Leaves(a, {"waiting"}, "failed")
    /\ UNCHANGED <<signerVars, upstream, brokerVars, round>>

-----------------------------------------------------------------------------
(* Crashes *)

\* Rooms live in memory only, and the calls that pass the gateway end with it.
Restart ==
    /\ "restart" \in Faults
    /\ restarts < MaxRestarts
    /\ restarts' = restarts + 1
    /\ hist' = [x \in TxId |-> <<>>]
    /\ upstream' = None
    /\ LET ended == {a \in Attempt : a[2] = Remote /\ stage[a] \notin Over \cup {"idle"}}
       IN  /\ stage' = [a \in Attempt |-> IF a \in ended THEN "failed" ELSE stage[a]]
           /\ StreamsEnd(ended)
    /\ cutOff' = {a \in Attempt : stage'[a] \in {"sending", "waiting"}}
    /\ UNCHANGED <<signerVars, posted, round>>

\* The calls of a session that an SDK's death ends.
Ended(s) == {a \in Attempt : a[1] = s /\ stage[a] # "ok"}

\* Mutant of Crash: the guard of the gateway's mutex outlives the dropped call.
CrashKeepsLock(g) ==
    /\ "crash" \in Faults
    /\ current[g] # None
    /\ stage' = [a \in Attempt |-> IF a \in Ended(current[g]) THEN "failed" ELSE stage[a]]
    /\ StreamsEnd(Ended(current[g]))
    /\ cutOff' = cutOff \ Ended(current[g])
    /\ current' = [current EXCEPT ![g] = None]
    /\ \E n \in 0..(InstMod - 1) : instance_id' = [instance_id EXCEPT ![g] = n]
    /\ tx_counter' = [tx_counter EXCEPT ![g] = 0]
    /\ UNCHANGED <<tx_id, upstream, brokerVars, round>>

\* The SDK dies with the participant it hosts; the gateway and the sign-service
\* drop the call when its connection closes.  The next process starts with an
\* instance id of its own and the counter at 0.
Crash(g) ==
    /\ "crash" \in Faults
    /\ current[g] # None
    /\ stage' = [a \in Attempt |-> IF a \in Ended(current[g]) THEN "failed" ELSE stage[a]]
    /\ StreamsEnd(Ended(current[g]))
    /\ cutOff' = cutOff \ Ended(current[g])
    /\ upstream' = IF upstream = current[g] THEN None ELSE upstream
    /\ current' = [current EXCEPT ![g] = None]
    /\ \E n \in 0..(InstMod - 1) : instance_id' = [instance_id EXCEPT ![g] = n]
    /\ tx_counter' = [tx_counter EXCEPT ![g] = 0]
    /\ UNCHANGED <<tx_id, brokerVars, round>>

AttemptStep(a) ==
    \/ Join(a)
    \/ Unreachable(a)
    \/ Send(a)
    \/ SendRejected(a)
    \/ SendFails(a)
    \/ Read(a)
    \/ Advance(a)
    \/ Finish(a)
    \/ Reject(a)
    \/ StreamError(a)
    \/ StreamTimeout(a)

Next ==
    \/ \E g \in Signer : \/ \E s \in Session : Sign(g, s)
                         \/ Return(g)
                         \/ Crash(g)
    \/ \E s \in Session : Forward(s) \/ Answer(s)
    \/ \E a \in Attempt : AttemptStep(a)
    \/ Restart

\* What a participant's task does next once its call has reached it.
Task(a) ==
    \/ stage[a] = "called" /\ (Join(a) \/ Unreachable(a))
    \/ Send(a) \/ SendRejected(a) \/ SendFails(a)
    \/ Read(a) \/ Advance(a) \/ Finish(a) \/ Reject(a)
    \/ StreamTimeout(a)

\* Tasks are polled, requests are answered one way or the other - which way is
\* not fair - and a participant's wait is ended by the clock.  Nothing ends the
\* wait for the gateway's mutex but its release: a queued call may fail, and
\* need not.  The mutex is handed on in line, and each session's call waits for
\* it once, so weak fairness of Forward is enough.
Fairness ==
    /\ \A g \in Signer : WF_vars(Return(g))
    /\ \A s \in Session : WF_vars(Forward(s) \/ Answer(s))
    /\ \A a \in Attempt : WF_vars(Task(a))

Spec == Init /\ [][Next]_vars
FairSpec == Spec /\ Fairness

-----------------------------------------------------------------------------
\* A participant returns a signature only when its peer has posted, for the
\* same execution id, every round message: no participant signs alone, and
\* no message of another session that met in the room takes a part in it.
SignatureFromBoth ==
    \A s \in Session, i \in Party :
        stage[<<s, i>>] = "ok" =>
            \A k \in 1..Rounds :
                [eid |-> s, sender |-> Peer(i), round |-> k] \in posted

\* Two participants wait for each other with nothing left to read only if a
\* message of theirs was refused: a message that was stored is never missed,
\* by a participant that subscribed after it was posted either.
NoMutualWait ==
    \A s \in Session :
        LET pair == {<<s, i>> : i \in Party}
            AllStored(a) == \A k \in 1..round[a] : [MsgOf(a) EXCEPT !.round = k] \in posted
        IN  (\A a \in pair : NeedsInput(a) /\ a \notin cutOff /\ AllStored(a))
            => \E a \in pair : pos[a] < Len(History(a))

\* The abstract service: a participant consents with its last message.
asked == {s \in Session : tx_id[s] # None}

consent ==
    [s \in Session |->
        {i \in Party : \A k \in 1..Rounds :
                          [eid |-> s, sender |-> i, round |-> k] \in posted}]

outcome == [a \in Attempt |-> CASE stage[a] = "ok" -> "signed"
                                [] stage[a] = "failed" -> "failed"
                                [] OTHER -> "open"]

Service == INSTANCE ThresholdSigning WITH Request <- Session

\* The sessions implement that service: each participant's outcome is final,
\* also when a broker or an SDK dies, and a signature needs the peer's consent.
ServiceSpec == Service!Spec

\* Every call of sign returns, whatever goes wrong, also when the peer never
\* shows up, and when another signer holds the gateway's lock or dies with it.
SignReturns == \A g \in Signer : (current[g] # None) ~> (current[g] = None)

\* Without faults a session that has its room to itself ends with both
\* signatures, whichever participant joins first and however late the other.
SoloSessionSucceeds ==
    \A s \in Session :
        (tx_id[s] # None)
            ~> \/ \A i \in Party : stage[<<s, i>>] = "ok"
               \/ \E t \in Session \ {s} : tx_id[t] = tx_id[s]
=============================================================================
