---------------------------- MODULE SdkLifecycle ----------------------------
(***************************************************************************)
(* The life of the gRPC participant servers (participant/src/lib.rs) and   *)
(* of those who host them: the SDK's MpcSigner, which creates one in       *)
(* initialize and stops it in shutdown or when it is dropped               *)
(* (mpc-client/src/lib.rs, signer.rs), and the sign-service, whose process *)
(* lives as long as its server should (sign-service/src/service.rs).       *)
(*                                                                         *)
(* Every call of an MpcSigner holds its mutex from start to end, so one    *)
(* call at a time is modelled per SDK; the server tasks run beside it.  A  *)
(* tonic client reconnects on its own, so a local client is no more than   *)
(* the address it calls: whoever listens there answers.                    *)
(***************************************************************************)
EXTENDS Naturals, FiniteSets

CONSTANTS Sdk,          \* MpcSigner objects, over time
          PortOf,       \* PortOf[k]: the configured port of the local participant
          MaxInit,      \* bound: calls of initialize on one MpcSigner
          Overlap,      \* whether an MpcSigner is created while another is in use
          Prompt,       \* whether 1 s is enough for a spawned server to bind
          Service,      \* the sign-service's server
          None

ASSUME MaxInitAssumption == MaxInit \in Nat \ {0}
ASSUME SwitchAssumption == Overlap \in BOOLEAN /\ Prompt \in BOOLEAN

Local == Sdk \X (1..MaxInit)      \* one server per call of initialize
Server == Local \cup {Service}

ASSUME NamesAssumption == Service \notin Local /\ None \notin Local

VARIABLES
    api,        \* of each MpcSigner: does it exist, does it hold a Signer
    call,       \* the call that holds its mutex
    inits,      \* calls of initialize so far
    started,    \* whether one of them returned Ok
    current,    \* Signer.local_participant_server
    handle,     \* Signer.local_participant_handle
    locals,     \* how many local clients all_participant_clients holds
    state,      \* of each server's task
    tx,         \* server_handle: a shutdown sender is stored
    signal,     \* the shutdown signal has been sent
    serving     \* serving[v]: whose sign_tx is in flight at server v

signerVars == <<current, handle, locals>>
apiVars == <<api, call, inits, started, signerVars>>
serverVars == <<state, tx, signal, serving>>
vars == <<apiVars, serverVars>>

TypeOK ==
    /\ api \in [Sdk -> {"none", "ready", "shut", "gone"}]
    /\ call \in [Sdk -> {"idle", "starting", "signing", "stopping", "dropping"}]
    /\ inits \in [Sdk -> 0..MaxInit]
    /\ started \in [Sdk -> BOOLEAN]
    /\ current \in [Sdk -> Local \cup {None}]
    /\ handle \in [Sdk -> Local \cup {None}]
    /\ locals \in [Sdk -> 0..MaxInit]
    /\ state \in [Server -> {"none", "spawned", "listening", "draining", "ended"}]
    /\ tx \in [Server -> BOOLEAN]
    /\ signal \in [Server -> BOOLEAN]
    /\ serving \in [Server -> SUBSET Sdk]

Init ==
    /\ api = [k \in Sdk |-> "none"]
    /\ call = [k \in Sdk |-> "idle"]
    /\ inits = [k \in Sdk |-> 0]
    /\ started = [k \in Sdk |-> FALSE]
    /\ current = [k \in Sdk |-> None]
    /\ handle = [k \in Sdk |-> None]
    /\ locals = [k \in Sdk |-> 0]
    /\ state = [v \in Server |-> IF v = Service THEN "spawned" ELSE "none"]
    /\ tx = [v \in Server |-> FALSE]
    /\ signal = [v \in Server |-> FALSE]
    /\ serving = [v \in Server |-> {}]

Calls(k, from, to) ==
    /\ call[k] = from
    /\ call' = [call EXCEPT ![k] = to]

-----------------------------------------------------------------------------
(* ParticipantServer: start, sign_tx, shutdown *)

SamePort(v, w) == \/ v = w
                  \/ v # Service /\ w # Service /\ PortOf[v[1]] = PortOf[w[1]]

Listeners(p) == {v \in Local : state[v] = "listening" /\ PortOf[v[1]] = p}

\* The task is polled: the sender is stored, then the address is bound - or
\* not, which ends the task with an error nobody looks at before shutdown.
Start(v) ==
    /\ state[v] = "spawned"
    /\ tx' = [tx EXCEPT ![v] = TRUE]
    /\ state' = [state EXCEPT ![v] =
                   IF \E w \in Server : SamePort(v, w) /\ state[w] = "listening"
                   THEN "ended" ELSE "listening"]
    /\ UNCHANGED <<apiVars, signal, serving>>

\* sign_tx is over; how it went is SigningSession's matter.
Answer(v, k) ==
    /\ k \in serving[v]
    /\ serving' = [serving EXCEPT ![v] = @ \ {k}]
    /\ UNCHANGED <<apiVars, state, tx, signal>>

\* Mutant of Drain: start drops the sender, and the receiver takes that for the
\* signal.
DrainAtOnce(v) ==
    /\ state[v] = "listening"
    /\ state' = [state EXCEPT ![v] = "draining"]
    /\ UNCHANGED <<apiVars, tx, signal, serving>>

\* The signal arrives: the listener is closed, accepted calls go on.
Drain(v) ==
    /\ state[v] = "listening"
    /\ signal[v]
    /\ state' = [state EXCEPT ![v] = "draining"]
    /\ UNCHANGED <<apiVars, tx, signal, serving>>

\* serve_with_shutdown returns.
End(v) ==
    /\ state[v] = "draining"
    /\ serving[v] = {}
    /\ state' = [state EXCEPT ![v] = "ended"]
    /\ UNCHANGED <<apiVars, tx, signal, serving>>

\* shutdown: take the sender, if start has stored one, and send.
SendShutdown(v) ==
    /\ tx' = [tx EXCEPT ![v] = FALSE]
    /\ signal' = [signal EXCEPT ![v] = @ \/ tx[v]]

-----------------------------------------------------------------------------
(* MpcSigner and the Signer in it *)

\* new: the connection to the gateway stands.
Create(k) ==
    /\ api[k] = "none"
    /\ Overlap \/ \A j \in Sdk : api[j] # "ready" /\ call[j] = "idle"
    /\ api' = [api EXCEPT ![k] = "ready"]
    /\ UNCHANGED <<call, inits, started, signerVars, serverVars>>

\* initialize: a new server, spawned, stored over what was there before.
Initialize(k) ==
    /\ api[k] = "ready"
    /\ inits[k] < MaxInit
    /\ Calls(k, "idle", "starting")
    /\ inits' = [inits EXCEPT ![k] = @ + 1]
    /\ LET v == <<k, inits[k] + 1>>
       IN  /\ current' = [current EXCEPT ![k] = v]
           /\ handle' = [handle EXCEPT ![k] = v]
           /\ state' = [state EXCEPT ![v] = "spawned"]
    /\ UNCHANGED <<api, started, locals, tx, signal, serving>>

\* Mutant of Connect: the local client is pushed twice.
ConnectTwice(k) ==
    /\ Calls(k, "starting", "idle")
    /\ Prompt => state[current[k]] # "spawned"
    /\ IF Listeners(PortOf[k]) # {}
       THEN /\ locals' = [locals EXCEPT ![k] = @ + 2]
            /\ started' = [started EXCEPT ![k] = TRUE]
       ELSE UNCHANGED <<locals, started>>
    /\ UNCHANGED <<api, inits, current, handle, serverVars>>

\* The sleep is over: connect to the configured address, whoever listens.
\* When nobody does, initialize fails, and what it has stored stays.
Connect(k) ==
    /\ Calls(k, "starting", "idle")
    /\ Prompt => state[current[k]] # "spawned"
    /\ IF Listeners(PortOf[k]) # {}
       THEN /\ locals' = [locals EXCEPT ![k] = @ + 1]
            /\ started' = [started EXCEPT ![k] = TRUE]
       ELSE UNCHANGED <<locals, started>>
    /\ UNCHANGED <<api, inits, current, handle, serverVars>>

\* sign: the remote participant and, if there is a local client, the local
\* one are called at once; those that do not listen refuse.
Sign(k) ==
    /\ api[k] = "ready"
    /\ Calls(k, "idle", "signing")
    /\ LET reached == (IF locals[k] > 0 THEN Listeners(PortOf[k]) ELSE {})
                      \cup {v \in {Service} : state[v] = "listening"}
       IN  serving' = [v \in Server |-> IF v \in reached THEN serving[v] \cup {k}
                                                         ELSE serving[v]]
    /\ UNCHANGED <<api, inits, started, signerVars, state, tx, signal>>

SignReturns(k) ==
    /\ Calls(k, "signing", "idle")
    /\ \A v \in Server : k \notin serving[v]
    /\ UNCHANGED <<api, inits, started, signerVars, serverVars>>

\* stop_local_participant begins: for shutdown, or in Signer's Drop.
Stop(k, as) ==
    /\ Calls(k, "idle", as)
    /\ IF current[k] # None THEN SendShutdown(current[k]) ELSE UNCHANGED <<tx, signal>>
    /\ UNCHANGED <<api, inits, started, signerVars, state, serving>>

Shutdown(k) == api[k] = "ready" /\ Stop(k, "stopping")
Drop(k) == api[k] \in {"ready", "shut"} /\ Stop(k, "dropping")

\* Mutant of Waited: nobody waits.
DoNotWait(k) == handle[k] \in Local \cup {None}

\* The server's task has ended, or 5 s are over: time enough for a prompt task
\* to see the signal and close its listener, not to finish its calls.
Waited(k) ==
    handle[k] # None /\ Prompt /\ signal[handle[k]]
        => state[handle[k]] \in {"draining", "ended"}

\* shutdown returns; the Signer is gone, with its clients.
ShutdownReturns(k) ==
    /\ Calls(k, "stopping", "idle")
    /\ Waited(k)
    /\ api' = [api EXCEPT ![k] = "shut"]
    /\ current' = [current EXCEPT ![k] = None]
    /\ handle' = [handle EXCEPT ![k] = None]
    /\ locals' = [locals EXCEPT ![k] = 0]
    /\ UNCHANGED <<inits, started, serverVars>>

\* The MpcSigner's runtime is dropped last, and every task on it ends.
Dropped(k) ==
    /\ Calls(k, "dropping", "idle")
    /\ Waited(k)
    /\ api' = [api EXCEPT ![k] = "gone"]
    /\ current' = [current EXCEPT ![k] = None]
    /\ handle' = [handle EXCEPT ![k] = None]
    /\ locals' = [locals EXCEPT ![k] = 0]
    /\ state' = [v \in Server |-> IF v \in Local /\ v[1] = k /\ state[v] # "none"
                                  THEN "ended" ELSE state[v]]
    /\ serving' = [v \in Server |-> IF v \in Local /\ v[1] = k THEN {} ELSE serving[v]]
    /\ UNCHANGED <<inits, started, tx, signal>>

-----------------------------------------------------------------------------
(* The sign-service's process *)

\* SIGTERM or Ctrl-C: shutdown sends the signal.
Terminate ==
    /\ tx[Service]
    /\ SendShutdown(Service)
    /\ UNCHANGED <<apiVars, state, serving>>

\* shutdown has taken the sender, or found none: run_services returns, and with
\* main the process ends.
Exit ==
    /\ ~tx[Service]
    /\ state[Service] # "ended"
    /\ state' = [state EXCEPT ![Service] = "ended"]
    /\ serving' = [serving EXCEPT ![Service] = {}]
    /\ UNCHANGED <<apiVars, tx, signal>>

-----------------------------------------------------------------------------
ServerStep(v) == \/ Start(v)
                 \/ \E k \in Sdk : Answer(v, k)
                 \/ Drain(v)
                 \/ End(v)

SdkStep(k) == \/ Create(k)
              \/ Initialize(k)
              \/ Connect(k)
              \/ Sign(k)
              \/ SignReturns(k)
              \/ Shutdown(k)
              \/ ShutdownReturns(k)
              \/ Drop(k)
              \/ Dropped(k)

Next == \/ \E v \in Server : ServerStep(v)
        \/ \E k \in Sdk : SdkStep(k)
        \/ Terminate
        \/ Exit

Spec == Init /\ [][Next]_vars

-----------------------------------------------------------------------------
\* mpc-client's README: shutdown cleans up.  Once it has returned, no server
\* of the MpcSigner takes a call.
ShutdownStops ==
    \A k \in Sdk : api[k] \in {"shut", "gone"} =>
        \A v \in Local : v[1] = k => state[v] \notin {"spawned", "listening"}

\* A signer's local call is never answered by the participant - and the key
\* shares - of another MpcSigner, also when one follows the other on its port.
OwnParticipant ==
    \A v \in Local : serving[v] \subseteq {v[1]}

\* mpc-client's README: initialize starts the local participant.  When it has
\* returned Ok, the server it stored listens until it is told to stop.
InitializedServes ==
    \A k \in Sdk :
        api[k] = "ready" /\ call[k] \in {"idle", "signing"} /\ started[k]
            => state[current[k]] = "listening"

\* participant/src/lib.rs, shutdown: existing requests complete first.
RequestsComplete ==
    [][\A v \in Server : state[v] # "ended" /\ state'[v] = "ended" => serving[v] = {}]_vars
=============================================================================
