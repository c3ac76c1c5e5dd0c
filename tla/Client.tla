------------------------------- MODULE Client -------------------------------
(***************************************************************************)
(* The command-line client (client/src/main.rs) on top of the SDK: it runs *)
(* TEST_RUNS cycles, each with an MpcSigner of its own on the one          *)
(* configured port - new, initialize, ask the chain's RPC node, sign,      *)
(* shutdown, drop - and stops at the first cycle that fails.  Other        *)
(* MpcSigners may use the port before and after it.                        *)
(*                                                                         *)
(* The client is async, and an MpcSigner owns a tokio runtime, which       *)
(* panics when an async task drops it.  run_mpc_signing_test is one: what  *)
(* it still owns when it returns is dropped there.  The drops at the end   *)
(* of a cycle go through spawn_blocking for that reason.  A panic ends the *)
(* process.  The client's other panics cannot occur: it parses constants,  *)
(* converts slices of 32 bytes, and its blocking task does not panic.      *)
(***************************************************************************)
EXTENDS SdkLifecycle, Sequences

CONSTANT Cycles         \* Cycles[i]: the MpcSigner of the client's i-th cycle

ASSUME CyclesAssumption ==
    /\ Cycles \in Seq(Sdk) /\ Cycles # <<>>
    /\ \A i, j \in DOMAIN Cycles : Cycles[i] = Cycles[j] => i = j

VARIABLES
    cycle,      \* the number of the cycle
    at,         \* where run_mpc_signing_test is
    good,       \* whether all has gone well in this cycle
    holder      \* who owns the cycle's runtime, and drops it: "task" is async

clientVars == <<cycle, at, good, holder>>
allVars == <<vars, clientVars>>

Mine == Cycles[cycle]
App == Sdk \ {Cycles[i] : i \in DOMAIN Cycles}

ClientTypeOK ==
    /\ TypeOK
    /\ cycle \in DOMAIN Cycles
    /\ at \in {"next", "created", "initializing", "ready", "signing", "signed",
               "stopping", "stopped", "dropping", "leaving", "done", "panicked"}
    /\ good \in BOOLEAN
    /\ holder \in {"none", "task", "blocking"}

ClientInit ==
    /\ Init
    /\ cycle = 1
    /\ at = "next"
    /\ good = TRUE
    /\ holder = "none"

Goes(from, to) ==
    /\ at = from
    /\ at' = to

\* run_mpc_signing_test has an error to return.
FailsAt(from) ==
    /\ Goes(from, "leaving")
    /\ good' = FALSE

-----------------------------------------------------------------------------
(* run_mpc_signing_test, call by call *)

CycleNew ==
    /\ Goes("next", "created")
    /\ Create(Mine)
    /\ holder' = "task"
    /\ UNCHANGED <<cycle, good>>

\* No runtime could be made, or the gateway cannot be reached: then
\* MpcSigner::new has a runtime to drop before it returns its error.
CycleNewFails ==
    /\ FailsAt("next")
    /\ holder' \in {"none", "task"}
    /\ UNCHANGED <<vars, cycle>>

CycleInitialize ==
    /\ Goes("created", "initializing")
    /\ Initialize(Mine)
    /\ UNCHANGED <<cycle, good, holder>>

\* A key share that does not parse: initialize fails before there is a server.
CycleRefused ==
    /\ FailsAt("created")
    /\ UNCHANGED <<vars, cycle, holder>>

\* The local client connects, or nobody listens on the port.
CycleConnect ==
    /\ Connect(Mine)
    /\ IF Listeners(PortOf[Mine]) # {}
       THEN Goes("initializing", "ready") /\ UNCHANGED good
       ELSE FailsAt("initializing")
    /\ UNCHANGED <<cycle, holder>>

\* The node has told the block number; the transaction is built and signed.
CycleSign ==
    /\ Goes("ready", "signing")
    /\ Sign(Mine)
    /\ UNCHANGED <<cycle, good, holder>>

\* Mutant of RpcFails: the error is returned without shutting down first.
RpcFailsAtOnce ==
    /\ FailsAt("ready")
    /\ UNCHANGED <<vars, cycle, holder>>

\* The RPC node does not answer: shut down, drop, give up.
RpcFails ==
    /\ Goes("ready", "signed")
    /\ good' = FALSE
    /\ UNCHANGED <<vars, cycle, holder>>

\* sign_data returns a signature, or an error; either way comes the clean-up.
CycleSigned ==
    /\ Goes("signing", "signed")
    /\ SignReturns(Mine)
    /\ good' \in BOOLEAN
    /\ UNCHANGED <<cycle, holder>>

CycleShutdown ==
    /\ Goes("signed", "stopping")
    /\ Shutdown(Mine)
    /\ UNCHANGED <<cycle, good, holder>>

CycleStopped ==
    /\ Goes("stopping", "stopped")
    /\ ShutdownReturns(Mine)
    /\ UNCHANGED <<cycle, good, holder>>

\* spawn_blocking: the MpcSigner is moved there, and goes with its runtime.
CycleDrop ==
    /\ Goes("stopped", "dropping")
    /\ Drop(Mine)
    /\ holder' = "blocking"
    /\ UNCHANGED <<cycle, good>>

\* Mutant of CycleDropped: the blocking task is not awaited.
DropNotAwaited ==
    /\ Goes("dropping", "leaving")
    /\ holder' = "none"
    /\ UNCHANGED <<vars, cycle, good>>

CycleDropped ==
    /\ Goes("dropping", "leaving")
    /\ Dropped(Mine)
    /\ holder' = "none"
    /\ UNCHANGED <<cycle, good>>

\* The process dies, and with it whatever the cycle's MpcSigner had started;
\* the sign-service notices the closed connection and drops the call.
ProcessDies ==
    /\ at' = "panicked"
    /\ api' = [api EXCEPT ![Mine] = "gone"]
    /\ call' = [call EXCEPT ![Mine] = "idle"]
    /\ current' = [current EXCEPT ![Mine] = None]
    /\ handle' = [handle EXCEPT ![Mine] = None]
    /\ locals' = [locals EXCEPT ![Mine] = 0]
    /\ state' = [v \in Server |-> IF v \in Local /\ v[1] = Mine /\ state[v] # "none"
                                  THEN "ended" ELSE state[v]]
    /\ serving' = [v \in Server |-> serving[v] \ {Mine}]
    /\ UNCHANGED <<inits, started, tx, signal, cycle>>

\* main: the next cycle after a good one, if there is one.
GoesOn ==
    /\ IF good /\ cycle < Len(Cycles)
       THEN cycle' = cycle + 1 /\ at' = "next"
       ELSE UNCHANGED cycle /\ at' = "done"
    /\ UNCHANGED vars

\* run_mpc_signing_test returns, and what it owns is dropped: a runtime panics
\* in an async task, in Signer's Drop already if a server has been made.
Returns ==
    /\ at = "leaving"
    /\ IF holder = "task" THEN ProcessDies ELSE GoesOn
    /\ UNCHANGED <<good, holder>>

-----------------------------------------------------------------------------
ClientStep ==
    \/ CycleNew \/ CycleNewFails
    \/ CycleInitialize \/ CycleRefused
    \/ CycleConnect
    \/ CycleSign \/ RpcFails \/ CycleSigned
    \/ CycleShutdown \/ CycleStopped
    \/ CycleDrop \/ CycleDropped
    \/ Returns

Around ==
    \/ \E v \in Server : ServerStep(v)
    \/ \E k \in App : SdkStep(k)
    \/ Terminate
    \/ Exit

ClientNext == ClientStep \/ (Around /\ UNCHANGED clientVars)

ClientSpec == ClientInit /\ [][ClientNext]_allVars

-----------------------------------------------------------------------------
\* main prints "Resource cleanup: VERIFIED".  When a cycle is over, and before
\* the next one uses the port, nothing of it is left: no server task, no call
\* at its own participant or at the sign-service, no lock held.
CyclesCleanUp ==
    \A i \in DOMAIN Cycles :
        i < cycle \/ (i = cycle /\ at \in {"done", "panicked"}) =>
            /\ call[Cycles[i]] = "idle"
            /\ \A v \in Server : Cycles[i] \notin serving[v]
            /\ \A v \in Local : v[1] = Cycles[i] => state[v] \in {"none", "ended"}

\* The client's own comment: drop in a blocking context, to avoid the panic.
\* Once a cycle's initialize has returned Ok, no way out of the cycle leaves
\* its runtime to be dropped by the async task.
NoPanicOnceStarted == at = "panicked" => ~started[Mine]
=============================================================================
