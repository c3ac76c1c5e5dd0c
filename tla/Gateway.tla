------------------------------ MODULE Gateway ------------------------------
(***************************************************************************)
(* The gateway's process (sign-gateway/src/main.rs): it connects to the    *)
(* sign-service, starts an SSE server (sse/src/lib.rs, start) and a gRPC   *)
(* server (grpc.rs, serve) as tasks of their own, waits until it is        *)
(* signalled or one of them ends, and shuts down what is left.  The calls  *)
(* of sign_tx it forwards, and the lock they queue for, are GatewayQueue.  *)
(*                                                                         *)
(* actix is external, as the code uses it: it handles the signals itself,  *)
(* stops on the handle's command, and goes on serving on its own threads   *)
(* when the future that start awaits is dropped.                           *)
(***************************************************************************)
EXTENDS GatewayQueue

VARIABLES
    main,       \* where main is
    sse,        \* the task that runs SseServer::start
    actix,      \* the SSE server's threads
    handle,     \* server_handle
    grpc,       \* the task that runs SignGatewayGrpc::serve
    open,       \* the JoinHandles that main has not used up
    signalled   \* the process has received SIGINT or SIGTERM

procVars == <<main, sse, actix, handle, grpc, open, signalled>>
vars == <<callVars, procVars>>

TypeOK ==
    /\ QueueTypeOK
    /\ main \in {"connecting", "selecting", "told", "stopping", "joinSse",
                 "joinGrpc", "exited"}
    /\ sse \in {"none", "spawned", "serving", "ended"}
    /\ actix \in {"none", "up", "stopping", "down"}
    /\ handle \in {"none", "stored", "taken"}
    /\ grpc \in {"none", "spawned", "serving", "draining", "ended"}
    /\ open \subseteq {"sse", "grpc"}
    /\ signalled \in BOOLEAN

Init ==
    /\ QueueInit
    /\ main = "connecting" /\ sse = "none" /\ actix = "none" /\ handle = "none"
    /\ grpc = "none" /\ open = {} /\ signalled = FALSE

\* The shutdown channel's value: main sends it as soon as the select is over.
Told == main \in {"told", "stopping", "joinSse", "joinGrpc", "exited"}

-----------------------------------------------------------------------------
(* main. *)

Connect ==
    /\ main = "connecting"
    /\ main' = "selecting"
    /\ sse' = "spawned" /\ grpc' = "spawned" /\ open' = {"sse", "grpc"}
    /\ UNCHANGED <<callVars, actix, handle, signalled>>

\* No sign-service at the address: main returns the error.
ConnectFails ==
    /\ main = "connecting"
    /\ main' = "exited"
    /\ UNCHANGED <<callVars, sse, actix, handle, grpc, open, signalled>>

\* The signal reaches main's handler and actix's own.
Signal ==
    /\ main = "selecting"
    /\ main' = "told" /\ signalled' = TRUE
    /\ UNCHANGED <<callVars, sse, actix, handle, grpc, open>>

SseEnded ==
    /\ main = "selecting" /\ sse = "ended"
    /\ main' = "told" /\ open' = open \ {"sse"}
    /\ UNCHANGED <<callVars, sse, actix, handle, grpc, signalled>>

GrpcEnded ==
    /\ main = "selecting" /\ grpc = "ended"
    /\ main' = "told" /\ open' = open \ {"grpc"}
    /\ UNCHANGED <<callVars, sse, actix, handle, grpc, signalled>>

\* SseServer::shutdown; without a handle there is nothing to stop.
Shutdown ==
    /\ main = "told"
    /\ IF handle = "stored" THEN main' = "stopping" /\ handle' = "taken"
                            ELSE main' = "joinSse" /\ UNCHANGED handle
    /\ UNCHANGED <<callVars, sse, actix, grpc, open, signalled>>

\* The command's answer comes when actix is down, or is dropped with the future.
StopReturns ==
    /\ main = "stopping"
    /\ actix = "down" \/ sse = "ended"
    /\ main' = "joinSse"
    /\ UNCHANGED <<callVars, sse, actix, handle, grpc, open, signalled>>

JoinSse ==
    /\ main = "joinSse"
    /\ "sse" \in open => sse = "ended"
    /\ main' = "joinGrpc"
    /\ UNCHANGED <<callVars, sse, actix, handle, grpc, open, signalled>>

\* Mutant of JoinGrpc: main returns without waiting for the gRPC server.
ReturnAtOnce ==
    /\ main = "joinGrpc"
    /\ main' = "exited" /\ actix' = "down"
    /\ UNCHANGED <<callVars, sse, handle, grpc, open, signalled>>

\* The process ends with main, and what is left of actix with it.
JoinGrpc ==
    /\ main = "joinGrpc"
    /\ "grpc" \in open => grpc = "ended"
    /\ main' = "exited" /\ actix' = "down"
    /\ UNCHANGED <<callVars, sse, handle, grpc, open, signalled>>

-----------------------------------------------------------------------------
(* The SSE server's task. *)

\* start binds, starts actix and stores its handle.  The handle's lock is free:
\* shutdown keeps it only while it stops a server whose handle is stored.
SseStart ==
    /\ sse = "spawned" /\ main # "exited"
    /\ sse' = "serving" /\ actix' = "up" /\ handle' = "stored"
    /\ excused' = (excused \/ line # <<>>)
    /\ UNCHANGED <<line, locked, held, main, grpc, open, signalled>>

SseBindFails ==
    /\ sse = "spawned" /\ main # "exited"
    /\ sse' = "ended"
    /\ UNCHANGED <<callVars, main, actix, handle, grpc, open, signalled>>

\* The select's other branch; actix's threads, if any, are left to themselves.
SseTold ==
    /\ sse \in {"spawned", "serving"} /\ Told
    /\ sse' = "ended"
    /\ UNCHANGED <<callVars, main, actix, handle, grpc, open, signalled>>

\* start returns, because actix has gone down.
SseEnds ==
    /\ sse = "serving" /\ actix = "down"
    /\ sse' = "ended"
    /\ UNCHANGED <<callVars, main, actix, handle, grpc, open, signalled>>

\* A signal or the handle's command reaches the future while it is polled.
ActixStops ==
    /\ actix = "up" /\ sse = "serving"
    /\ signalled \/ handle = "taken"
    /\ actix' = "stopping"
    /\ UNCHANGED <<callVars, main, sse, handle, grpc, open, signalled>>

\* At once on SIGINT; else when its 30 s for open streams are over.
ActixDown ==
    /\ actix = "stopping"
    /\ actix' = "down"
    /\ UNCHANGED <<callVars, main, sse, handle, grpc, open, signalled>>

-----------------------------------------------------------------------------
(* The gRPC server's task. *)

GrpcStart ==
    /\ grpc = "spawned" /\ main # "exited"
    /\ grpc' = "serving"
    /\ UNCHANGED <<callVars, main, sse, actix, handle, open, signalled>>

GrpcBindFails ==
    /\ grpc = "spawned" /\ main # "exited"
    /\ grpc' = "ended"
    /\ UNCHANGED <<callVars, main, sse, actix, handle, open, signalled>>

\* Mutant of GrpcDrain: serve without a shutdown signal.
GrpcServesOn == FALSE /\ UNCHANGED vars

\* The signal: no new calls from here on.
GrpcDrain ==
    /\ grpc = "serving" /\ Told
    /\ grpc' = "draining"
    /\ UNCHANGED <<callVars, main, sse, actix, handle, open, signalled>>

\* tonic waits for the calls it has accepted.
GrpcEnds ==
    /\ grpc = "draining" /\ line = <<>>
    /\ grpc' = "ended"
    /\ UNCHANGED <<callVars, main, sse, actix, handle, open, signalled>>

-----------------------------------------------------------------------------
(* The calls: none is accepted but by a server that serves, none succeeds but *)
(* with an SSE server to meet at, and none outlives the process.              *)

Accept == grpc = "serving" /\ Arrive
Completed == actix \in {"up", "stopping"} /\ Succeed
Answered == Completed \/ Refused
Lost == \E i \in Calls : Dies(i) \/ Cancelled(i)

Call == main # "exited" /\ (Accept \/ Forward \/ Answered \/ Lost) /\ UNCHANGED procVars
Pass == main # "exited" /\ Tick(actix = "up") /\ UNCHANGED procVars

Exited == main = "exited" /\ UNCHANGED vars

Main == Shutdown \/ StopReturns \/ JoinSse \/ JoinGrpc
Sse == SseStart \/ SseBindFails \/ SseTold \/ SseEnds
Grpc == GrpcStart \/ GrpcBindFails \/ GrpcDrain \/ GrpcEnds

Next ==
    \/ Connect \/ ConnectFails \/ Signal \/ SseEnded \/ GrpcEnded
    \/ Main \/ Sse \/ Grpc \/ ActixStops \/ ActixDown
    \/ Call \/ Pass \/ Exited

\* Tasks that can run do, actix stops when told to, and the sign-service
\* answers: the streams of its participant end within Hold (SigningSession).
Fairness ==
    /\ WF_vars(Main) /\ WF_vars(Sse) /\ WF_vars(Grpc)
    /\ WF_vars(ActixStops) /\ WF_vars(ActixDown)
    /\ WF_vars(Forward /\ UNCHANGED procVars) /\ WF_vars(Answered /\ UNCHANGED procVars)

Spec == Init /\ [][Next]_vars /\ Fairness

-----------------------------------------------------------------------------
\* As long as no SDK has died and the sessions there at a time take less than
\* Timeout together, no local participant times out behind the lock; and what
\* an SDK that died has done to the others is over when the gateway is idle.
WithinCapacityNobodyIsLate ==
    \A i \in Calls :
        line[i].alive /\ line[i].age >= Timeout /\ actix = "up" => excused

\* The process does not end with calls in flight, however its shutdown began.
NoCallIsCut == main = "exited" => line = <<>>

\* A shutdown that has begun completes, whether or not the SSE server had
\* started, while streams that never end are open and calls in line.
ShutdownCompletes == main = "told" ~> main = "exited"
=============================================================================
