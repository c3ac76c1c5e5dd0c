---------------------------- MODULE Client_proofs ----------------------------
(***************************************************************************)
(* What Client's run checks of its states on a small instance, for any     *)
(* number of cycles, of MpcSigners and of calls of initialize: for the     *)
(* client (ClientSpec), and, as far as it is about the SDK, for any        *)
(* application that uses it (Spec).                                        *)
(***************************************************************************)
EXTENDS Client, SequenceTheorems, TLAPS

-----------------------------------------------------------------------------
(* The invariant of the SDK *)

\* The server of the last call of initialize.
Last(k) == <<k, inits[k]>>

\* Servers are made one after the other.
Numbered == \A v \in Local : v[2] > inits[v[1]] => state[v] = "none"

\* What a Signer stores is its last server; there is a Signer while the
\* MpcSigner is ready.
Stored ==
    \A k \in Sdk :
        LET server == IF api[k] = "ready" /\ inits[k] # 0 THEN Last(k) ELSE None
        IN  current[k] = server /\ handle[k] = server

\* Which calls an MpcSigner can be in.
InCall ==
    \A k \in Sdk :
        /\ api[k] = "none" => inits[k] = 0 /\ call[k] = "idle"
        /\ call[k] \in {"starting", "signing", "stopping"} => api[k] = "ready"
        /\ call[k] = "dropping" => api[k] \in {"ready", "shut"}
        /\ call[k] = "starting" \/ started[k] => inits[k] # 0
        /\ call[k] = "starting" /\ inits[k] = 1 => ~started[k]
        /\ locals[k] <= inits[k] /\ (call[k] = "starting" => locals[k] < inits[k])

\* Only an MpcSigner that is being stopped, or has been, has told a server of
\* its own to stop.
Told ==
    \A v \in Local :
        signal[v] => call[v[1]] \in {"stopping", "dropping"} \/ api[v[1]] \in {"shut", "gone"}

\* A server that listens can be told, or has been.
CanBeTold == \A v \in Server : state[v] = "listening" => tx[v] \/ signal[v]

Basics == TypeOK /\ Numbered /\ Stored /\ InCall /\ Told /\ CanBeTold

\* If 1 s is enough to bind: the last server has been polled when initialize
\* returns, is told when the Signer is stopped, and has heard of it, or ended
\* before, when the Signer is gone.
Stops ==
    \A k \in Sdk : inits[k] # 0 =>
        /\ api[k] = "ready" /\ call[k] # "starting" => state[Last(k)] # "spawned"
        /\ api[k] = "ready" /\ call[k] \in {"stopping", "dropping"} =>
               signal[Last(k)] \/ state[Last(k)] \notin {"spawned", "listening"}
        /\ api[k] # "ready" => state[Last(k)] \notin {"spawned", "listening"}

\* MpcSigners that are there at the same time have different ports.
Separate == ~Overlap \/ \A j, k \in Sdk : PortOf[j] = PortOf[k] => j = k

OnePerPort ==
    \A j, k \in Sdk : api[j] = "ready" /\ api[k] = "ready" /\ PortOf[j] = PortOf[k] => j = k

\* No MpcSigner has been initialized twice.
InitializedOnce == \A k \in Sdk : inits[k] <= 1

SdkInv ==
    /\ Basics
    /\ Prompt => Stops
    /\ Separate => OnePerPort
    /\ Prompt /\ Separate /\ InitializedOnce => OwnParticipant /\ InitializedServes

-----------------------------------------------------------------------------
(* The invariant of the client *)

\* Between the calls of a cycle its MpcSigner is idle, and so are those of the
\* other cycles.
IdleBetween ==
    \A i \in DOMAIN Cycles :
        i # cycle \/ at \notin {"initializing", "signing", "stopping", "dropping"}
            => call[Cycles[i]] = "idle"

\* sign_tx of a cycle is in flight while the cycle signs.
SignsInTime ==
    \A i \in DOMAIN Cycles, v \in Server :
        Cycles[i] \in serving[v] => i = cycle /\ at = "signing"

\* From new to the blocking drop the async task owns the cycle's runtime.
HolderInTime ==
    at \in {"created", "initializing", "ready", "signing", "signed", "stopping", "stopped"}
        => holder = "task"

\* Before the cycle's initialize can have returned Ok, or on the way to a
\* panic, which is there only then.
Unstarted ==
    \/ at \in {"next", "created", "initializing", "panicked"}
    \/ at = "leaving" /\ holder = "task"

StartsInTime ==
    \A i \in DOMAIN Cycles : i > cycle \/ (i = cycle /\ Unstarted) => ~started[Cycles[i]]

\* A cycle that has not begun, or is over, has no server.
Serverless ==
    \/ at \in {"next", "done", "panicked"}
    \/ at = "leaving" /\ holder # "task"

LeavesNone ==
    \A i \in DOMAIN Cycles : i # cycle \/ Serverless =>
        \A v \in Local : v[1] = Cycles[i] => state[v] \in {"none", "ended"}

ClientInv ==
    ClientTypeOK /\ IdleBetween /\ SignsInTime /\ HolderInTime /\ StartsInTime /\ LeavesNone

-----------------------------------------------------------------------------
(* Servers *)

LEMMA Locals ==
  /\ Local \subseteq Server /\ Service \in Server
  /\ \A v \in Local : /\ v[1] \in Sdk /\ v[2] \in 1..MaxInit /\ v = <<v[1], v[2]>>
                      /\ v # Service /\ v # None
  /\ \A k \in Sdk, n \in 1..MaxInit :
        <<k, n>> \in Local /\ <<k, n>>[1] = k /\ <<k, n>>[2] = n
BY NamesAssumption DEF Local, Server

\* A Signer's last server is one of its own.
LEMMA LastIsLocal ==
  ASSUME TypeOK, NEW k \in Sdk, inits[k] # 0
  PROVE  Last(k) \in Local /\ Last(k)[1] = k /\ Last(k)[2] = inits[k]
<1>1. inits[k] \in 1..MaxInit
  BY MaxInitAssumption DEF TypeOK
<1> QED BY <1>1, Locals DEF Last

\* Whoever listens on the port of an MpcSigner that is ready is its own last
\* server, if none has been initialized twice.
LEMMA ListenerIsOwn ==
  ASSUME Basics, Stops, OnePerPort, InitializedOnce,
         NEW k \in Sdk, api[k] = "ready", NEW w \in Listeners(PortOf[k])
  PROVE  w[1] = k /\ inits[k] # 0 /\ w = Last(k)
<1>1. w \in Local /\ state[w] = "listening" /\ PortOf[w[1]] = PortOf[k]
  BY DEF Listeners
<1>2. w[1] \in Sdk /\ w[2] \in 1..MaxInit /\ w = <<w[1], w[2]>>
  BY <1>1, Locals
<1>3. inits[w[1]] \in 0..MaxInit /\ inits[w[1]] <= 1
  BY <1>2 DEF Basics, TypeOK, InitializedOnce
<1>4. ~(w[2] > inits[w[1]])
  BY <1>1 DEF Basics, Numbered
<1>5. w[2] = 1 /\ inits[w[1]] = 1
  BY <1>2, <1>3, <1>4, MaxInitAssumption
<1>6. w = Last(w[1])
  BY <1>2, <1>5 DEF Last
<1>7. api[w[1]] = "ready"
  BY <1>1, <1>2, <1>5, <1>6 DEF Stops
<1>8. w[1] = k
  BY <1>1, <1>2, <1>7 DEF OnePerPort
<1> QED BY <1>5, <1>6, <1>8

-----------------------------------------------------------------------------
(* Steps of the servers and of the sign-service's process *)

\* What they may do: a server goes on to a later state, one that listens goes
\* nowhere untold, and calls only end.
ServersMove ==
    /\ UNCHANGED apiVars
    /\ \A v \in Local :
          /\ state'[v] = "none" <=> state[v] = "none"
          /\ state'[v] = "spawned" => state[v] = "spawned"
          /\ state'[v] = "listening" => state[v] \in {"spawned", "listening"}
          /\ state[v] = "listening" /\ ~signal[v] => state'[v] = "listening"
          /\ state[v] = "ended" => state'[v] = "ended"
          /\ signal'[v] = signal[v]
    /\ \A v \in Server : serving'[v] \subseteq serving[v]

LEMMA ServerSteps ==
  ASSUME TypeOK, CanBeTold, (\E v \in Server : ServerStep(v)) \/ Terminate \/ Exit
  PROVE  TypeOK' /\ CanBeTold' /\ ServersMove
<1> USE DEF TypeOK, CanBeTold, ServersMove
<1>1. ASSUME NEW v \in Server, Start(v) PROVE TypeOK' /\ CanBeTold' /\ ServersMove
  <2>1. /\ state[v] = "spawned" /\ tx' = [tx EXCEPT ![v] = TRUE]
        /\ \E to \in {"ended", "listening"} : state' = [state EXCEPT ![v] = to]
        /\ UNCHANGED <<signal, serving>>
        /\ UNCHANGED apiVars
    BY <1>1 DEF Start
  <2> QED BY <2>1, Locals DEF apiVars, signerVars
<1>2. ASSUME NEW v \in Server, NEW k \in Sdk, Answer(v, k)
      PROVE  TypeOK' /\ CanBeTold' /\ ServersMove
  <2>1. /\ serving' = [serving EXCEPT ![v] = serving[v] \ {k}]
        /\ UNCHANGED <<state, tx, signal>> /\ UNCHANGED apiVars
    BY <1>2 DEF Answer
  <2>2. /\ serving' \in [Server -> SUBSET Sdk]
        /\ \A w \in Server : serving'[w] \subseteq serving[w]
    BY <2>1
  <2> QED BY <2>1, <2>2, Locals DEF apiVars, signerVars
<1>3. ASSUME NEW v \in Server, Drain(v) \/ End(v) PROVE TypeOK' /\ CanBeTold' /\ ServersMove
  <2>1. /\ \/ state[v] = "listening" /\ signal[v] /\ state' = [state EXCEPT ![v] = "draining"]
           \/ state[v] = "draining" /\ state' = [state EXCEPT ![v] = "ended"]
        /\ UNCHANGED <<tx, signal, serving>> /\ UNCHANGED apiVars
    BY <1>3 DEF Drain, End
  <2> QED BY <2>1, Locals DEF apiVars, signerVars
<1>4. CASE Terminate
  <2>1. /\ tx' = [tx EXCEPT ![Service] = FALSE]
        /\ signal' = [signal EXCEPT ![Service] = signal[Service] \/ tx[Service]]
        /\ UNCHANGED <<state, serving>> /\ UNCHANGED apiVars
    BY <1>4 DEF Terminate, SendShutdown
  <2>2. (signal[Service] \/ tx[Service]) \in BOOLEAN
    OBVIOUS
  <2>3. tx' \in [Server -> BOOLEAN] /\ signal' \in [Server -> BOOLEAN]
    BY <2>1, <2>2
  <2>4. \A v \in Server : tx[v] \/ signal[v] => tx'[v] \/ signal'[v]
    BY <2>1, Locals
  <2>5. \A v \in Local : signal'[v] = signal[v]
    BY <2>1, Locals
  <2> QED BY <2>1, <2>3, <2>4, <2>5, Locals DEF apiVars, signerVars
<1>5. CASE Exit
  <2>1. /\ state' = [state EXCEPT ![Service] = "ended"]
        /\ serving' = [serving EXCEPT ![Service] = {}]
        /\ UNCHANGED <<tx, signal>> /\ UNCHANGED apiVars
    BY <1>5 DEF Exit
  <2> QED BY <2>1, Locals DEF apiVars, signerVars
<1> QED BY <1>1, <1>2, <1>3, <1>4, <1>5 DEF ServerStep

LEMMA ServersKeep ==
  ASSUME SdkInv, TypeOK', CanBeTold', ServersMove
  PROVE  SdkInv'
<1>1. /\ UNCHANGED <<api, call, inits, started, current, handle, locals>>
      /\ \A k \in Sdk : Last(k)' = Last(k)
  BY DEF ServersMove, apiVars, signerVars, Last
<1>2. Basics'
  BY <1>1 DEF SdkInv, Basics, ServersMove, Numbered, Stored, InCall, Told
<1>3. ASSUME Stops PROVE Stops'
  <2>1. ASSUME NEW k \in Sdk, inits[k] # 0
        PROVE  /\ state'[Last(k)] = "spawned" => state[Last(k)] = "spawned"
               /\ state'[Last(k)] \in {"spawned", "listening"} =>
                      state[Last(k)] \in {"spawned", "listening"}
               /\ signal'[Last(k)] = signal[Last(k)]
    BY <2>1, LastIsLocal DEF SdkInv, Basics, ServersMove
  <2> QED BY <1>1, <1>3, <2>1 DEF Stops
<1>4. OnePerPort' <=> OnePerPort
  BY <1>1 DEF OnePerPort
<1>5. InitializedOnce' => InitializedOnce
  BY <1>1 DEF InitializedOnce
<1>6. OwnParticipant => OwnParticipant'
  BY Locals DEF OwnParticipant, ServersMove
<1>7. ASSUME InitializedServes PROVE InitializedServes'
  <2>1. SUFFICES ASSUME NEW k \in Sdk, api[k] = "ready", call[k] \in {"idle", "signing"},
                        started[k]
                 PROVE  state'[current[k]] = "listening"
    BY <1>1 DEF InitializedServes
  <2>2. state[current[k]] = "listening"
    BY <1>7, <2>1 DEF InitializedServes
  <2>3. inits[k] # 0 /\ current[k] = Last(k)
    BY <2>1 DEF SdkInv, Basics, InCall, Stored
  <2>4. current[k] \in Local /\ current[k][1] = k
    BY <2>3, LastIsLocal DEF SdkInv, Basics
  <2>5. ~signal[current[k]]
    BY <2>1, <2>4 DEF SdkInv, Basics, Told
  <2> QED BY <2>2, <2>4, <2>5 DEF ServersMove
<1> QED BY <1>2, <1>3, <1>4, <1>5, <1>6, <1>7 DEF SdkInv

-----------------------------------------------------------------------------
(* Calls of an MpcSigner *)

LEMMA CreateKeeps ==
  ASSUME SdkInv, NEW k \in Sdk, Create(k)
  PROVE  SdkInv'
<1>1. /\ api[k] = "none" /\ api' = [api EXCEPT ![k] = "ready"]
      /\ Overlap \/ \A j \in Sdk : api[j] # "ready"
      /\ UNCHANGED <<call, inits, started, current, handle, locals>>
      /\ UNCHANGED <<state, tx, signal, serving>>
      /\ \A j \in Sdk : Last(j)' = Last(j)
  BY DEF Create, signerVars, serverVars, Last
<1>2. TypeOK /\ InCall
  BY DEF SdkInv, Basics
<1>3. inits[k] = 0 /\ call[k] = "idle" /\ ~started[k]
  BY <1>1, <1>2 DEF InCall
<1>4. /\ api'[k] = "ready"
      /\ \A j \in Sdk : j # k => api'[j] = api[j]
  BY <1>1, <1>2 DEF TypeOK
<1>5. TypeOK'
  BY <1>1, <1>2 DEF TypeOK
<1>6. Numbered' /\ Stored' /\ InCall' /\ CanBeTold'
  BY <1>1, <1>3, <1>4 DEF SdkInv, Basics, Numbered, Stored, InCall, CanBeTold
<1>7. Told'
  BY <1>1, <1>3, <1>4, Locals DEF SdkInv, Basics, Told
<1>8. Stops => Stops'
  BY <1>1, <1>3, <1>4 DEF Stops
<1>9. ASSUME Separate PROVE OnePerPort'
  <2>1. OnePerPort /\ (~Overlap \/ \A j, l \in Sdk : PortOf[j] = PortOf[l] => j = l)
    BY <1>9 DEF SdkInv, Separate
  <2> QED BY <1>1, <1>4, <2>1 DEF OnePerPort
<1>10. InitializedOnce' => InitializedOnce
  BY <1>1 DEF InitializedOnce
<1>11. OwnParticipant /\ InitializedServes => OwnParticipant' /\ InitializedServes'
  BY <1>1, <1>3, <1>4 DEF OwnParticipant, InitializedServes
<1> QED BY <1>5, <1>6, <1>7, <1>8, <1>9, <1>10, <1>11 DEF SdkInv, Basics

LEMMA InitializeKeeps ==
  ASSUME SdkInv, NEW k \in Sdk, Initialize(k)
  PROVE  SdkInv'
<1> DEFINE new == <<k, inits[k] + 1>>
<1>1. /\ api[k] = "ready" /\ inits[k] < MaxInit /\ call[k] = "idle"
      /\ call' = [call EXCEPT ![k] = "starting"]
      /\ inits' = [inits EXCEPT ![k] = inits[k] + 1]
      /\ current' = [current EXCEPT ![k] = new]
      /\ handle' = [handle EXCEPT ![k] = new]
      /\ state' = [state EXCEPT ![new] = "spawned"]
      /\ UNCHANGED <<api, started, locals, tx, signal, serving>>
  BY DEF Initialize, Calls
<1>2. TypeOK /\ InCall /\ Stored /\ Told /\ Numbered /\ CanBeTold
  BY DEF SdkInv, Basics
<1>3. inits[k] \in Nat /\ inits[k] + 1 \in 1..MaxInit /\ MaxInit \in Nat
  BY <1>1, <1>2, MaxInitAssumption DEF TypeOK
<1>4. /\ new \in Local /\ new[1] = k /\ new[2] = inits[k] + 1 /\ new \in Server
      /\ \A v \in Local : v[1] = k /\ v[2] = inits[k] + 1 => v = new
  BY <1>3, Locals
<1>5. Last(k)' = new /\ \A j \in Sdk : j # k => Last(j)' = Last(j)
  BY <1>1, <1>2 DEF Last, TypeOK
<1> HIDE DEF new
<1>6. /\ call'[k] = "starting" /\ inits'[k] = inits[k] + 1
      /\ current'[k] = new /\ handle'[k] = new
      /\ \A j \in Sdk : j # k => /\ call'[j] = call[j] /\ inits'[j] = inits[j]
                                 /\ current'[j] = current[j] /\ handle'[j] = handle[j]
      /\ state'[new] = "spawned"
      /\ \A v \in Server : v # new => state'[v] = state[v]
  BY <1>1, <1>2, <1>4 DEF TypeOK
<1>7. TypeOK'
  BY <1>1, <1>2, <1>3, <1>4 DEF TypeOK
<1>8. Numbered'
  <2>1. ASSUME NEW v \in Local, v[2] > inits'[v[1]] PROVE state'[v] = "none"
    <3>1. v[1] \in Sdk /\ v[2] \in 1..MaxInit /\ v \in Server
      BY Locals
    <3>2. CASE v[1] = k
      <4>1. v[2] > inits[k] /\ v # new
        BY <1>3, <1>4, <1>6, <2>1, <3>1, <3>2
      <4> QED BY <1>2, <1>6, <3>1, <3>2, <4>1 DEF Numbered
    <3>3. CASE v[1] # k
      <4>1. v[2] > inits[v[1]] /\ v # new
        BY <1>4, <1>6, <2>1, <3>1, <3>3
      <4> QED BY <1>2, <1>6, <3>1, <4>1 DEF Numbered
    <3> QED BY <3>2, <3>3
  <2> QED BY <2>1 DEF Numbered
<1>9. Stored'
  <2>1. inits'[k] # 0 /\ api'[k] = "ready"
    BY <1>1, <1>3, <1>6
  <2>2. ASSUME NEW j \in Sdk
        PROVE  LET server == IF api'[j] = "ready" /\ inits'[j] # 0 THEN Last(j)' ELSE None
               IN  current'[j] = server /\ handle'[j] = server
    <3>1. CASE j = k
      BY <1>5, <1>6, <2>1, <3>1
    <3>2. CASE j # k
      BY <1>1, <1>2, <1>5, <1>6, <3>2 DEF Stored
    <3> QED BY <3>1, <3>2
  <2> QED BY <2>2 DEF Stored
<1>10. InCall'
  <2>1. inits'[k] # 0 /\ (inits'[k] = 1 => inits[k] = 0)
    BY <1>3, <1>6
  <2>2. inits[k] = 0 => ~started[k]
    BY <1>2 DEF InCall
  <2>3. locals'[k] < inits'[k]
    BY <1>1, <1>2, <1>3, <1>6 DEF InCall, TypeOK
  <2>4. locals'[k] <= inits'[k]
    BY <1>1, <1>2, <1>3, <1>6 DEF InCall, TypeOK
  <2> QED BY <1>1, <1>2, <1>6, <2>1, <2>2, <2>3, <2>4 DEF InCall
<1>11. Told'
  BY <1>1, <1>2, <1>6, Locals DEF Told
<1>12. CanBeTold'
  BY <1>1, <1>2, <1>6 DEF CanBeTold
<1>13. \A j \in Sdk : inits[j] # 0 /\ j # k => Last(j) \in Server /\ Last(j) # new
  BY <1>2, <1>4, LastIsLocal, Locals
<1>14. Stops => Stops'
  <2>1. SUFFICES ASSUME Stops, NEW j \in Sdk, inits'[j] # 0
        PROVE  /\ api'[j] = "ready" /\ call'[j] # "starting" => state'[Last(j)'] # "spawned"
               /\ api'[j] = "ready" /\ call'[j] \in {"stopping", "dropping"} =>
                      signal'[Last(j)'] \/ state'[Last(j)'] \notin {"spawned", "listening"}
               /\ api'[j] # "ready" => state'[Last(j)'] \notin {"spawned", "listening"}
    BY DEF Stops, Last
  <2>2. CASE j = k
    BY <1>1, <1>6, <2>2
  <2>3. CASE j # k
    BY <1>1, <1>5, <1>6, <1>13, <2>1, <2>3 DEF Stops
  <2> QED BY <2>2, <2>3
<1>15. OnePerPort => OnePerPort'
  BY <1>1 DEF OnePerPort
<1>16. InitializedOnce' => InitializedOnce
  <2>1. \A j \in Sdk : inits'[j] <= 1 => inits[j] <= 1
    BY <1>3, <1>6
  <2> QED BY <2>1 DEF InitializedOnce
<1>17. OwnParticipant => OwnParticipant'
  BY <1>1 DEF OwnParticipant
<1>18. InitializedServes => InitializedServes'
  <2>1. ASSUME NEW j \in Sdk, j # k, api[j] = "ready", started[j]
        PROVE  current[j] \in Server /\ current[j] # new
    BY <1>2, <1>13, <2>1 DEF InCall, Stored
  <2> QED BY <1>1, <1>6, <2>1 DEF InitializedServes
<1> QED BY <1>7, <1>8, <1>9, <1>10, <1>11, <1>12, <1>14, <1>15, <1>16, <1>17, <1>18
        DEF SdkInv, Basics

LEMMA ConnectKeeps ==
  ASSUME SdkInv, NEW k \in Sdk, Connect(k)
  PROVE  SdkInv'
<1>1. /\ call[k] = "starting" /\ call' = [call EXCEPT ![k] = "idle"]
      /\ Prompt => state[current[k]] # "spawned"
      /\ \/ /\ Listeners(PortOf[k]) # {}
            /\ locals' = [locals EXCEPT ![k] = locals[k] + 1]
            /\ started' = [started EXCEPT ![k] = TRUE]
         \/ UNCHANGED <<locals, started>>
      /\ UNCHANGED <<api, inits, current, handle, state, tx, signal, serving>>
      /\ \A j \in Sdk : Last(j)' = Last(j)
  BY DEF Connect, Calls, serverVars, Last
<1>2. TypeOK /\ InCall /\ Stored /\ Told /\ Numbered /\ CanBeTold
  BY DEF SdkInv, Basics
<1>3. api[k] = "ready" /\ inits[k] # 0 /\ current[k] = Last(k)
  BY <1>1, <1>2 DEF InCall, Stored
<1>4. /\ call'[k] = "idle"
      /\ \A j \in Sdk : j # k => call'[j] = call[j] /\ started'[j] = started[j]
  BY <1>1, <1>2 DEF TypeOK
<1>5. /\ locals' \in [Sdk -> 0..MaxInit]
      /\ \A j \in Sdk : locals'[j] <= inits[j]
  <2>1. /\ locals[k] \in Nat /\ inits[k] \in 0..MaxInit /\ MaxInit \in Nat
        /\ locals[k] < inits[k]
    BY <1>1, <1>2, MaxInitAssumption DEF TypeOK, InCall
  <2>2. locals[k] + 1 \in 0..MaxInit /\ locals[k] + 1 <= inits[k]
    BY <2>1
  <2> QED BY <1>1, <1>2, <2>2 DEF TypeOK, InCall
<1>6. TypeOK'
  <2>1. started' \in [Sdk -> BOOLEAN]
    BY <1>1, <1>2 DEF TypeOK
  <2> QED BY <1>1, <1>2, <1>5, <2>1 DEF TypeOK
<1>7. Numbered' /\ Stored' /\ CanBeTold'
  BY <1>1, <1>2 DEF Numbered, Stored, CanBeTold
<1>8. InCall'
  BY <1>1, <1>2, <1>3, <1>4, <1>5 DEF InCall
<1>9. Told'
  BY <1>1, <1>2, <1>3, <1>4, Locals DEF Told
<1>10. ASSUME Prompt, Stops PROVE Stops'
  BY <1>1, <1>3, <1>4, <1>10 DEF Stops
<1>11. OnePerPort => OnePerPort'
  BY <1>1 DEF OnePerPort
<1>12. InitializedOnce' => InitializedOnce
  BY <1>1 DEF InitializedOnce
<1>13. OwnParticipant => OwnParticipant'
  BY <1>1 DEF OwnParticipant
<1>14. ASSUME Stops, OnePerPort, InitializedOnce, InitializedServes
       PROVE  InitializedServes'
  <2>1. ASSUME started'[k] PROVE state[current[k]] = "listening"
    <3>1. CASE Listeners(PortOf[k]) # {}
      <4>1. PICK w \in Listeners(PortOf[k]) : TRUE
        BY <3>1
      <4>2. w = current[k]
        BY <1>3, <1>14, <4>1, ListenerIsOwn DEF SdkInv
      <4> QED BY <4>1, <4>2 DEF Listeners
    <3>2. CASE UNCHANGED started
      <4>1. inits[k] = 1
        BY <1>2, <1>3, <1>14 DEF TypeOK, InitializedOnce
      <4> QED BY <1>1, <1>2, <2>1, <3>2, <4>1 DEF InCall
    <3> QED BY <1>1, <3>1, <3>2
  <2> QED BY <1>1, <1>4, <1>14, <2>1 DEF InitializedServes
<1> QED BY <1>6, <1>7, <1>8, <1>9, <1>10, <1>11, <1>12, <1>13, <1>14 DEF SdkInv, Basics

LEMMA SignKeeps ==
  ASSUME SdkInv, NEW k \in Sdk, Sign(k)
  PROVE  SdkInv'
<1> DEFINE reached == (IF locals[k] > 0 THEN Listeners(PortOf[k]) ELSE {})
                      \cup {v \in {Service} : state[v] = "listening"}
<1>1. /\ api[k] = "ready" /\ call[k] = "idle" /\ call' = [call EXCEPT ![k] = "signing"]
      /\ serving' = [v \in Server |-> IF v \in reached THEN serving[v] \cup {k}
                                                       ELSE serving[v]]
      /\ UNCHANGED <<api, inits, started, current, handle, locals, state, tx, signal>>
      /\ \A j \in Sdk : Last(j)' = Last(j)
  BY DEF Sign, Calls, signerVars, Last
<1>2. TypeOK /\ InCall /\ Stored /\ Told /\ Numbered /\ CanBeTold
  BY DEF SdkInv, Basics
<1>3. call'[k] = "signing" /\ \A j \in Sdk : j # k => call'[j] = call[j]
  BY <1>1, <1>2 DEF TypeOK
<1>4. \A v \in Local : v \in reached => v \in Listeners(PortOf[k])
  BY Locals
<1> HIDE DEF reached
<1>5. TypeOK'
  BY <1>1, <1>2 DEF TypeOK
<1>6. Numbered' /\ Stored' /\ CanBeTold' /\ InCall'
  BY <1>1, <1>2, <1>3 DEF Numbered, Stored, CanBeTold, InCall
<1>7. Told'
  BY <1>1, <1>2, <1>3, Locals DEF Told
<1>8. Stops => Stops'
  BY <1>1, <1>3 DEF Stops
<1>9. OnePerPort => OnePerPort'
  BY <1>1 DEF OnePerPort
<1>10. InitializedOnce' => InitializedOnce
  BY <1>1 DEF InitializedOnce
<1>11. ASSUME Stops, OnePerPort, InitializedOnce, OwnParticipant PROVE OwnParticipant'
  <2>1. ASSUME NEW v \in Local PROVE serving'[v] \subseteq {v[1]}
    <3>1. serving[v] \subseteq {v[1]}
      BY <1>11 DEF OwnParticipant
    <3>2. v \in reached => v[1] = k
      BY <1>1, <1>4, <1>11, ListenerIsOwn DEF SdkInv
    <3>3. serving'[v] = IF v \in reached THEN serving[v] \cup {k} ELSE serving[v]
      BY <1>1, Locals
    <3> QED BY <3>1, <3>2, <3>3
  <2> QED BY <2>1 DEF OwnParticipant
<1>12. InitializedServes => InitializedServes'
  BY <1>1, <1>3 DEF InitializedServes
<1> QED BY <1>5, <1>6, <1>7, <1>8, <1>9, <1>10, <1>11, <1>12 DEF SdkInv, Basics

LEMMA SignReturnsKeeps ==
  ASSUME SdkInv, NEW k \in Sdk, SignReturns(k)
  PROVE  SdkInv'
<1>1. /\ call[k] = "signing" /\ call' = [call EXCEPT ![k] = "idle"]
      /\ UNCHANGED <<api, inits, started, current, handle, locals>>
      /\ UNCHANGED <<state, tx, signal, serving>>
      /\ \A j \in Sdk : Last(j)' = Last(j)
  BY DEF SignReturns, Calls, signerVars, serverVars, Last
<1>2. TypeOK /\ InCall /\ Stored /\ Told /\ Numbered /\ CanBeTold
  BY DEF SdkInv, Basics
<1>3. call'[k] = "idle" /\ \A j \in Sdk : j # k => call'[j] = call[j]
  BY <1>1, <1>2 DEF TypeOK
<1>4. api[k] = "ready"
  BY <1>1, <1>2 DEF InCall
<1>5. TypeOK'
  BY <1>1, <1>2 DEF TypeOK
<1>6. Numbered' /\ Stored' /\ CanBeTold' /\ InCall'
  BY <1>1, <1>2, <1>3 DEF Numbered, Stored, CanBeTold, InCall
<1>7. Told'
  BY <1>1, <1>2, <1>3, <1>4, Locals DEF Told
<1>8. Stops => Stops'
  BY <1>1, <1>3 DEF Stops
<1>9. OnePerPort => OnePerPort'
  BY <1>1 DEF OnePerPort
<1>10. InitializedOnce' => InitializedOnce
  BY <1>1 DEF InitializedOnce
<1>11. OwnParticipant /\ InitializedServes => OwnParticipant' /\ InitializedServes'
  BY <1>1, <1>3 DEF OwnParticipant, InitializedServes
<1> QED BY <1>5, <1>6, <1>7, <1>8, <1>9, <1>10, <1>11 DEF SdkInv, Basics

LEMMA StopKeeps ==
  ASSUME SdkInv, NEW k \in Sdk, Shutdown(k) \/ Drop(k)
  PROVE  SdkInv'
<1>1. PICK as \in {"stopping", "dropping"} :
        /\ Stop(k, as)
        /\ as = "stopping" => api[k] = "ready"
        /\ as = "dropping" => api[k] \in {"ready", "shut"}
  BY DEF Shutdown, Drop
<1>2. /\ call[k] = "idle" /\ call' = [call EXCEPT ![k] = as]
      /\ \/ /\ current[k] # None
            /\ tx' = [tx EXCEPT ![current[k]] = FALSE]
            /\ signal' = [signal EXCEPT ![current[k]] = signal[current[k]] \/ tx[current[k]]]
         \/ current[k] = None /\ UNCHANGED <<tx, signal>>
      /\ UNCHANGED <<api, inits, started, current, handle, locals, state, serving>>
      /\ \A j \in Sdk : Last(j)' = Last(j)
  BY <1>1 DEF Stop, Calls, SendShutdown, signerVars, Last
<1>3. TypeOK /\ InCall /\ Stored /\ Told /\ Numbered /\ CanBeTold
  BY DEF SdkInv, Basics
<1>4. call'[k] = as /\ \A j \in Sdk : j # k => call'[j] = call[j]
  BY <1>2, <1>3 DEF TypeOK
<1>5. /\ current[k] # None => /\ current[k] \in Local /\ current[k] \in Server
                              /\ current[k][1] = k
                              /\ api[k] = "ready" /\ inits[k] # 0 /\ current[k] = Last(k)
      /\ api[k] = "ready" /\ inits[k] # 0 => current[k] # None
  BY <1>3, LastIsLocal, Locals DEF Stored
<1>6. /\ tx' \in [Server -> BOOLEAN] /\ signal' \in [Server -> BOOLEAN]
      /\ \A v \in Server : tx[v] \/ signal[v] => tx'[v] \/ signal'[v]
      /\ \A v \in Server : v # current[k] => signal'[v] = signal[v]
      /\ current[k] # None /\ (tx[current[k]] \/ signal[current[k]]) => signal'[current[k]]
  <2>1. CASE current[k] = None
    BY <1>2, <1>3, <2>1 DEF TypeOK
  <2>2. CASE current[k] # None
    <3>1. (signal[current[k]] \/ tx[current[k]]) \in BOOLEAN
      OBVIOUS
    <3> QED BY <1>2, <1>3, <1>5, <2>2, <3>1 DEF TypeOK
  <2> QED BY <2>1, <2>2
<1>7. TypeOK'
  BY <1>2, <1>3, <1>6 DEF TypeOK
<1>8. Numbered' /\ Stored' /\ CanBeTold'
  BY <1>2, <1>3, <1>6 DEF Numbered, Stored, CanBeTold
<1>9. InCall'
  BY <1>1, <1>2, <1>3, <1>4 DEF InCall
<1>10. Told'
  BY <1>2, <1>3, <1>4, <1>5, <1>6, Locals DEF Told
<1>11. Stops => Stops'
  <2>1. SUFFICES ASSUME Stops, NEW j \in Sdk, inits[j] # 0
        PROVE  /\ api[j] = "ready" /\ call'[j] # "starting" => state[Last(j)] # "spawned"
               /\ api[j] = "ready" /\ call'[j] \in {"stopping", "dropping"} =>
                      signal'[Last(j)] \/ state[Last(j)] \notin {"spawned", "listening"}
               /\ api[j] # "ready" => state[Last(j)] \notin {"spawned", "listening"}
    BY <1>2 DEF Stops
  <2>2. Last(j) \in Server /\ Last(j)[1] = j
    BY <1>3, <2>1, LastIsLocal, Locals
  <2>3. CASE j = k
    <3>1. state[Last(j)] = "listening" => tx[Last(j)] \/ signal[Last(j)]
      BY <1>3, <2>2 DEF CanBeTold
    <3> QED BY <1>2, <1>5, <1>6, <2>1, <2>2, <2>3, <3>1 DEF Stops
  <2>4. CASE j # k
    <3>1. Last(j) # current[k]
      <4>1. CASE current[k] = None
        BY <1>3, <2>1, <4>1, LastIsLocal, Locals
      <4>2. CASE current[k] # None
        BY <1>5, <2>2, <2>4, <4>2
      <4> QED BY <4>1, <4>2
    <3> QED BY <1>4, <1>6, <2>1, <2>2, <2>4, <3>1 DEF Stops
  <2> QED BY <2>3, <2>4
<1>12. OnePerPort => OnePerPort'
  BY <1>2 DEF OnePerPort
<1>13. InitializedOnce' => InitializedOnce
  BY <1>2 DEF InitializedOnce
<1>14. OwnParticipant /\ InitializedServes => OwnParticipant' /\ InitializedServes'
  BY <1>2, <1>4 DEF OwnParticipant, InitializedServes
<1> QED BY <1>7, <1>8, <1>9, <1>10, <1>11, <1>12, <1>13, <1>14 DEF SdkInv, Basics

LEMMA ShutdownReturnsKeeps ==
  ASSUME SdkInv, NEW k \in Sdk, ShutdownReturns(k)
  PROVE  SdkInv'
<1>1. /\ call[k] = "stopping" /\ call' = [call EXCEPT ![k] = "idle"]
      /\ Waited(k)
      /\ api' = [api EXCEPT ![k] = "shut"]
      /\ current' = [current EXCEPT ![k] = None]
      /\ handle' = [handle EXCEPT ![k] = None]
      /\ locals' = [locals EXCEPT ![k] = 0]
      /\ UNCHANGED <<inits, started, state, tx, signal, serving>>
      /\ \A j \in Sdk : Last(j)' = Last(j)
  BY DEF ShutdownReturns, Calls, serverVars, Last
<1>2. TypeOK /\ InCall /\ Stored /\ Told /\ Numbered /\ CanBeTold
  BY DEF SdkInv, Basics
<1>3. /\ call'[k] = "idle" /\ api'[k] = "shut" /\ current'[k] = None /\ handle'[k] = None
      /\ locals'[k] = 0
      /\ \A j \in Sdk : j # k => /\ call'[j] = call[j] /\ api'[j] = api[j]
                                 /\ current'[j] = current[j] /\ handle'[j] = handle[j]
                                 /\ locals'[j] = locals[j]
  BY <1>1, <1>2 DEF TypeOK
<1>4. api[k] = "ready"
  BY <1>1, <1>2 DEF InCall
<1>5. TypeOK'
  <2>1. 0 \in 0..MaxInit
    BY MaxInitAssumption
  <2> QED BY <1>1, <1>2, <2>1 DEF TypeOK
<1>6. Numbered' /\ Stored' /\ CanBeTold'
  BY <1>1, <1>2, <1>3 DEF Numbered, Stored, CanBeTold
<1>7. InCall'
  <2>1. 0 <= inits[k]
    BY <1>2 DEF TypeOK
  <2> QED BY <1>1, <1>2, <1>3, <2>1 DEF InCall
<1>8. Told'
  BY <1>1, <1>2, <1>3, Locals DEF Told
<1>9. ASSUME Prompt, Stops PROVE Stops'
  <2>1. inits[k] # 0 => state[Last(k)] \notin {"spawned", "listening"}
    <3>1. SUFFICES ASSUME inits[k] # 0, signal[Last(k)]
                   PROVE  state[Last(k)] \notin {"spawned", "listening"}
      BY <1>1, <1>4, <1>9 DEF Stops
    <3>2. handle[k] = Last(k) /\ handle[k] # None
      BY <1>2, <1>4, <3>1, LastIsLocal, Locals DEF Stored
    <3> QED BY <1>1, <1>9, <3>1, <3>2 DEF Waited
  <2> QED BY <1>1, <1>3, <1>9, <2>1 DEF Stops
<1>10. OnePerPort => OnePerPort'
  BY <1>3 DEF OnePerPort
<1>11. InitializedOnce' => InitializedOnce
  BY <1>1 DEF InitializedOnce
<1>12. OwnParticipant /\ InitializedServes => OwnParticipant' /\ InitializedServes'
  BY <1>1, <1>3 DEF OwnParticipant, InitializedServes
<1> QED BY <1>5, <1>6, <1>7, <1>8, <1>9, <1>10, <1>11, <1>12 DEF SdkInv, Basics

\* An MpcSigner and its runtime are gone, with every task on it: it has been
\* dropped, or its process has died.
Goner(k) ==
    /\ api' = [api EXCEPT ![k] = "gone"]
    /\ call' = [call EXCEPT ![k] = "idle"]
    /\ current' = [current EXCEPT ![k] = None]
    /\ handle' = [handle EXCEPT ![k] = None]
    /\ locals' = [locals EXCEPT ![k] = 0]
    /\ state' = [v \in Server |-> IF v \in Local /\ v[1] = k /\ state[v] # "none"
                                  THEN "ended" ELSE state[v]]
    /\ serving' \in [Server -> SUBSET Sdk]
    /\ \A v \in Server : serving'[v] \subseteq serving[v]
    /\ UNCHANGED <<inits, started, tx, signal>>

LEMMA GonerKeeps ==
  ASSUME SdkInv, NEW k \in Sdk, Goner(k)
  PROVE  SdkInv'
<1>1. /\ UNCHANGED <<inits, started, tx, signal>>
      /\ serving' \in [Server -> SUBSET Sdk]
      /\ \A v \in Server : serving'[v] \subseteq serving[v]
      /\ \A j \in Sdk : Last(j)' = Last(j)
  BY DEF Goner, Last
<1>2. TypeOK /\ InCall /\ Stored /\ Told /\ Numbered /\ CanBeTold
  BY DEF SdkInv, Basics
<1>3. /\ call'[k] = "idle" /\ api'[k] = "gone" /\ current'[k] = None /\ handle'[k] = None
      /\ locals'[k] = 0
      /\ \A j \in Sdk : j # k => /\ call'[j] = call[j] /\ api'[j] = api[j]
                                 /\ current'[j] = current[j] /\ handle'[j] = handle[j]
                                 /\ locals'[j] = locals[j]
  BY <1>2 DEF Goner, TypeOK
<1>4. /\ \A v \in Local : v[1] = k => state'[v] \in {"none", "ended"}
      /\ \A v \in Local : v[1] # k => state'[v] = state[v]
      /\ \A v \in Server : /\ state[v] = "none" => state'[v] = "none"
                           /\ state'[v] = "listening" => state[v] = "listening"
  BY <1>2, Locals DEF Goner, TypeOK
<1>5. TypeOK'
  <2>1. 0 \in 0..MaxInit
    BY MaxInitAssumption
  <2>2. state' \in [Server -> {"none", "spawned", "listening", "draining", "ended"}]
    BY <1>2 DEF Goner, TypeOK
  <2>3. locals' \in [Sdk -> 0..MaxInit]
    BY <1>2, <2>1 DEF Goner, TypeOK
  <2> QED BY <1>1, <1>2, <2>2, <2>3 DEF Goner, TypeOK
<1>6. Numbered' /\ Stored' /\ CanBeTold'
  BY <1>1, <1>2, <1>3, <1>4, Locals DEF Numbered, Stored, CanBeTold
<1>7. InCall'
  <2>1. 0 <= inits[k]
    BY <1>2 DEF TypeOK
  <2> QED BY <1>1, <1>2, <1>3, <2>1 DEF InCall
<1>8. Told'
  BY <1>1, <1>2, <1>3, Locals DEF Told
<1>9. \A j \in Sdk : inits[j] # 0 =>
        /\ j = k => state'[Last(j)] \in {"none", "ended"}
        /\ j # k => state'[Last(j)] = state[Last(j)]
  BY <1>2, <1>4, LastIsLocal
<1>10. Stops => Stops'
  BY <1>1, <1>3, <1>9 DEF Stops
<1>11. OnePerPort => OnePerPort'
  BY <1>3 DEF OnePerPort
<1>12. InitializedOnce' => InitializedOnce
  BY <1>1 DEF InitializedOnce
<1>13. OwnParticipant => OwnParticipant'
  BY <1>1, Locals DEF OwnParticipant
<1>14. InitializedServes => InitializedServes'
  BY <1>1, <1>2, <1>3, <1>9 DEF InitializedServes, InCall, Stored
<1> QED BY <1>5, <1>6, <1>7, <1>8, <1>10, <1>11, <1>12, <1>13, <1>14 DEF SdkInv, Basics

LEMMA DroppedGoes ==
  ASSUME TypeOK, NEW k \in Sdk, Dropped(k)
  PROVE  Goner(k)
<1>1. serving' = [v \in Server |-> IF v \in Local /\ v[1] = k THEN {} ELSE serving[v]]
  BY DEF Dropped
<1>2. /\ serving' \in [Server -> SUBSET Sdk]
      /\ \A v \in Server : serving'[v] \subseteq serving[v]
  BY <1>1 DEF TypeOK
<1> QED BY <1>2 DEF Dropped, Goner, Calls

-----------------------------------------------------------------------------
(* Any application that uses the SDK *)

LEMMA SdkInvInit == Init => SdkInv
<1> SUFFICES ASSUME Init PROVE SdkInv
  OBVIOUS
<1>1. 0 \in 0..MaxInit
  BY MaxInitAssumption
<1>2. TypeOK
  <2>1. state \in [Server -> {"none", "spawned", "listening", "draining", "ended"}]
    BY DEF Init
  <2>2. serving \in [Server -> SUBSET Sdk]
    BY DEF Init
  <2>3. inits \in [Sdk -> 0..MaxInit] /\ locals \in [Sdk -> 0..MaxInit]
    BY <1>1 DEF Init
  <2>4. tx \in [Server -> BOOLEAN] /\ signal \in [Server -> BOOLEAN]
        /\ started \in [Sdk -> BOOLEAN]
    BY DEF Init
  <2> QED BY <2>1, <2>2, <2>3, <2>4 DEF Init, TypeOK
<1>3. \A v \in Local : state[v] = "none" /\ ~signal[v] /\ serving[v] = {}
  BY Locals DEF Init
<1>4. \A v \in Server : state[v] # "listening"
  BY DEF Init
<1>5. \A k \in Sdk : /\ api[k] = "none" /\ call[k] = "idle" /\ inits[k] = 0 /\ ~started[k]
                     /\ current[k] = None /\ handle[k] = None /\ locals[k] = 0
  BY DEF Init
<1>6. Basics
  BY <1>2, <1>3, <1>4, <1>5 DEF Basics, Numbered, Stored, InCall, Told, CanBeTold
<1>7. Stops /\ OnePerPort /\ OwnParticipant /\ InitializedServes
  BY <1>3, <1>5 DEF Stops, OnePerPort, OwnParticipant, InitializedServes
<1> QED BY <1>6, <1>7 DEF SdkInv

LEMMA SdkInvNext == SdkInv /\ [Next]_vars => SdkInv'
<1> SUFFICES ASSUME SdkInv, [Next]_vars PROVE SdkInv'
  OBVIOUS
<1>1. TypeOK /\ CanBeTold
  BY DEF SdkInv, Basics
<1>2. CASE (\E v \in Server : ServerStep(v)) \/ Terminate \/ Exit
  BY <1>1, <1>2, ServerSteps, ServersKeep
<1>3. ASSUME NEW k \in Sdk, SdkStep(k) PROVE SdkInv'
  <2>1. CASE Dropped(k)
    BY <1>1, <2>1, DroppedGoes, GonerKeeps
  <2> QED BY <1>3, <2>1, CreateKeeps, InitializeKeeps, ConnectKeeps, SignKeeps,
             SignReturnsKeeps, StopKeeps, ShutdownReturnsKeeps DEF SdkStep
<1>4. CASE UNCHANGED vars
  <2>1. /\ UNCHANGED <<api, call, inits, started, current, handle, locals>>
        /\ UNCHANGED <<state, tx, signal, serving>>
        /\ UNCHANGED apiVars
    BY <1>4 DEF vars, apiVars, signerVars, serverVars
  <2>2. TypeOK' /\ CanBeTold'
    BY <1>1, <2>1 DEF TypeOK, CanBeTold
  <2>3. ServersMove
    BY <2>1 DEF ServersMove
  <2> QED BY <2>2, <2>3, ServersKeep
<1> QED BY <1>2, <1>3, <1>4 DEF Next

\* The SDK's invariant holds of every application, whatever it calls and in
\* whatever order the servers are polled.
THEOREM SdkInductive == Spec => []SdkInv
BY SdkInvInit, SdkInvNext, PTL DEF Spec

\* Basics, Stops and InitializedOnce are all that ShutdownStops takes.
LEMMA StopsShutdownStops ==
  ASSUME Basics, Stops, InitializedOnce
  PROVE  ShutdownStops
<1>1. SUFFICES ASSUME NEW k \in Sdk, api[k] \in {"shut", "gone"}, NEW v \in Local, v[1] = k
               PROVE  state[v] \notin {"spawned", "listening"}
  BY DEF ShutdownStops
<1>2. v[2] \in 1..MaxInit /\ v = <<k, v[2]>> /\ inits[k] \in 0..MaxInit /\ inits[k] <= 1
  BY <1>1, Locals DEF Basics, TypeOK, InitializedOnce
<1>3. CASE v[2] > inits[k]
  BY <1>1, <1>3 DEF Basics, Numbered
<1>4. CASE ~(v[2] > inits[k])
  <2>1. inits[k] = 1 /\ v[2] = 1
    BY <1>2, <1>4, MaxInitAssumption
  <2>2. v = Last(k)
    BY <1>2, <2>1 DEF Last
  <2> QED BY <1>1, <2>1, <2>2 DEF Stops
<1> QED BY <1>3, <1>4

\* If 1 s is enough to bind, shutdown leaves no server behind that takes calls,
\* as long as no MpcSigner has been initialized twice.
THEOREM AppShutdownStops ==
  Prompt => (Spec => [](InitializedOnce => ShutdownStops))
<1> SUFFICES ASSUME Prompt PROVE Spec => [](InitializedOnce => ShutdownStops)
  OBVIOUS
<1>1. SdkInv => (InitializedOnce => ShutdownStops)
  BY StopsShutdownStops DEF SdkInv
<1> QED BY <1>1, SdkInductive, PTL

\* And if MpcSigners that exist at the same time have different ports, each of
\* them is served by its own participant, one after the other on one port
\* included, and by one that listens once initialize has returned Ok.
THEOREM AppOwnParticipant ==
  Prompt /\ Separate => (Spec => [](InitializedOnce => OwnParticipant /\ InitializedServes))
<1> SUFFICES ASSUME Prompt, Separate
             PROVE  Spec => [](InitializedOnce => OwnParticipant /\ InitializedServes)
  OBVIOUS
<1>1. SdkInv => (InitializedOnce => OwnParticipant /\ InitializedServes)
  BY DEF SdkInv
<1> QED BY <1>1, SdkInductive, PTL

-----------------------------------------------------------------------------
(* The client *)

LEMMA CycleFacts ==
  /\ DOMAIN Cycles \subseteq Nat /\ 1 \in DOMAIN Cycles
  /\ \A i \in DOMAIN Cycles : Cycles[i] \in Sdk /\ Cycles[i] \notin App
  /\ \A i, j \in DOMAIN Cycles : Cycles[i] = Cycles[j] => i = j
  /\ \A i \in DOMAIN Cycles : i < Len(Cycles) => i + 1 \in DOMAIN Cycles
  /\ App \subseteq Sdk
<1>1. /\ Cycles \in Seq(Sdk) /\ Cycles # <<>>
      /\ \A i, j \in DOMAIN Cycles : Cycles[i] = Cycles[j] => i = j
  BY CyclesAssumption
<1>2. Len(Cycles) \in Nat /\ DOMAIN Cycles = 1..Len(Cycles)
  BY <1>1, LenProperties
<1>3. Len(Cycles) # 0
  BY <1>1, EmptySeq
<1>4. \A i \in DOMAIN Cycles : Cycles[i] \in Sdk
  BY <1>1, <1>2, ElementOfSeq
<1> QED BY <1>1, <1>2, <1>3, <1>4 DEF App

\* A step of one MpcSigner leaves the others', and what is theirs, alone.
OthersStay(k) ==
    \A j \in Sdk : j # k =>
        /\ call'[j] = call[j] /\ started'[j] = started[j]
        /\ \A v \in Server : j \in serving'[v] => j \in serving[v]
        /\ \A v \in Local : v[1] = j => state'[v] = state[v]

LEMMA GonerAlone ==
  ASSUME TypeOK, NEW k \in Sdk, Goner(k)
  PROVE  OthersStay(k)
BY Locals DEF Goner, TypeOK, OthersStay

LEMMA SdkStepAlone ==
  ASSUME TypeOK, NEW k \in Sdk, SdkStep(k)
  PROVE  OthersStay(k)
<1> USE DEF OthersStay
<1>1. CASE Create(k)
  BY <1>1 DEF Create, signerVars, serverVars
<1>2. CASE Initialize(k)
  <2>1. /\ call' = [call EXCEPT ![k] = "starting"]
        /\ state' = [state EXCEPT ![<<k, inits[k] + 1>>] = "spawned"]
        /\ UNCHANGED <<started, serving>>
    BY <1>2 DEF Initialize, Calls
  <2>2. \A v \in Local : v[1] # k => v # <<k, inits[k] + 1>>
    OBVIOUS
  <2> QED BY <2>1, <2>2, Locals DEF TypeOK
<1>3. CASE Connect(k)
  <2>1. /\ call' = [call EXCEPT ![k] = "idle"]
        /\ started' = [started EXCEPT ![k] = TRUE] \/ started' = started
        /\ UNCHANGED <<state, serving>>
    BY <1>3 DEF Connect, Calls, serverVars
  <2> QED BY <2>1 DEF TypeOK
<1>4. CASE Sign(k)
  <2>1. /\ call' = [call EXCEPT ![k] = "signing"] /\ UNCHANGED <<started, state>>
        /\ \A v \in Server : serving'[v] \subseteq serving[v] \cup {k}
    BY <1>4 DEF Sign, Calls
  <2> QED BY <2>1 DEF TypeOK
<1>5. CASE SignReturns(k)
  BY <1>5 DEF SignReturns, Calls, serverVars, TypeOK
<1>6. CASE Shutdown(k) \/ Drop(k)
  BY <1>6 DEF Shutdown, Drop, Stop, Calls, TypeOK
<1>7. CASE ShutdownReturns(k)
  BY <1>7 DEF ShutdownReturns, Calls, serverVars, TypeOK
<1>8. CASE Dropped(k)
  BY <1>8, DroppedGoes, GonerAlone
<1> QED BY <1>1, <1>2, <1>3, <1>4, <1>5, <1>6, <1>7, <1>8 DEF SdkStep

\* A client that dies takes its cycle's MpcSigner with it.
LEMMA DiesGoes ==
  ASSUME ClientTypeOK, ProcessDies
  PROVE  /\ Goner(Mine) /\ at' = "panicked" /\ cycle' = cycle
         /\ \A v \in Server : Mine \notin serving'[v]
<1>1. serving' = [v \in Server |-> serving[v] \ {Mine}]
  BY DEF ProcessDies
<1>2. /\ serving' \in [Server -> SUBSET Sdk]
      /\ \A v \in Server : serving'[v] \subseteq serving[v]
  BY <1>1 DEF ClientTypeOK, TypeOK
<1> QED BY <1>1, <1>2 DEF ProcessDies, Goner

\* A step of the client is one of the SDK, or takes its MpcSigner away.
LEMMA ClientStepsSdk ==
  ASSUME ClientTypeOK, [ClientNext]_allVars
  PROVE  [Next]_vars \/ Goner(Mine)
<1>1. Mine \in Sdk
  BY CycleFacts DEF ClientTypeOK, Mine
<1>2. CASE ClientStep
  <2>1. CASE CycleNewFails \/ CycleRefused \/ RpcFails
    BY <2>1 DEF CycleNewFails, CycleRefused, RpcFails
  <2>2. CASE Returns
    <3>1. ProcessDies \/ UNCHANGED vars
      BY <2>2 DEF Returns, GoesOn
    <3> QED BY <3>1, DiesGoes
  <2>3. CASE \/ CycleNew \/ CycleInitialize \/ CycleConnect \/ CycleSign \/ CycleSigned
             \/ CycleShutdown \/ CycleStopped \/ CycleDrop \/ CycleDropped
    <3>1. SdkStep(Mine)
      BY <2>3 DEF CycleNew, CycleInitialize, CycleConnect, CycleSign, CycleSigned,
                  CycleShutdown, CycleStopped, CycleDrop, CycleDropped, SdkStep
    <3> QED BY <1>1, <3>1 DEF Next
  <2> QED BY <1>2, <2>1, <2>2, <2>3 DEF ClientStep
<1>3. CASE Around
  <2>1. Next
    BY <1>3, CycleFacts DEF Around, Next
  <2> QED BY <2>1
<1>4. CASE UNCHANGED allVars
  BY <1>4 DEF allVars
<1> QED BY <1>2, <1>3, <1>4 DEF ClientNext

-----------------------------------------------------------------------------
(* The client's invariant is inductive *)

ClientSafe == IdleBetween /\ SignsInTime /\ StartsInTime /\ LeavesNone

LEMMA ClientInvInit == ClientInit => SdkInv /\ ClientInv
<1> SUFFICES ASSUME ClientInit PROVE SdkInv /\ ClientInv
  OBVIOUS
<1>1. SdkInv
  BY SdkInvInit DEF ClientInit
<1>2. ClientTypeOK
  BY <1>1, CycleFacts DEF ClientInit, ClientTypeOK, SdkInv, Basics
<1>3. \A i \in DOMAIN Cycles : /\ call[Cycles[i]] = "idle" /\ ~started[Cycles[i]]
                               /\ \A v \in Server : Cycles[i] \notin serving[v]
  BY CycleFacts DEF ClientInit, Init
<1>4. \A v \in Local : state[v] = "none"
  BY Locals DEF ClientInit, Init
<1>5. ClientSafe
  BY <1>3, <1>4 DEF ClientInit, ClientSafe, IdleBetween, SignsInTime, StartsInTime, LeavesNone
<1>6. HolderInTime
  BY DEF ClientInit, HolderInTime
<1> QED BY <1>1, <1>2, <1>5, <1>6 DEF ClientInv, ClientSafe

\* Who owns the runtime.
LEMMA HolderNext ==
  ASSUME ClientInv, ClientStep
  PROVE  HolderInTime' /\ holder' \in {"none", "task", "blocking"}
<1>1. HolderInTime /\ holder \in {"none", "task", "blocking"}
  BY DEF ClientInv, ClientTypeOK
<1>2. CASE CycleNew \/ CycleNewFails \/ CycleRefused \/ CycleConnect
  BY <1>1, <1>2 DEF CycleNew, CycleNewFails, CycleRefused, CycleConnect, Goes, FailsAt,
                    HolderInTime
<1>3. CASE CycleInitialize \/ CycleSign \/ RpcFails \/ CycleSigned \/ CycleShutdown
           \/ CycleStopped
  BY <1>1, <1>3 DEF CycleInitialize, CycleSign, RpcFails, CycleSigned, CycleShutdown,
                    CycleStopped, Goes, HolderInTime
<1>4. CASE CycleDrop \/ CycleDropped \/ Returns
  BY <1>1, <1>4 DEF CycleDrop, CycleDropped, Returns, ProcessDies, GoesOn, Goes, HolderInTime
<1> QED BY <1>2, <1>3, <1>4 DEF ClientStep

\* A step of the cycle's own MpcSigner, within the cycle.
LEMMA WithinCycle ==
  ASSUME ClientInv, NEW k \in Sdk, k = Mine, OthersStay(k), cycle' = cycle,
         at' \notin {"initializing", "signing", "stopping", "dropping"} => call'[k] = "idle",
         \A v \in Server : k \in serving'[v] => at' = "signing",
         Unstarted' => ~started'[k],
         Serverless' =>
            \A v \in Local : v[1] = k => state'[v] \in {"none", "ended"}
  PROVE  ClientSafe'
<1>1. /\ cycle \in DOMAIN Cycles /\ Cycles[cycle] = k
      /\ \A i \in DOMAIN Cycles : Cycles[i] \in Sdk /\ (i # cycle => Cycles[i] # k)
      /\ DOMAIN Cycles \subseteq Nat
  BY CycleFacts DEF ClientInv, ClientTypeOK, Mine
<1>2. \A i \in DOMAIN Cycles : i < cycle \/ i > cycle => i # cycle
  BY <1>1
<1>3. IdleBetween'
  BY <1>1 DEF ClientInv, IdleBetween, OthersStay
<1>4. SignsInTime'
  BY <1>1 DEF ClientInv, SignsInTime, OthersStay
<1>5. StartsInTime'
  BY <1>1, <1>2 DEF ClientInv, StartsInTime, OthersStay
<1>6. LeavesNone'
  BY <1>1, <1>2 DEF ClientInv, LeavesNone, OthersStay
<1> QED BY <1>3, <1>4, <1>5, <1>6 DEF ClientSafe

\* The end of a cycle, and perhaps the beginning of the next one.
LEMMA CycleEnds ==
  ASSUME ClientInv, at = "leaving", holder # "task", GoesOn
  PROVE  ClientSafe' /\ cycle' \in DOMAIN Cycles /\ at' \in {"next", "done"}
<1>1. cycle \in DOMAIN Cycles /\ DOMAIN Cycles \subseteq Nat
  BY CycleFacts DEF ClientInv, ClientTypeOK
<1>2. UNCHANGED <<call, started, serving, state>>
  BY DEF GoesOn, vars, apiVars, serverVars
<1>3. \/ cycle < Len(Cycles) /\ cycle' = cycle + 1 /\ at' = "next"
      \/ cycle' = cycle /\ at' = "done"
  BY DEF GoesOn
<1>4. cycle' \in DOMAIN Cycles
  BY <1>1, <1>3, CycleFacts
<1>5. \A i \in DOMAIN Cycles :
        i > cycle' \/ (i = cycle' /\ Unstarted') => i > cycle
  BY <1>1, <1>3 DEF Unstarted
<1>6. IdleBetween' /\ SignsInTime'
  BY <1>2 DEF ClientInv, IdleBetween, SignsInTime
<1>7. StartsInTime'
  BY <1>2, <1>5 DEF ClientInv, StartsInTime
<1>8. LeavesNone'
  BY <1>2 DEF ClientInv, LeavesNone, Serverless
<1> QED BY <1>3, <1>4, <1>6, <1>7, <1>8 DEF ClientSafe

LEMMA ClientStepKeeps ==
  ASSUME SdkInv, ClientInv, ClientStep
  PROVE  ClientSafe' /\ cycle' \in DOMAIN Cycles /\ good' \in BOOLEAN
         /\ at' \in {"next", "created", "initializing", "ready", "signing", "signed",
                     "stopping", "stopped", "dropping", "leaving", "done", "panicked"}
<1> DEFINE k == Cycles[cycle]
<1>1. /\ cycle \in DOMAIN Cycles /\ k \in Sdk /\ k = Mine /\ good \in BOOLEAN
      /\ TypeOK /\ InCall
  BY CycleFacts DEF ClientInv, ClientTypeOK, Mine, SdkInv, Basics
<1> HIDE DEF k
\* What the invariant says of the cycle's own MpcSigner.
<1>2. /\ at \notin {"initializing", "signing", "stopping", "dropping"} => call[k] = "idle"
      /\ \A v \in Server : k \in serving[v] => at = "signing"
      /\ Unstarted => ~started[k]
      /\ Serverless => \A v \in Local : v[1] = k => state[v] \in {"none", "ended"}
      /\ HolderInTime
  BY <1>1 DEF ClientInv, IdleBetween, SignsInTime, StartsInTime, LeavesNone, k
<1> USE DEF Unstarted, Serverless
<1>3. CASE CycleNewFails
  <2>1. /\ at = "next" /\ at' = "leaving" /\ cycle' = cycle /\ good' = FALSE
        /\ UNCHANGED <<call, started, serving, state>>
    BY <1>3 DEF CycleNewFails, FailsAt, Goes, vars, apiVars, serverVars
  <2>2. OthersStay(k)
    BY <2>1 DEF OthersStay
  <2> QED BY <1>1, <1>2, <2>1, <2>2, WithinCycle
<1>4. CASE CycleRefused
  <2>1. /\ at = "created" /\ at' = "leaving" /\ cycle' = cycle /\ good' = FALSE
        /\ UNCHANGED <<call, started, serving, state>> /\ holder' = "task"
    BY <1>2, <1>4 DEF CycleRefused, FailsAt, Goes, HolderInTime, vars, apiVars, serverVars
  <2>2. OthersStay(k)
    BY <2>1 DEF OthersStay
  <2> QED BY <1>1, <1>2, <2>1, <2>2, WithinCycle
<1>5. CASE CycleNew
  <2>1. /\ at = "next" /\ at' = "created" /\ cycle' = cycle /\ good' = good
        /\ Create(k) /\ OthersStay(k)
    BY <1>1, <1>5, SdkStepAlone DEF CycleNew, Goes, SdkStep
  <2>2. UNCHANGED <<call, started, serving>>
    BY <2>1 DEF Create, serverVars
  <2> QED BY <1>1, <1>2, <2>1, <2>2, WithinCycle
<1>6. CASE CycleInitialize
  <2>1. /\ at = "created" /\ at' = "initializing" /\ cycle' = cycle /\ good' = good
        /\ Initialize(k) /\ OthersStay(k)
    BY <1>1, <1>6, SdkStepAlone DEF CycleInitialize, Goes, SdkStep
  <2>2. UNCHANGED <<started, serving>>
    BY <2>1 DEF Initialize
  <2> QED BY <1>1, <1>2, <2>1, <2>2, WithinCycle
<1>7. CASE CycleConnect
  <2>1. /\ at = "initializing" /\ cycle' = cycle /\ good' \in BOOLEAN /\ holder' = "task"
        /\ Connect(k) /\ OthersStay(k)
    BY <1>1, <1>2, <1>7, SdkStepAlone DEF CycleConnect, FailsAt, Goes, HolderInTime, SdkStep
  <2>2. call'[k] = "idle" /\ serving' = serving
    BY <1>1, <2>1 DEF Connect, Calls, serverVars, TypeOK
  <2>3. \/ at' = "ready"
        \/ at' = "leaving" /\ started' = started
    BY <1>1, <1>7 DEF CycleConnect, FailsAt, Goes, Connect
  <2> QED BY <1>1, <1>2, <2>1, <2>2, <2>3, WithinCycle
<1>8. CASE CycleSign
  <2>1. /\ at = "ready" /\ at' = "signing" /\ cycle' = cycle /\ good' = good
        /\ Sign(k) /\ OthersStay(k)
    BY <1>1, <1>8, SdkStepAlone DEF CycleSign, Goes, SdkStep
  <2> QED BY <1>1, <2>1, WithinCycle
<1>9. CASE RpcFails
  <2>1. /\ at = "ready" /\ at' = "signed" /\ cycle' = cycle /\ good' \in BOOLEAN
        /\ UNCHANGED <<call, started, serving, state>>
    BY <1>9 DEF RpcFails, Goes, vars, apiVars, serverVars
  <2>2. OthersStay(k)
    BY <2>1 DEF OthersStay
  <2> QED BY <1>1, <1>2, <2>1, <2>2, WithinCycle
<1>10. CASE CycleSigned
  <2>1. /\ at = "signing" /\ at' = "signed" /\ cycle' = cycle /\ good' \in BOOLEAN
        /\ SignReturns(k) /\ OthersStay(k)
    BY <1>1, <1>10, SdkStepAlone DEF CycleSigned, Goes, SdkStep
  <2>2. call'[k] = "idle" /\ \A v \in Server : k \notin serving'[v]
    BY <1>1, <2>1 DEF SignReturns, Calls, serverVars, TypeOK
  <2> QED BY <1>1, <2>1, <2>2, WithinCycle
<1>11. CASE CycleShutdown
  <2>1. /\ at = "signed" /\ at' = "stopping" /\ cycle' = cycle /\ good' = good
        /\ Shutdown(k) /\ OthersStay(k)
    BY <1>1, <1>11, SdkStepAlone DEF CycleShutdown, Goes, SdkStep
  <2>2. UNCHANGED serving
    BY <2>1 DEF Shutdown, Stop
  <2> QED BY <1>1, <1>2, <2>1, <2>2, WithinCycle
<1>12. CASE CycleStopped
  <2>1. /\ at = "stopping" /\ at' = "stopped" /\ cycle' = cycle /\ good' = good
        /\ ShutdownReturns(k) /\ OthersStay(k)
    BY <1>1, <1>12, SdkStepAlone DEF CycleStopped, Goes, SdkStep
  <2>2. call'[k] = "idle" /\ serving' = serving
    BY <1>1, <2>1 DEF ShutdownReturns, Calls, serverVars, TypeOK
  <2> QED BY <1>1, <1>2, <2>1, <2>2, WithinCycle
<1>13. CASE CycleDrop
  <2>1. /\ at = "stopped" /\ at' = "dropping" /\ cycle' = cycle /\ good' = good
        /\ Drop(k) /\ OthersStay(k)
    BY <1>1, <1>13, SdkStepAlone DEF CycleDrop, Goes, SdkStep
  <2>2. UNCHANGED serving
    BY <2>1 DEF Drop, Stop
  <2> QED BY <1>1, <1>2, <2>1, <2>2, WithinCycle
<1>14. CASE CycleDropped
  <2>1. /\ at = "dropping" /\ at' = "leaving" /\ cycle' = cycle /\ good' = good
        /\ holder' = "none" /\ Dropped(k) /\ OthersStay(k)
    BY <1>1, <1>14, SdkStepAlone DEF CycleDropped, Goes, SdkStep
  <2>2. Goner(k)
    BY <1>1, <2>1, DroppedGoes
  <2>3. /\ call'[k] = "idle" /\ \A v \in Server : k \notin serving'[v]
        /\ \A v \in Local : v[1] = k => state'[v] \in {"none", "ended"}
    BY <1>1, <1>2, <2>1, <2>2, Locals DEF Goner, TypeOK
  <2> QED BY <1>1, <2>1, <2>3, WithinCycle
<1>15. CASE Returns
  <2>1. CASE holder = "task"
    <3>1. /\ at = "leaving" /\ ProcessDies /\ good' = good
      BY <1>15, <2>1 DEF Returns
    <3>2. /\ Goner(k) /\ at' = "panicked" /\ cycle' = cycle
          /\ \A v \in Server : k \notin serving'[v]
      BY <1>1, <3>1, DiesGoes DEF ClientInv
    <3>3. OthersStay(k)
      BY <1>1, <3>2, GonerAlone
    <3>4. /\ call'[k] = "idle" /\ started' = started
          /\ \A v \in Local : v[1] = k => state'[v] \in {"none", "ended"}
      BY <1>1, <3>2, Locals DEF Goner, TypeOK
    <3> QED BY <1>1, <1>2, <2>1, <3>1, <3>2, <3>3, <3>4, WithinCycle
  <2>2. CASE holder # "task"
    <3>1. at = "leaving" /\ GoesOn /\ good' = good
      BY <1>15, <2>2 DEF Returns
    <3> QED BY <1>1, <2>2, <3>1, CycleEnds
  <2> QED BY <2>1, <2>2
<1> QED BY <1>3, <1>4, <1>5, <1>6, <1>7, <1>8, <1>9, <1>10, <1>11, <1>12, <1>13, <1>14, <1>15
        DEF ClientStep

\* What goes on around the client does not touch its cycles.
LEMMA AroundKeeps ==
  ASSUME SdkInv, ClientInv, Around, UNCHANGED clientVars
  PROVE  ClientSafe'
<1>1. /\ cycle' = cycle /\ at' = at /\ holder' = holder
      /\ \A i \in DOMAIN Cycles : Cycles[i] \in Sdk
  BY CycleFacts DEF clientVars
<1>2. \A i \in DOMAIN Cycles :
        /\ call'[Cycles[i]] = call[Cycles[i]] /\ started'[Cycles[i]] = started[Cycles[i]]
        /\ \A v \in Server : Cycles[i] \in serving'[v] => Cycles[i] \in serving[v]
        /\ \A v \in Local : v[1] = Cycles[i] /\ state[v] \in {"none", "ended"} =>
                               state'[v] \in {"none", "ended"}
  <2>1. CASE \E k \in App : SdkStep(k)
    <3>1. PICK k \in App : SdkStep(k)
      BY <2>1
    <3>2. k \in Sdk /\ \A i \in DOMAIN Cycles : Cycles[i] # k
      BY CycleFacts
    <3>3. OthersStay(k)
      BY <3>1, <3>2, SdkStepAlone DEF SdkInv, Basics
    <3> QED BY <1>1, <3>2, <3>3 DEF OthersStay
  <2>2. CASE (\E v \in Server : ServerStep(v)) \/ Terminate \/ Exit
    <3>1. ServersMove
      BY <2>2, ServerSteps DEF SdkInv, Basics
    <3> QED BY <3>1 DEF ServersMove, apiVars
  <2> QED BY <2>1, <2>2 DEF Around
<1>3. IdleBetween' /\ SignsInTime' /\ StartsInTime' /\ LeavesNone'
  BY <1>1, <1>2 DEF ClientInv, IdleBetween, SignsInTime, StartsInTime, LeavesNone,
                    Unstarted, Serverless
<1> QED BY <1>3 DEF ClientSafe

LEMMA ClientInvNext == SdkInv /\ ClientInv /\ [ClientNext]_allVars => SdkInv' /\ ClientInv'
<1> SUFFICES ASSUME SdkInv, ClientInv, [ClientNext]_allVars PROVE SdkInv' /\ ClientInv'
  OBVIOUS
<1>1. ClientTypeOK /\ Mine \in Sdk
  BY CycleFacts DEF ClientInv, ClientTypeOK, Mine
<1>2. SdkInv'
  <2>1. CASE Goner(Mine)
    <3>1. \A k \in Sdk : k = Mine => Goner(k)
      BY <2>1 DEF Goner
    <3> QED BY <1>1, <3>1, GonerKeeps
  <2> QED BY <1>1, <2>1, ClientStepsSdk, SdkInvNext
<1>3. TypeOK'
  BY <1>2 DEF SdkInv, Basics
<1>4. CASE ClientStep
  BY <1>2, <1>3, <1>4, ClientStepKeeps, HolderNext DEF ClientInv, ClientTypeOK, ClientSafe
<1>5. CASE Around /\ UNCHANGED clientVars
  BY <1>2, <1>3, <1>5, AroundKeeps
     DEF ClientInv, ClientTypeOK, ClientSafe, clientVars, HolderInTime
<1>6. CASE UNCHANGED allVars
  <2>1. /\ UNCHANGED <<call, started, serving, state>> /\ UNCHANGED <<cycle, at, good, holder>>
    BY <1>6 DEF allVars, vars, apiVars, serverVars, clientVars
  <2> QED BY <1>2, <1>3, <2>1
          DEF ClientInv, ClientTypeOK, IdleBetween, SignsInTime, HolderInTime, StartsInTime,
              LeavesNone, Unstarted, Serverless
<1> QED BY <1>4, <1>5, <1>6 DEF ClientNext

-----------------------------------------------------------------------------
(* The theorems about the client *)

\* The SDK's and the client's invariants hold of every run of the client among
\* other applications.
THEOREM Inductive == ClientSpec => [](SdkInv /\ ClientInv)
BY ClientInvInit, ClientInvNext, PTL DEF ClientSpec

\* Every variable of the SDK and of the client keeps its type.
THEOREM TypeCorrect == ClientSpec => []ClientTypeOK
<1>1. ClientInv => ClientTypeOK
  BY DEF ClientInv
<1> QED BY <1>1, Inductive, PTL

\* A cycle that is over, however it has ended, has left no server task, no call
\* in flight and no lock held.
THEOREM CyclesLeaveNothing == ClientSpec => []CyclesCleanUp
<1>1. ASSUME ClientInv PROVE CyclesCleanUp
  <2>1. SUFFICES ASSUME NEW i \in DOMAIN Cycles,
                        i < cycle \/ (i = cycle /\ at \in {"done", "panicked"})
        PROVE  /\ call[Cycles[i]] = "idle"
               /\ \A v \in Server : Cycles[i] \notin serving[v]
               /\ \A v \in Local : v[1] = Cycles[i] => state[v] \in {"none", "ended"}
    BY DEF CyclesCleanUp
  <2>2. i # cycle \/ at \notin {"initializing", "signing", "stopping", "dropping"}
    BY <1>1, <2>1, CycleFacts DEF ClientInv, ClientTypeOK
  <2> QED BY <1>1, <2>1, <2>2, CycleFacts
          DEF ClientInv, ClientTypeOK, IdleBetween, SignsInTime, LeavesNone, Serverless
<1> QED BY <1>1, Inductive, PTL

\* Once a cycle's initialize has returned Ok, whatever fails and whoever has
\* the runtime meanwhile, it is not left to the async task to drop.
THEOREM StartedCyclesDoNotPanic == ClientSpec => []NoPanicOnceStarted
<1>1. ClientInv => NoPanicOnceStarted
  BY DEF ClientInv, ClientTypeOK, StartsInTime, Unstarted, NoPanicOnceStarted, Mine
<1> QED BY <1>1, Inductive, PTL

\* For the client among other applications: shutdown leaves no server behind.
THEOREM ClientShutdownStops ==
  Prompt => (ClientSpec => [](InitializedOnce => ShutdownStops))
<1> SUFFICES ASSUME Prompt PROVE ClientSpec => [](InitializedOnce => ShutdownStops)
  OBVIOUS
<1>1. SdkInv => (InitializedOnce => ShutdownStops)
  BY StopsShutdownStops DEF SdkInv
<1> QED BY <1>1, Inductive, PTL

\* And each MpcSigner is served by its own participant only.
THEOREM ClientOwnParticipant ==
  Prompt /\ Separate => (ClientSpec => [](InitializedOnce => OwnParticipant))
<1> SUFFICES ASSUME Prompt, Separate
             PROVE  ClientSpec => [](InitializedOnce => OwnParticipant)
  OBVIOUS
<1>1. SdkInv => (InitializedOnce => OwnParticipant)
  BY DEF SdkInv
<1> QED BY <1>1, Inductive, PTL

\* And by one that listens, once initialize has returned Ok.
THEOREM ClientInitializedServes ==
  Prompt /\ Separate => (ClientSpec => [](InitializedOnce => InitializedServes))
<1> SUFFICES ASSUME Prompt, Separate
             PROVE  ClientSpec => [](InitializedOnce => InitializedServes)
  OBVIOUS
<1>1. SdkInv => (InitializedOnce => InitializedServes)
  BY DEF SdkInv
<1> QED BY <1>1, Inductive, PTL
=============================================================================
