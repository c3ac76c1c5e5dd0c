# Verification of wallet-mpc

TLA+ models of a two-party MPC wallet: an SDK and a sign-service that run a
threshold-signing protocol over the rooms of an SSE broker. The models are
checked with TLC on small instances, and every invariant and every refinement
the runs check is proved with TLAPS for all instances - some of them under a
condition that section 5 names. Everything is translated from the Rust source;
`PROJECT.json` maps each definition to its lines.

## 1. The system

| component | source | state | operations |
|---|---|---|---|
| SSE room | `sse/src/lib.rs` | `messages` behind an RwLock, a `Notify`, two u16 counters; per stream `next_event: u16` | `publish`, `subscribe` (with or without Last-Event-ID), `next`, drop |
| SSE broker | `sse/src/lib.rs` | map room name -> room behind an RwLock | look up or create a room; the handlers `subscribe`, `broadcast`, `issue_idx` |
| participant | `participant/src/client.rs`, `signing.rs`, `lib.rs` | one SSE stream and one protocol run per call; a shutdown sender per server | `sign_tx`, `join_room`, server `start` and `shutdown` |
| SDK | `mpc-client/src/signer.rs`, `lib.rs` | instance id, tx counter, hosted server, list of clients, all under one mutex | `new`, `initialize`, `sign_data`, `shutdown`, drop |
| gateway | `sign-gateway/src/grpc.rs`, `main.rs` | the broker, one upstream client behind a mutex | forward `sign_tx`; process start and shutdown |
| command-line client | `client/src/main.rs` | one MpcSigner per cycle | cycles of new, initialize, sign, shutdown, drop |
| sign-service | `sign-service/src/service.rs` | a participant server, key shares read once | run until SIGTERM |
| key dealer | `key-gen/src/dealer.rs`, `main.rs` | one file of shares per party, plain or encrypted | deal, verify, append file by file |
| enclave boot | `scripts/sign-service/*.sh` | secrets on the host and in the enclave, listeners, proxies | launch, hand-over, decrypt, stop |
| proto, configuration, image build, vendored libraries | `proto`, `config`, `scripts`, `vendor` | - | not modelled, see section 8 |

A call of `sign_data` draws a tx_id (instance id in the high 16 bits, counter in
the low ones) and a fresh execution id, and calls two participants at once: the
one the SDK hosts itself, and the sign-service through the gateway, which
forwards one call at a time. Each participant subscribes to the room
`signing_<tx_id>` at the broker inside the gateway, posts its message of each
round there and reads its peer's from the stream. Nothing else connects the two
participants.

What makes this hard:

* the two participants join at different times, so the second one depends on
  the broker replaying the history without loss, gap or repetition;
* a stream sleeps until it is notified, and the last message of a round has no
  successor that would wake a stream that missed it;
* rooms are never removed, while their names are 16+16 bits that wrap and collide;
* broken streams, refused POSTs, a 60 s timeout that covers the streams, broker
  restarts and SDK crashes; nothing is retried;
* servers run beside the calls that start and stop them, with sleeps for
  synchronisation;
* the dealer writes several files one after the other, each by truncation;
* the gateway runs two servers and shuts them down over a watch channel, a
  dropped future and a handle, each of which may come first;
* the enclave and its host agree on the time only by sleeping, and each of the
  three secrets has one connection to arrive on.

`PROJECT.json` lists the hazards at their lines, with the properties that cover
each one, or the reason why none does yet.

## 2. The modules

```
BroadcastLog            abstract: a room is a log, read from its start
  ^ implemented by SseRoom, and by each room name of SseBroker
SseRoom                 one room, lock by lock              SseRoom_proofs
SseBroker               room names, rooms, handlers         SseBroker_proofs
  . room = log
ThresholdSigning        abstract: requests, consent, outcomes
  ^ implemented by
SigningSession          SDKs, gateway, participants, rooms  SigningSession_proofs,
                                                            SigningService_proofs
SdkLifecycle            servers and those who host them
  ^ extended by
Client                  the command-line client's cycles    Client_proofs
GatewayQueue            the gateway's calls, with a clock
  ^ extended by
Gateway                 main, SSE task, gRPC task           Gateway_proofs
KeyDealer               the key files                       KeyDealer_proofs
EnclaveBoot             host scripts, enclave entrypoint    EnclaveBoot_proofs
MC<module>              constants and symmetry for TLC
```

`SseRoom` shows what a room does inside; `SseBroker` takes a room's operations
as atomic and shows that names and rooms correspond; `SigningSession` takes a
room for the log that both implement. `SdkLifecycle` is about which server
answers a call and leaves the course of the call to `SigningSession`. `Client`
runs MpcSigners of `SdkLifecycle` one after another, beside others that any
application may have. `SigningSession` has the gateway's queue without time;
`GatewayQueue` has its time without the sessions' contents, and `Gateway` puts
the process around it.

### BroadcastLog

`log` grows by `Post`; a client's `got` is extended by the next message of the
log (`Deliver`), or emptied when the client joins anew (`Rejoin`).

### SseRoom

Each await and each statement another task can observe is an action. A poster
goes `Broadcast` (handler entered, write lock asked for), `AcquireWrite`,
`Push`, `NotifyWaiters`, `ReleaseWrite`; its caller may hang up at the one await
(`AbandonBroadcast`). A stream goes `AskRead`, `Look` and then either `Take` or
`Arm` (create the `Notified` future), `ReleaseRead`, `Wake`. `SubscribeAnew`
starts at event 0 as the participants do; `Resume` follows Last-Event-ID.
`Disconnect` drops the stream at any await and loses what the client had not
read. tokio is external: its RwLock is a fair queue (`ahead[c]` are the writers
before reader c), and `notify_waiters` wakes every future created before it.
u16 arithmetic is the release build's, modulo `EventMod`.

### SseBroker

Requests run the look-up under the read lock, the gap, and the insertion under
the write lock as separate actions (`Found`, `Missed`, `CreateRoom`,
`CreatedMeanwhile`), then work on the room object they hold. Room objects live
in a heap, so that two objects for one name could exist; `accepted` and `issued`
are history variables of what was answered. An answered or closed request
leaves its slot free for another one.

### SigningSession

`Sign` draws the tx_id and calls both participants; the remote one is `queued`
until the gateway's mutex is free (`Forward`, `Answer`). An attempt is a pair of
session and party; it goes called, sending, waiting and so on for `Rounds`
rounds, to ok or failed. `Read` takes the next message of the room off the
stream and routes it: one's own is dropped by join_room's filter, one for a
completed round is ignored, a second one for an open round is a `Clash`. The
execution id is what makes a message verify (`Advance`, `Finish`) or not
(`Reject`). cggmp21 and round-based are external and are modelled from that
use. The set `Faults` switches on what the environment does: unreachable
peers, timeouts, broken streams, POSTs that fail or are refused, restarts of the
broker, crashes of an SDK.

`Service` maps a session to `ThresholdSigning`: asked when it has a tx_id,
consent when a participant has posted all its rounds, outcome by stage.

### SdkLifecycle

One server per call of `initialize`, and the sign-service's. `Start` stores the
shutdown sender and binds the port, or ends with an error nobody looks at.
`Connect` reaches whoever listens on the port. `Shutdown` and `Drop` send the
signal if a sender is stored, wait at most 5 s (`Waited`), and forget the
server. `Terminate` and `Exit` are the sign-service's process.

### Client

`run_mpc_signing_test` call by call. Each step is a step of `SdkLifecycle` by the
cycle's MpcSigner (`Mine`) with a move of the client's own program counter. What
the SDK's API allows and the client never does, like dropping a signer without
`shutdown`, is left to the other MpcSigners (`App`); a second `initialize` is the
question of `SdkLifecycle_twice`. `holder` says who owns the cycle's tokio
runtime: the async task, from `MpcSigner::new` on, or the blocking one that
`CycleDrop` moves it to. Every way out of a cycle comes to `Returns`, where what
the task still owns is dropped; a runtime among it panics and takes the process
along (`ProcessDies`). That no way out after `initialize` comes there with the
runtime in hand is a property of the steps between (`NoPanicOnceStarted`), not
of the panic's guard. The other places in `main.rs` that could panic do not: they
parse literals (lines 203, 230), take r and s of a signature, which have 32 bytes
(305), and join a blocking task that only drops (361).

### GatewayQueue and Gateway

`line` is the calls in the order in which they asked for the lock, the first of
which holds it when `locked`. A call knows its age, whether its SDK is still
there, and how many calls it found. `Tick` is one unit of time; it waits for what
is due: a session whose participants meet is over within `Duration`, any other
one within `Hold`, when the participant at the sign-service has timed out.

`Gateway` is `main.rs`. The SSE task is spawned, serving or ended; actix's
threads live on when the task's future is dropped (`SseTold`), and stop on a
signal or on the handle's command while it is polled (`ActixStops`). `Told` is
the watch channel, which main sends on without an await after its select.
`open` is the JoinHandles main still has to await.

### EnclaveBoot

Each launch of `run-enclave.sh` goes new, fetched, checked, proxying, proxied,
sending, serving; `Ends` is the EXIT trap. Its KMS proxy is a process of its own:
it starts, gets the port or dies for want of it (`ProxyBinds`), and the script
looks at it once (`CheckProxy`), when `kill -0` cannot tell a proxy that has the
port from one that has not failed yet. A transfer fails before socat has sent
anything (`Retry`) or after it has used up the listener (`BreaksOff`); both cost
an attempt (`FailedAttempt`). The entrypoint opens and checks the three
listeners, waits, decrypts, and becomes the service; `NoEnclave` is its end, and
that of its memory.

`faults` is a rigid variable, the environment of a behaviour: "failure" (tools
that fail, connections that break off, Ctrl-C, the operator), "early"
(READINESS_SLEEP_SECONDS is too short), "proxy" (the second before `kill -0` is
too short, or a proxy dies later), "shared" (SECRETS_TMPDIR is set, and all
launches use one directory). Without any of them every sleep suffices and every
launch has a SECRETS_DIR of its own, which is the default.

### KeyDealer

`Encrypts` is main's rule that files are encrypted only when there are as many
recipients as parties. `Run` begins a run for an account; `Open` loads, merges and truncates one
party's file, `Write` fills it and goes on to the next party. `Refuse`,
`OpenFails`, `WriteFails` and `Kill` end the run in between. A share is the
number of the run that dealt it. `Decrypt` is the operator's documented step
between runs.

## 3. What is checked

| run | instance | shows |
|---|---|---|
| `SseRoom_streams` | 2 posters, 2 clients, 2 messages, EventMod 3, fair | `NoLostWakeup`, `DeliveredInOrder`, `EveryMessageArrives`, `BroadcastReturns`, `LogSpec` (refinement) |
| `SseBroker_rooms` | 2 names, 3 requests; 2 messages and 2 indices per room | `OneRoomPerName`, `RoomIsolation`, `UniqueIdx`, `EveryRoomIsALog` (refinement, per name) |
| `SigningSession_faults` | 2 signers whose sessions share a room and contend for the gateway, 1 round, 1 restart, crashes, all faults, fair | `SignatureFromBoth`, `NoMutualWait`, `SignReturns`, `ServiceSpec` (refinement) |
| `SigningSession_solo` | 2 signers whose ids collide or not, 2 sessions, 2 rounds, no faults, fair | `SoloSessionSucceeds`, `SignatureFromBoth`, `NoMutualWait` |
| `Client_cycles` | 2 cycles of the client and another MpcSigner, 1 port | `ShutdownStops`, `OwnParticipant`, `InitializedServes`, `CyclesCleanUp`, `NoPanicOnceStarted` |
| `Gateway_calls` | 3 calls at a time, Duration 1, Timeout 3, Hold 3, fair | `WaitIsBounded`, `WithinCapacityNobodyIsLate`, `NoCallIsCut`, `ShutdownCompletes` |
| `KeyDealer_runs` | 2 accounts, 3 parties, 4 runs, 0 to 3 recipients, all faults | `SuccessIsComplete`, `SameDealing`, `OnePartyAtRisk` |
| `EnclaveBoot_launches` | 2 launches, 2 attempts per file; environments without faults, with failures and short sleeps, with all faults; fair | `SecretsWiped`, `RunsOnItsOwnSecrets`, `TransferDecides`, `CalmBootServes` |

Each module's `TypeOK` is checked in one of its runs. Each property has a mutant
of the code that violates it, an operator defined just before the definition it
replaces (`\* Mutant of ...`) and listed in `PROJECT.json`.

Bounds and why they are enough - for the invariants and refinements the theorems
of section 5 take them away again, so they matter most for liveness:

* *SseRoom*: two messages and two clients make a stream that sleeps, one that
  reads and one that resumes in the middle coincide with two queued writers.
  `MaxHistory` counts messages in flight, so no run ends with a poster stuck.
  `EventMod` is above it: no wrap.
* *SseBroker*: three requests are needed for a race of two creators observed by
  a third. Two messages per room show a stream that misses the first one, two
  indices one issued twice. That what was accepted arrives is liveness of one
  room, and `SseRoom_streams`' question.
* *SigningSession*: two sessions are what a room can confuse; two rounds are a
  first one, in which the peers may not have joined yet, and a last one whose
  message nobody follows up. Two instance ids let signers collide or not, and
  `CtrMod` 1 makes every tx_id of a signer the same, the worst case of the wrap.
  Two signers with one call each make one that holds the gateway's lock, and may
  die with it or be refused, while the other waits. With restarts and crashes one
  round keeps the fair graph small; what two rounds add there,
  `SignatureFromBoth`, is proved.
* *SdkLifecycle, Client*: two cycles on one port are a predecessor and a
  successor, and the third MpcSigner is whoever had the port before or gets it
  after.
* *Gateway*: with Duration 1 and Timeout 3 two sessions at a time fit into a
  participant's timeout and three do not, so both sides of
  `WithinCapacityNobodyIsLate` are reached. Three calls are the one that holds
  the lock, the one behind it and one that could overtake.
* *EnclaveBoot*: two launches are two that race past the check, or one and
  another that comes after an operator's stop or a failure; two attempts are one
  that can be repeated and a last one. The proofs are for any number of both.
* *KeyDealer*: two accounts are one to deal and one to keep; four runs leave room
  for one that works, one that fails and two after it.

### Where the code and its documents disagree

Four runs are expected to find a violation; each is a finding in `PROJECT.json`,
with the line of code and the sentence it contradicts.

| run | what happens |
|---|---|
| `SdkLifecycle_twice` | a second `initialize` leaks the first server past `shutdown` |
| `SdkLifecycle_exit` | the sign-service exits with calls in flight |
| `KeyDealer_decrypt` | the documented append leaves an account with shares of two dealings |
| `EnclaveBoot_stop` | Ctrl+C, announced to stop the enclave, leaves it running |

The models also contain limits of the code that have no run of their own:

* event numbers wrap: a room that has had 2^16 messages starts over at event 0
  (`DeliveredInOrder` fails with `MaxHistory` above `EventMod`);
* so do the issued indices (`UniqueIdx` fails with `MaxIssued` above `IdxMod`,
  and `IndicesAreUniqueWhileTheyFit` says that nothing else makes it fail);
* tx_ids repeat, and a session that meets an older one's history in its room
  fails: its participants are handed foreign messages, though they never sign
  with them;
* an MpcSigner initialized on a port that another one's participant holds
  succeeds, connected to that participant (`OwnParticipant` and
  `InitializedServes` fail with `Overlap` TRUE);
* the client's timeout of 60 s, which a comment on its line (`client.rs:69`)
  calls disabled, ends the stream of a participant whose peer is late;
* a session that waits behind one whose SDK has died can be late as well, and
  then costs the next one its time: `WithinCapacityNobodyIsLate` promises
  nothing until the gateway has been idle;
* `SseServer::shutdown`, which "will ... wait for existing connections to
  complete" (`sse/src/lib.rs:82-83`), returns at once in the gateway when the
  select has dropped the server's future first, and streams are cut when the
  process ends; sessions in flight at a shutdown can fail, though the gRPC calls
  that carry them are answered (`NoCallIsCut`);
* the command-line client panics, instead of returning the error it has at hand,
  when `new` or `initialize` fails (`client/src/main.rs:181, 186`);
* a file that arrives within the second in which `start_secret_listener` sleeps
  makes the entrypoint exit with "failed to start listener"; after any failure in
  the enclave `run-enclave.sh` may still announce it as running (line 296), and
  after one on the host the enclave waits for its secrets for ever;
* two launches exclude each other by the KMS proxy's port. `KMS_PROXY_ENABLE=0`
  takes it away, and a proxy that is still alive without the port when `kill -0`
  looks, or one that has died, does not keep the other launch out: both pass, and
  when the enclave of the one ends while it is sending, its next file reaches the
  enclave of the other, for both have CID 16. `RunsOnItsOwnSecrets` then promises
  whole files only (replace its IF by `{owner}`, and the run shows the behaviour);
* with SECRETS_TMPDIR set, launches write to one directory, and the first that
  ends removes the files of all: a transfer of another one then fails until it
  gives up, or sends what is written at the moment;
* a transfer that broke off has used up its listener, so its retries cannot
  succeed: the script gives up after `VSOC_TRANSFER_RETRIES` attempts, while the
  enclave goes on with what has come;
* a script that is killed with SIGKILL leaves its SECRETS_DIR behind;
* a run of the dealer that fails can cost every account the shares of the party
  whose file was open (`OnePartyAtRisk`: one party, not more). With the default,
  two of two, nobody can sign until that file comes back from a backup.

## 4. Fairness

All fairness is weak and stated per task. In `SseRoom` and `SseBroker` it covers
what tokio does with a runnable task, and the fair queue of its RwLock; no
request has to arrive and no client to stay. In `SigningSession` it says that
each request is answered one way or another - success and failure are one
disjunction, so that success is never promised - that a participant handles what
it has read, and that the 60 s timeout, where it is among the faults, ends a wait
eventually. A call that is queued at the gateway has no such clock
(`grpc.rs:63`): it may fail there, and need not, so what ends its wait is the
release of the lock by the call before it. `SignReturns` therefore fails if a
lock is kept by a call that is gone (mutant `CrashKeepsLock`). tokio's mutex is
handed on in line and each call asks once, which is why weak fairness of `Forward`
is enough. `SdkLifecycle`,
`Client` and `KeyDealer` state safety only. In `Gateway` main and the two tasks
move when they can, actix stops once told (its own 30 s end its wait for open
streams), a free lock is taken, and the sign-service answers - which
`SignReturns` shows for its participant, and a connection that dies silently
would break, since the upstream channel has no timeout. In `EnclaveBoot` scripts
that can go on do, and a proxy binds or fails; no failure and no operator has to
come.

Deadlock is checked for the room and the broker, whose clients can always come
back, and for the gateway, which only stops when its process has exited
(`Exited`). The sessions, servers, launches and dealer runs of the other modules
are bounded and come to an end, so their configurations switch the check off;
that nobody is left waiting is `NoMutualWait`, `SignReturns` and
`TransferDecides`.

## 5. What is proved

`SseRoom_proofs`, for any sets of messages, posters and clients and any
`EventMod` and `MaxHistory`, from the assumptions named in `SseRoom`:

* `TypeCorrect`, `NoWakeupIsLost`. `NoLostWakeup` is not inductive by itself. The
  invariant `IInv` adds who holds a guard (`GuardsHeld`: a writer is alone, so
  nobody pushes while a subscription looks and arms), what a subscription saw
  while it holds the guard (`LookHolds`), and that an unwoken future with a
  message to read implies a publisher between push and notify (`WakeComes`).
* `InOrderWhileItFits`: as long as the room holds fewer than `EventMod` messages,
  `DeliveredInOrder` holds. `Ordered` relates what a client has read, what is on
  its wire and its stream's next event to the history (`InStep`); lemmas show
  that joining, resuming, taking, reading, and breaking off keep a client in
  step.
* `ImplementsLog`: under the same condition a room implements `BroadcastLog`.

`SigningSession_proofs`, for any signers, sessions, rounds, widths and faults:

* `TypeCorrect`, among it that tx_ids have the width of their two parts.
* `NobodySignsAlone`: `SignatureFromBoth`. The invariant says that histories
  contain only what was posted, a router's slot only what the peer posted for that
  round, and that a participant has passed only rounds in which it held a message
  of its own session - which stays true because messages for completed rounds
  are ignored.
* `NobodyWaitsForWhatIsThere`: `NoMutualWait`. The participant in the earlier
  round would have read its peer's message for that round. `StreamInv` says why:
  what a live attempt has posted is in its room's history while the room lives
  (`InHistory`), and a message it has read for a round still open is in its
  router (`Seen`); one that has not joined has read and posted nothing (`Fresh`).

`SigningService_proofs`: `ImplementsService`. Under the refinement mapping
`asked`, `consent`, `outcome` every action of `SigningSession` is a request, a
consent, an outcome, or a stutter of `ThresholdSigning`. The step that needs the
invariant is `Finish`: it maps to an outcome "signed" only because the peer's
consent is implied by the messages the participant has passed its rounds with
(`PeerConsents`). A failed `Send` whose message got through is a consent and the
end of the sender's call in one step, and a restart or a crash ends several calls
at once, which is why `GiveUp` takes a set.

`SseBroker_proofs`, for any names, requests, messages and bounds:

* `RoomsAreOnePerName`, `StreamsKeepToTheirRoom`. A request that was told that
  there is no room, and has not locked the map yet, is what makes these
  non-trivial; the invariant says that whoever holds a room holds the one the map
  has (`Holds`), that the map is injective, and that a room object contains what
  was accepted for its name (`Stored`).
* `IndicesAreUniqueWhileTheyFit`: `UniqueIdx`, while no room has issued more
  indices than a u16 has values (`Counts`).
* `EveryRoomImplementsLog`: each name's history is a `BroadcastLog`, whose clients
  are the requests that stream it.

`Gateway_proofs`, for any number of calls and any times that `TimesAssumption`
allows:

* `NobodyWaitsTooLong`: `WaitIsBounded`. The invariant `Aged(Hold)` is sharper: a
  call is at most as old as `Hold` for each call that has left from before it,
  plus the time the lock has been held. The proof leans on `Tick`, which does not
  pass the end of a session.
* `WithinCapacityAllAreServed`: the same invariant with `Duration` for `Hold`,
  while nobody has died and the server of the rooms is up (`InTime`), and `Fits`:
  the calls each one found fit into its timeout together with itself.
* `ShutdownCutsNoCall`: while there are calls, the gRPC task has not ended and
  main has not forgotten its handle (`Guarded`).

`KeyDealer_proofs`, for any accounts, parties, numbers of runs and faults:
`SuccessMeansComplete`, `DealingsAreNotMixed`, `RunsRiskOneParty`. A run
between two files is described by `Progress` (parties before the current one are
dealt, those after it are as they were) and `Pending` (what is in memory is the
merge with the file as it was, although that file has been truncated);
`NoFileAssumption` tells a missing and a broken file from shares.

`EnclaveBoot_proofs`, for any number of launches and retries, in any environment:
`UsedSecretsAreWiped`, `ServesFromItsOwnSecrets`. What excludes a second launch
is the port of the KMS proxy (`HoldsKms`), not the check for a running enclave.
That one proxy at a time has it is unconditional; that a launch past `kill -0`
has it needs an environment without "proxy". There only the enclave's owner can
reach its listeners (`SendsToItsOwn`, `Received`). In every environment a listener
that is through stays so (`Awaited`), hence nothing comes back after it was wiped
(`Wiped`), and a part of a file, however it came about, is stopped by its
decryption or by the service's start (`Whole`).

`Client_proofs`, for any number of cycles, MpcSigners and calls of `initialize`.
`SdkInv` is about the SDK and holds for any application (`SdkInductive`);
`ClientInv` adds the client's cycles.

* `CyclesLeaveNothing`, `StartedCyclesDoNotPanic`: no condition. A cycle that is
  over has waited for its last server or killed it. A task that leaves a cycle
  with the runtime in hand has not initialized its MpcSigner (`HolderInTime`), for
  each step after `initialize` leads through `shutdown` to the blocking drop.
* `AppShutdownStops` for any application, `ClientShutdownStops` for the client:
  `ShutdownStops` if `Prompt`, and as long as no MpcSigner is initialized twice
  (`InitializedOnce`).
* `AppOwnParticipant`, `ClientOwnParticipant`, `ClientInitializedServes`: if in
  addition MpcSigners that exist at the same time have different ports
  (`Separate`). The heart is that a port has one listener, the last server of the
  MpcSigner that is ready on it (`ListenerIsOwn`, from `Stops` and `OnePerPort`).
  The conditions are the ones without which the code fails: see
  `SdkLifecycle_twice` and section 3. The client's own cycles meet them.

The assumptions on constants are those named in the modules: bounds are natural
numbers, moduli and numbers of rounds, parties and retries at least 1, values
that stand for "nobody" or "no file" are none of the others, and the gateway's
times are ordered (`TimesAssumption`: a session alone fits into a participant's
timeout, and the sign-service answers no earlier than that participant times
out).

The invariants were checked with TLC before they were proved: `IInv` and
`Ordered` of the room with three messages and `EventMod` 4, `IInv` of the
sessions and `StreamInv` with two rounds, a restart and crashes, `SdkInv` also
with two calls of `initialize`, overlapping MpcSigners and a slow bind, the
others on the instances of section 3.

Only model-checked:

* liveness - `EveryMessageArrives`, `BroadcastReturns`, `SignReturns`,
  `SoloSessionSucceeds`, `ShutdownCompletes`, `TransferDecides`,
  `CalmBootServes` - for its fairness is about ENABLED, which the prover does not
  handle;
* the four violations of section 3, which are behaviours, not theorems.

No module uses a recursive operator.

## 6. Abstractions to keep in mind

* Payloads, key shares and signatures are atoms. That cggmp21 rejects messages
  made under another execution id is an assumption of `SigningSession`.
* Both parties are called with each other in mind: a threshold of 2, parties 0
  and 1, as `signing.rs` hard-codes.
* Time is modelled in `GatewayQueue` only. Elsewhere a timeout may strike whenever
  its wait is open, which includes every real timing, and for safety that is the
  stronger statement.
* `SdkLifecycle` assumes with `Prompt` that a spawned server binds within the
  second the code sleeps.

## 7. Plan

Done: the core (room, broker, sessions), the servers' life and the client on top
of it, the gateway's queue and process, the dealer, the enclave's boot, the two
abstract specifications, and the proofs of every invariant and refinement the
runs check.

Left, in this order:

1. action properties from the invariants at hand: a participant's rounds only
   grow, an outcome is final without the detour over `ThresholdSigning`;
2. the invariants of `SdkLifecycle` for applications that do initialize twice:
   how many servers `SdkLifecycle_twice` can leak, and that each of them still
   ends when the process does;
3. `InOrderWhileItFits` composed with `EveryRoomImplementsLog`: the broker with
   the room's locks in it, instead of two modules that meet in `BroadcastLog`.

## 8. Not modelled

* `client/`: loading the configuration, building the transaction and recovering
  the public key are conversions without state.
* `proto/` is generated; `config` loaders, the participant's demo binary and the
  sign-service's key file read once and start a server.
* The scripts that build images and run the gateway's container: single commands
  by an operator.
* The recovery id at the end of `signing.rs`, the arithmetic of the dealer and
  everything under `vendor/`: pure computation.
