---------------------------- MODULE EnclaveBoot ----------------------------
(***************************************************************************)
(* How the sign-service's enclave gets its secrets.  On the host,          *)
(* run-enclave.sh fetches three files, starts a KMS proxy and the enclave, *)
(* and sends the files over vsock, credentials first.  In the enclave,     *)
(* enclave-entrypoint.sh opens a listener for each file, which takes one   *)
(* connection, waits for all three, decrypts the age key through the KMS   *)
(* proxy, the key shares with it, and becomes the sign-service.            *)
(* stop-enclave.sh is the operator's.  scripts/sign-service holds all of   *)
(* them; AWS, Nitro, socat and the shells are external.                    *)
(***************************************************************************)
EXTENDS Naturals, FiniteSets

CONSTANTS Launch,       \* runs of run-enclave.sh
          Retries,      \* VSOC_TRANSFER_RETRIES: 20
          None,
          Cut,          \* a part of a file
          Environments  \* the sets of faults under which they run

ASSUME RetriesAssumption == Retries \in Nat \ {0}
ASSUME NobodyAssumption == None \notin Launch /\ Cut \notin Launch /\ None # Cut

Secret == 1..3          \* AWS credentials, age key, key shares

\* What the scripts meet, or rely on not meeting:
\*   "failure"  a tool fails, a connection breaks off, Ctrl-C, stop-enclave.sh;
\*   "early"    READINESS_SLEEP_SECONDS is too short for the three listeners;
\*   "proxy"    the KMS proxy is not up, or dead for want of its port, within
\*              the second the script gives it, or dies later;
\*   "shared"   SECRETS_TMPDIR is set: all scripts use one directory.
Fault == {"failure", "early", "proxy", "shared"}

ASSUME EnvironmentsAssumption == Environments \subseteq SUBSET Fault

VARIABLES
    host,       \* where each run-enclave.sh is
    fetched,    \* whether its SECRETS_DIR holds the credentials
    sent,       \* how many secrets it has sent
    attempt,    \* of the transfer it is at
    proxy,      \* its KMS proxy: "bound" holds the port
    ingress,    \* who holds the gRPC port
    boot,       \* where the entrypoint is; "none" without an enclave
    owner,      \* who has started the enclave
    step,       \* the listener it is starting, or waiting for
    listener,   \* of each secret: socat's state
    got,        \* got[n]: whose file arrived
    creds, age, \* the plain files in /dev/shm: credentials, age key
    faults      \* rigid: the faults of this environment

hostVars == <<host, fetched, sent, attempt, proxy, ingress>>
enclaveVars == <<boot, owner, step, listener, got, creds, age>>
vars == <<hostVars, enclaveVars, faults>>

BootTypeOK ==
    /\ host \in [Launch -> {"new", "fetched", "checked", "proxying", "proxied",
                            "sending", "serving", "exited", "stopped"}]
    /\ fetched \in [Launch -> BOOLEAN]
    /\ sent \in [Launch -> 0..3]
    /\ attempt \in [Launch -> 1..Retries]
    /\ proxy \in [Launch -> {"none", "starting", "bound", "dead"}]
    /\ ingress \in Launch \cup {None}
    /\ boot \in {"none", "opening", "checking", "waiting", "age", "shares", "running"}
    /\ owner \in Launch \cup {None}
    /\ step \in Secret
    /\ listener \in [Secret -> {"none", "open", "closed"}]
    /\ got \in [Secret -> Launch \cup {None, Cut}]
    /\ creds \in BOOLEAN /\ age \in BOOLEAN
    /\ faults \in Environments

\* No enclave, or none any more: the entrypoint has exited or was terminated,
\* and its memory is gone.
NoEnclave ==
    /\ boot' = "none"
    /\ owner' = None
    /\ step' = 1
    /\ listener' = [n \in Secret |-> "none"]
    /\ got' = [n \in Secret |-> None]
    /\ creds' = FALSE
    /\ age' = FALSE

Init ==
    /\ host = [l \in Launch |-> "new"]
    /\ fetched = [l \in Launch |-> FALSE]
    /\ sent = [l \in Launch |-> 0]
    /\ attempt = [l \in Launch |-> 1]
    /\ proxy = [l \in Launch |-> "none"] /\ ingress = None
    /\ boot = "none" /\ owner = None /\ step = 1
    /\ listener = [n \in Secret |-> "none"]
    /\ got = [n \in Secret |-> None]
    /\ creds = FALSE /\ age = FALSE
    /\ faults \in Environments

-----------------------------------------------------------------------------
(* run-enclave.sh *)

Goes(l, from, to) ==
    /\ host[l] = from
    /\ host' = [host EXCEPT ![l] = to]

\* The script ends, by exit, by set -e or by a signal: the trap kills what it
\* has started in the background and removes its SECRETS_DIR, which may be that
\* of the others, too.  Its variables are gone.
Ends(l, as) ==
    /\ host' = [host EXCEPT ![l] = as]
    /\ fetched' = [k \in Launch |-> fetched[k] /\ k # l /\ "shared" \notin faults]
    /\ proxy' = [proxy EXCEPT ![l] = "none"]
    /\ ingress' = IF ingress = l THEN None ELSE ingress
    /\ sent' = [sent EXCEPT ![l] = 0]
    /\ attempt' = [attempt EXCEPT ![l] = 1]

Fetch(l) ==
    /\ Goes(l, "new", "fetched")
    /\ fetched' = [fetched EXCEPT ![l] = TRUE]
    /\ UNCHANGED <<sent, attempt, proxy, ingress, enclaveVars, faults>>

\* describe-enclaves: an enclave of the name is there, or not.
Check(l) ==
    /\ IF boot = "none"
       THEN Goes(l, "fetched", "checked") /\ UNCHANGED <<fetched, sent, attempt, proxy, ingress>>
       ELSE host[l] = "fetched" /\ Ends(l, "exited")
    /\ UNCHANGED <<enclaveVars, faults>>

\* vsock-proxy in the background, with a second's time to come up.
StartKmsProxy(l) ==
    /\ Goes(l, "checked", "proxying")
    /\ proxy' = [proxy EXCEPT ![l] = "starting"]
    /\ UNCHANGED <<fetched, sent, attempt, ingress, enclaveVars, faults>>

\* It listens on its port, or finds it taken and dies.
ProxyBinds(l) ==
    /\ proxy[l] = "starting"
    /\ proxy' = [proxy EXCEPT ![l] = IF \E k \in Launch : proxy[k] = "bound" THEN "dead"
                                                                           ELSE "bound"]
    /\ UNCHANGED <<host, fetched, sent, attempt, ingress, enclaveVars, faults>>

ProxyDies(l) ==
    /\ "proxy" \in faults
    /\ proxy[l] \in {"starting", "bound"}
    /\ proxy' = [proxy EXCEPT ![l] = "dead"]
    /\ UNCHANGED <<host, fetched, sent, attempt, ingress, enclaveVars, faults>>

\* kill -0 finds the process of the proxy, whether it has its port or not.
ProxyAlive(l) ==
    /\ IF proxy[l] # "dead"
       THEN Goes(l, "proxying", "proxied") /\ UNCHANGED <<fetched, sent, attempt, proxy, ingress>>
       ELSE host[l] = "proxying" /\ Ends(l, "exited")
    /\ UNCHANGED <<enclaveVars, faults>>

\* Mutant of CheckProxy: no sleep before the look.
CheckProxyHasty(l) == ProxyAlive(l)

\* The look comes after the sleep, in which the proxy has decided itself, as a rule.
CheckProxy(l) ==
    /\ "proxy" \notin faults => proxy[l] # "starting"
    /\ ProxyAlive(l)

\* The enclave boots; the script sleeps, then sends.
Starts(l) ==
    /\ Goes(l, "proxied", "sending")
    /\ boot' = "opening"
    /\ owner' = l
    /\ UNCHANGED <<fetched, sent, attempt, proxy, ingress, step, listener, got, creds, age>>

\* run-enclave fails if the CID is in use: another script was faster.
RunEnclave(l) ==
    /\ IF boot = "none"
       THEN Starts(l)
       ELSE host[l] = "proxied" /\ Ends(l, "exited") /\ UNCHANGED enclaveVars
    /\ UNCHANGED faults

ReadyFor(l) ==
    /\ host[l] = "sending" /\ sent[l] < 3
    /\ "early" \notin faults => boot \notin {"opening", "checking"}

\* The file is still there, and the enclave listens for it.
CanSend(l) ==
    /\ listener[sent[l] + 1] = "open"
    /\ \E k \in Launch : fetched[k] /\ (k = l \/ "shared" \in faults)

\* A file arrives, and socat in the enclave is done with it.
Arrives(n, file) ==
    /\ listener' = [listener EXCEPT ![n] = "closed"]
    /\ got' = [got EXCEPT ![n] = file]
    /\ creds' = (creds \/ n = 1)
    /\ UNCHANGED <<boot, owner, step, age>>

\* In a shared directory another script may be writing the file at the time.
Transfer(l) ==
    /\ ReadyFor(l) /\ CanSend(l)
    /\ \/ Arrives(sent[l] + 1, l)
       \/ /\ "shared" \in faults /\ \E k \in Launch \ {l} : host[k] = "new"
          /\ Arrives(sent[l] + 1, Cut)
    /\ sent' = [sent EXCEPT ![l] = @ + 1]
    /\ attempt' = [attempt EXCEPT ![l] = 1]
    /\ UNCHANGED <<host, fetched, proxy, ingress, faults>>

\* Mutant of FailedAttempt: one attempt too many.
OneAttemptMore(l) ==
    IF attempt[l] <= Retries
    THEN attempt' = [attempt EXCEPT ![l] = @ + 1] /\ UNCHANGED <<host, fetched, sent, proxy, ingress>>
    ELSE Ends(l, "exited")

\* Mutant of FailedAttempt: the attempts are not counted.
AttemptsUncounted(l) == UNCHANGED hostVars

\* A second later again, or never again.
FailedAttempt(l) ==
    IF attempt[l] < Retries
    THEN attempt' = [attempt EXCEPT ![l] = @ + 1] /\ UNCHANGED <<host, fetched, sent, proxy, ingress>>
    ELSE Ends(l, "exited")

\* socat fails before it has sent anything: nobody listens, the file is gone.
Retry(l) ==
    /\ ReadyFor(l)
    /\ CanSend(l) => "failure" \in faults
    /\ FailedAttempt(l)
    /\ UNCHANGED <<enclaveVars, faults>>

\* socat fails after it has connected.  The listener, which takes one connection,
\* has what came, all of it perhaps, and is through.
BreaksOff(l) ==
    /\ "failure" \in faults
    /\ ReadyFor(l) /\ CanSend(l)
    /\ \E file \in {l, Cut} : Arrives(sent[l] + 1, file)
    /\ FailedAttempt(l)
    /\ UNCHANGED faults

\* Mutant of Bridge: the script does not wait for its bridge.
BridgeAndLeave(l) ==
    /\ host[l] = "sending" /\ sent[l] = 3
    /\ Ends(l, "exited")
    /\ UNCHANGED <<enclaveVars, faults>>

\* The bridges are started, the enclave is announced, and the script waits for
\* the ingress bridge - which is over at once if its port is taken.
Bridge(l) ==
    /\ sent[l] = 3
    /\ IF ingress = None
       THEN /\ Goes(l, "sending", "serving")
            /\ ingress' = l
            /\ UNCHANGED <<fetched, sent, attempt, proxy>>
       ELSE host[l] = "sending" /\ Ends(l, "exited")
    /\ UNCHANGED <<enclaveVars, faults>>

\* S3 or the metadata service does not answer, a tool fails, another script has
\* removed the shared directory, Ctrl-C while the script is at work: a file may
\* be on its way.
Interrupted(l) ==
    /\ "failure" \in faults
    /\ host[l] \in {"new", "fetched", "checked", "proxying", "proxied", "sending"}
    /\ Ends(l, "exited")
    /\ \/ UNCHANGED enclaveVars
       \/ ReadyFor(l) /\ CanSend(l) /\ Arrives(sent[l] + 1, Cut)
    /\ UNCHANGED faults

\* Ctrl-C, as the announcement says.
Stop(l) ==
    /\ "failure" \in faults
    /\ host[l] = "serving"
    /\ Ends(l, "stopped")
    /\ UNCHANGED <<enclaveVars, faults>>

-----------------------------------------------------------------------------
(* enclave-entrypoint.sh *)

\* start_secret_listener: socat in the background, then a sleep.
OpenListener ==
    /\ boot = "opening"
    /\ boot' = "checking"
    /\ listener' = [listener EXCEPT ![step] = "open"]
    /\ UNCHANGED <<owner, step, got, creds, age, hostVars, faults>>

\* kill -0 after the sleep: a listener that is through with its file by then
\* counts as one that failed to start.
CheckListener ==
    /\ boot = "checking"
    /\ IF listener[step] # "open"
       THEN NoEnclave
       ELSE IF step < 3
       THEN step' = step + 1 /\ boot' = "opening" /\ UNCHANGED <<owner, listener, got, creds, age>>
       ELSE step' = 1 /\ boot' = "waiting" /\ UNCHANGED <<owner, listener, got, creds, age>>
    /\ UNCHANGED <<hostVars, faults>>

\* wait_for_secret, one after the other.
WaitForSecret ==
    /\ boot = "waiting"
    /\ listener[step] = "closed"
    /\ IF step < 3 THEN step' = step + 1 /\ UNCHANGED boot
                   ELSE boot' = "age" /\ UNCHANGED step
    /\ UNCHANGED <<owner, listener, got, creds, age, hostVars, faults>>

\* kmstool, through the host's proxy; then the credentials are wiped.
DecryptAgeKey ==
    /\ boot = "age"
    /\ IF (\E l \in Launch : proxy[l] = "bound") /\ Cut \notin {got[1], got[2]}
       THEN /\ boot' = "shares"
            /\ age' = TRUE
            /\ creds' = FALSE
            /\ UNCHANGED <<owner, step, listener, got>>
       ELSE NoEnclave
    /\ UNCHANGED <<hostVars, faults>>

\* Mutant of DecryptKeyShares: the age key is left to the trap, which exec
\* does not run.
DecryptOnly ==
    /\ boot = "shares"
    /\ IF got[3] # Cut
       THEN boot' = "running" /\ UNCHANGED <<owner, step, listener, got, creds, age>>
       ELSE NoEnclave
    /\ UNCHANGED <<hostVars, faults>>

\* age; then the age key is wiped, and exec turns the shell into the service.
DecryptKeyShares ==
    /\ boot = "shares"
    /\ IF got[3] # Cut
       THEN /\ boot' = "running"
            /\ age' = FALSE
            /\ UNCHANGED <<owner, step, listener, got, creds>>
       ELSE NoEnclave
    /\ UNCHANGED <<hostVars, faults>>

\* A tool fails or is missing, the sign-service crashes, or the operator runs
\* stop-enclave.sh.
EnclaveEnds ==
    /\ "failure" \in faults
    /\ boot # "none"
    /\ NoEnclave
    /\ UNCHANGED <<hostVars, faults>>

-----------------------------------------------------------------------------
HostStep(l) ==
    \/ Fetch(l)
    \/ Check(l)
    \/ StartKmsProxy(l)
    \/ CheckProxy(l)
    \/ RunEnclave(l)
    \/ Transfer(l)
    \/ Retry(l)
    \/ Bridge(l)

EnclaveStep ==
    \/ OpenListener
    \/ CheckListener
    \/ WaitForSecret
    \/ DecryptAgeKey
    \/ DecryptKeyShares

Next ==
    \/ \E l \in Launch : \/ HostStep(l) \/ BreaksOff(l) \/ Interrupted(l) \/ Stop(l)
                         \/ ProxyBinds(l) \/ ProxyDies(l)
    \/ EnclaveStep
    \/ EnclaveEnds

\* Scripts and proxies that can go on do.
Fairness == /\ WF_vars(EnclaveStep)
            /\ \A l \in Launch : WF_vars(HostStep(l)) /\ WF_vars(ProxyBinds(l))

Spec == Init /\ [][Next]_vars /\ Fairness

-----------------------------------------------------------------------------
\* The scripts' README: credentials are wiped from enclave memory after use.
\* None are left on the host by a script that has ended, whatever ended it, and
\* none in the enclave once it serves, nor the age key.
SecretsWiped ==
    /\ \A l \in Launch : host[l] \in {"exited", "stopped"} => ~fetched[l]
    /\ boot = "running" => ~creds /\ ~age

\* The service runs on three whole files, whatever broke off and was retried.
\* They are those of the script that started its enclave, also when several
\* scripts raced past the check for a running one: the KMS proxy's port keeps
\* the others out.  It does not if a proxy without the port is still alive when
\* kill -0 looks, or one that had it has died: then two scripts pass, and when
\* the enclave of the one ends while it is sending, its next file reaches the
\* enclave of the other, which has the same CID.
RunsOnItsOwnSecrets ==
    boot = "running" =>
        \A n \in Secret : got[n] \in (IF "proxy" \in faults THEN Launch ELSE {owner})

\* An enclave that cannot or will not take a file does not hold the script:
\* it announces the enclave or gives up.
TransferDecides ==
    \A l \in Launch :
        (host[l] = "sending") ~> (host[l] \in {"serving", "exited"})

\* Without failures and with SECRETS_DIRs of their own, one of the scripts that
\* were started together brings the service up, and no other one gets in the
\* way - if every sleep of fixed length suffices: READINESS_SLEEP_SECONDS for
\* the enclave and its listeners, the KMS proxy's 1 s for it to bind or to fail.
CalmBootServes == faults = {} => <>[](boot = "running")

\* run-enclave.sh: "Press Ctrl+C to stop the enclave and bridges."
CtrlCStopsEnclave ==
    \A l \in Launch : host[l] = "stopped" => owner # l
=============================================================================
