------------------------- MODULE EnclaveBoot_proofs -------------------------
(***************************************************************************)
(* What EnclaveBoot's run checks of its states on a small instance, for    *)
(* any number of scripts and of retries, in any environment.               *)
(***************************************************************************)
EXTENDS EnclaveBoot, TLAPS

-----------------------------------------------------------------------------
(* The invariant *)

\* One proxy at a time has the KMS port.  A script that looks for its proxy has
\* started one.  Where a proxy is up or dead by then and lives as long as its
\* script, one that has gone on has the port, so there is one of them at a time.
HoldsKms ==
    /\ \A k, l \in Launch : proxy[k] = "bound" /\ proxy[l] = "bound" => k = l
    /\ \A l \in Launch : host[l] = "proxying" => proxy[l] # "none"
    /\ "proxy" \notin faults =>
          \A l \in Launch : host[l] \in {"proxied", "sending", "serving"} => proxy[l] = "bound"

\* There, the one that sends has started the enclave it sends to, if there is one.
SendsToItsOwn ==
    "proxy" \notin faults =>
        \A l \in Launch : host[l] = "sending" /\ boot # "none" => owner = l

\* A listener that is through has a file, or a part of one.
Received ==
    \A n \in Secret : listener[n] = "closed" =>
        got[n] \in (IF "proxy" \in faults THEN Launch ELSE {owner}) \cup {Cut}

\* There are no listeners without an enclave.  The entrypoint goes on when they
\* are through, one after the other.
Awaited ==
    /\ boot = "none" => \A n \in Secret : listener[n] = "none"
    /\ boot = "waiting" => \A n \in 1..(step - 1) : listener[n] = "closed"
    /\ boot \in {"age", "shares", "running"} => \A n \in Secret : listener[n] = "closed"

\* A part of a file does not decrypt.
Whole ==
    /\ boot \in {"shares", "running"} => Cut \notin {got[1], got[2]}
    /\ boot = "running" => got[3] # Cut

\* What has been used is wiped, and no listener is left to bring it back.
WipedOnHost == \A l \in Launch : host[l] \in {"exited", "stopped"} => ~fetched[l]

Wiped ==
    /\ WipedOnHost
    /\ boot \in {"shares", "running"} => ~creds
    /\ boot = "running" => ~age

IInv == BootTypeOK /\ HoldsKms /\ SendsToItsOwn /\ Received /\ Awaited /\ Whole /\ Wiped

\* The host's and the enclave's halves of the type invariant.
HostTypeOK ==
    /\ host \in [Launch -> {"new", "fetched", "checked", "proxying", "proxied",
                            "sending", "serving", "exited", "stopped"}]
    /\ fetched \in [Launch -> BOOLEAN]
    /\ sent \in [Launch -> 0..3]
    /\ attempt \in [Launch -> 1..Retries]
    /\ proxy \in [Launch -> {"none", "starting", "bound", "dead"}]
    /\ ingress \in Launch \cup {None}

EnclaveTypeOK ==
    /\ boot \in {"none", "opening", "checking", "waiting", "age", "shares", "running"}
    /\ owner \in Launch \cup {None}
    /\ step \in Secret
    /\ listener \in [Secret -> {"none", "open", "closed"}]
    /\ got \in [Secret -> Launch \cup {None, Cut}]
    /\ creds \in BOOLEAN /\ age \in BOOLEAN

LEMMA Halves == BootTypeOK <=> HostTypeOK /\ EnclaveTypeOK /\ faults \in Environments
BY DEF BootTypeOK, HostTypeOK, EnclaveTypeOK

\* Nobody has started, and there is no enclave.
LEMMA IInvInit == Init => IInv
<1> SUFFICES ASSUME Init PROVE IInv
  OBVIOUS
<1>1. HostTypeOK
  <2>1. 1 \in 1..Retries /\ 0 \in 0..3
    BY RetriesAssumption
  <2> QED BY <2>1 DEF Init, HostTypeOK
<1>2. EnclaveTypeOK
  <2>1. 1 \in Secret
    BY DEF Secret
  <2>2. listener \in [Secret -> {"none", "open", "closed"}]
    BY DEF Init
  <2>3. got \in [Secret -> Launch \cup {None, Cut}]
    BY DEF Init
  <2> QED BY <2>1, <2>2, <2>3 DEF Init, EnclaveTypeOK
<1>3. BootTypeOK
  BY <1>1, <1>2, Halves DEF Init
<1>4. HoldsKms
  BY DEF Init, HoldsKms
<1>5. SendsToItsOwn /\ Received /\ Awaited /\ Whole /\ Wiped
  BY DEF Init, SendsToItsOwn, Received, Awaited, Whole, Wiped, WipedOnHost, Secret
<1> QED BY <1>3, <1>4, <1>5 DEF IInv

-----------------------------------------------------------------------------
(* Steps of a script that leave the enclave alone *)

\* What the enclave's variables alone decide.
LEMMA EnclaveStays ==
  ASSUME IInv, UNCHANGED <<enclaveVars, faults>>
  PROVE  /\ EnclaveTypeOK' /\ faults' \in Environments
         /\ Received' /\ Awaited' /\ Whole'
         /\ boot' = boot /\ owner' = owner /\ faults' = faults
         /\ boot' \in {"shares", "running"} => ~creds'
         /\ boot' = "running" => ~age'
<1>1. UNCHANGED <<boot, owner, step, listener, got, creds, age, faults>>
  BY DEF enclaveVars
<1>2. EnclaveTypeOK /\ faults \in Environments
  BY Halves DEF IInv
<1> QED BY <1>1, <1>2 DEF IInv, EnclaveTypeOK, Received, Awaited, Whole, Wiped

\* No script starts to send.
NoneStartsToSend == \A k \in Launch : host'[k] = "sending" => host[k] = "sending"

LEMMA QuietStep ==
  ASSUME IInv, UNCHANGED <<enclaveVars, faults>>,
         HostTypeOK', HoldsKms', WipedOnHost', NoneStartsToSend
  PROVE  IInv'
<1>1. SendsToItsOwn'
  BY EnclaveStays DEF IInv, SendsToItsOwn, NoneStartsToSend
<1>2. Wiped'
  BY EnclaveStays DEF Wiped
<1>3. BootTypeOK'
  BY EnclaveStays DEF BootTypeOK, HostTypeOK, EnclaveTypeOK
<1> QED BY <1>1, <1>2, <1>3, EnclaveStays DEF IInv

\* A script that ends gives up what it holds, and what it has fetched.
LEMMA EndsKeeps ==
  ASSUME IInv, NEW l \in Launch, NEW as \in {"exited", "stopped"}, Ends(l, as),
         faults' = faults
  PROVE  HostTypeOK' /\ HoldsKms' /\ WipedOnHost' /\ NoneStartsToSend
<1>1. HostTypeOK
  BY Halves DEF IInv
<1>2. /\ host' = [host EXCEPT ![l] = as]
      /\ fetched' = [k \in Launch |-> fetched[k] /\ k # l /\ "shared" \notin faults]
      /\ proxy' = [proxy EXCEPT ![l] = "none"]
      /\ ingress' = (IF ingress = l THEN None ELSE ingress)
      /\ sent' = [sent EXCEPT ![l] = 0]
      /\ attempt' = [attempt EXCEPT ![l] = 1]
  BY DEF Ends
<1>3. HostTypeOK'
  <2>1. 0 \in 0..3 /\ 1 \in 1..Retries
    BY RetriesAssumption
  <2>2. fetched' \in [Launch -> BOOLEAN]
    BY <1>1, <1>2 DEF HostTypeOK
  <2> QED BY <1>1, <1>2, <2>1, <2>2 DEF HostTypeOK
<1>4. \A k \in Launch : /\ k # l => host'[k] = host[k] /\ proxy'[k] = proxy[k]
                        /\ host'[l] = as /\ proxy'[l] = "none"
                        /\ fetched'[k] => k # l /\ fetched[k]
  BY <1>1, <1>2 DEF HostTypeOK
<1>5. HoldsKms'
  <2>1. ASSUME NEW j \in Launch, NEW k \in Launch, proxy'[j] = "bound", proxy'[k] = "bound"
        PROVE  j = k
    <3>1. proxy[j] = "bound" /\ proxy[k] = "bound"
      BY <1>4, <2>1
    <3> QED BY <3>1 DEF IInv, HoldsKms
  <2>2. ASSUME NEW k \in Launch, host'[k] \in {"proxying", "proxied", "sending", "serving"}
        PROVE  k # l /\ host'[k] = host[k] /\ proxy'[k] = proxy[k]
    BY <1>4, <2>2
  <2> QED BY <2>1, <2>2 DEF IInv, HoldsKms
<1>6. WipedOnHost' /\ NoneStartsToSend
  BY <1>4 DEF IInv, Wiped, WipedOnHost, NoneStartsToSend
<1> QED BY <1>3, <1>5, <1>6

LEMMA QuietEnd ==
  ASSUME IInv, NEW l \in Launch, NEW as \in {"exited", "stopped"}, Ends(l, as),
         UNCHANGED <<enclaveVars, faults>>
  PROVE  IInv'
BY EndsKeeps, QuietStep

\* A script that goes on, without the enclave and the proxies.
LEMMA QuietMove ==
  ASSUME IInv, NEW l \in Launch, UNCHANGED <<enclaveVars, faults>>, HostTypeOK',
         NEW to \in {"fetched", "checked", "proxied", "serving"},
         host' = [host EXCEPT ![l] = to], proxy' = proxy,
         \A k \in Launch : k # l => fetched'[k] = fetched[k],
         "proxy" \notin faults /\ to \in {"proxied", "serving"} => proxy[l] = "bound"
  PROVE  IInv'
<1>1. HostTypeOK
  BY Halves DEF IInv
<1>2. \A k \in Launch : host'[k] = IF k = l THEN to ELSE host[k]
  BY <1>1 DEF HostTypeOK
<1>3. HoldsKms'
  BY <1>2 DEF IInv, HoldsKms
<1>4. WipedOnHost' /\ NoneStartsToSend
  BY <1>2 DEF IInv, Wiped, WipedOnHost, NoneStartsToSend
<1> QED BY <1>3, <1>4, QuietStep

LEMMA FetchKeeps ==
  ASSUME IInv, NEW l \in Launch, Fetch(l)
  PROVE  IInv'
<1>1. HostTypeOK
  BY Halves DEF IInv
<1>2. /\ host[l] = "new" /\ host' = [host EXCEPT ![l] = "fetched"]
      /\ fetched' = [fetched EXCEPT ![l] = TRUE]
      /\ UNCHANGED <<sent, attempt, proxy, ingress>>
      /\ UNCHANGED <<enclaveVars, faults>>
  BY DEF Fetch, Goes
<1>3. HostTypeOK'
  BY <1>1, <1>2 DEF HostTypeOK
<1>4. \A k \in Launch : k # l => fetched'[k] = fetched[k]
  BY <1>1, <1>2 DEF HostTypeOK
<1> QED BY <1>2, <1>3, <1>4, QuietMove

LEMMA CheckKeeps ==
  ASSUME IInv, NEW l \in Launch, Check(l)
  PROVE  IInv'
<1>1. HostTypeOK
  BY Halves DEF IInv
<1>2. UNCHANGED <<enclaveVars, faults>>
  BY DEF Check
<1>3. CASE boot = "none"
  <2>1. /\ host' = [host EXCEPT ![l] = "checked"]
        /\ UNCHANGED <<fetched, sent, attempt, proxy, ingress>>
    BY <1>3 DEF Check, Goes
  <2>2. HostTypeOK'
    BY <1>1, <2>1 DEF HostTypeOK
  <2> QED BY <1>2, <2>1, <2>2, QuietMove
<1>4. CASE boot # "none"
  BY <1>2, <1>4, QuietEnd DEF Check
<1> QED BY <1>3, <1>4

LEMMA StartKmsProxyKeeps ==
  ASSUME IInv, NEW l \in Launch, StartKmsProxy(l)
  PROVE  IInv'
<1>1. HostTypeOK
  BY Halves DEF IInv
<1>2. /\ host[l] = "checked" /\ host' = [host EXCEPT ![l] = "proxying"]
      /\ proxy' = [proxy EXCEPT ![l] = "starting"]
      /\ UNCHANGED <<fetched, sent, attempt, ingress>>
      /\ UNCHANGED <<enclaveVars, faults>>
  BY DEF StartKmsProxy, Goes
<1>3. HostTypeOK'
  BY <1>1, <1>2 DEF HostTypeOK
<1>4. \A k \in Launch : /\ host'[k] = IF k = l THEN "proxying" ELSE host[k]
                        /\ proxy'[k] = IF k = l THEN "starting" ELSE proxy[k]
  BY <1>1, <1>2 DEF HostTypeOK
<1>5. HoldsKms'
  BY <1>2, <1>4 DEF IInv, HoldsKms
<1>6. WipedOnHost' /\ NoneStartsToSend
  BY <1>2, <1>4 DEF IInv, Wiped, WipedOnHost, NoneStartsToSend
<1> QED BY <1>2, <1>3, <1>5, <1>6, QuietStep

\* A proxy gets the port if nobody has it, and loses it where that may happen.
LEMMA ProxyKeeps ==
  ASSUME IInv, NEW l \in Launch, ProxyBinds(l) \/ ProxyDies(l)
  PROVE  IInv'
<1>1. HostTypeOK
  BY Halves DEF IInv
<1>2. /\ UNCHANGED <<host, fetched, sent, attempt, ingress>>
      /\ UNCHANGED <<enclaveVars, faults>>
      /\ \E p \in {"bound", "dead"} : proxy' = [proxy EXCEPT ![l] = p]
  BY DEF ProxyBinds, ProxyDies
<1>3. HostTypeOK'
  BY <1>1, <1>2 DEF HostTypeOK
<1>4. \A k \in Launch : k # l => proxy'[k] = proxy[k]
  BY <1>1, <1>2 DEF HostTypeOK
<1>5. /\ proxy'[l] \in {"bound", "dead"}
      /\ proxy'[l] = "bound" => \A k \in Launch : proxy[k] # "bound"
      /\ proxy[l] = "bound" => "proxy" \in faults
  BY <1>1 DEF HostTypeOK, ProxyBinds, ProxyDies
<1>6. HoldsKms'
  BY <1>2, <1>4, <1>5 DEF IInv, HoldsKms
<1>7. WipedOnHost' /\ NoneStartsToSend
  BY <1>2 DEF IInv, Wiped, WipedOnHost, NoneStartsToSend
<1> QED BY <1>2, <1>3, <1>6, <1>7, QuietStep

LEMMA CheckProxyKeeps ==
  ASSUME IInv, NEW l \in Launch, CheckProxy(l)
  PROVE  IInv'
<1>1. HostTypeOK
  BY Halves DEF IInv
<1>2. UNCHANGED <<enclaveVars, faults>>
  BY DEF CheckProxy, ProxyAlive
<1>3. CASE proxy[l] # "dead"
  <2>1. /\ host[l] = "proxying" /\ host' = [host EXCEPT ![l] = "proxied"]
        /\ UNCHANGED <<fetched, sent, attempt, proxy, ingress>>
    BY <1>3 DEF CheckProxy, ProxyAlive, Goes
  <2>2. HostTypeOK'
    BY <1>1, <2>1 DEF HostTypeOK
  <2>3. "proxy" \notin faults => proxy[l] = "bound"
    BY <1>1, <1>3, <2>1 DEF HostTypeOK, CheckProxy, IInv, HoldsKms
  <2> QED BY <1>2, <2>1, <2>2, <2>3, QuietMove
<1>4. CASE proxy[l] = "dead"
  BY <1>2, <1>4, QuietEnd DEF CheckProxy, ProxyAlive
<1> QED BY <1>3, <1>4

\* One more attempt, or the end of the script.
LEMMA FailedAttemptKeeps ==
  ASSUME IInv, NEW l \in Launch, FailedAttempt(l), faults' = faults
  PROVE  HostTypeOK' /\ HoldsKms' /\ WipedOnHost' /\ NoneStartsToSend
<1>1. HostTypeOK
  BY Halves DEF IInv
<1>2. CASE attempt[l] < Retries
  <2>1. /\ attempt' = [attempt EXCEPT ![l] = attempt[l] + 1]
        /\ UNCHANGED <<host, fetched, sent, proxy, ingress>>
    BY <1>2 DEF FailedAttempt
  <2>2. attempt[l] + 1 \in 1..Retries
    BY <1>1, <1>2, RetriesAssumption DEF HostTypeOK
  <2>3. HostTypeOK'
    BY <1>1, <2>1, <2>2 DEF HostTypeOK
  <2>4. HoldsKms' /\ WipedOnHost' /\ NoneStartsToSend
    BY <2>1 DEF IInv, HoldsKms, Wiped, WipedOnHost, NoneStartsToSend
  <2> QED BY <2>3, <2>4
<1>3. CASE ~(attempt[l] < Retries)
  BY <1>3, EndsKeeps DEF FailedAttempt
<1> QED BY <1>2, <1>3

LEMMA RetryKeeps ==
  ASSUME IInv, NEW l \in Launch, Retry(l)
  PROVE  IInv'
BY FailedAttemptKeeps, QuietStep DEF Retry

LEMMA BridgeKeeps ==
  ASSUME IInv, NEW l \in Launch, Bridge(l)
  PROVE  IInv'
<1>1. HostTypeOK
  BY Halves DEF IInv
<1>2. UNCHANGED <<enclaveVars, faults>>
  BY DEF Bridge
<1>3. CASE ingress = None
  <2>1. /\ host[l] = "sending" /\ host' = [host EXCEPT ![l] = "serving"] /\ ingress' = l
        /\ UNCHANGED <<fetched, sent, attempt, proxy>>
    BY <1>3 DEF Bridge, Goes
  <2>2. HostTypeOK'
    BY <1>1, <2>1 DEF HostTypeOK
  <2>3. "proxy" \notin faults => proxy[l] = "bound"
    BY <2>1 DEF IInv, HoldsKms
  <2> QED BY <1>2, <2>1, <2>2, <2>3, QuietMove
<1>4. CASE ingress # None
  BY <1>2, <1>4, QuietEnd DEF Bridge
<1> QED BY <1>3, <1>4

-----------------------------------------------------------------------------
(* Steps of a script that start the enclave, or reach into it *)

LEMMA RunEnclaveKeeps ==
  ASSUME IInv, NEW l \in Launch, RunEnclave(l)
  PROVE  IInv'
<1>1. HostTypeOK /\ EnclaveTypeOK /\ faults \in Environments
  BY Halves DEF IInv
<1>2. faults' = faults
  BY DEF RunEnclave
<1>3. CASE boot = "none"
  <2>1. /\ host[l] = "proxied" /\ host' = [host EXCEPT ![l] = "sending"]
        /\ boot' = "opening" /\ owner' = l
        /\ UNCHANGED <<fetched, sent, attempt, proxy, ingress>>
        /\ UNCHANGED <<step, listener, got, creds, age>>
    BY <1>3 DEF RunEnclave, Starts, Goes
  <2>2. HostTypeOK'
    BY <1>1, <2>1 DEF HostTypeOK
  <2>3. EnclaveTypeOK'
    BY <1>1, <2>1 DEF EnclaveTypeOK
  <2>4. \A k \in Launch : host'[k] = IF k = l THEN "sending" ELSE host[k]
    BY <1>1, <2>1 DEF HostTypeOK
  <2>5. HoldsKms'
    BY <1>2, <2>1, <2>4 DEF IInv, HoldsKms
  <2>6. SendsToItsOwn'
    <3>1. ASSUME "proxy" \notin faults, NEW k \in Launch, host'[k] = "sending" PROVE k = l
      BY <2>1, <2>4, <3>1 DEF IInv, HoldsKms
    <3> QED BY <1>2, <2>1, <3>1 DEF SendsToItsOwn
  <2>7. Received' /\ Awaited'
    BY <1>3, <2>1 DEF IInv, Received, Awaited
  <2>8. Wiped' /\ Whole'
    BY <2>1, <2>4 DEF IInv, Wiped, WipedOnHost, Whole
  <2> QED BY <1>1, <1>2, <2>2, <2>3, <2>5, <2>6, <2>7, <2>8
          DEF IInv, BootTypeOK, HostTypeOK, EnclaveTypeOK
<1>4. CASE boot # "none"
  BY <1>2, <1>4, QuietEnd DEF RunEnclave
<1> QED BY <1>3, <1>4

\* A file comes while its listener waits for it, so before anything is used;
\* where the port excludes the others, from the script that started the enclave.
LEMMA ArrivesKeeps ==
  ASSUME IInv, NEW l \in Launch, ReadyFor(l), CanSend(l),
         NEW file \in {l, Cut}, Arrives(sent[l] + 1, file), faults' = faults,
         HostTypeOK', HoldsKms', WipedOnHost', NoneStartsToSend
  PROVE  IInv'
<1> DEFINE n == sent[l] + 1
<1>1. HostTypeOK /\ EnclaveTypeOK /\ faults \in Environments
  BY Halves DEF IInv
<1>2. n \in Secret /\ host[l] = "sending" /\ listener[n] = "open"
  BY <1>1 DEF HostTypeOK, ReadyFor, CanSend, Secret
<1>3. /\ listener' = [listener EXCEPT ![n] = "closed"]
      /\ got' = [got EXCEPT ![n] = file]
      /\ creds' = (creds \/ n = 1)
      /\ boot' = boot /\ owner' = owner /\ step' = step /\ age' = age
  BY DEF Arrives
<1> HIDE DEF n
<1>4. boot \notin {"none", "age", "shares", "running"}
  BY <1>2 DEF IInv, Awaited
<1>5. "proxy" \notin faults => owner = l
  BY <1>2, <1>4 DEF IInv, SendsToItsOwn
<1>6. EnclaveTypeOK'
  <2>1. creds' \in BOOLEAN
    BY <1>3
  <2> QED BY <1>1, <1>2, <1>3, <2>1 DEF EnclaveTypeOK
<1>7. Received'
  <2>1. file \in (IF "proxy" \in faults THEN Launch ELSE {owner}) \cup {Cut}
    BY <1>5
  <2>2. \A m \in Secret : /\ got'[m] = IF m = n THEN file ELSE got[m]
                          /\ m # n => listener'[m] = listener[m]
    BY <1>1, <1>3 DEF EnclaveTypeOK
  <2> QED BY <1>3, <2>1, <2>2 DEF IInv, Received
<1>8. Awaited'
  <2>1. \A m \in 1..(step - 1) : m \in Secret
    BY <1>1 DEF EnclaveTypeOK, Secret
  <2> QED BY <1>1, <1>3, <1>4, <2>1 DEF EnclaveTypeOK, IInv, Awaited
<1>9. SendsToItsOwn'
  BY <1>3 DEF IInv, SendsToItsOwn, NoneStartsToSend
<1>10. Whole' /\ Wiped'
  BY <1>3, <1>4 DEF Whole, Wiped
<1> QED BY <1>1, <1>6, <1>7, <1>8, <1>9, <1>10 DEF IInv, BootTypeOK, HostTypeOK, EnclaveTypeOK

LEMMA TransferKeeps ==
  ASSUME IInv, NEW l \in Launch, Transfer(l)
  PROVE  IInv'
<1>1. HostTypeOK
  BY Halves DEF IInv
<1>2. /\ ReadyFor(l) /\ CanSend(l)
      /\ \E file \in {l, Cut} : Arrives(sent[l] + 1, file)
      /\ sent' = [sent EXCEPT ![l] = sent[l] + 1]
      /\ attempt' = [attempt EXCEPT ![l] = 1]
      /\ UNCHANGED <<host, fetched, proxy, ingress, faults>>
  BY DEF Transfer
<1>3. HostTypeOK'
  <2>1. sent[l] + 1 \in 0..3 /\ 1 \in 1..Retries
    BY <1>1, <1>2, RetriesAssumption DEF HostTypeOK, ReadyFor
  <2> QED BY <1>1, <1>2, <2>1 DEF HostTypeOK
<1>4. HoldsKms' /\ WipedOnHost' /\ NoneStartsToSend
  BY <1>2 DEF IInv, HoldsKms, Wiped, WipedOnHost, NoneStartsToSend
<1> QED BY <1>2, <1>3, <1>4, ArrivesKeeps

LEMMA BreaksOffKeeps ==
  ASSUME IInv, NEW l \in Launch, BreaksOff(l)
  PROVE  IInv'
BY FailedAttemptKeeps, ArrivesKeeps DEF BreaksOff

LEMMA InterruptedKeeps ==
  ASSUME IInv, NEW l \in Launch, Interrupted(l)
  PROVE  IInv'
<1>1. Ends(l, "exited") /\ faults' = faults
  BY DEF Interrupted
<1>2. CASE UNCHANGED enclaveVars
  BY <1>1, <1>2, QuietEnd
<1>3. CASE ~UNCHANGED enclaveVars
  BY <1>1, <1>3, EndsKeeps, ArrivesKeeps DEF Interrupted
<1> QED BY <1>2, <1>3

-----------------------------------------------------------------------------
(* Steps of the enclave *)

\* What the host's variables alone decide.
LEMMA HostStays ==
  ASSUME IInv, UNCHANGED <<hostVars, faults>>
  PROVE  /\ HostTypeOK' /\ faults' \in Environments /\ HoldsKms'
         /\ host' = host /\ faults' = faults /\ WipedOnHost'
<1>1. UNCHANGED <<host, fetched, sent, attempt, proxy, ingress, faults>>
  BY DEF hostVars
<1>2. HostTypeOK /\ faults \in Environments
  BY Halves DEF IInv
<1> QED BY <1>1, <1>2 DEF IInv, HostTypeOK, HoldsKms, Wiped, WipedOnHost

LEMMA NoEnclaveKeeps ==
  ASSUME IInv, NoEnclave, UNCHANGED <<hostVars, faults>>
  PROVE  IInv'
<1>1. /\ boot' = "none" /\ owner' = None /\ step' = 1
      /\ listener' = [n \in Secret |-> "none"] /\ got' = [n \in Secret |-> None]
      /\ creds' = FALSE /\ age' = FALSE
  BY DEF NoEnclave
<1>2. EnclaveTypeOK'
  <2>1. 1 \in Secret
    BY DEF Secret
  <2>2. listener' \in [Secret -> {"none", "open", "closed"}]
    BY <1>1
  <2>3. got' \in [Secret -> Launch \cup {None, Cut}]
    BY <1>1
  <2> QED BY <1>1, <2>1, <2>2, <2>3 DEF EnclaveTypeOK
<1>3. SendsToItsOwn' /\ Received' /\ Awaited' /\ Whole' /\ Wiped'
  BY <1>1, HostStays DEF SendsToItsOwn, Received, Awaited, Whole, Wiped
<1> QED BY <1>2, <1>3, HostStays DEF IInv, BootTypeOK, HostTypeOK, EnclaveTypeOK

\* A step of an enclave that goes on.
LEMMA EnclaveMoves ==
  ASSUME IInv, UNCHANGED <<hostVars, faults>>, owner' = owner, boot # "none",
         EnclaveTypeOK', Received', Awaited', Whole',
         boot' \in {"shares", "running"} => ~creds', boot' = "running" => ~age'
  PROVE  IInv'
<1>1. SendsToItsOwn' /\ Wiped'
  BY HostStays DEF IInv, SendsToItsOwn, Wiped
<1> QED BY <1>1, HostStays DEF IInv, BootTypeOK, HostTypeOK, EnclaveTypeOK

LEMMA EnclaveStepKeeps ==
  ASSUME IInv, EnclaveStep
  PROVE  IInv'
<1>1. EnclaveTypeOK /\ UNCHANGED <<hostVars, faults>>
  BY Halves DEF IInv, EnclaveStep, OpenListener, CheckListener, WaitForSecret,
                DecryptAgeKey, DecryptKeyShares
<1>2. CASE OpenListener
  <2>1. /\ boot = "opening" /\ boot' = "checking"
        /\ listener' = [listener EXCEPT ![step] = "open"]
        /\ UNCHANGED <<owner, step, got, creds, age>>
    BY <1>2 DEF OpenListener
  <2>2. EnclaveTypeOK'
    BY <1>1, <2>1 DEF EnclaveTypeOK
  <2>3. Received' /\ Awaited' /\ Whole'
    BY <1>1, <2>1 DEF EnclaveTypeOK, IInv, Received, Awaited, Whole
  <2> QED BY <1>1, <2>1, <2>2, <2>3, EnclaveMoves
<1>3. CASE CheckListener
  <2>1. CASE listener[step] # "open"
    BY <1>1, <1>3, <2>1, NoEnclaveKeeps DEF CheckListener
  <2>2. CASE listener[step] = "open"
    <3>1. /\ boot = "checking" /\ UNCHANGED <<owner, listener, got, creds, age>>
          /\ \/ step < 3 /\ step' = step + 1 /\ boot' = "opening"
             \/ step' = 1 /\ boot' = "waiting"
      BY <1>3, <2>2 DEF CheckListener
    <3>2. step' \in Secret
      BY <1>1, <3>1 DEF EnclaveTypeOK, Secret
    <3>3. EnclaveTypeOK'
      BY <1>1, <3>1, <3>2 DEF EnclaveTypeOK
    <3>4. Received' /\ Awaited' /\ Whole'
      BY <1>1, <3>1 DEF IInv, Received, Awaited, Whole
    <3> QED BY <1>1, <3>1, <3>3, <3>4, EnclaveMoves
  <2> QED BY <2>1, <2>2
<1>4. CASE WaitForSecret
  <2>1. /\ boot = "waiting" /\ listener[step] = "closed"
        /\ UNCHANGED <<owner, listener, got, creds, age>>
        /\ \/ step < 3 /\ step' = step + 1 /\ boot' = "waiting"
           \/ step = 3 /\ step' = 3 /\ boot' = "age"
    BY <1>1, <1>4 DEF WaitForSecret, EnclaveTypeOK, Secret
  <2>2. step \in 1..3 /\ step' \in 1..3
    BY <1>1, <2>1 DEF EnclaveTypeOK, Secret
  <2>3. EnclaveTypeOK'
    BY <1>1, <2>1, <2>2 DEF EnclaveTypeOK, Secret
  <2>4. \A n \in 1..step : listener[n] = "closed"
    <3>1. \A n \in 1..step : n \in 1..(step - 1) \/ n = step
      BY <2>2
    <3> QED BY <2>1, <3>1 DEF IInv, Awaited
  <2>5. Awaited'
    <3>1. step' = step + 1 => 1..(step' - 1) = 1..step
      BY <2>2
    <3> QED BY <2>1, <2>4, <3>1 DEF Awaited, Secret
  <2>6. Received' /\ Whole'
    BY <1>1, <2>1 DEF IInv, Received, Whole
  <2> QED BY <1>1, <2>1, <2>3, <2>5, <2>6, EnclaveMoves
<1>5. CASE DecryptAgeKey
  <2>1. CASE (\E l \in Launch : proxy[l] = "bound") /\ Cut \notin {got[1], got[2]}
    <3>1. /\ boot = "age" /\ boot' = "shares" /\ age' = TRUE /\ creds' = FALSE
          /\ UNCHANGED <<owner, step, listener, got>>
      BY <1>5, <2>1 DEF DecryptAgeKey
    <3>2. EnclaveTypeOK'
      BY <1>1, <3>1 DEF EnclaveTypeOK
    <3>3. Received' /\ Awaited' /\ Whole'
      BY <1>1, <2>1, <3>1 DEF IInv, Received, Awaited, Whole
    <3> QED BY <1>1, <3>1, <3>2, <3>3, EnclaveMoves
  <2>2. CASE ~((\E l \in Launch : proxy[l] = "bound") /\ Cut \notin {got[1], got[2]})
    BY <1>1, <1>5, <2>2, NoEnclaveKeeps DEF DecryptAgeKey
  <2> QED BY <2>1, <2>2
<1>6. CASE DecryptKeyShares
  <2>1. CASE got[3] # Cut
    <3>1. /\ boot = "shares" /\ boot' = "running" /\ age' = FALSE
          /\ UNCHANGED <<owner, step, listener, got, creds>>
      BY <1>6, <2>1 DEF DecryptKeyShares
    <3>2. EnclaveTypeOK'
      BY <1>1, <3>1 DEF EnclaveTypeOK
    <3>3. Received' /\ Awaited' /\ Whole'
      BY <1>1, <2>1, <3>1 DEF IInv, Received, Awaited, Whole
    <3>4. ~creds' /\ ~age'
      BY <3>1 DEF IInv, Wiped
    <3> QED BY <1>1, <3>1, <3>2, <3>3, <3>4, EnclaveMoves
  <2>2. CASE ~(got[3] # Cut)
    BY <1>1, <1>6, <2>2, NoEnclaveKeeps DEF DecryptKeyShares
  <2> QED BY <2>1, <2>2
<1> QED BY <1>2, <1>3, <1>4, <1>5, <1>6 DEF EnclaveStep

-----------------------------------------------------------------------------
(* The theorems *)

LEMMA IInvNext == IInv /\ [Next]_vars => IInv'
<1> SUFFICES ASSUME IInv, [Next]_vars PROVE IInv'
  OBVIOUS
<1>1. ASSUME NEW l \in Launch, HostStep(l) PROVE IInv'
  BY <1>1, FetchKeeps, CheckKeeps, StartKmsProxyKeeps, CheckProxyKeeps, RunEnclaveKeeps,
     TransferKeeps, RetryKeeps, BridgeKeeps DEF HostStep
<1>2. ASSUME NEW l \in Launch,
             BreaksOff(l) \/ Interrupted(l) \/ ProxyBinds(l) \/ ProxyDies(l)
      PROVE  IInv'
  BY <1>2, BreaksOffKeeps, InterruptedKeeps, ProxyKeeps
<1>3. ASSUME NEW l \in Launch, Stop(l) PROVE IInv'
  BY <1>3, QuietEnd DEF Stop
<1>4. CASE EnclaveStep
  BY <1>4, EnclaveStepKeeps
<1>5. CASE EnclaveEnds
  BY <1>5, NoEnclaveKeeps DEF EnclaveEnds
<1>6. CASE UNCHANGED vars
  <2>1. UNCHANGED <<enclaveVars, faults>> /\ UNCHANGED <<hostVars, faults>>
    BY <1>6 DEF vars
  <2>2. NoneStartsToSend
    BY <2>1, HostStays DEF NoneStartsToSend
  <2> QED BY <2>1, <2>2, HostStays, QuietStep
<1> QED BY <1>1, <1>2, <1>3, <1>4, <1>5, <1>6 DEF Next

\* The invariant holds of all scripts, proxies and enclaves, however they
\* interleave, whatever fails, breaks off or is stopped.
THEOREM Inductive == Spec => []IInv
BY IInvInit, IInvNext, PTL DEF Spec

\* Every variable of the scripts and the enclave keeps its type.
THEOREM TypeCorrect == Spec => []BootTypeOK
<1>1. IInv => BootTypeOK
  BY DEF IInv
<1> QED BY <1>1, Inductive, PTL

\* A script that has ended has left no credentials on the host; an enclave that
\* serves holds neither them nor the age key.
THEOREM UsedSecretsAreWiped == Spec => []SecretsWiped
<1>1. IInv => SecretsWiped
  BY DEF IInv, Wiped, WipedOnHost, SecretsWiped
<1> QED BY <1>1, Inductive, PTL

\* The service runs on three whole files; on those of the script that started
\* it, however many scripts raced past the check for a running enclave, unless a
\* KMS proxy was late to fail for want of its port, or died.
THEOREM ServesFromItsOwnSecrets == Spec => []RunsOnItsOwnSecrets
<1>1. ASSUME IInv, boot = "running", NEW n \in Secret
      PROVE  got[n] \in (IF "proxy" \in faults THEN Launch ELSE {owner})
  <2>1. got[n] \in (IF "proxy" \in faults THEN Launch ELSE {owner}) \cup {Cut}
    BY <1>1 DEF IInv, Awaited, Received
  <2>2. n = 1 \/ n = 2 \/ n = 3
    BY DEF Secret
  <2>3. got[n] # Cut
    BY <1>1, <2>2 DEF IInv, Whole
  <2> QED BY <2>1, <2>3
<1>2. IInv => RunsOnItsOwnSecrets
  BY <1>1 DEF RunsOnItsOwnSecrets
<1> QED BY <1>2, Inductive, PTL
=============================================================================
