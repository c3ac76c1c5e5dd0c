-------------------------- MODULE KeyDealer_proofs --------------------------
(***************************************************************************)
(* What KeyDealer's run checks on a small instance, for any accounts, any  *)
(* number of parties and runs, and whatever goes wrong with them.          *)
(***************************************************************************)
EXTENDS KeyDealer, TLAPS

-----------------------------------------------------------------------------
(* The invariant *)

\* The run has done what it is for to party i: its share is in, the others are
\* what they were.
Dealt(i) ==
    /\ Share(Current(i), account) = runs
    /\ \A a \in Account \ {account} : Share(Current(i), a) = Share(before[i], a)

\* A run goes from party to party: the ones before it are dealt, the ones after
\* it untouched.
Progress ==
    phase # "idle" =>
        \A i \in Party :
            /\ i < party => Dealt(i)
            /\ i > party \/ (i = party /\ phase = "load") => Current(i) = before[i]

\* What is about to be written is the merge of the share with the file as it
\* was, and it will be the party's current file.
Pending ==
    phase = "write" =>
        /\ encrypting \/ enc[party] = Absent
        /\ json[account] = runs
        /\ \A a \in Account \ {account} : json[a] = Share(before[party], a)

\* If no run has failed, this one has started from files that fit together.
Sound ==
    phase # "idle" /\ ~failed =>
        \A a \in Account, i, j \in Party : Share(before[i], a) = Share(before[j], a)

IInv == /\ TypeOK /\ Progress /\ Pending /\ Sound
        /\ SuccessIsComplete /\ SameDealing /\ OnePartyAtRisk

\* Nobody has a file, and no run is on.
LEMMA IInvInit == Init => IInv
<1> SUFFICES ASSUME Init PROVE IInv
  OBVIOUS
<1>1. TypeOK
  <2>1. 0 \in 0..MaxRuns /\ 1 \in Party
    BY KeyDealerAssumption DEF Party
  <2>2. json \in Shares /\ Absent \in File
    BY <2>1 DEF Init, Shares, NoShare, File
  <2>3. plain \in [Party -> File] /\ enc \in [Party -> File]
    BY <2>2 DEF Init
  <2> QED BY <2>1, <2>2, <2>3 DEF Init, TypeOK
<1>2. \A i \in Party : Current(i) = Absent /\ before[i] = Absent
  BY DEF Init, Current
<1>3. \A i \in Party, a \in Account : Share(Current(i), a) = Share(before[i], a)
  BY <1>2
<1>4. \A i, j \in Party, a \in Account : Share(Current(i), a) = Share(Current(j), a)
  BY <1>2
<1>5. SuccessIsComplete /\ SameDealing /\ OnePartyAtRisk
  BY <1>3, <1>4 DEF Init, SuccessIsComplete, SameDealing, Consistent, OnePartyAtRisk, Lost
<1> QED BY <1>1, <1>5 DEF Init, IInv, Progress, Pending, Sound

-----------------------------------------------------------------------------
(* Files *)

\* What a party holds for an account is a number of a run.
LEMMA ShareTyped ==
  ASSUME NEW f \in File, NEW a \in Account
  PROVE  Share(f, a) \in 0..MaxRuns
BY NoFileAssumption, KeyDealerAssumption DEF File, Shares, Share, Readable, NoShare

\* Shares that have been written can be read.
LEMMA ShareOfShares ==
  ASSUME NEW f \in Shares, NEW a \in Account
  PROVE  Share(f, a) = f[a]
BY NoFileAssumption DEF Share, Readable

\* The merge has the run's number for its account, and what the file holds for
\* the others.
LEMMA MergedShares ==
  ASSUME TypeOK, runs \in 0..MaxRuns, plain[party] # Broken
  PROVE  /\ Merged \in Shares
         /\ Merged[account] = runs
         /\ \A a \in Account \ {account} : Merged[a] = Share(plain[party], a)
<1>1. plain[party] \in File /\ party \in Party /\ account \in Account
  BY DEF TypeOK
<1>2. plain[party] # Absent => plain[party] \in Shares
  BY <1>1 DEF File
<1>3. ASSUME NEW a \in Account
      PROVE  /\ Merged[a] \in 0..MaxRuns
             /\ a = account => Merged[a] = runs
             /\ a # account => Merged[a] = Share(plain[party], a)
  <2>1. CASE a = account
    BY <2>1 DEF Merged
  <2>2. CASE a # account /\ plain[party] = Absent
    BY <2>2, KeyDealerAssumption DEF Merged, Share, Readable, NoShare
  <2>3. CASE a # account /\ plain[party] # Absent
    <3>1. Merged[a] = plain[party][a] /\ plain[party][a] \in 0..MaxRuns
      BY <1>2, <2>3 DEF Merged, Shares
    <3> QED BY <1>2, <2>3, <3>1, ShareOfShares
  <2> QED BY <2>1, <2>2, <2>3
<1>4. Merged \in [Account -> 0..MaxRuns]
  BY <1>3 DEF Merged
<1> QED BY <1>1, <1>3, <1>4 DEF Shares

\* What is written into one party's file is what that party has from then on,
\* if no encrypted file is in the way; and nobody else's file changes.
LEMMA OutputMoves ==
  ASSUME TypeOK, NEW f \in File, Output(f)
  PROVE  /\ plain' \in [Party -> File] /\ enc' \in [Party -> File]
         /\ \A i \in Party \ {party} : Current(i)' = Current(i)
         /\ f # Absent /\ (encrypting \/ enc[party] = Absent) =>
               \A i \in {party} : Current(i)' = f
         /\ ~encrypting => enc' = enc
<1>1. party \in Party /\ plain \in [Party -> File] /\ enc \in [Party -> File]
  BY DEF TypeOK
<1>2. CASE encrypting
  <2>1. enc' = [enc EXCEPT ![party] = f] /\ plain' = plain
    BY <1>2 DEF Output
  <2> QED BY <1>1, <1>2, <2>1 DEF Current
<1>3. CASE ~encrypting
  <2>1. plain' = [plain EXCEPT ![party] = f] /\ enc' = enc
    BY <1>3 DEF Output
  <2> QED BY <1>1, <1>3, <2>1 DEF Current
<1> QED BY <1>2, <1>3

\* Decrypting a file and removing the encrypted one loses nothing.
LEMMA DecryptKeeps ==
  ASSUME TypeOK, NEW ps \in SUBSET Party, Decrypt(ps)
  PROVE  /\ plain' \in [Party -> File] /\ enc' \in [Party -> File]
         /\ \A i \in Party : Current(i)' = Current(i)
<1>1. plain \in [Party -> File] /\ enc \in [Party -> File] /\ Absent \in File
  BY DEF TypeOK, File
<1>2. /\ plain' = [i \in Party |-> IF i \in ps THEN enc[i] ELSE plain[i]]
      /\ enc' = [i \in Party |-> IF i \in ps THEN Absent ELSE enc[i]]
      /\ \A i \in ps : enc[i] \notin {Absent, Broken}
  BY DEF Decrypt
<1>3. plain' \in [Party -> File] /\ enc' \in [Party -> File]
  BY <1>1, <1>2
<1>4. ASSUME NEW i \in Party PROVE Current(i)' = Current(i)
  <2>1. CASE i \in ps
    BY <1>2, <2>1 DEF Current
  <2>2. CASE i \notin ps
    BY <1>2, <2>2 DEF Current
  <2> QED BY <2>1, <2>2
<1> QED BY <1>3, <1>4

-----------------------------------------------------------------------------
(* The invariant is inductive *)

\* A run that starts finds what the runs before it have left.
LEMMA RunKeeps ==
  ASSUME IInv, NEW a \in Account, NEW keys \in 0..N, Run(a, keys)
  PROVE  IInv'
<1> USE DEF IInv
<1>1. /\ phase = "idle" /\ phase' = "load" /\ party' = 1 /\ account' = a
      /\ runs' = runs + 1 /\ runs < MaxRuns /\ encrypting' = (keys = N)
      /\ before' = [i \in Party |-> Current(i)]
      /\ plain' = plain /\ enc' = enc /\ json' = json
      /\ result' = result /\ failed' = failed
  BY DEF Run, Encrypts, outcome
<1>2. \A i \in Party : Current(i) \in File
  BY DEF TypeOK, Current
<1>3. TypeOK'
  <2>1. runs' \in 0..MaxRuns
    BY <1>1, KeyDealerAssumption DEF TypeOK
  <2>2. party' \in Party
    BY <1>1, KeyDealerAssumption DEF Party
  <2>3. before' \in [Party -> File]
    BY <1>1, <1>2
  <2>4. encrypting' \in BOOLEAN
    BY <1>1
  <2> QED BY <1>1, <2>1, <2>2, <2>3, <2>4 DEF TypeOK
<1>4. \A i \in Party : Current(i)' = Current(i) /\ before'[i] = Current(i)
  BY <1>1 DEF Current
<1>5. \A i \in Party : ~(i < party')
  BY <1>1 DEF Party
<1>6. Progress'
  BY <1>4, <1>5 DEF Progress
<1>7. Sound'
  BY <1>1, <1>4 DEF Sound, SameDealing, Consistent
<1> QED BY <1>1, <1>3, <1>6, <1>7
        DEF Pending, SuccessIsComplete, SameDealing, OnePartyAtRisk

\* While a run is on, only the party whose file it is at can have lost a share.
LEMMA AtRisk ==
  ASSUME TypeOK, Progress, phase # "idle", NEW i \in Party, Lost(i)
  PROVE  i = party
<1>1. ASSUME i < party PROVE FALSE
  BY <1>1 DEF Progress, Dealt, Lost
<1>2. ASSUME i > party PROVE FALSE
  BY <1>2 DEF Progress, Lost
<1>3. i \in Nat /\ party \in Nat
  BY DEF TypeOK, Party
<1> QED BY <1>1, <1>2, <1>3

\* A run that fails is over, and leaves its files where they are.
LEMMA FailKeeps ==
  ASSUME IInv, phase # "idle", Fails, UNCHANGED <<plain, enc>>
  PROVE  IInv'
<1> USE DEF IInv
<1>1. /\ phase' = "idle" /\ result' = "failed" /\ failed'
      /\ UNCHANGED <<plain, enc, runs, party, account, encrypting, before, json>>
  BY DEF Fails, runVars
<1>2. TypeOK'
  BY <1>1 DEF TypeOK, Fails
<1>3. OnePartyAtRisk'
  <2>1. ASSUME NEW i \in Party, Lost(i)' PROVE i = party
    <3>1. Lost(i)
      BY <1>1, <2>1 DEF Lost, Current
    <3> QED BY <3>1, AtRisk
  <2> QED BY <2>1 DEF OnePartyAtRisk
<1> QED BY <1>1, <1>2, <1>3 DEF Progress, Pending, Sound, SuccessIsComplete, SameDealing

\* The file is open and truncated; its shares are in memory, merged.
LEMMA OpenKeeps ==
  ASSUME IInv, Open
  PROVE  IInv'
<1> USE DEF IInv
<1>1. /\ phase = "load" /\ phase' = "write" /\ enc[party] = Absent /\ plain[party] # Broken
      /\ json' = Merged /\ Output(Broken)
      /\ UNCHANGED <<runs, party, account, encrypting, before, result, failed>>
  BY DEF Open, runVars, outcome
<1>2. /\ Merged \in Shares /\ Merged[account] = runs
      /\ \A a \in Account \ {account} : Merged[a] = Share(plain[party], a)
  BY <1>1, MergedShares DEF TypeOK
<1>3. /\ plain' \in [Party -> File] /\ enc' \in [Party -> File]
      /\ \A i \in Party \ {party} : Current(i)' = Current(i)
      /\ ~encrypting => enc' = enc
  <2>1. Broken \in File
    BY DEF File
  <2> QED BY <1>1, <2>1, OutputMoves
<1>4. TypeOK'
  BY <1>1, <1>2, <1>3 DEF TypeOK
<1>5. party \in Party /\ Party \subseteq Nat
  BY DEF TypeOK, Party
<1>6. Progress'
  <2>1. ASSUME NEW i \in Party, i < party PROVE Dealt(i)'
    <3>1. Dealt(i) /\ i # party
      BY <1>1, <1>5, <2>1 DEF Progress
    <3> QED BY <1>1, <1>3, <3>1 DEF Dealt
  <2>2. ASSUME NEW i \in Party, i > party PROVE Current(i)' = before'[i]
    BY <1>1, <1>3, <1>5, <2>2 DEF Progress
  <2> QED BY <1>1, <2>1, <2>2 DEF Progress
<1>7. Pending'
  <2>1. plain[party] = before[party]
    BY <1>1, <1>5 DEF Progress, Current
  <2> QED BY <1>1, <1>2, <1>3, <2>1 DEF Pending
<1>8. Sound'
  BY <1>1 DEF Sound
<1> QED BY <1>1, <1>4, <1>6, <1>7, <1>8 DEF SuccessIsComplete, SameDealing, OnePartyAtRisk

\* The party's file is whole again, and has its share.
LEMMA WriteDeals ==
  ASSUME IInv, Write
  PROVE  /\ plain' \in [Party -> File] /\ enc' \in [Party -> File]
         /\ \A i \in Party : i <= party => Dealt(i)'
         /\ \A i \in Party : i > party => Current(i)' = before[i]
<1> USE DEF IInv
<1>1. /\ phase = "write" /\ Output(json)
      /\ UNCHANGED <<runs, account, encrypting, before, json, failed>>
  BY DEF Write
<1>2. /\ party \in Party /\ Party \subseteq Nat /\ account \in Account
      /\ json \in Shares /\ json \in File /\ json # Absent
  BY NoFileAssumption DEF TypeOK, Party, File
<1>3. /\ plain' \in [Party -> File] /\ enc' \in [Party -> File]
      /\ \A i \in Party \ {party} : Current(i)' = Current(i)
      /\ \A i \in {party} : Current(i)' = json
  BY <1>1, <1>2, OutputMoves DEF Pending
<1>4. ASSUME NEW i \in {party} PROVE Dealt(i)'
  <2>1. \A a \in Account : Share(json, a) = json[a]
    BY <1>2, ShareOfShares
  <2>2. Share(json, account) = runs
    BY <1>1, <1>2, <2>1 DEF Pending
  <2>3. \A a \in Account \ {account} : Share(json, a) = Share(before[i], a)
    BY <1>1, <2>1 DEF Pending
  <2> QED BY <1>1, <1>3, <2>2, <2>3 DEF Dealt
<1>5. ASSUME NEW i \in Party, i < party PROVE Dealt(i)'
  <2>1. Dealt(i) /\ i # party
    BY <1>1, <1>2, <1>5 DEF Progress
  <2> QED BY <1>1, <1>3, <2>1 DEF Dealt
<1>6. ASSUME NEW i \in Party, i > party PROVE Current(i)' = before[i]
  BY <1>1, <1>2, <1>3, <1>6 DEF Progress
<1>7. \A i \in Party : i <= party => i < party \/ i = party
  BY <1>2
<1> QED BY <1>3, <1>4, <1>5, <1>6, <1>7

LEMMA WriteKeeps ==
  ASSUME IInv, Write
  PROVE  IInv'
<1> USE DEF IInv
<1>1. /\ phase = "write"
      /\ UNCHANGED <<runs, account, encrypting, before, json, failed>>
  BY DEF Write
<1>2. party \in 1..N /\ N \in Nat /\ Party = 1..N
  BY KeyDealerAssumption DEF TypeOK, Party
<1>3. CASE party < N
  <2>1. party' = party + 1 /\ phase' = "load" /\ result' = result
    BY <1>3 DEF Write, LastParty
  <2>2. party' \in Party
    BY <1>2, <1>3, <2>1
  <2>3. TypeOK'
    BY <1>1, <2>1, <2>2, WriteDeals DEF TypeOK
  <2>4. \A i \in Party : /\ i < party' => i <= party
                         /\ i >= party' => i > party
    BY <1>2, <2>1
  <2>5. Progress'
    BY <1>1, <1>2, <2>1, <2>4, WriteDeals DEF Progress
  <2>6. Sound'
    BY <1>1, <2>1 DEF Sound
  <2> QED BY <2>1, <2>3, <2>5, <2>6
          DEF Pending, SuccessIsComplete, SameDealing, OnePartyAtRisk
<1>4. CASE ~(party < N)
  <2>1. party' = party /\ phase' = "idle" /\ result' = "ok"
    BY <1>4 DEF Write, LastParty
  <2>2. TypeOK'
    BY <1>1, <2>1, WriteDeals DEF TypeOK
  <2>3. \A i \in Party : Dealt(i)'
    BY <1>2, <1>4, WriteDeals
  <2>4. /\ \A i \in Party : Share(Current(i)', account) = runs
        /\ \A i \in Party : \A a \in Account \ {account} :
              Share(Current(i)', a) = Share(before[i], a)
    BY <1>1, <2>3 DEF Dealt
  <2>5. SuccessIsComplete' /\ OnePartyAtRisk'
    BY <1>1, <2>4 DEF SuccessIsComplete, OnePartyAtRisk, Lost
  <2>6. ASSUME ~failed, NEW a \in Account, NEW i \in Party, NEW j \in Party
        PROVE  Share(Current(i)', a) = Share(Current(j)', a)
    <3>1. Share(before[i], a) = Share(before[j], a)
      BY <1>1, <2>6 DEF Sound
    <3> QED BY <2>4, <3>1
  <2>7. SameDealing'
    BY <1>1, <2>6 DEF SameDealing, Consistent
  <2> QED BY <2>1, <2>2, <2>5, <2>7 DEF Progress, Pending, Sound
<1> QED BY <1>3, <1>4

LEMMA DecryptedKeeps ==
  ASSUME IInv, NEW ps \in SUBSET Party, Decrypt(ps)
  PROVE  IInv'
<1> USE DEF IInv
<1>1. /\ phase = "idle" /\ phase' = "idle"
      /\ UNCHANGED <<runs, party, account, encrypting, before, json, result, failed>>
  BY DEF Decrypt, runVars, outcome
<1>2. /\ plain' \in [Party -> File] /\ enc' \in [Party -> File]
      /\ \A i \in Party : Current(i)' = Current(i)
  BY DecryptKeeps
<1>3. TypeOK'
  BY <1>1, <1>2 DEF TypeOK
<1>4. SuccessIsComplete' /\ OnePartyAtRisk'
  BY <1>1, <1>2 DEF SuccessIsComplete, OnePartyAtRisk, Lost
<1>5. SameDealing'
  BY <1>1, <1>2 DEF SameDealing, Consistent
<1> QED BY <1>1, <1>3, <1>4, <1>5 DEF Progress, Pending, Sound

LEMMA IInvNext == IInv /\ [Next]_vars => IInv'
<1> SUFFICES ASSUME IInv, [Next]_vars PROVE IInv'
  OBVIOUS
<1>1. ASSUME NEW a \in Account, NEW keys \in 0..N, Run(a, keys) PROVE IInv'
  BY <1>1, RunKeeps
<1>2. CASE Refuse \/ OpenFails \/ WriteFails \/ Kill
  <2>1. Fails /\ phase # "idle" /\ UNCHANGED <<plain, enc>>
    BY <1>2 DEF Refuse, OpenFails, WriteFails, Kill
  <2> QED BY <2>1, FailKeeps
<1>3. CASE Open
  BY <1>3, OpenKeeps
<1>4. CASE Write
  BY <1>4, WriteKeeps
<1>5. ASSUME NEW ps \in SUBSET Party, Decrypt(ps) PROVE IInv'
  BY <1>5, DecryptedKeeps
<1>6. CASE UNCHANGED vars
  BY <1>6 DEF vars, runVars, outcome, IInv, TypeOK, Progress, Pending, Sound, Dealt,
              Current, SuccessIsComplete, SameDealing, Consistent, OnePartyAtRisk, Lost
<1> QED BY <1>1, <1>2, <1>3, <1>4, <1>5, <1>6 DEF Next

-----------------------------------------------------------------------------
(* The theorems *)

\* The invariant holds of every history of runs, failures and decryptions.
THEOREM Inductive == Spec => []IInv
BY IInvInit, IInvNext, PTL DEF Spec

\* Every variable keeps its type; above all, a file holds shares of runs that
\* have taken place, is absent, or is truncated.
THEOREM TypeCorrect == Spec => []TypeOK
<1>1. IInv => TypeOK
  BY DEF IInv
<1> QED BY <1>1, Inductive, PTL

\* A run that reports success has dealt its account to every party and kept
\* the others, whatever the runs before it have left behind.
THEOREM SuccessMeansComplete == Spec => []SuccessIsComplete
<1>1. IInv => SuccessIsComplete
  BY DEF IInv
<1> QED BY <1>1, Inductive, PTL

\* As long as no run fails, an account's shares are of one dealing.
THEOREM DealingsAreNotMixed == Spec => []SameDealing
<1>1. IInv => SameDealing
  BY DEF IInv
<1> QED BY <1>1, Inductive, PTL

\* However a run ends, one party at most has lost shares of other accounts, for
\* any number of parties.
THEOREM RunsRiskOneParty == Spec => []OnePartyAtRisk
<1>1. IInv => OnePartyAtRisk
  BY DEF IInv
<1> QED BY <1>1, Inductive, PTL
=============================================================================
