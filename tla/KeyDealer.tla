----------------------------- MODULE KeyDealer -----------------------------
(***************************************************************************)
(* The key share dealer (key-gen/src/main.rs, dealer.rs) run again and     *)
(* again over one set of files, {prefix}_i.json or {prefix}_i.json.age for *)
(* party i.  A run deals the shares of one account afresh and merges share *)
(* i into the file of party i, one file after the other.  Each write       *)
(* truncates the file first.  A run can fail or be killed anywhere.        *)
(*                                                                         *)
(* The dealing itself (cggmp21's trusted dealer) is external: what matters *)
(* here is that shares of two dealings do not fit together, so a share is  *)
(* the number of the run that dealt it.  Arguments that validate_config    *)
(* or verify_public_key refuse never reach a file and are left out.        *)
(***************************************************************************)
EXTENDS Naturals

CONSTANTS Account,
          N,            \* parties
          MaxRuns,      \* bound: runs of the tool
          Faults,       \* what can go wrong, see Fault
          Absent,       \* no such file
          Broken        \* a file that was truncated and not written to the end

Fault == {"write",      \* a file cannot be created or written, or a key is invalid
          "kill",       \* the tool is killed
          "partial"}    \* the operator decrypts the file of one party only

ASSUME KeyDealerAssumption == N \in Nat \ {0} /\ MaxRuns \in Nat /\ Faults \subseteq Fault

Party == 1..N
NoShare == 0
Shares == [Account -> 0..MaxRuns]
File == Shares \cup {Absent, Broken}

ASSUME NoFileAssumption ==
    Absent \notin Shares /\ Broken \notin Shares /\ Absent # Broken

VARIABLES plain, enc,   \* each party's .json and .json.age
          runs,         \* runs so far; the latest numbers the dealing
          phase,        \* of the run: "idle" when there is none
          party,        \* whose file it is at
          account,      \* --account-id
          encrypting,   \* to each party's recipient
          json,         \* what it is about to write
          before,       \* ghost: the files when the run started
          result,       \* how the latest run ended
          failed        \* ghost: whether some run has failed

runVars == <<runs, party, account, encrypting, before>>
outcome == <<result, failed>>
vars == <<plain, enc, runVars, phase, json, outcome>>

TypeOK ==
    /\ plain \in [Party -> File]
    /\ enc \in [Party -> File]
    /\ runs \in 0..MaxRuns
    /\ phase \in {"idle", "load", "write"}
    /\ party \in Party
    /\ account \in Account
    /\ encrypting \in BOOLEAN
    /\ json \in Shares
    /\ before \in [Party -> File]
    /\ result \in {"none", "ok", "failed"}
    /\ failed \in BOOLEAN

\* A party's shares are in its encrypted file, if it has one.
Current(i) == IF enc[i] # Absent THEN enc[i] ELSE plain[i]

Init ==
    /\ plain = [i \in Party |-> Absent]
    /\ enc = [i \in Party |-> Absent]
    /\ runs = 0
    /\ phase = "idle"
    /\ party = 1
    /\ account \in Account
    /\ encrypting = FALSE
    /\ json = [a \in Account |-> NoShare]
    /\ before = plain
    /\ result = "none"
    /\ failed = FALSE

-----------------------------------------------------------------------------
\* main: as many recipients as parties, or the run goes on in plain text.
Encrypts(keys) == keys = N

\* The arguments are parsed, with keys recipients among them; the shares are
\* dealt and verified; save_to_files begins.
Run(a, keys) ==
    /\ phase = "idle"
    /\ runs < MaxRuns
    /\ runs' = runs + 1
    /\ account' = a
    /\ encrypting' = Encrypts(keys)
    /\ party' = 1
    /\ before' = [i \in Party |-> Current(i)]
    /\ phase' = "load"
    /\ UNCHANGED <<plain, enc, json, outcome>>

Fails ==
    /\ phase' = "idle"
    /\ result' = "failed"
    /\ failed' = TRUE
    /\ UNCHANGED <<runVars, json>>

\* Nothing is appended to an encrypted file, nor to one that does not parse.
Refuse ==
    /\ phase = "load"
    /\ enc[party] # Absent \/ plain[party] = Broken
    /\ Fails
    /\ UNCHANGED <<plain, enc>>

\* The file that is about to be written.
Output(content) ==
    IF encrypting
    THEN enc' = [enc EXCEPT ![party] = content] /\ UNCHANGED plain
    ELSE plain' = [plain EXCEPT ![party] = content] /\ UNCHANGED enc

\* Mutant of Merged: the accounts of the existing file are not loaded.
MergedAfresh == [a \in Account |-> IF a = account THEN runs ELSE NoShare]

\* What the file holds already, with the account's share inserted.
Merged ==
    [a \in Account |-> IF a = account THEN runs
                       ELSE IF plain[party] = Absent THEN NoShare
                       ELSE plain[party][a]]

\* Load, merge, and open the output, which truncates it.
Open ==
    /\ phase = "load"
    /\ enc[party] = Absent /\ plain[party] # Broken
    /\ json' = Merged
    /\ Output(Broken)
    /\ phase' = "write"
    /\ UNCHANGED <<runVars, outcome>>

\* A recipient that does not parse, a file that cannot be created.
OpenFails ==
    /\ "write" \in Faults
    /\ phase = "load"
    /\ Fails
    /\ UNCHANGED <<plain, enc>>

\* Mutant of LastParty: the loop stops before the last file.
LastButOne == IF N > 1 THEN N - 1 ELSE N

\* Mutant of LastParty: off by one, the loop goes on past the last file.
OnePast == N + 1

LastParty == N

\* Write and finish; on to the next party, or done.
Write ==
    /\ phase = "write"
    /\ Output(json)
    /\ IF party < LastParty
       THEN party' = party + 1 /\ phase' = "load" /\ UNCHANGED result
       ELSE UNCHANGED party /\ phase' = "idle" /\ result' = "ok"
    /\ UNCHANGED <<runs, account, encrypting, before, json, failed>>

\* Mutant of WriteFails: the error is logged, and the loop goes on.
WriteFailsGoesOn ==
    /\ "write" \in Faults
    /\ phase = "write"
    /\ IF party < LastParty
       THEN party' = party + 1 /\ phase' = "load" /\ UNCHANGED outcome
       ELSE UNCHANGED party /\ phase' = "idle" /\ result' = "failed" /\ failed' = TRUE
    /\ UNCHANGED <<plain, enc, runs, account, encrypting, before, json>>

\* The disk is full: the file stays truncated.
WriteFails ==
    /\ "write" \in Faults
    /\ phase = "write"
    /\ Fails
    /\ UNCHANGED <<plain, enc>>

Kill ==
    /\ "kill" \in Faults
    /\ phase # "idle"
    /\ Fails
    /\ UNCHANGED <<plain, enc>>

\* key-gen/ENCRYPTION.md, to append to encrypted files: decrypt them, remove
\* the encrypted ones, run the tool.
Decrypt(ps) ==
    /\ phase = "idle"
    /\ \A i \in ps : enc[i] \notin {Absent, Broken}
    /\ plain' = [i \in Party |-> IF i \in ps THEN enc[i] ELSE plain[i]]
    /\ enc' = [i \in Party |-> IF i \in ps THEN Absent ELSE enc[i]]
    /\ UNCHANGED <<runVars, phase, json, outcome>>

Next ==
    \/ \E a \in Account, keys \in 0..N : Run(a, keys)
    \/ Refuse
    \/ Open
    \/ OpenFails
    \/ Write
    \/ WriteFails
    \/ Kill
    \/ Decrypt(Party)
    \/ "partial" \in Faults /\ \E i \in Party : Decrypt({i})

Spec == Init /\ [][Next]_vars

-----------------------------------------------------------------------------
Readable(f) == f \notin {Absent, Broken}
Share(f, a) == IF Readable(f) THEN f[a] ELSE NoShare

\* A run that reports success has left its account's share, of this dealing,
\* with every party, and has kept what each party held for other accounts -
\* whatever earlier runs that failed or were killed had left behind.
SuccessIsComplete ==
    phase = "idle" /\ result = "ok" =>
        \A i \in Party : /\ Share(Current(i), account) = runs
                         /\ \A a \in Account \ {account} :
                               Share(Current(i), a) = Share(before[i], a)

\* An account's shares with all parties are of the same dealing, or nobody has
\* any: shares of two dealings cannot sign together.
Consistent(a) == \A i, j \in Party : Share(Current(i), a) = Share(Current(j), a)

\* As long as no run has failed, whatever the operator has decrypted meanwhile
\* and whether runs encrypt or not, every account can sign between runs.
SameDealing == phase = "idle" /\ ~failed => \A a \in Account : Consistent(a)

\* What party i held for some other account is not what it holds now.
Lost(i) ==
    \E a \in Account \ {account} : Share(Current(i), a) # Share(before[i], a)

\* A run, however it ends and in whichever mix of plain and encrypted files,
\* costs the other accounts the shares of one party at most: save_to_files
\* has one file open at a time, and ends with the first error.  With more
\* parties than the threshold those accounts outlive a full disk or a kill;
\* with the default, two of two, the one file has to come from a backup.
OnePartyAtRisk == phase = "idle" => \A i, j \in Party : Lost(i) /\ Lost(j) => i = j

\* key-gen's ENCRYPTION.md: decrypt the existing file, remove the encrypted
\* one, run the tool.  When the tool refuses, no account has been torn apart.
RefusalIsHarmless == phase = "idle" => \A a \in Account : Consistent(a)
=============================================================================
