--------------------------- MODULE Gateway_proofs ---------------------------
(***************************************************************************)
(* What Gateway's run checks on a small instance, for any number of calls  *)
(* at a time and any durations that TimesAssumption allows.                *)
(***************************************************************************)
EXTENDS Gateway, SequenceTheorems, TLAPS

-----------------------------------------------------------------------------
(* The invariant *)

\* How many of the calls that were there before the i-th one have left.
Left(i) == line[i].ahead - (i - 1)

\* Nobody overtakes, and a free lock has not been held.
Placed ==
    /\ \A i \in Calls : i - 1 <= line[i].ahead
    /\ ~locked => held = 0

\* A call has waited d for each call that has left before it, and for the one
\* that has the lock as long as that one has had it.
Aged(d) == held <= d /\ \A i \in Calls : line[i].age <= Left(i) * d + held

\* Within capacity: everyone is alive, and who came with as many before it as
\* it found is through before its Timeout.
Fits ==
    ~excused =>
        \A i \in Calls : line[i].alive /\ (line[i].ahead + 1) * Duration < Timeout

InTime == ~excused /\ actix = "up" => Aged(Duration)

\* Calls are accepted by a server that serves; main has its JoinHandle until
\* it has ended, and has left none behind when it exits.
Guarded ==
    /\ line # <<>> => grpc \in {"serving", "draining"}
    /\ main = "connecting" => grpc = "none"
    /\ main \notin {"connecting", "exited"} => "grpc" \in open \/ grpc = "ended"
    /\ main = "exited" => line = <<>>

IInv == TypeOK /\ Placed /\ Aged(Hold) /\ Fits /\ InTime /\ Guarded

\* A gateway that has just started has no calls.
LEMMA IInvInit == Init => IInv
<1> SUFFICES ASSUME Init PROVE IInv
  OBVIOUS
<1> USE TimesAssumption
<1>1. line = <<>> /\ line \in Seq(CallRecord) /\ Len(line) = 0 /\ Calls = {}
  <2>1. line = <<>> /\ line \in Seq(CallRecord) /\ Len(line) = 0
    BY EmptySeq DEF Init, QueueInit
  <2>2. Calls = 1..Len(line)
    BY <2>1, LenProperties DEF Calls
  <2> QED BY <2>1, <2>2
<1>2. TypeOK
  <2>1. held \in 0..Hold /\ Len(line) <= MaxCalls
    BY <1>1 DEF Init, QueueInit
  <2>2. locked \in BOOLEAN /\ ~locked /\ excused \in BOOLEAN
    BY DEF Init, QueueInit
  <2> QED BY <1>1, <2>1, <2>2 DEF Init, TypeOK, QueueTypeOK
<1>3. Placed /\ Aged(Hold) /\ Fits /\ InTime
  BY <1>1 DEF Init, QueueInit, Placed, Aged, Fits, InTime
<1>4. Guarded
  BY <1>1 DEF Init, Guarded
<1> QED BY <1>2, <1>3, <1>4 DEF IInv

-----------------------------------------------------------------------------
(* Arithmetic, and what the steps do to the line *)

\* One more call that has left is one more time d.
LEMMA OneMore ==
  ASSUME NEW n \in Nat, NEW d \in Nat
  PROVE  /\ n * d \in Nat
         /\ (n + 1) * d = n * d + d
  OBVIOUS

\* Fewer calls take no longer.
LEMMA NoMore ==
  ASSUME NEW m \in Nat, NEW n \in Nat, NEW d \in Nat, m <= n
  PROVE  m * d <= n * d
<1>1. PICK k \in Nat : n = m + k
  <2>1. n - m \in Nat /\ n = m + (n - m)
    OBVIOUS
  <2> QED BY <2>1
<1>2. n * d = m * d + k * d /\ k * d \in Nat /\ m * d \in Nat
  BY <1>1
<1> QED BY <1>2

\* The line's places, and what stands in them.
LEMMA Places ==
  ASSUME QueueTypeOK
  PROVE  /\ Len(line) \in Nat /\ Calls = 1..Len(line)
         /\ \A i \in Calls : line[i] \in CallRecord
         /\ \A i \in Calls : /\ i \in Nat /\ i >= 1
                             /\ line[i].age \in Nat /\ line[i].ahead \in Nat
                             /\ line[i].ahead <= MaxCalls - 1
         /\ held \in Nat /\ held <= Hold
         /\ line = <<>> <=> Len(line) = 0
<1>1. Len(line) \in Nat /\ Calls = 1..Len(line)
  BY LenProperties DEF QueueTypeOK, Calls
<1>2. \A i \in Calls : line[i] \in CallRecord
  BY <1>1, ElementOfSeq DEF QueueTypeOK
<1>3. line = <<>> <=> Len(line) = 0
  BY EmptySeq DEF QueueTypeOK
<1> QED BY <1>1, <1>2, <1>3, TimesAssumption DEF CallRecord, QueueTypeOK

\* A call that leaves closes its gap: those behind it move up by one.
LEMMA LeavesShifts ==
  ASSUME QueueTypeOK, NEW i \in Calls, Leaves(i)
  PROVE  /\ line' \in Seq(CallRecord) /\ Len(line') = Len(line) - 1
         /\ Calls' = 1..(Len(line) - 1)
         /\ \A j \in 1..(Len(line) - 1) :
               line'[j] = IF j < i THEN line[j] ELSE line[j + 1]
<1>1. /\ Len(line) \in Nat /\ i \in 1..Len(line)
      /\ \A j \in 1..Len(line) : line[j] \in CallRecord
  BY Places
<1> DEFINE s == SubSeq(line, 1, i - 1)
           t == SubSeq(line, i + 1, Len(line))
<1>2. /\ s \in Seq(CallRecord) /\ Len(s) = i - 1
      /\ \A j \in 1..(i - 1) : s[j] = line[j]
  <2>1. \A j \in 1..(i - 1) : line[j] \in CallRecord
    BY <1>1
  <2>2. 1 \in Int /\ i - 1 \in Int
    BY <1>1
  <2>3. /\ s \in Seq(CallRecord)
        /\ Len(s) = IF 1 <= i - 1 THEN i - 1 - 1 + 1 ELSE 0
        /\ \A j \in 1..(i - 1 - 1 + 1) : s[j] = line[1 + j - 1]
    BY <2>1, <2>2, SubSeqProperties
  <2> HIDE DEF s
  <2> QED BY <1>1, <2>3
<1>3. /\ t \in Seq(CallRecord) /\ Len(t) = Len(line) - i
      /\ \A j \in 1..(Len(line) - i) : t[j] = line[i + j]
  <2>1. \A j \in (i + 1)..Len(line) : line[j] \in CallRecord
    BY <1>1
  <2>2. i + 1 \in Int /\ Len(line) \in Int
    BY <1>1
  <2>3. /\ t \in Seq(CallRecord)
        /\ Len(t) = IF i + 1 <= Len(line) THEN Len(line) - (i + 1) + 1 ELSE 0
        /\ \A j \in 1..(Len(line) - (i + 1) + 1) : t[j] = line[i + 1 + j - 1]
    BY <2>1, <2>2, SubSeqProperties
  <2> HIDE DEF t
  <2> QED BY <1>1, <2>3
<1>4. line' = s \o t
  BY DEF Leaves, RemoveAt
<1> HIDE DEF s, t
<1>5. /\ line' \in Seq(CallRecord) /\ Len(line') = Len(s) + Len(t)
      /\ \A j \in 1..(Len(s) + Len(t)) :
            line'[j] = IF j <= Len(s) THEN s[j] ELSE t[j - Len(s)]
  BY <1>2, <1>3, <1>4, ConcatProperties
<1>6. Len(s) + Len(t) = Len(line) - 1
  BY <1>1, <1>2, <1>3
<1>7. ASSUME NEW j \in 1..(Len(line) - 1)
      PROVE  line'[j] = IF j < i THEN line[j] ELSE line[j + 1]
  <2>1. CASE j < i
    <3>1. j \in 1..(i - 1) /\ j <= Len(s)
      BY <1>1, <1>2, <2>1
    <3> QED BY <1>2, <1>5, <1>6, <2>1, <3>1
  <2>2. CASE ~(j < i)
    <3>1. j - (i - 1) \in 1..(Len(line) - i) /\ i + (j - (i - 1)) = j + 1
          /\ ~(j <= Len(s))
      BY <1>1, <1>2, <2>2
    <3> QED BY <1>2, <1>3, <1>5, <1>6, <2>2, <3>1
  <2> QED BY <2>1, <2>2
<1>8. Calls' = 1..Len(line')
  BY <1>5, LenProperties DEF Calls
<1> QED BY <1>5, <1>6, <1>7, <1>8

\* A call that comes takes the last place.
LEMMA ArriveAppends ==
  ASSUME QueueTypeOK, Arrive
  PROVE  LET new == [age |-> 0, alive |-> TRUE, ahead |-> Len(line)] IN
         /\ new \in CallRecord /\ line' \in Seq(CallRecord) /\ Len(line') = Len(line) + 1
         /\ Calls' = 1..(Len(line) + 1)
         /\ \A i \in Calls : line'[i] = line[i]
         /\ line'[Len(line) + 1] = new
<1> DEFINE new == [age |-> 0, alive |-> TRUE, ahead |-> Len(line)]
<1>1. new \in CallRecord
  BY Places, TimesAssumption DEF Arrive, CallRecord, QueueTypeOK
<1>2. line' = Append(line, new)
  BY DEF Arrive
<1> HIDE DEF new
<1>3. /\ line' \in Seq(CallRecord) /\ Len(line') = Len(line) + 1
      /\ \A i \in 1..Len(line) : line'[i] = line[i]
      /\ line'[Len(line) + 1] = new
  BY <1>1, <1>2, AppendProperties DEF QueueTypeOK
<1>4. Calls' = 1..Len(line')
  BY <1>3, LenProperties DEF Calls
<1> QED BY <1>1, <1>3, <1>4, Places DEF new

\* A line with a call in each of its places is one of the same length.
LEMMA SamePlaces ==
  ASSUME QueueTypeOK, line' \in [Calls -> CallRecord]
  PROVE  line' \in Seq(CallRecord) /\ Len(line') = Len(line) /\ Calls' = Calls
<1>1. Len(line) \in Nat /\ Calls = 1..Len(line)
  BY Places
<1>2. line' \in Seq(CallRecord)
  BY <1>1, IsASeq
<1>3. Len(line') \in Nat /\ Calls' = 1..Len(line') /\ Calls' = 1..Len(line)
  BY <1>1, <1>2, LenProperties DEF Calls
<1>4. Len(line') = Len(line)
  BY <1>1, <1>2, LenProperties
<1> QED BY <1>1, <1>2, <1>3, <1>4

\* A call whose SDK dies keeps its place and its age.
LEMMA DiesInPlace ==
  ASSUME QueueTypeOK, NEW i \in Calls, Dies(i)
  PROVE  /\ line' \in Seq(CallRecord) /\ Len(line') = Len(line) /\ Calls' = Calls
         /\ \A j \in Calls : line'[j].ahead = line[j].ahead /\ line'[j].age = line[j].age
<1>1. line \in [Calls -> CallRecord]
  BY Places, LenProperties DEF QueueTypeOK
<1>2. line' = [line EXCEPT ![i] = [line[i] EXCEPT !.alive = FALSE]]
  BY DEF Dies
<1>3. /\ [line[i] EXCEPT !.alive = FALSE] \in CallRecord
      /\ [line[i] EXCEPT !.alive = FALSE].ahead = line[i].ahead
      /\ [line[i] EXCEPT !.alive = FALSE].age = line[i].age
  BY <1>1 DEF CallRecord
<1> QED BY <1>1, <1>2, <1>3, SamePlaces

\* A tick makes all calls older, and changes nothing else of them.
LEMMA TickAges ==
  ASSUME QueueTypeOK, NEW b \in BOOLEAN, Tick(b)
  PROVE  /\ line' \in Seq(CallRecord) /\ Len(line') = Len(line) /\ Calls' = Calls
         /\ \A j \in Calls : /\ line'[j].ahead = line[j].ahead
                             /\ line'[j].alive = line[j].alive
                             /\ line'[j].age = line[j].age + 1
<1>1. \A j \in Calls : line[j] \in CallRecord
  BY Places
<1>2. line' = [j \in Calls |-> [line[j] EXCEPT !.age = @ + 1]]
  BY DEF Tick
<1>3. \A j \in Calls : /\ [line[j] EXCEPT !.age = @ + 1] \in CallRecord
                       /\ [line[j] EXCEPT !.age = @ + 1].ahead = line[j].ahead
                       /\ [line[j] EXCEPT !.age = @ + 1].alive = line[j].alive
                       /\ [line[j] EXCEPT !.age = @ + 1].age = line[j].age + 1
  BY <1>1 DEF CallRecord
<1> QED BY <1>2, <1>3, SamePlaces

-----------------------------------------------------------------------------
(* The queue's steps, and what they keep of the waiting times *)

\* A step of the queue, at a gateway that has not exited.
QueueStep ==
    \/ Arrive \/ Forward
    \/ \E i \in Calls : Leaves(i) \/ Dies(i)
    \/ \E b \in BOOLEAN : Tick(b)

\* The call that has the lock leaves it within Hold.
LEMMA HeldGrows ==
  ASSUME QueueTypeOK, NEW b \in BOOLEAN, Tick(b)
  PROVE  /\ held' = held + 1 /\ held < Hold
         /\ b /\ PeerWaits(1) => held < Duration
<1>1. Duration < Hold /\ Duration \in Nat /\ Hold \in Nat /\ held \in Nat
  BY TimesAssumption, Places
<1> QED BY <1>1 DEF Tick, Due

\* The types of the queue.
LEMMA QueueTyped ==
  ASSUME QueueTypeOK, QueueStep
  PROVE  QueueTypeOK'
<1> USE TimesAssumption
<1>1. /\ Len(line) \in Nat /\ Calls = 1..Len(line) /\ held \in Nat /\ held <= Hold
      /\ Len(line) <= MaxCalls /\ (line = <<>> <=> Len(line) = 0)
  BY Places DEF QueueTypeOK
<1>2. ASSUME line' \in Seq(CallRecord)
      PROVE  Len(line') \in Nat /\ (line' = <<>> <=> Len(line') = 0)
  BY <1>2, LenProperties, EmptySeq
<1>3. CASE Arrive
  <2>1. line' \in Seq(CallRecord) /\ Len(line') = Len(line) + 1
    BY <1>3, ArriveAppends
  <2>2. /\ Len(line) < MaxCalls /\ locked' = locked /\ held' = held /\ excused' \in BOOLEAN
    BY <1>3 DEF Arrive, QueueTypeOK
  <2> QED BY <1>1, <1>2, <2>1, <2>2 DEF QueueTypeOK
<1>4. CASE Forward
  BY <1>4 DEF Forward, QueueTypeOK
<1>5. ASSUME NEW i \in Calls, Leaves(i) PROVE QueueTypeOK'
  <2>1. line' \in Seq(CallRecord) /\ Len(line') = Len(line) - 1
    BY <1>5, LeavesShifts
  <2>2. locked' \in BOOLEAN /\ excused' \in BOOLEAN /\ (locked' => i # 1)
    BY <1>5 DEF Leaves
  <2>3. held' \in 0..Hold
    BY <1>1, <1>5 DEF Leaves
  <2>4. i # 1 => Len(line') # 0
    BY <1>1, <2>1
  <2>5. Len(line') <= MaxCalls
    BY <1>1, <2>1
  <2> QED BY <1>2, <2>1, <2>2, <2>3, <2>4, <2>5 DEF QueueTypeOK
<1>6. ASSUME NEW i \in Calls, Dies(i) PROVE QueueTypeOK'
  <2>1. line' \in Seq(CallRecord) /\ Len(line') = Len(line)
    BY <1>6, DiesInPlace
  <2> QED BY <1>1, <1>2, <1>6, <2>1 DEF Dies, QueueTypeOK
<1>7. ASSUME NEW b \in BOOLEAN, Tick(b) PROVE QueueTypeOK'
  <2>1. line' \in Seq(CallRecord) /\ Len(line') = Len(line)
    BY <1>7, TickAges
  <2>2. held' \in 0..Hold
    BY <1>1, <1>7, HeldGrows
  <2> QED BY <1>1, <1>2, <1>7, <2>1, <2>2 DEF Tick, QueueTypeOK
<1> QED BY <1>3, <1>4, <1>5, <1>6, <1>7 DEF QueueStep

\* Nobody overtakes: a call's place is at most the one it came to.
LEMMA PlacedNext ==
  ASSUME QueueTypeOK, Placed, QueueStep
  PROVE  Placed'
<1>1. /\ Len(line) \in Nat /\ Calls = 1..Len(line)
      /\ \A i \in Calls : line[i].ahead \in Nat /\ i - 1 <= line[i].ahead
  BY Places DEF Placed
<1>2. CASE Arrive
  <2>1. /\ Calls' = 1..(Len(line) + 1)
        /\ \A i \in Calls : line'[i] = line[i]
        /\ line'[Len(line) + 1].ahead = Len(line)
    BY <1>2, ArriveAppends
  <2>2. locked' = locked /\ held' = held
    BY <1>2 DEF Arrive
  <2>3. \A i \in Calls' : i - 1 <= line'[i].ahead
    BY <1>1, <2>1
  <2> QED BY <2>2, <2>3 DEF Placed
<1>3. CASE Forward
  BY <1>3 DEF Forward, Placed, Calls
<1>4. ASSUME NEW i \in Calls, Leaves(i) PROVE Placed'
  <2>1. /\ Calls' = 1..(Len(line) - 1)
        /\ \A j \in 1..(Len(line) - 1) :
              line'[j] = IF j < i THEN line[j] ELSE line[j + 1]
    BY <1>4, LeavesShifts
  <2>2. \A j \in Calls' : j - 1 <= line'[j].ahead
    BY <1>1, <2>1
  <2> QED BY <1>4, <2>2 DEF Leaves, Placed
<1>5. ASSUME NEW i \in Calls, Dies(i) PROVE Placed'
  <2>1. Calls' = Calls /\ \A j \in Calls : line'[j].ahead = line[j].ahead
    BY <1>5, DiesInPlace
  <2> QED BY <1>5, <2>1 DEF Dies, Placed
<1>6. ASSUME NEW b \in BOOLEAN, Tick(b) PROVE Placed'
  <2>1. Calls' = Calls /\ \A j \in Calls : line'[j].ahead = line[j].ahead
    BY <1>6, TickAges
  <2> QED BY <1>6, <2>1 DEF Tick, Placed
<1> QED BY <1>2, <1>3, <1>4, <1>5, <1>6 DEF QueueStep

\* If the lock is not held longer than d, nobody waits longer than d for each
\* call that was there before it.
LEMMA AgedNext ==
  ASSUME QueueTypeOK, Placed, QueueStep, NEW d \in Nat, Aged(d), held' <= d
  PROVE  Aged(d)'
<1>1. /\ Len(line) \in Nat /\ Calls = 1..Len(line) /\ held \in Nat /\ held <= d
      /\ \A i \in Calls : i \in Nat /\ line[i].age \in Nat /\ line[i].ahead \in Nat
  BY Places DEF Aged
<1>2. \A i \in Calls : Left(i) \in Nat
  BY <1>1 DEF Placed, Left
<1>3. \A i \in Calls : line[i].age <= Left(i) * d + held /\ Left(i) * d \in Nat
  BY <1>2, OneMore DEF Aged
<1>4. CASE Arrive
  <2>1. /\ Calls' = 1..(Len(line) + 1)
        /\ \A i \in Calls : line'[i] = line[i]
        /\ line'[Len(line) + 1] = [age |-> 0, alive |-> TRUE, ahead |-> Len(line)]
    BY <1>4, ArriveAppends
  <2>2. held' = held
    BY <1>4 DEF Arrive
  <2>3. \A i \in Calls : Left(i)' = Left(i)
    BY <2>1 DEF Left
  <2>4. 0 * d = 0
    OBVIOUS
  <2>5. ASSUME NEW i \in Calls' PROVE line'[i].age <= Left(i)' * d + held'
    <3>1. CASE i \in Calls
      BY <1>3, <2>1, <2>2, <2>3, <3>1
    <3>2. CASE i = Len(line) + 1
      <4>1. line'[i].ahead = Len(line) /\ line'[i].age = 0
        BY <2>1, <3>2
      <4>2. Left(i)' = 0
        BY <1>1, <3>2, <4>1 DEF Left
      <4> QED BY <1>1, <2>2, <2>4, <4>1, <4>2
    <3> QED BY <1>1, <2>1, <3>1, <3>2
  <2> QED BY <2>5 DEF Aged
<1>5. CASE Forward
  BY <1>5 DEF Forward, Aged, Left, Calls
<1>6. ASSUME NEW i \in Calls, Leaves(i) PROVE Aged(d)'
  <2>1. /\ Calls' = 1..(Len(line) - 1)
        /\ \A j \in 1..(Len(line) - 1) :
              line'[j] = IF j < i THEN line[j] ELSE line[j + 1]
    BY <1>6, LeavesShifts
  <2>2. held' = IF i = 1 THEN 0 ELSE held
    BY <1>6 DEF Leaves
  <2>3. ASSUME NEW j \in Calls' PROVE line'[j].age <= Left(j)' * d + held'
    <3>1. CASE j < i
      <4>1. j \in Calls /\ i # 1 /\ line'[j] = line[j] /\ Left(j)' = Left(j)
        BY <1>1, <2>1, <3>1 DEF Left
      <4> QED BY <1>3, <2>2, <4>1
    <3>2. CASE ~(j < i)
      <4>1. j + 1 \in Calls /\ line'[j] = line[j + 1]
        BY <1>1, <2>1, <3>2
      <4>2. Left(j)' = Left(j + 1) + 1
        BY <1>1, <2>1, <4>1 DEF Left
      <4>3. Left(j)' * d = Left(j + 1) * d + d
        BY <1>2, <4>1, <4>2, OneMore
      <4>4. line[j + 1].age <= Left(j + 1) * d + d
        BY <1>1, <1>3, <4>1
      <4> QED BY <1>1, <1>3, <2>2, <4>1, <4>3, <4>4
    <3> QED BY <3>1, <3>2
  <2> QED BY <2>3 DEF Aged
<1>7. ASSUME NEW i \in Calls, Dies(i) PROVE Aged(d)'
  <2>1. /\ Calls' = Calls
        /\ \A j \in Calls : line'[j].ahead = line[j].ahead /\ line'[j].age = line[j].age
    BY <1>7, DiesInPlace
  <2>2. held' = held
    BY <1>7 DEF Dies
  <2> QED BY <2>1, <2>2 DEF Aged, Left
<1>8. ASSUME NEW b \in BOOLEAN, Tick(b) PROVE Aged(d)'
  <2>1. /\ Calls' = Calls
        /\ \A j \in Calls : line'[j].ahead = line[j].ahead /\ line'[j].age = line[j].age + 1
    BY <1>8, TickAges
  <2>2. held' = held + 1
    BY <1>8, HeldGrows
  <2>3. \A j \in Calls : Left(j)' = Left(j)
    BY <2>1 DEF Left
  <2>4. \A j \in Calls : line[j].age + 1 <= Left(j) * d + (held + 1)
    BY <1>1, <1>3
  <2> QED BY <2>1, <2>2, <2>3, <2>4 DEF Aged
<1> QED BY <1>4, <1>5, <1>6, <1>7, <1>8 DEF QueueStep

-----------------------------------------------------------------------------
(* The gateway's steps *)

\* A step of the queue, with all that the process adds to its guard.
CallMoves ==
    /\ main # "exited" /\ UNCHANGED procVars
    /\ \/ grpc = "serving" /\ Arrive
       \/ Forward
       \/ \E i \in Calls : Leaves(i) \/ Dies(i)
       \/ Tick(actix = "up")

\* A step of the process leaves the calls alone.  The SSE server that comes up
\* finds the ones that are there already late.
ProcessMoves ==
    /\ UNCHANGED <<line, locked, held>>
    /\ \/ excused' = excused /\ (actix' = "up" => actix = "up")
       \/ excused' = (excused \/ line # <<>>)

LEMMA CallSteps ==
  ASSUME TypeOK, Call \/ Pass
  PROVE  CallMoves
<1>1. CASE Pass
  BY <1>1 DEF Pass, CallMoves
<1>2. CASE Call
  <2>1. main # "exited" /\ UNCHANGED procVars
    BY <1>2 DEF Call
  <2>2. CASE Accept
    BY <2>1, <2>2 DEF Accept, CallMoves
  <2>3. CASE Forward
    BY <2>1, <2>3 DEF CallMoves
  <2>4. CASE Answered
    <3>1. locked /\ Leaves(1)
      BY <2>4 DEF Answered, Completed, Succeed, Refused
    <3>2. 1 \in Calls
      BY <3>1, Places DEF TypeOK, QueueTypeOK
    <3> QED BY <2>1, <3>1, <3>2 DEF CallMoves
  <2>5. CASE Lost
    <3>1. PICK i \in Calls : Dies(i) \/ Cancelled(i)
      BY <2>5 DEF Lost
    <3> QED BY <2>1, <3>1 DEF CallMoves, Cancelled
  <2> QED BY <1>2, <2>2, <2>3, <2>4, <2>5 DEF Call
<1> QED BY <1>1, <1>2

LEMMA ProcessSteps ==
  ASSUME TypeOK, Guarded,
         \/ Connect \/ ConnectFails \/ Signal \/ SseEnded \/ GrpcEnded
         \/ Main \/ Sse \/ Grpc \/ ActixStops \/ ActixDown \/ Exited \/ UNCHANGED vars
  PROVE  TypeOK' /\ Guarded' /\ ProcessMoves
<1> USE DEF callVars, TypeOK, Guarded, ProcessMoves
<1>1. ASSUME UNCHANGED <<line, locked, held>>, excused' \in BOOLEAN PROVE QueueTypeOK'
  BY <1>1 DEF QueueTypeOK
<1>2. excused \in BOOLEAN /\ (excused \/ line # <<>>) \in BOOLEAN
  BY DEF QueueTypeOK
<1>3. CASE Connect
  BY <1>1, <1>2, <1>3 DEF Connect
<1>4. CASE ConnectFails
  BY <1>1, <1>2, <1>4 DEF ConnectFails
<1>5. CASE Signal
  BY <1>1, <1>2, <1>5 DEF Signal
<1>6. CASE SseEnded
  BY <1>1, <1>2, <1>6 DEF SseEnded
<1>7. CASE GrpcEnded
  BY <1>1, <1>2, <1>7 DEF GrpcEnded
<1>8. CASE Main
  <2>1. CASE Shutdown
    BY <1>1, <1>2, <2>1 DEF Shutdown
  <2>2. CASE StopReturns
    BY <1>1, <1>2, <2>2 DEF StopReturns
  <2>3. CASE JoinSse
    BY <1>1, <1>2, <2>3 DEF JoinSse
  <2>4. CASE JoinGrpc
    BY <1>1, <1>2, <2>4 DEF JoinGrpc
  <2> QED BY <1>8, <2>1, <2>2, <2>3, <2>4 DEF Main
<1>9. CASE Sse
  <2>1. CASE SseStart
    BY <1>1, <1>2, <2>1 DEF SseStart
  <2>2. CASE SseBindFails
    BY <1>1, <1>2, <2>2 DEF SseBindFails
  <2>3. CASE SseTold
    BY <1>1, <1>2, <2>3 DEF SseTold
  <2>4. CASE SseEnds
    BY <1>1, <1>2, <2>4 DEF SseEnds
  <2> QED BY <1>9, <2>1, <2>2, <2>3, <2>4 DEF Sse
<1>10. CASE Grpc
  <2>1. CASE GrpcStart
    BY <1>1, <1>2, <2>1 DEF GrpcStart
  <2>2. CASE GrpcBindFails
    BY <1>1, <1>2, <2>2 DEF GrpcBindFails
  <2>3. CASE GrpcDrain
    BY <1>1, <1>2, <2>3 DEF GrpcDrain
  <2>4. CASE GrpcEnds
    BY <1>1, <1>2, <2>4 DEF GrpcEnds
  <2> QED BY <1>10, <2>1, <2>2, <2>3, <2>4 DEF Grpc
<1>11. CASE ActixStops
  BY <1>1, <1>2, <1>11 DEF ActixStops
<1>12. CASE ActixDown
  BY <1>1, <1>2, <1>12 DEF ActixDown
<1>13. CASE Exited \/ UNCHANGED vars
  <2>1. /\ line' = line /\ locked' = locked /\ held' = held /\ excused' = excused
        /\ main' = main /\ sse' = sse /\ actix' = actix /\ handle' = handle
        /\ grpc' = grpc /\ open' = open /\ signalled' = signalled
    BY <1>13 DEF Exited, vars, procVars
  <2> QED BY <1>1, <1>2, <2>1
<1> QED BY <1>3, <1>4, <1>5, <1>6, <1>7, <1>8, <1>9, <1>10, <1>11, <1>12, <1>13

-----------------------------------------------------------------------------
(* The parts of the invariant that are about capacity *)

\* Between one idle moment and the next, excuses only come.
LEMMA ExcusesStay ==
  ASSUME TypeOK, CallMoves, ~excused'
  PROVE  ~excused \/ (Calls' = {} /\ held' = 0)
<1>1. CASE Arrive
  BY <1>1 DEF Arrive
<1>2. CASE Forward
  BY <1>2 DEF Forward
<1>3. ASSUME NEW i \in Calls, Leaves(i)
      PROVE  ~excused \/ (Calls' = {} /\ held' = 0)
  <2>1. /\ Len(line) \in Nat /\ i \in 1..Len(line)
        /\ Calls' = 1..(Len(line) - 1)
    BY <1>3, Places, LeavesShifts DEF TypeOK
  <2>2. held' = IF i = 1 THEN 0 ELSE held
    BY <1>3 DEF Leaves
  <2>3. ~excused \/ ~(Len(line) > 1)
    BY <1>3 DEF Leaves
  <2>4. CASE ~(Len(line) > 1)
    BY <2>1, <2>2, <2>4
  <2> QED BY <2>3, <2>4
<1>4. ASSUME NEW i \in Calls, Dies(i) PROVE FALSE
  BY <1>4 DEF Dies
<1>5. CASE Tick(actix = "up")
  BY <1>5 DEF Tick
<1> QED BY <1>1, <1>2, <1>3, <1>4, <1>5 DEF CallMoves

LEMMA FitsNext ==
  ASSUME TypeOK, Fits, CallMoves
  PROVE  Fits'
<1> SUFFICES ASSUME ~excused', NEW i \in Calls'
             PROVE  line'[i].alive /\ (line'[i].ahead + 1) * Duration < Timeout
  BY DEF Fits
<1>1. /\ Len(line) \in Nat /\ Calls = 1..Len(line) /\ QueueTypeOK
      /\ Duration \in Nat /\ Timeout \in Nat
  BY Places, TimesAssumption DEF TypeOK
<1>2. ~excused
  BY ExcusesStay
<1>3. \A j \in Calls : line[j].alive /\ (line[j].ahead + 1) * Duration < Timeout
  BY <1>2 DEF Fits
<1>4. CASE Arrive
  <2>1. /\ Calls' = 1..(Len(line) + 1)
        /\ \A j \in Calls : line'[j] = line[j]
        /\ line'[Len(line) + 1] = [age |-> 0, alive |-> TRUE, ahead |-> Len(line)]
    BY <1>1, <1>4, ArriveAppends
  <2>2. ~((Len(line) + 1) * Duration >= Timeout)
    BY <1>4 DEF Arrive
  <2>3. (Len(line) + 1) * Duration \in Nat
    BY <1>1
  <2>4. CASE i \in Calls
    BY <1>3, <2>1, <2>4
  <2>5. CASE i = Len(line) + 1
    <3>1. line'[i].alive /\ line'[i].ahead = Len(line)
      BY <2>1, <2>5
    <3> QED BY <1>1, <2>2, <2>3, <3>1
  <2> QED BY <1>1, <2>1, <2>4, <2>5
<1>5. CASE Forward
  BY <1>3, <1>5 DEF Forward, Calls
<1>6. ASSUME NEW j \in Calls, Leaves(j)
      PROVE  line'[i].alive /\ (line'[i].ahead + 1) * Duration < Timeout
  <2>1. /\ i \in 1..(Len(line) - 1)
        /\ line'[i] = IF i < j THEN line[i] ELSE line[i + 1]
    BY <1>1, <1>6, LeavesShifts
  <2>2. i \in Calls /\ i + 1 \in Calls
    BY <1>1, <2>1
  <2> QED BY <1>3, <2>1, <2>2
<1>7. ASSUME NEW j \in Calls, Dies(j) PROVE FALSE
  BY <1>7 DEF Dies
<1>8. CASE Tick(actix = "up")
  <2>1. Calls' = Calls /\ \A j \in Calls : /\ line'[j].ahead = line[j].ahead
                                           /\ line'[j].alive = line[j].alive
    BY <1>1, <1>8, TickAges
  <2> QED BY <1>3, <2>1
<1> QED BY <1>4, <1>5, <1>6, <1>7, <1>8 DEF CallMoves

\* As long as everyone waits Duration at most for each before it, the call that
\* has the lock has not timed out, and so has it no longer than Duration.
LEMMA InTimeNext ==
  ASSUME TypeOK, Placed, Fits, InTime, CallMoves, QueueStep
  PROVE  InTime'
<1> SUFFICES ASSUME ~excused', actix' = "up"
             PROVE  Aged(Duration)'
  BY DEF InTime
<1>1. /\ Len(line) \in Nat /\ Calls = 1..Len(line) /\ QueueTypeOK
      /\ Duration \in Nat /\ Timeout \in Nat /\ held \in Nat
  BY Places, TimesAssumption DEF TypeOK
<1>2. actix = "up"
  BY DEF CallMoves, procVars
<1>3. CASE Calls' = {} /\ held' = 0
  BY <1>1, <1>3 DEF Aged
<1>4. CASE ~excused
  <2>1. Aged(Duration)
    BY <1>2, <1>4 DEF InTime
  <2>2. held <= Duration
    BY <2>1 DEF Aged
  <2>3. held' <= Duration
    <3>1. CASE Tick(actix = "up")
      <4>1. locked /\ 1 \in Calls
        BY <1>1, <3>1, Places DEF Tick, QueueTypeOK
      <4>2. /\ line[1].age \in Nat /\ line[1].ahead \in Nat
            /\ line[1].age <= Left(1) * Duration + held
        BY <1>1, <2>1, <4>1, Places DEF Aged
      <4>3. Left(1) = line[1].ahead
        BY <4>2 DEF Left
      <4>4. /\ line[1].ahead * Duration \in Nat
            /\ (line[1].ahead + 1) * Duration = line[1].ahead * Duration + Duration
        BY <1>1, <4>2, OneMore
      <4>5. line[1].alive /\ (line[1].ahead + 1) * Duration < Timeout
        BY <1>4, <4>1 DEF Fits
      <4>6. line[1].age < Timeout
        <5> DEFINE before == line[1].ahead * Duration
        <5>1. line[1].age <= before + held
          BY <4>2, <4>3
        <5>2. before \in Nat /\ before + Duration < Timeout
          BY <4>4, <4>5
        <5> HIDE DEF before
        <5> QED BY <1>1, <2>2, <4>2, <5>1, <5>2
      <4>7. held < Duration /\ held' = held + 1
        BY <1>1, <1>2, <3>1, <4>5, <4>6, HeldGrows DEF PeerWaits
      <4> QED BY <1>1, <4>7
    <3>2. CASE ~Tick(actix = "up")
      <4>1. held' = held \/ held' = 0
        BY <3>2 DEF CallMoves, Arrive, Forward, Leaves, Dies
      <4> QED BY <1>1, <2>2, <4>1
    <3> QED BY <3>1, <3>2
  <2> QED BY <1>1, <2>1, <2>3, AgedNext
<1> QED BY <1>3, <1>4, ExcusesStay

-----------------------------------------------------------------------------
(* The invariant is inductive *)

LEMMA CallKeeps ==
  ASSUME IInv, CallMoves
  PROVE  IInv'
<1> USE DEF IInv
<1>1. QueueTypeOK /\ QueueStep
  BY DEF TypeOK, CallMoves, QueueStep
<1>2. QueueTypeOK'
  BY <1>1, QueueTyped
<1>3. TypeOK'
  BY <1>2 DEF TypeOK, CallMoves, procVars
<1>4. Placed'
  BY <1>1, PlacedNext
<1>5. Hold \in Nat /\ held' <= Hold
  BY <1>2, TimesAssumption DEF QueueTypeOK
<1>6. Aged(Hold)'
  BY <1>1, <1>5, AgedNext
<1>7. Fits' /\ InTime'
  BY <1>1, FitsNext, InTimeNext
<1>8. Guarded'
  <2>1. CASE grpc = "serving"
    BY <2>1 DEF Guarded, CallMoves, procVars
  <2>2. CASE line # <<>>
    BY <2>2 DEF Guarded, CallMoves, procVars
  <2>3. CASE line = <<>> /\ ~(grpc = "serving" /\ Arrive)
    <3>1. Calls = {} /\ ~locked
      BY <1>1, <2>3, Places DEF QueueTypeOK
    <3>2. FALSE
      BY <2>3, <3>1 DEF CallMoves, Forward, Tick
    <3> QED BY <3>2
  <2> QED BY <2>1, <2>2, <2>3
<1> QED BY <1>3, <1>4, <1>6, <1>7, <1>8

LEMMA ProcessKeeps ==
  ASSUME IInv, TypeOK', Guarded', ProcessMoves
  PROVE  IInv'
<1> USE DEF IInv
<1>1. UNCHANGED <<line, locked, held>> /\ Calls' = Calls
  BY DEF ProcessMoves, Calls
<1>2. \A i \in Calls : Left(i)' = Left(i)
  BY <1>1 DEF Left
<1>3. Placed' /\ Aged(Hold)'
  BY <1>1, <1>2 DEF Placed, Aged
<1>4. ~excused' => ~excused
  BY DEF ProcessMoves
<1>5. Fits'
  BY <1>1, <1>4 DEF Fits
<1>6. ASSUME ~excused', actix' = "up" PROVE Aged(Duration)'
  <2>1. CASE actix = "up"
    <3>1. Aged(Duration)
      BY <1>4, <1>6, <2>1 DEF InTime
    <3> QED BY <1>1, <1>2, <3>1 DEF Aged
  <2>2. CASE actix # "up"
    <3>1. line = <<>>
      BY <1>6, <2>2 DEF ProcessMoves
    <3>2. Calls = {} /\ ~locked
      BY <3>1, Places DEF TypeOK, QueueTypeOK
    <3>3. held = 0
      BY <3>2 DEF Placed
    <3> QED BY <1>1, <3>2, <3>3, TimesAssumption DEF Aged
  <2> QED BY <2>1, <2>2
<1>7. InTime'
  BY <1>6 DEF InTime
<1> QED BY <1>3, <1>5, <1>7

LEMMA IInvNext == IInv /\ [Next]_vars => IInv'
<1> SUFFICES ASSUME IInv, [Next]_vars PROVE IInv'
  OBVIOUS
<1>1. CASE Call \/ Pass
  BY <1>1, CallSteps, CallKeeps DEF IInv
<1>2. CASE \/ Connect \/ ConnectFails \/ Signal \/ SseEnded \/ GrpcEnded
           \/ Main \/ Sse \/ Grpc \/ ActixStops \/ ActixDown \/ Exited \/ UNCHANGED vars
  BY <1>2, ProcessSteps, ProcessKeeps DEF IInv
<1> QED BY <1>1, <1>2 DEF Next

-----------------------------------------------------------------------------
(* The theorems *)

\* The invariant holds of every gateway, however its tasks and its calls
\* interleave.
THEOREM Inductive == Spec => []IInv
BY IInvInit, IInvNext, PTL DEF Spec

\* Every variable of the gateway and of its queue keeps its type.
THEOREM TypeCorrect == Spec => []TypeOK
<1>1. IInv => TypeOK
  BY DEF IInv
<1> QED BY <1>1, Inductive, PTL

\* A call of sign_tx waits for the lock, and for its answer, Hold at most for
\* itself and for each call it found, whoever dies and in whatever order.
THEOREM NobodyWaitsTooLong == Spec => []WaitIsBounded
<1>1. ASSUME IInv PROVE WaitIsBounded
  <2>1. SUFFICES ASSUME NEW i \in Calls
                 PROVE  line[i].age <= (line[i].ahead + 1) * Hold
    BY DEF WaitIsBounded
  <2>2. /\ i \in Nat /\ i >= 1 /\ line[i].age \in Nat /\ line[i].ahead \in Nat
        /\ held \in Nat /\ held <= Hold /\ Hold \in Nat
    BY <1>1, Places, TimesAssumption DEF IInv, TypeOK
  <2>3. Left(i) \in Nat /\ Left(i) <= line[i].ahead
    BY <1>1, <2>2 DEF IInv, Placed, Left
  <2>4. line[i].age <= Left(i) * Hold + held
    BY <1>1 DEF IInv, Aged
  <2>5. Left(i) * Hold <= line[i].ahead * Hold /\ Left(i) * Hold \in Nat
    BY <2>2, <2>3, NoMore, OneMore
  <2>6. /\ line[i].ahead * Hold \in Nat
        /\ (line[i].ahead + 1) * Hold = line[i].ahead * Hold + Hold
    BY <2>2, OneMore
  <2> QED BY <2>2, <2>4, <2>5, <2>6
<1> QED BY <1>1, Inductive, PTL

\* As long as the calls there at a time take less than Timeout together and
\* their SDKs live, no SDK's own participant times out behind the lock.
THEOREM WithinCapacityAllAreServed == Spec => []WithinCapacityNobodyIsLate
<1>1. ASSUME IInv PROVE WithinCapacityNobodyIsLate
  <2>1. SUFFICES ASSUME NEW i \in Calls, line[i].age >= Timeout, actix = "up", ~excused
                 PROVE  FALSE
    BY DEF WithinCapacityNobodyIsLate
  <2>2. /\ i \in Nat /\ i >= 1 /\ line[i].age \in Nat /\ line[i].ahead \in Nat
        /\ held \in Nat /\ Duration \in Nat /\ Timeout \in Nat
    BY <1>1, Places, TimesAssumption DEF IInv, TypeOK
  <2>3. Left(i) \in Nat /\ Left(i) <= line[i].ahead
    BY <1>1, <2>2 DEF IInv, Placed, Left
  <2>4. held <= Duration /\ line[i].age <= Left(i) * Duration + held
    BY <1>1, <2>1 DEF IInv, InTime, Aged
  <2>5. Left(i) * Duration <= line[i].ahead * Duration /\ Left(i) * Duration \in Nat
    BY <2>2, <2>3, NoMore, OneMore
  <2>6. /\ line[i].ahead * Duration \in Nat
        /\ (line[i].ahead + 1) * Duration = line[i].ahead * Duration + Duration
    BY <2>2, OneMore
  <2>7. (line[i].ahead + 1) * Duration < Timeout
    BY <1>1, <2>1 DEF IInv, Fits
  <2> QED BY <2>1, <2>2, <2>4, <2>5, <2>6, <2>7
<1> QED BY <1>1, Inductive, PTL

\* A gateway that exits has answered, or lost to their SDKs, all the calls it
\* accepted: a signal, a failed bind or a task that ends cuts none.
THEOREM ShutdownCutsNoCall == Spec => []NoCallIsCut
<1>1. IInv => NoCallIsCut
  BY DEF IInv, Guarded, NoCallIsCut
<1> QED BY <1>1, Inductive, PTL
=============================================================================
