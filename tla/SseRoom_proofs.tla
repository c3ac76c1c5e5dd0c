--------------------------- MODULE SseRoom_proofs ---------------------------
(***************************************************************************)
(* What SseRoom's runs check on small instances, for any set of messages,  *)
(* broadcast requests and clients, any EventMod and any MaxHistory.        *)
(***************************************************************************)
EXTENDS SseRoom, SequenceTheorems, TLAPS

-----------------------------------------------------------------------------
(* Types *)

\* An empty room with nobody connected is well typed.
LEMMA InitTyped == Init => TypeOK
  BY EventModAssumption DEF Init, TypeOK, Event

\* What the u16 arithmetic leaves is an event number.
LEMMA Wraps == \A n \in Nat : n % EventMod \in 0..(EventMod - 1)
  BY EventModAssumption

\* last_seen + 1, wrapped, is an event number whatever the client has read.
LEMMA FirstEventTyped ==
  ASSUME NEW s \in Seq(Event)
  PROVE  FirstEvent(s) \in 0..(EventMod - 1)
<1>1. CASE s = <<>>
  BY <1>1, EventModAssumption DEF FirstEvent
<1>2. CASE s # <<>>
  <2>1. s[Len(s)] \in Event
    BY <1>2, EmptySeq, ElementOfSeq
  <2>2. s[Len(s)].id + 1 \in Nat
    BY <2>1 DEF Event
  <2> QED BY <1>2, <2>2, Wraps DEF FirstEvent
<1> QED BY <1>1, <1>2

-----------------------------------------------------------------------------
(* The invariant.  A guard is held by whoever is between taking and dropping *)
(* it; what a subscription saw under its guard stays true while it holds it; *)
(* and a Notified future that nobody has woken waits for a message that is   *)
(* not there, or has a publisher on its way.                                 *)

GuardsHeld ==
    /\ writer # NoOne => readers = {}
    /\ \A p \in Poster : ppc[p] \in {"locked", "pushed", "notified"} <=> writer = p
    /\ \A c \in Client : spc[c] \in {"found", "empty", "armed"} <=> c \in readers

LookHolds ==
    \A c \in Client :
        /\ spc[c] = "found" => nextEvent[c] < Len(messages)
        /\ spc[c] \in {"empty", "armed"} => nextEvent[c] >= Len(messages)

WakeComes ==
    \A c \in pending :
        /\ spc[c] \in {"armed", "waiting"}
        /\ nextEvent[c] < Len(messages) => \E p \in Poster : ppc[p] = "pushed"

IInv == TypeOK /\ GuardsHeld /\ LookHolds /\ WakeComes

\* The invariant holds before the first request: all guards are free.
LEMMA IInvInit == Init => IInv
  BY InitTyped, NoOneAssumption DEF Init, IInv, GuardsHeld, LookHolds, WakeComes

\* Every step of broadcast, next, subscribe and their callers keeps the types;
\* Take reads the history at an index that LookHolds puts inside it.
LEMMA TypeNext ==
  ASSUME TypeOK, LookHolds, [Next]_vars
  PROVE  TypeOK'
<1> USE DEF TypeOK, lockVars, roomVars, posterVars, clientVars
<1>1. ASSUME NEW p \in Poster, NEW m \in Message, Broadcast(p, m) PROVE TypeOK'
  BY <1>1 DEF Broadcast, PosterMoves
<1>2. ASSUME NEW p \in Poster, AbandonBroadcast(p) PROVE TypeOK'
  BY <1>2 DEF AbandonBroadcast, LeavesQueue, PosterMoves
<1>3. ASSUME NEW p \in Poster, AcquireWrite(p) PROVE TypeOK'
  BY <1>3 DEF AcquireWrite, LeavesQueue, PosterMoves
<1>4. ASSUME NEW p \in Poster, Push(p) PROVE TypeOK'
  <2>1. messages' \in Seq(Message)
    BY <1>4, AppendProperties DEF Push
  <2> QED BY <1>4, <2>1 DEF Push, PosterMoves
<1>5. ASSUME NEW p \in Poster, NotifyWaiters(p) PROVE TypeOK'
  BY <1>5 DEF NotifyWaiters, PosterMoves
<1>6. ASSUME NEW p \in Poster, ReleaseWrite(p) PROVE TypeOK'
  BY <1>6 DEF ReleaseWrite, PosterMoves
<1>7. ASSUME NEW c \in Client, SubscribeAnew(c) PROVE TypeOK'
  <2>1. <<>> \in Seq(Event) /\ FirstEvent(<<>>) \in 0..(EventMod - 1)
    BY EmptySeq, FirstEventTyped
  <2> QED BY <1>7, <2>1 DEF SubscribeAnew, StreamMoves
<1>8. ASSUME NEW c \in Client, Resume(c) PROVE TypeOK'
  <2>1. FirstEvent(got[c]) \in 0..(EventMod - 1)
    BY FirstEventTyped
  <2> QED BY <1>8, <2>1 DEF Resume, StreamMoves
<1>9. ASSUME NEW c \in Client, AskRead(c) PROVE TypeOK'
  BY <1>9 DEF AskRead, StreamMoves
<1>10. ASSUME NEW c \in Client, Look(c) PROVE TypeOK'
  BY <1>10 DEF Look, StreamMoves
<1>11. ASSUME NEW c \in Client, Take(c) PROVE TypeOK'
  <2>1. nextEvent[c] < Len(messages) /\ Len(messages) \in Nat
    BY <1>11, LenProperties DEF Take, StreamMoves, LookHolds
  <2>2. messages[nextEvent[c] + 1] \in Message
    BY <2>1, ElementOfSeq
  <2>3. [id |-> nextEvent[c], msg |-> messages[nextEvent[c] + 1]] \in Event
    BY <2>2 DEF Event
  <2>4. wire' \in [Client -> Seq(Event)]
    BY <1>11, <2>3, AppendProperties DEF Take
  <2>5. nextEvent[c] + 1 \in Nat
    BY EventModAssumption
  <2>6. (nextEvent[c] + 1) % EventMod \in 0..(EventMod - 1)
    BY <2>5, Wraps
  <2> QED BY <1>11, <2>4, <2>6 DEF Take, StreamMoves
<1>12. ASSUME NEW c \in Client, Arm(c) PROVE TypeOK'
  BY <1>12 DEF Arm, StreamMoves
<1>13. ASSUME NEW c \in Client, ReleaseRead(c) PROVE TypeOK'
  BY <1>13 DEF ReleaseRead, StreamMoves
<1>14. ASSUME NEW c \in Client, Wake(c) PROVE TypeOK'
  BY <1>14 DEF Wake, StreamMoves
<1>15. ASSUME NEW c \in Client, Receive(c) PROVE TypeOK'
  <2>1. Head(wire[c]) \in Event /\ Tail(wire[c]) \in Seq(Event)
    BY <1>15, HeadTailProperties DEF Receive
  <2>2. Append(got[c], Head(wire[c])) \in Seq(Event)
    BY <2>1, AppendProperties
  <2> QED BY <1>15, <2>1, <2>2 DEF Receive
<1>16. ASSUME NEW c \in Client, Disconnect(c) PROVE TypeOK'
  BY <1>16, EmptySeq DEF Disconnect
<1>17. CASE UNCHANGED vars
  BY <1>17 DEF vars
<1> QED
  BY <1>1, <1>2, <1>3, <1>4, <1>5, <1>6, <1>7, <1>8,
     <1>9, <1>10, <1>11, <1>12, <1>13, <1>14, <1>15, <1>16, <1>17
     DEF Next, PosterStep, ClientStep

\* The guards go where the code takes and drops them, and a writer is alone.
LEMMA GuardsNext ==
  ASSUME TypeOK, GuardsHeld, [Next]_vars
  PROVE  GuardsHeld'
<1> USE NoOneAssumption DEF TypeOK, GuardsHeld, lockVars, roomVars, posterVars, clientVars
<1>1. ASSUME NEW p \in Poster, NEW m \in Message, Broadcast(p, m) PROVE GuardsHeld'
  BY <1>1 DEF Broadcast, PosterMoves
<1>2. ASSUME NEW p \in Poster, AbandonBroadcast(p) PROVE GuardsHeld'
  BY <1>2 DEF AbandonBroadcast, LeavesQueue, PosterMoves
<1>3. ASSUME NEW p \in Poster, AcquireWrite(p) PROVE GuardsHeld'
  BY <1>3 DEF AcquireWrite, LeavesQueue, PosterMoves
<1>4. ASSUME NEW p \in Poster, Push(p) PROVE GuardsHeld'
  BY <1>4 DEF Push, PosterMoves
<1>5. ASSUME NEW p \in Poster, NotifyWaiters(p) PROVE GuardsHeld'
  BY <1>5 DEF NotifyWaiters, PosterMoves
<1>6. ASSUME NEW p \in Poster, ReleaseWrite(p) PROVE GuardsHeld'
  BY <1>6 DEF ReleaseWrite, PosterMoves
<1>7. ASSUME NEW c \in Client, SubscribeAnew(c) PROVE GuardsHeld'
  BY <1>7 DEF SubscribeAnew, StreamMoves
<1>8. ASSUME NEW c \in Client, Resume(c) PROVE GuardsHeld'
  BY <1>8 DEF Resume, StreamMoves
<1>9. ASSUME NEW c \in Client, AskRead(c) PROVE GuardsHeld'
  BY <1>9 DEF AskRead, StreamMoves
<1>10. ASSUME NEW c \in Client, Look(c) PROVE GuardsHeld'
  BY <1>10 DEF Look, StreamMoves
<1>11. ASSUME NEW c \in Client, Take(c) PROVE GuardsHeld'
  BY <1>11 DEF Take, StreamMoves
<1>12. ASSUME NEW c \in Client, Arm(c) PROVE GuardsHeld'
  BY <1>12 DEF Arm, StreamMoves
<1>13. ASSUME NEW c \in Client, ReleaseRead(c) PROVE GuardsHeld'
  BY <1>13 DEF ReleaseRead, StreamMoves
<1>14. ASSUME NEW c \in Client, Wake(c) PROVE GuardsHeld'
  BY <1>14 DEF Wake, StreamMoves
<1>15. ASSUME NEW c \in Client, Receive(c) PROVE GuardsHeld'
  BY <1>15 DEF Receive
<1>16. ASSUME NEW c \in Client, Disconnect(c) PROVE GuardsHeld'
  BY <1>16 DEF Disconnect
<1>17. CASE UNCHANGED vars
  BY <1>17 DEF vars
<1> QED
  BY <1>1, <1>2, <1>3, <1>4, <1>5, <1>6, <1>7, <1>8,
     <1>9, <1>10, <1>11, <1>12, <1>13, <1>14, <1>15, <1>16, <1>17
     DEF Next, PosterStep, ClientStep

\* Nobody pushes while a subscription holds the guard it looked under.
LEMMA LookNext ==
  ASSUME TypeOK, GuardsHeld, LookHolds, [Next]_vars
  PROVE  LookHolds'
<1> USE DEF TypeOK, LookHolds, lockVars, roomVars, posterVars, clientVars
<1>1. ASSUME NEW p \in Poster, NEW m \in Message, Broadcast(p, m) PROVE LookHolds'
  BY <1>1 DEF Broadcast, PosterMoves
<1>2. ASSUME NEW p \in Poster, AbandonBroadcast(p) PROVE LookHolds'
  BY <1>2 DEF AbandonBroadcast, LeavesQueue, PosterMoves
<1>3. ASSUME NEW p \in Poster, AcquireWrite(p) PROVE LookHolds'
  BY <1>3 DEF AcquireWrite, LeavesQueue, PosterMoves
<1>4. ASSUME NEW p \in Poster, Push(p) PROVE LookHolds'
  <2>1. \A c \in Client : spc[c] \notin {"found", "empty", "armed"}
    BY <1>4, NoOneAssumption DEF Push, PosterMoves, GuardsHeld
  <2> QED BY <1>4, <2>1 DEF Push, PosterMoves
<1>5. ASSUME NEW p \in Poster, NotifyWaiters(p) PROVE LookHolds'
  BY <1>5 DEF NotifyWaiters, PosterMoves
<1>6. ASSUME NEW p \in Poster, ReleaseWrite(p) PROVE LookHolds'
  BY <1>6 DEF ReleaseWrite, PosterMoves
<1>7. ASSUME NEW c \in Client, SubscribeAnew(c) PROVE LookHolds'
  BY <1>7 DEF SubscribeAnew, StreamMoves
<1>8. ASSUME NEW c \in Client, Resume(c) PROVE LookHolds'
  BY <1>8 DEF Resume, StreamMoves
<1>9. ASSUME NEW c \in Client, AskRead(c) PROVE LookHolds'
  BY <1>9 DEF AskRead, StreamMoves
<1>10. ASSUME NEW c \in Client, Look(c) PROVE LookHolds'
  BY <1>10, LenProperties DEF Look, StreamMoves
<1>11. ASSUME NEW c \in Client, Take(c) PROVE LookHolds'
  BY <1>11 DEF Take, StreamMoves
<1>12. ASSUME NEW c \in Client, Arm(c) PROVE LookHolds'
  BY <1>12 DEF Arm, StreamMoves
<1>13. ASSUME NEW c \in Client, ReleaseRead(c) PROVE LookHolds'
  BY <1>13 DEF ReleaseRead, StreamMoves
<1>14. ASSUME NEW c \in Client, Wake(c) PROVE LookHolds'
  BY <1>14 DEF Wake, StreamMoves
<1>15. ASSUME NEW c \in Client, Receive(c) PROVE LookHolds'
  BY <1>15 DEF Receive
<1>16. ASSUME NEW c \in Client, Disconnect(c) PROVE LookHolds'
  BY <1>16 DEF Disconnect
<1>17. CASE UNCHANGED vars
  BY <1>17 DEF vars
<1> QED
  BY <1>1, <1>2, <1>3, <1>4, <1>5, <1>6, <1>7, <1>8,
     <1>9, <1>10, <1>11, <1>12, <1>13, <1>14, <1>15, <1>16, <1>17
     DEF Next, PosterStep, ClientStep

\* A push that a sleeping subscription has not seen is followed by the
\* notify_waiters of the same publisher; a future made later saw the push.
LEMMA WakeNext ==
  ASSUME TypeOK, LookHolds, WakeComes, [Next]_vars
  PROVE  WakeComes'
<1> USE DEF TypeOK, WakeComes, lockVars, roomVars, posterVars, clientVars
<1>1. ASSUME NEW p \in Poster, NEW m \in Message, Broadcast(p, m) PROVE WakeComes'
  BY <1>1 DEF Broadcast, PosterMoves
<1>2. ASSUME NEW p \in Poster, AbandonBroadcast(p) PROVE WakeComes'
  BY <1>2 DEF AbandonBroadcast, LeavesQueue, PosterMoves
<1>3. ASSUME NEW p \in Poster, AcquireWrite(p) PROVE WakeComes'
  BY <1>3 DEF AcquireWrite, LeavesQueue, PosterMoves
<1>4. ASSUME NEW p \in Poster, Push(p) PROVE WakeComes'
  BY <1>4 DEF Push, PosterMoves
<1>5. ASSUME NEW p \in Poster, NotifyWaiters(p) PROVE WakeComes'
  BY <1>5 DEF NotifyWaiters, PosterMoves
<1>6. ASSUME NEW p \in Poster, ReleaseWrite(p) PROVE WakeComes'
  BY <1>6 DEF ReleaseWrite, PosterMoves
<1>7. ASSUME NEW c \in Client, SubscribeAnew(c) PROVE WakeComes'
  BY <1>7 DEF SubscribeAnew, StreamMoves
<1>8. ASSUME NEW c \in Client, Resume(c) PROVE WakeComes'
  BY <1>8 DEF Resume, StreamMoves
<1>9. ASSUME NEW c \in Client, AskRead(c) PROVE WakeComes'
  BY <1>9 DEF AskRead, StreamMoves
<1>10. ASSUME NEW c \in Client, Look(c) PROVE WakeComes'
  BY <1>10 DEF Look, StreamMoves
<1>11. ASSUME NEW c \in Client, Take(c) PROVE WakeComes'
  BY <1>11 DEF Take, StreamMoves
<1>12. ASSUME NEW c \in Client, Arm(c) PROVE WakeComes'
  <2>1. nextEvent[c] >= Len(messages) /\ Len(messages) \in Nat
    BY <1>12, LenProperties DEF Arm, StreamMoves, LookHolds
  <2> QED BY <1>12, <2>1 DEF Arm, StreamMoves
<1>13. ASSUME NEW c \in Client, ReleaseRead(c) PROVE WakeComes'
  BY <1>13 DEF ReleaseRead, StreamMoves
<1>14. ASSUME NEW c \in Client, Wake(c) PROVE WakeComes'
  BY <1>14 DEF Wake, StreamMoves
<1>15. ASSUME NEW c \in Client, Receive(c) PROVE WakeComes'
  BY <1>15 DEF Receive
<1>16. ASSUME NEW c \in Client, Disconnect(c) PROVE WakeComes'
  BY <1>16 DEF Disconnect
<1>17. CASE UNCHANGED vars
  BY <1>17 DEF vars
<1> QED
  BY <1>1, <1>2, <1>3, <1>4, <1>5, <1>6, <1>7, <1>8,
     <1>9, <1>10, <1>11, <1>12, <1>13, <1>14, <1>15, <1>16, <1>17
     DEF Next, PosterStep, ClientStep

\* The invariant behind NoLostWakeup: who holds a guard, what a subscription
\* saw under it, and who is on the way to wake it, in every reachable state.
THEOREM Inductive == Spec => []IInv
<1>1. IInv /\ [Next]_vars => IInv'
  BY TypeNext, GuardsNext, LookNext, WakeNext DEF IInv
<1> QED BY <1>1, IInvInit, PTL DEF Spec

\* Every variable stays in its type: in particular the release build's event
\* numbers stay below EventMod, and a stream never reads past the history.
THEOREM TypeCorrect == Spec => []TypeOK
<1>1. IInv => TypeOK
  BY DEF IInv
<1> QED BY <1>1, Inductive, PTL

\* A subscription never sleeps on a message that is already there: the future
\* it sleeps on was created under the guard under which it found nothing.
THEOREM NoWakeupIsLost == Spec => []NoLostWakeup
<1>1. IInv => NoLostWakeup
  BY DEF IInv, WakeComes, NoLostWakeup
<1> QED BY <1>1, Inductive, PTL

-----------------------------------------------------------------------------
(* The order of delivery, as long as event numbers do not wrap. *)

Fits == Len(messages) < EventMod

\* The event that carries the i-th message of history ms.
Ev(ms, i) == [id |-> i - 1, msg |-> ms[i]]

\* A client that has read g and has w on its wire is, with its stream at event
\* n, in step with history ms.
InStep(n, w, g, ms) ==
    /\ n = Len(g) + Len(w)
    /\ n <= Len(ms)
    /\ \A i \in 1..Len(g) : g[i] = Ev(ms, i)
    /\ \A i \in 1..Len(w) : w[i] = Ev(ms, Len(g) + i)

Ordered ==
    Fits => \A c \in Client :
        IF spc[c] = "off"
        THEN wire[c] = <<>> /\ InStep(Len(got[c]), <<>>, got[c], messages)
        ELSE InStep(nextEvent[c], wire[c], got[c], messages)

\* A newcomer is in step.
LEMMA InStepAnew ==
  ASSUME NEW ms \in Seq(Message)
  PROVE  InStep(0, <<>>, <<>>, ms)
  BY EmptySeq, LenProperties DEF InStep

\* So is a client whose connection has been cut: it lost what was on its wire.
LEMMA InStepCut ==
  ASSUME NEW ms \in Seq(Message), NEW n, NEW w \in Seq(Event), NEW g \in Seq(Event),
         InStep(n, w, g, ms)
  PROVE  InStep(Len(g), <<>>, g, ms)
<1>1. Len(g) \in Nat /\ Len(w) \in Nat /\ Len(ms) \in Nat /\ Len(<<>>) = 0
  BY LenProperties, EmptySeq
<1> QED BY <1>1 DEF InStep

\* A message more in the history changes nothing for those in step.
LEMMA InStepGrows ==
  ASSUME NEW ms \in Seq(Message), NEW m \in Message, NEW n,
         NEW w \in Seq(Event), NEW g \in Seq(Event), InStep(n, w, g, ms)
  PROVE  InStep(n, w, g, Append(ms, m))
<1>1. Len(g) \in Nat /\ Len(w) \in Nat /\ Len(ms) \in Nat
  BY LenProperties
<1>2. Len(Append(ms, m)) = Len(ms) + 1 /\ \A i \in 1..Len(ms) : Append(ms, m)[i] = ms[i]
  BY AppendProperties
<1>3. \A i \in 1..Len(ms) : Ev(Append(ms, m), i) = Ev(ms, i)
  BY <1>2 DEF Ev
<1>4. /\ n = Len(g) + Len(w) /\ n <= Len(ms)
      /\ \A i \in 1..Len(g) : g[i] = Ev(ms, i)
      /\ \A i \in 1..Len(w) : w[i] = Ev(ms, Len(g) + i)
  BY DEF InStep
<1>5. ASSUME NEW i \in 1..Len(g) PROVE g[i] = Ev(Append(ms, m), i)
  BY <1>1, <1>3, <1>4
<1>6. ASSUME NEW i \in 1..Len(w) PROVE w[i] = Ev(Append(ms, m), Len(g) + i)
  <2>1. Len(g) + i \in 1..Len(ms)
    BY <1>1, <1>4
  <2> QED BY <2>1, <1>3, <1>4
<1> QED BY <1>1, <1>2, <1>4, <1>5, <1>6 DEF InStep

\* The event a stream takes is the one its client needs next.
LEMMA InStepTake ==
  ASSUME NEW ms \in Seq(Message), NEW n \in Nat,
         NEW w \in Seq(Event), NEW g \in Seq(Event),
         InStep(n, w, g, ms), n < Len(ms)
  PROVE  InStep(n + 1, Append(w, Ev(ms, n + 1)), g, ms)
<1>1. Len(g) \in Nat /\ Len(w) \in Nat /\ Len(ms) \in Nat
  BY LenProperties
<1>2. Ev(ms, n + 1) \in Event
  <2>1. ms[n + 1] \in Message
    BY <1>1, ElementOfSeq
  <2> QED BY <2>1 DEF Ev, Event
<1> DEFINE v == Append(w, Ev(ms, n + 1))
<1>3. /\ Len(v) = Len(w) + 1
      /\ \A i \in 1..Len(w) : v[i] = w[i]
      /\ v[Len(w) + 1] = Ev(ms, n + 1)
  BY <1>2, AppendProperties
<1> HIDE DEF v
<1>4. /\ n = Len(g) + Len(w) /\ n <= Len(ms)
      /\ \A i \in 1..Len(g) : g[i] = Ev(ms, i)
      /\ \A i \in 1..Len(w) : w[i] = Ev(ms, Len(g) + i)
  BY DEF InStep
<1>5. ASSUME NEW i \in 1..Len(v) PROVE v[i] = Ev(ms, Len(g) + i)
  <2>1. CASE i \in 1..Len(w)
    BY <2>1, <1>3, <1>4
  <2>2. CASE i = Len(w) + 1
    <3>1. Len(g) + i = n + 1
      BY <2>2, <1>1, <1>4
    <3> QED BY <2>2, <3>1, <1>3
  <2>3. i \in 1..Len(w) \/ i = Len(w) + 1
    BY <1>1, <1>3
  <2> QED BY <2>1, <2>2, <2>3
<1>6. n + 1 = Len(g) + Len(v) /\ n + 1 <= Len(ms)
  BY <1>1, <1>3, <1>4
<1>7. InStep(n + 1, v, g, ms)
  BY <1>4, <1>5, <1>6 DEF InStep
<1> QED BY <1>7 DEF v

\* What a client reads off its wire is what it needs next.
LEMMA InStepReceive ==
  ASSUME NEW ms \in Seq(Message), NEW n,
         NEW w \in Seq(Event), NEW g \in Seq(Event),
         InStep(n, w, g, ms), w # <<>>
  PROVE  InStep(n, Tail(w), Append(g, Head(w)), ms)
<1> DEFINE v == Tail(w)
           h == Append(g, Head(w))
<1>1. Len(g) \in Nat /\ Len(w) \in Nat \ {0} /\ Len(ms) \in Nat
  BY LenProperties, EmptySeq
<1>2. /\ Len(v) = Len(w) - 1
      /\ \A i \in 1..Len(v) : v[i] = w[i + 1]
      /\ Head(w) \in Event
  BY HeadTailProperties
<1>3. Head(w) = w[1]
  OBVIOUS
<1>4. /\ Len(h) = Len(g) + 1
      /\ \A i \in 1..Len(g) : h[i] = g[i]
      /\ h[Len(g) + 1] = w[1]
  BY <1>2, <1>3, AppendProperties
<1> HIDE DEF v, h
<1>5. /\ n = Len(g) + Len(w) /\ n <= Len(ms)
      /\ \A i \in 1..Len(g) : g[i] = Ev(ms, i)
      /\ \A i \in 1..Len(w) : w[i] = Ev(ms, Len(g) + i)
  BY DEF InStep
<1>6. ASSUME NEW i \in 1..Len(h) PROVE h[i] = Ev(ms, i)
  <2>1. CASE i \in 1..Len(g)
    BY <2>1, <1>4, <1>5
  <2>2. CASE i = Len(g) + 1
    <3>1. 1 \in 1..Len(w)
      BY <1>1
    <3> QED BY <2>2, <3>1, <1>4, <1>5
  <2>3. i \in 1..Len(g) \/ i = Len(g) + 1
    BY <1>1, <1>4
  <2> QED BY <2>1, <2>2, <2>3
<1>7. ASSUME NEW i \in 1..Len(v) PROVE v[i] = Ev(ms, Len(h) + i)
  <2>1. i + 1 \in 1..Len(w) /\ Len(g) + (i + 1) = Len(h) + i
    BY <1>1, <1>2, <1>4
  <2> QED BY <2>1, <1>2, <1>5
<1>8. n = Len(h) + Len(v)
  BY <1>1, <1>2, <1>4, <1>5
<1>9. InStep(n, v, h, ms)
  BY <1>5, <1>6, <1>7, <1>8 DEF InStep
<1> QED BY <1>9 DEF v, h

\* n % EventMod is n below EventMod.
LEMMA NoWrap ==
  ASSUME NEW n \in Nat, n < EventMod
  PROVE  n % EventMod = n
  BY EventModAssumption

\* Resuming with the last event id starts where the client stopped reading.
LEMMA ResumesInStep ==
  ASSUME NEW ms \in Seq(Message), NEW g \in Seq(Event),
         InStep(Len(g), <<>>, g, ms), Len(ms) < EventMod
  PROVE  FirstEvent(g) = Len(g)
<1>1. Len(g) \in Nat /\ Len(ms) \in Nat
  BY LenProperties
<1>2. CASE g = <<>>
  BY <1>2, EmptySeq DEF FirstEvent
<1>3. CASE g # <<>>
  <2>1. Len(g) \in 1..Len(g)
    BY <1>3, <1>1, EmptySeq
  <2>2. g[Len(g)] = Ev(ms, Len(g))
    BY <2>1 DEF InStep
  <2>3. g[Len(g)].id + 1 = Len(g)
    BY <2>2, <1>1 DEF Ev
  <2>4. Len(g) < EventMod
    BY <1>1, EventModAssumption DEF InStep
  <2> QED BY <1>1, <1>3, <2>3, <2>4, NoWrap DEF FirstEvent
<1> QED BY <1>2, <1>3

\* In step means: read and on its way is the history, from its start.
LEMMA InStepIsInOrder ==
  ASSUME NEW ms \in Seq(Message), NEW n, NEW w \in Seq(Event), NEW g \in Seq(Event),
         InStep(n, w, g, ms)
  PROVE  /\ Len(g \o w) <= Len(ms)
         /\ \A i \in 1..Len(g \o w) : (g \o w)[i] = Ev(ms, i)
<1>1. Len(g) \in Nat /\ Len(w) \in Nat /\ Len(ms) \in Nat
  BY LenProperties
<1>2. /\ Len(g \o w) = Len(g) + Len(w)
      /\ \A i \in 1..(Len(g) + Len(w)) :
            (g \o w)[i] = IF i <= Len(g) THEN g[i] ELSE w[i - Len(g)]
  BY ConcatProperties
<1>3. /\ n = Len(g) + Len(w) /\ n <= Len(ms)
      /\ \A i \in 1..Len(g) : g[i] = Ev(ms, i)
      /\ \A i \in 1..Len(w) : w[i] = Ev(ms, Len(g) + i)
  BY DEF InStep
<1>4. ASSUME NEW i \in 1..(Len(g) + Len(w)) PROVE (g \o w)[i] = Ev(ms, i)
  <2>1. CASE i <= Len(g)
    <3>1. i \in 1..Len(g)
      BY <2>1, <1>1
    <3> QED BY <2>1, <3>1, <1>2, <1>3
  <2>2. CASE ~(i <= Len(g))
    <3>1. i - Len(g) \in 1..Len(w) /\ Len(g) + (i - Len(g)) = i
      BY <2>2, <1>1
    <3> QED BY <2>2, <3>1, <1>2, <1>3
  <2> QED BY <2>1, <2>2
<1> QED BY <1>2, <1>3, <1>4

\* With nothing posted and nobody connected, everyone is in step.
LEMMA OrderedInit == Init => Ordered
<1> SUFFICES ASSUME Init PROVE Ordered
  OBVIOUS
<1>1. <<>> \in Seq(Message) /\ Len(<<>>) = 0
  BY EmptySeq
<1> QED BY <1>1, InStepAnew DEF Init, Ordered

\* A step of broadcast, which at most appends one message, keeps clients in step.
LEMMA OrderedPoster ==
  ASSUME TypeOK, Ordered, UNCHANGED clientVars, NEW m \in Message,
         messages' = messages \/ messages' = Append(messages, m)
  PROVE  Ordered'
<1>1. CASE messages' = messages
  BY <1>1 DEF Ordered, Fits, clientVars
<1>2. CASE messages' = Append(messages, m)
  <2>1. Fits' => Fits
    <3>1. Len(messages) \in Nat /\ Len(messages') = Len(messages) + 1
      BY <1>2, LenProperties, AppendProperties DEF TypeOK
    <3> QED BY <3>1, EventModAssumption DEF Fits
  <2> SUFFICES ASSUME Fits', NEW c \in Client
               PROVE  IF spc'[c] = "off"
                      THEN wire'[c] = <<>> /\ InStep(Len(got'[c]), <<>>, got'[c], messages')
                      ELSE InStep(nextEvent'[c], wire'[c], got'[c], messages')
    BY DEF Ordered
  <2>2. /\ messages \in Seq(Message) /\ <<>> \in Seq(Event)
        /\ wire[c] \in Seq(Event) /\ got[c] \in Seq(Event)
    BY EmptySeq DEF TypeOK
  <2>3. UNCHANGED <<spc, nextEvent, wire, got>>
    BY DEF clientVars
  <2>4. CASE spc[c] = "off"
    BY <2>1, <2>2, <2>3, <2>4, <1>2, InStepGrows DEF Ordered
  <2>5. CASE spc[c] # "off"
    BY <2>1, <2>2, <2>3, <2>5, <1>2, InStepGrows DEF Ordered
  <2> QED BY <2>4, <2>5
<1> QED BY <1>1, <1>2

\* A client that takes a step of its own stays in step: it joins anew,
\* resumes with Last-Event-ID, takes an event, reads one, or is cut off.
LEMMA OrderedClient ==
  ASSUME TypeOK, LookHolds, Ordered, Fits, NEW c \in Client, ClientStep(c)
  PROVE  IF spc'[c] = "off"
         THEN wire'[c] = <<>> /\ InStep(Len(got'[c]), <<>>, got'[c], messages')
         ELSE InStep(nextEvent'[c], wire'[c], got'[c], messages')
<1>1. /\ messages \in Seq(Message) /\ Len(messages) \in Nat /\ Len(messages) < EventMod
      /\ wire[c] \in Seq(Event) /\ got[c] \in Seq(Event) /\ nextEvent[c] \in Nat
  BY LenProperties, EventModAssumption DEF TypeOK, Fits
<1>2. /\ spc[c] = "off" => /\ wire[c] = <<>>
                          /\ InStep(Len(got[c]), <<>>, got[c], messages)
      /\ spc[c] # "off" => InStep(nextEvent[c], wire[c], got[c], messages)
  BY DEF Ordered
<1> USE DEF TypeOK
<1>3. CASE SubscribeAnew(c)
  <2>1. /\ spc[c] = "off" /\ spc'[c] = "poll" /\ nextEvent'[c] = 0 /\ got'[c] = <<>>
        /\ wire'[c] = wire[c] /\ messages' = messages
    BY <1>3 DEF SubscribeAnew, StreamMoves, FirstEvent, roomVars
  <2> QED BY <2>1, <1>1, <1>2, InStepAnew
<1>4. CASE Resume(c)
  <2>1. /\ spc[c] = "off" /\ spc'[c] = "poll" /\ nextEvent'[c] = FirstEvent(got[c])
        /\ wire'[c] = wire[c] /\ got'[c] = got[c] /\ messages' = messages
    BY <1>4 DEF Resume, StreamMoves, roomVars
  <2>2. FirstEvent(got[c]) = Len(got[c])
    BY <2>1, <1>1, <1>2, ResumesInStep
  <2> QED BY <2>1, <2>2, <1>2
<1>5. CASE Take(c)
  <2>1. /\ spc[c] = "found" /\ spc'[c] = "poll" /\ got'[c] = got[c] /\ messages' = messages
        /\ nextEvent'[c] = (nextEvent[c] + 1) % EventMod
        /\ wire'[c] = Append(wire[c], [id |-> nextEvent[c],
                                        msg |-> messages[nextEvent[c] + 1]])
    BY <1>5 DEF Take, StreamMoves
  <2>2. nextEvent[c] < Len(messages)
    BY <2>1 DEF LookHolds
  <2>3. [id |-> nextEvent[c], msg |-> messages[nextEvent[c] + 1]] = Ev(messages, nextEvent[c] + 1)
    BY <1>1 DEF Ev
  <2>4. nextEvent'[c] = nextEvent[c] + 1
    <3>1. nextEvent[c] + 1 \in Nat /\ nextEvent[c] + 1 < EventMod
      BY <2>2, <1>1, EventModAssumption
    <3> QED BY <2>1, <3>1, NoWrap
  <2>5. InStep(nextEvent[c] + 1, wire'[c], got[c], messages)
    BY <2>1, <2>2, <2>3, <1>1, <1>2, InStepTake
  <2> QED BY <2>1, <2>4, <2>5
<1>6. CASE Receive(c)
  <2>1. /\ wire[c] # <<>> /\ wire'[c] = Tail(wire[c])
        /\ got'[c] = Append(got[c], Head(wire[c]))
        /\ spc'[c] = spc[c] /\ nextEvent'[c] = nextEvent[c] /\ messages' = messages
    BY <1>6 DEF Receive, roomVars
  <2>2. spc[c] # "off"
    BY <2>1, <1>2
  <2>3. InStep(nextEvent[c], wire'[c], got'[c], messages)
    BY <2>1, <2>2, <1>1, <1>2, InStepReceive
  <2> QED BY <2>1, <2>2, <2>3
<1>7. CASE Disconnect(c)
  <2>1. /\ spc[c] # "off" /\ spc'[c] = "off" /\ wire'[c] = <<>> /\ got'[c] = got[c]
        /\ messages' = messages
    BY <1>7 DEF Disconnect
  <2> QED BY <2>1, <1>1, <1>2, InStepCut
<1>8. CASE AskRead(c) \/ Look(c) \/ Arm(c) \/ ReleaseRead(c) \/ Wake(c)
  <2>1. /\ spc[c] # "off" /\ spc'[c] # "off" /\ messages' = messages
        /\ UNCHANGED <<nextEvent, wire, got>>
    BY <1>8 DEF AskRead, Look, Arm, ReleaseRead, Wake, StreamMoves, roomVars
  <2> QED BY <2>1, <1>2
<1> QED BY <1>3, <1>4, <1>5, <1>6, <1>7, <1>8 DEF ClientStep

\* A step of one client leaves the history and the other clients alone.
LEMMA ClientStepIsLocal ==
  ASSUME TypeOK, NEW c \in Client, ClientStep(c)
  PROVE  /\ UNCHANGED messages
         /\ \A d \in Client \ {c} : /\ spc'[d] = spc[d]
                                   /\ nextEvent'[d] = nextEvent[d]
                                   /\ wire'[d] = wire[d]
                                   /\ got'[d] = got[d]
  BY DEF ClientStep, SubscribeAnew, Resume, AskRead, Look, Take, Arm, ReleaseRead, Wake,
         Receive, Disconnect, StreamMoves, roomVars, TypeOK

\* A step of a poster leaves the clients alone, and only appends.
LEMMA PosterStepAppends ==
  ASSUME TypeOK, NEW p \in Poster, PosterStep(p)
  PROVE  /\ body[p] \in Message
         /\ UNCHANGED clientVars
         /\ messages' = messages \/ messages' = Append(messages, body[p])
  BY DEF TypeOK, PosterStep, Broadcast, AbandonBroadcast, AcquireWrite, Push, NotifyWaiters,
         ReleaseWrite, roomVars

\* Every step keeps all clients in step while event numbers do not wrap.
LEMMA OrderedNext ==
  ASSUME TypeOK, LookHolds, Ordered, [Next]_vars
  PROVE  Ordered'
<1>1. ASSUME NEW p \in Poster, PosterStep(p) PROVE Ordered'
  BY <1>1, PosterStepAppends, OrderedPoster
<1>2. ASSUME NEW c \in Client, ClientStep(c) PROVE Ordered'
  <2>1. UNCHANGED messages /\ (Fits' => Fits)
    BY <1>2, ClientStepIsLocal DEF Fits
  <2> SUFFICES ASSUME Fits, NEW d \in Client
               PROVE  IF spc'[d] = "off"
                      THEN wire'[d] = <<>> /\ InStep(Len(got'[d]), <<>>, got'[d], messages')
                      ELSE InStep(nextEvent'[d], wire'[d], got'[d], messages')
    BY <2>1 DEF Ordered
  <2>2. CASE d = c
    BY <2>2, <1>2, OrderedClient
  <2>3. CASE d # c
    BY <2>1, <2>3, <1>2, ClientStepIsLocal DEF Ordered
  <2> QED BY <2>2, <2>3
<1>3. CASE UNCHANGED vars
  BY <1>3 DEF vars, roomVars, clientVars, Ordered, Fits
<1> QED BY <1>1, <1>2, <1>3 DEF Next

\* Clients in step have been delivered the history in order.
LEMMA OrderedIsInOrder ==
  ASSUME TypeOK, Ordered, Fits
  PROVE  DeliveredInOrder
<1> SUFFICES ASSUME NEW c \in Client
             PROVE  /\ Len(got[c] \o wire[c]) <= Len(messages)
                    /\ \A i \in 1..Len(got[c] \o wire[c]) :
                          (got[c] \o wire[c])[i] = Ev(messages, i)
  BY DEF DeliveredInOrder, Ev
<1>1. messages \in Seq(Message) /\ wire[c] \in Seq(Event) /\ got[c] \in Seq(Event)
  BY DEF TypeOK
<1>2. PICK n : InStep(n, wire[c], got[c], messages)
  BY DEF Ordered
<1> QED BY <1>1, <1>2, InStepIsInOrder

\* While a room holds fewer messages than there are event numbers, every
\* client has read, and has on its way, exactly the history from its start,
\* over any number of broken and resumed connections.
THEOREM InOrderWhileItFits == Spec => [](Fits => DeliveredInOrder)
<1>1. IInv /\ Ordered /\ [Next]_vars => Ordered'
  BY OrderedNext DEF IInv
<1>2. IInv /\ Ordered => (Fits => DeliveredInOrder)
  BY OrderedIsInOrder DEF IInv
<1> QED BY <1>1, <1>2, OrderedInit, Inductive, PTL DEF Spec

-----------------------------------------------------------------------------
(* The room implements BroadcastLog, as long as event numbers do not wrap.   *)

Payloads(g) == [i \in 1..Len(g) |-> g[i].msg]

\* The payloads of the events read are as many messages.
LEMMA PayloadsTyped ==
  ASSUME NEW g \in Seq(Event)
  PROVE  Payloads(g) \in Seq(Message) /\ Len(Payloads(g)) = Len(g)
<1>1. Len(g) \in Nat /\ \A i \in 1..Len(g) : g[i].msg \in Message
  <2>1. \A i \in 1..Len(g) : g[i] \in Event
    BY ElementOfSeq
  <2> QED BY <2>1, LenProperties DEF Event
<1>2. Payloads(g) \in [1..Len(g) -> Message]
  BY <1>1 DEF Payloads
<1> QED BY <1>1, <1>2, SeqDef

\* Reading one event more appends its payload.
LEMMA PayloadsAppend ==
  ASSUME NEW g \in Seq(Event), NEW e \in Event
  PROVE  Payloads(Append(g, e)) = Append(Payloads(g), e.msg)
<1> DEFINE h == Append(g, e)
           p == Append(Payloads(g), e.msg)
<1>1. /\ h \in Seq(Event) /\ Len(h) = Len(g) + 1 /\ h[Len(g) + 1] = e
      /\ \A i \in 1..Len(g) : h[i] = g[i]
  BY AppendProperties
<1>2. e.msg \in Message /\ Len(g) \in Nat
  BY LenProperties DEF Event
<1>3. Payloads(g) \in Seq(Message) /\ Len(Payloads(g)) = Len(g)
  BY PayloadsTyped
<1>4. /\ p \in Seq(Message) /\ Len(p) = Len(g) + 1 /\ p[Len(g) + 1] = e.msg
      /\ \A i \in 1..Len(g) : p[i] = Payloads(g)[i]
  BY <1>2, <1>3, AppendProperties
<1>5. Payloads(h) \in Seq(Message) /\ Len(Payloads(h)) = Len(g) + 1
  BY <1>1, PayloadsTyped
<1> HIDE DEF h, p
<1>6. ASSUME NEW i \in 1..(Len(g) + 1) PROVE Payloads(h)[i] = p[i]
  <2>1. CASE i \in 1..Len(g)
    BY <2>1, <1>1, <1>2, <1>4 DEF Payloads
  <2>2. CASE i = Len(g) + 1
    BY <2>2, <1>1, <1>2, <1>4 DEF Payloads
  <2> QED BY <2>1, <2>2, <1>2
<1>7. Payloads(h) = p
  BY <1>4, <1>5, <1>6, SeqEqual
<1> QED BY <1>7 DEF h, p

\* An empty room is an empty log that nobody has read.
LEMMA LogInit == Init => Log!Init
<1> SUFFICES ASSUME Init PROVE Log!Init
  OBVIOUS
<1>1. \A c \in Client : payloads(c) = <<>>
  BY EmptySeq DEF Init, payloads
<1> QED BY <1>1 DEF Init, Log!Init

\* A step of the room posts to the log, delivers its next message to a client,
\* lets a client start over, or does not show in it.
LEMMA LogNext ==
  ASSUME IInv, Ordered, Fits, [Next]_vars
  PROVE  [Log!Next]_(Log!vars)
<1> USE DEF IInv
<1>1. ASSUME NEW p \in Poster, PosterStep(p) PROVE [Log!Next]_(Log!vars)
  <2>1. /\ body[p] \in Message /\ got' = got
        /\ messages' = messages \/ messages' = Append(messages, body[p])
    BY <1>1, PosterStepAppends DEF clientVars
  <2>2. [c \in Client |-> payloads(c)]' = [c \in Client |-> payloads(c)]
    BY <2>1 DEF payloads
  <2> QED BY <2>1, <2>2 DEF Log!Next, Log!Post, Log!vars
<1>2. ASSUME NEW c \in Client, SubscribeAnew(c) PROVE [Log!Next]_(Log!vars)
  <2>1. messages' = messages /\ got' = [got EXCEPT ![c] = <<>>]
    BY <1>2 DEF SubscribeAnew, roomVars
  <2>2. [d \in Client |-> payloads(d)]' = [[d \in Client |-> payloads(d)] EXCEPT ![c] = <<>>]
    <3> DEFINE pay == [d \in Client |-> payloads(d)]
    <3>1. /\ \A d \in Client \ {c} : got'[d] = got[d]
          /\ got'[c] = <<>>
      BY <2>1 DEF TypeOK
    <3>2. Payloads(<<>>) = <<>>
      BY EmptySeq DEF Payloads
    <3>3. \A d \in Client : pay[d] = Payloads(got[d]) /\ pay'[d] = Payloads(got'[d])
      BY DEF payloads, Payloads
    <3> HIDE DEF pay
    <3>4. \A d \in Client : pay'[d] = [pay EXCEPT ![c] = <<>>][d]
      BY <3>1, <3>2, <3>3 DEF pay
    <3> QED BY <3>4 DEF pay
  <2> QED BY <2>1, <2>2 DEF Log!Next, Log!Rejoin
<1>3. ASSUME NEW c \in Client, Receive(c) PROVE [Log!Next]_(Log!vars)
  <2>1. /\ messages' = messages /\ wire[c] # <<>>
        /\ got' = [got EXCEPT ![c] = Append(@, Head(wire[c]))]
    BY <1>3 DEF Receive, roomVars
  <2>2. /\ messages \in Seq(Message) /\ wire[c] \in Seq(Event) /\ got[c] \in Seq(Event)
        /\ Len(messages) \in Nat /\ Len(got[c]) \in Nat /\ Len(wire[c]) \in Nat \ {0}
    BY <2>1, EmptySeq, LenProperties DEF TypeOK
  <2>3. /\ Head(wire[c]) \in Event
        /\ Head(wire[c]) = Ev(messages, Len(got[c]) + 1)
        /\ Len(got[c]) < Len(messages)
    <3>1. InStep(nextEvent[c], wire[c], got[c], messages)
      BY <2>1 DEF Ordered
    <3>2. 1 \in 1..Len(wire[c]) /\ Head(wire[c]) = wire[c][1]
      BY <2>2
    <3>3. Head(wire[c]) \in Event
      BY <2>1, <2>2, HeadTailProperties
    <3>4. /\ wire[c][1] = Ev(messages, Len(got[c]) + 1)
          /\ Len(got[c]) + Len(wire[c]) <= Len(messages)
      BY <3>1, <3>2 DEF InStep
    <3>5. \A j, k, l \in Nat : k # 0 /\ j + k <= l => j < l
      OBVIOUS
    <3>6. Len(got[c]) < Len(messages)
      BY <2>2, <3>4, <3>5
    <3> QED BY <3>2, <3>3, <3>4, <3>6
  <2>4. /\ Payloads(got'[c]) = Append(Payloads(got[c]), messages[Len(got[c]) + 1])
        /\ Len(Payloads(got[c])) = Len(got[c])
    BY <2>1, <2>2, <2>3, PayloadsAppend, PayloadsTyped DEF Ev, TypeOK
  <2> DEFINE pay == [d \in Client |-> payloads(d)]
  <2>5. \A d \in Client : pay[d] = Payloads(got[d]) /\ pay'[d] = Payloads(got'[d])
    BY DEF payloads, Payloads
  <2>6. pay' = [pay EXCEPT ![c] = Append(@, messages[Len(@) + 1])]
    <3>1. \A d \in Client \ {c} : got'[d] = got[d]
      BY <2>1 DEF TypeOK
    <3> HIDE DEF pay
    <3>2. \A d \in Client : pay'[d] = [pay EXCEPT ![c] = Append(@, messages[Len(@) + 1])][d]
      BY <2>4, <2>5, <3>1 DEF pay
    <3> QED BY <3>2 DEF pay
  <2>7. Len(pay[c]) < Len(messages)
    BY <2>3, <2>4, <2>5
  <2> HIDE DEF pay
  <2>8. messages' = messages /\ pay' = [pay EXCEPT ![c] = Append(@, messages[Len(@) + 1])]
        /\ Len(pay[c]) < Len(messages)
    BY <2>1, <2>6, <2>7
  <2> QED BY <2>8 DEF Log!Next, Log!Deliver, pay
<1>4. ASSUME NEW c \in Client, ClientStep(c), ~SubscribeAnew(c), ~Receive(c)
      PROVE  [Log!Next]_(Log!vars)
  <2>1. messages' = messages /\ got' = got
    BY <1>4 DEF ClientStep, Resume, AskRead, Look, Take, Arm, ReleaseRead, Wake, Disconnect,
                roomVars
  <2> QED BY <2>1 DEF Log!vars, payloads
<1>5. CASE UNCHANGED vars
  BY <1>5 DEF vars, roomVars, clientVars, Log!vars, payloads
<1> QED BY <1>1, <1>2, <1>3, <1>4, <1>5 DEF Next

\* A room that never holds as many messages as there are event numbers
\* implements the log: locks, wake-ups and connections do not show.
THEOREM ImplementsLog == Spec /\ []Fits => LogSpec
<1>1. IInv /\ Ordered /\ [Next]_vars => Ordered'
  BY OrderedNext DEF IInv
<1>2. IInv /\ Ordered /\ Fits /\ [Next]_vars => [Log!Next]_(Log!vars)
  BY LogNext
<1> QED BY <1>1, <1>2, LogInit, OrderedInit, Inductive, PTL DEF Spec, LogSpec, Log!Spec
=============================================================================
