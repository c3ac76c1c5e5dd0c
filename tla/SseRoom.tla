------------------------------ MODULE SseRoom ------------------------------
(***************************************************************************)
(* One room of the broker (sse/src/lib.rs): the history behind its         *)
(* RwLock, the Notify that tells waiting subscriptions of a new message,   *)
(* the broadcast requests that write and the SSE streams that read.        *)
(*                                                                         *)
(* Steps are as fine as the code's: taking the lock, each statement under  *)
(* it that another task could observe, and letting go of it are separate.  *)
(* tokio is external and taken at its word: a write guard excludes every   *)
(* other guard, the lock is a queue in which a reader never overtakes a    *)
(* writer nor a writer a reader, and a Notified future is woken by every   *)
(* notify_waiters called after the future was CREATED, also when it has    *)
(* not been polled yet.                                                    *)
(*                                                                         *)
(* The u16 arithmetic is the release build's, modulo EventMod (2^16 in the *)
(* code).  The subscriber counter, which only log lines read, is left out. *)
(***************************************************************************)
EXTENDS Sequences, Naturals, FiniteSets

CONSTANTS Message,      \* payloads
          Poster,       \* broadcast requests that can be in flight at once
          Client,       \* the SSE clients
          EventMod,     \* event ids are counted modulo this: 2^16 in the code
          MaxHistory,   \* bound: messages a room gets, those in flight included
          NoOne         \* "no task holds the write guard"

ASSUME EventModAssumption == EventMod \in Nat \ {0}
ASSUME MaxHistoryAssumption == MaxHistory \in Nat
ASSUME NoOneAssumption == NoOne \notin Poster

VARIABLES messages,     \* Room.messages, behind the RwLock
          writer,       \* who holds its write guard
          readers,      \* which subscriptions hold a read guard
          ahead,        \* ahead[c]: the writers queued for the lock before c
          pending,      \* the Notified futures that have not been woken
          ppc,          \* where each broadcast request stands
          body,         \* the message a broadcast request carries
          spc,          \* where each subscription's stream stands
          nextEvent,    \* Subscription.next_event
          wire,         \* events yielded, not yet read by the client
          got           \* events the client has read since it last joined anew

lockVars   == <<writer, readers, ahead>>
roomVars   == <<messages, lockVars, pending>>
posterVars == <<ppc, body>>
clientVars == <<spc, nextEvent, wire, got>>
vars == <<roomVars, posterVars, clientVars>>

Event == [id : Nat, msg : Message]

TypeOK ==
    /\ messages \in Seq(Message)
    /\ writer \in Poster \cup {NoOne}
    /\ readers \subseteq Client
    /\ ahead \in [Client -> SUBSET Poster]
    /\ pending \subseteq Client
    /\ ppc \in [Poster -> {"idle", "waiting", "locked", "pushed", "notified"}]
    /\ body \in [Poster -> Message]
    /\ spc \in [Client -> {"off", "poll", "asking", "found", "empty", "armed", "waiting"}]
    /\ nextEvent \in [Client -> 0..(EventMod - 1)]
    /\ wire \in [Client -> Seq(Event)]
    /\ got \in [Client -> Seq(Event)]

Init ==
    /\ messages = <<>>
    /\ writer = NoOne
    /\ readers = {}
    /\ ahead = [c \in Client |-> {}]
    /\ pending = {}
    /\ ppc = [p \in Poster |-> "idle"]
    /\ body \in [Poster -> Message]
    /\ spc = [c \in Client |-> "off"]
    /\ nextEvent = [c \in Client |-> 0]
    /\ wire = [c \in Client |-> <<>>]
    /\ got = [c \in Client |-> <<>>]

PosterMoves(p, from, to) ==
    /\ ppc[p] = from
    /\ ppc' = [ppc EXCEPT ![p] = to]

StreamMoves(c, from, to) ==
    /\ spc[c] = from
    /\ spc' = [spc EXCEPT ![c] = to]

-----------------------------------------------------------------------------
(* broadcast and Room::publish *)

inFlight == {p \in Poster : ppc[p] \in {"waiting", "locked"}}

\* A POST arrives and its handler asks for the write guard.
Broadcast(p, m) ==
    /\ Len(messages) + Cardinality(inFlight) < MaxHistory
    /\ PosterMoves(p, "idle", "waiting")
    /\ body' = [body EXCEPT ![p] = m]
    /\ UNCHANGED <<roomVars, clientVars>>

\* p leaves the lock's queue, with or without the guard.
LeavesQueue(p) == ahead' = [c \in Client |-> ahead[c] \ {p}]

\* The caller hangs up while its handler waits for the guard: the handler is
\* dropped at that await, the only one publish has.
AbandonBroadcast(p) ==
    /\ PosterMoves(p, "waiting", "idle")
    /\ LeavesQueue(p)
    /\ UNCHANGED <<messages, writer, readers, pending, body, clientVars>>

\* All guards are free, and whoever still asks for a read guard came later.
AcquireWrite(p) ==
    /\ writer = NoOne
    /\ readers = {}
    /\ \A c \in Client : spc[c] = "asking" => p \in ahead[c]
    /\ PosterMoves(p, "waiting", "locked")
    /\ writer' = p
    /\ LeavesQueue(p)
    /\ UNCHANGED <<messages, readers, pending, body, clientVars>>

\* messages.push(message)
Push(p) ==
    /\ PosterMoves(p, "locked", "pushed")
    /\ messages' = Append(messages, body[p])
    /\ UNCHANGED <<lockVars, pending, body, clientVars>>

\* Mutant of NotifyWaiters: notify_one, which wakes a single subscription.
NotifyOne(p) ==
    /\ PosterMoves(p, "pushed", "notified")
    /\ pending' = {} \/ \E c \in pending : pending' = pending \ {c}
    /\ UNCHANGED <<messages, lockVars, body, clientVars>>

\* notify_waiters wakes every future created so far, and leaves no permit for
\* a later one.
NotifyWaiters(p) ==
    /\ PosterMoves(p, "pushed", "notified")
    /\ pending' = {}
    /\ UNCHANGED <<messages, lockVars, body, clientVars>>

\* publish returns: the guard is dropped, the caller is answered 200.
ReleaseWrite(p) ==
    /\ PosterMoves(p, "notified", "idle")
    /\ writer' = NoOne
    /\ UNCHANGED <<messages, readers, ahead, pending, body, clientVars>>

-----------------------------------------------------------------------------
(* subscribe, Subscription::next and its Drop *)

\* Mutant of FirstEvent: a resumed stream starts at the last event seen.
FirstEventAgain(lastSeen) == IF lastSeen = <<>> THEN 0 ELSE lastSeen[Len(lastSeen)].id

\* last_seen.map(|i| i + 1).unwrap_or(0)
FirstEvent(lastSeen) ==
    IF lastSeen = <<>> THEN 0 ELSE (lastSeen[Len(lastSeen)].id + 1) % EventMod

\* Mutant of SubscribeAnew: a newcomer hears what is posted from now on.
SubscribeAtEnd(c) ==
    /\ StreamMoves(c, "off", "poll")
    /\ nextEvent' = [nextEvent EXCEPT ![c] = Len(messages) % EventMod]
    /\ got' = [got EXCEPT ![c] = <<>>]
    /\ UNCHANGED <<roomVars, posterVars, wire>>

\* A client with no Last-Event-ID, as participant/src/client.rs: a newcomer.
SubscribeAnew(c) ==
    /\ StreamMoves(c, "off", "poll")
    /\ nextEvent' = [nextEvent EXCEPT ![c] = FirstEvent(<<>>)]
    /\ got' = [got EXCEPT ![c] = <<>>]
    /\ UNCHANGED <<roomVars, posterVars, wire>>

\* An EventSource client comes back with the id of the last event it read.
Resume(c) ==
    /\ StreamMoves(c, "off", "poll")
    /\ nextEvent' = [nextEvent EXCEPT ![c] = FirstEvent(got[c])]
    /\ UNCHANGED <<roomVars, posterVars, wire, got>>

\* The stream is polled: next asks for a read guard, behind the writers that
\* have asked already.
AskRead(c) ==
    /\ StreamMoves(c, "poll", "asking")
    /\ ahead' = [ahead EXCEPT ![c] = {p \in Poster : ppc[p] = "waiting"}]
    /\ UNCHANGED <<messages, writer, readers, pending, posterVars, nextEvent, wire, got>>

\* Mutant of Look: the look-up is off by one and leaves the last message.
LookShort(c) ==
    /\ writer = NoOne
    /\ ahead[c] = {}
    /\ StreamMoves(c, "asking", IF nextEvent[c] + 1 < Len(messages) THEN "found" ELSE "empty")
    /\ readers' = readers \cup {c}
    /\ UNCHANGED <<messages, writer, ahead, pending, posterVars, nextEvent, wire, got>>

\* Get the guard and look the next event up: history.get(next_event).
Look(c) ==
    /\ writer = NoOne
    /\ ahead[c] = {}
    /\ StreamMoves(c, "asking", IF nextEvent[c] < Len(messages) THEN "found" ELSE "empty")
    /\ readers' = readers \cup {c}
    /\ UNCHANGED <<messages, writer, ahead, pending, posterVars, nextEvent, wire, got>>

\* Mutant of Take: next and the stream around it both advance, without wrapping.
TakeAdvancesTwice(c) ==
    /\ StreamMoves(c, "found", "poll")
    /\ nextEvent' = [nextEvent EXCEPT ![c] = @ + 2]
    /\ wire' = [wire EXCEPT ![c] =
                  Append(@, [id |-> nextEvent[c], msg |-> messages[nextEvent[c] + 1]])]
    /\ readers' = readers \ {c}
    /\ UNCHANGED <<messages, writer, ahead, pending, posterVars, got>>

\* Some(msg): advance, return (which drops the guard) and yield the event.
Take(c) ==
    /\ StreamMoves(c, "found", "poll")
    /\ nextEvent' = [nextEvent EXCEPT ![c] = (@ + 1) % EventMod]
    /\ wire' = [wire EXCEPT ![c] =
                  Append(@, [id |-> nextEvent[c], msg |-> messages[nextEvent[c] + 1]])]
    /\ readers' = readers \ {c}
    /\ UNCHANGED <<messages, writer, ahead, pending, posterVars, got>>

\* None: create the Notified future before dropping the guard.
Arm(c) ==
    /\ StreamMoves(c, "empty", "armed")
    /\ pending' = pending \cup {c}
    /\ UNCHANGED <<messages, lockVars, posterVars, nextEvent, wire, got>>

\* Mutant of ReleaseRead: the guard is still held across the wait.
WaitUnderGuard(c) ==
    /\ StreamMoves(c, "armed", "waiting")
    /\ UNCHANGED <<messages, writer, readers, ahead, pending, posterVars, nextEvent, wire, got>>

\* drop(history), then the wait.
ReleaseRead(c) ==
    /\ StreamMoves(c, "armed", "waiting")
    /\ readers' = readers \ {c}
    /\ UNCHANGED <<messages, writer, ahead, pending, posterVars, nextEvent, wire, got>>

Wake(c) ==
    /\ c \notin pending
    /\ StreamMoves(c, "waiting", "poll")
    /\ UNCHANGED <<roomVars, posterVars, nextEvent, wire, got>>

\* The client reads the next event off its connection.
Receive(c) ==
    /\ wire[c] # <<>>
    /\ got' = [got EXCEPT ![c] = Append(@, Head(wire[c]))]
    /\ wire' = [wire EXCEPT ![c] = Tail(@)]
    /\ UNCHANGED <<roomVars, posterVars, spc, nextEvent>>

\* The connection breaks: the stream is dropped at an await or at its yield,
\* and what the client had not read is lost.
Disconnect(c) ==
    /\ spc[c] \in {"poll", "asking", "waiting"}
    /\ spc' = [spc EXCEPT ![c] = "off"]
    /\ ahead' = [ahead EXCEPT ![c] = {}]
    /\ pending' = pending \ {c}
    /\ wire' = [wire EXCEPT ![c] = <<>>]
    /\ UNCHANGED <<messages, writer, readers, posterVars, nextEvent, got>>

-----------------------------------------------------------------------------
PosterStep(p) ==
    \/ \E m \in Message : Broadcast(p, m)
    \/ AbandonBroadcast(p)
    \/ AcquireWrite(p)
    \/ Push(p)
    \/ NotifyWaiters(p)
    \/ ReleaseWrite(p)

ClientStep(c) ==
    \/ SubscribeAnew(c)
    \/ Resume(c)
    \/ AskRead(c)
    \/ Look(c)
    \/ Take(c)
    \/ Arm(c)
    \/ ReleaseRead(c)
    \/ Wake(c)
    \/ Receive(c)
    \/ Disconnect(c)

Next == \/ \E p \in Poster : PosterStep(p)
        \/ \E c \in Client : ClientStep(c)

\* tokio polls every runnable task and its lock is the queue modelled above, so
\* weak fairness is enough.  No request has to arrive, no client to connect.
Fairness ==
    /\ \A p \in Poster :
          WF_vars(AcquireWrite(p) \/ Push(p) \/ NotifyWaiters(p) \/ ReleaseWrite(p))
    /\ \A c \in Client :
          /\ WF_vars(AskRead(c) \/ Look(c) \/ Take(c) \/ Arm(c) \/ ReleaseRead(c) \/ Wake(c))
          /\ WF_vars(Receive(c))

Spec == Init /\ [][Next]_vars
FairSpec == Spec /\ Fairness

-----------------------------------------------------------------------------
\* A subscription that sleeps, or is about to, has read all there is - unless
\* a publisher has pushed and is on its way to wake it.  A message that slips
\* in between the look-up and the wait would be seen only when the next one
\* comes, and the last message of a signing round has no next one.
NoLostWakeup ==
    \A c \in Client :
        /\ spc[c] \in {"armed", "waiting"}
        /\ c \in pending
        /\ nextEvent[c] < Len(messages)
        => \E p \in Poster : ppc[p] = "pushed"

\* Whatever the client has read and the connection still carries is the
\* history from its first message on: nothing skipped, repeated or swapped,
\* over any number of broken connections and resumptions with Last-Event-ID.
DeliveredInOrder ==
    \A c \in Client :
        LET seen == got[c] \o wire[c]
        IN  /\ Len(seen) <= Len(messages)
            /\ \A i \in 1..Len(seen) : seen[i] = [id |-> i - 1, msg |-> messages[i]]

\* A message in the history reaches every client that stays connected, and
\* one that connects after the message was posted as well.
EveryMessageArrives ==
    \A c \in Client : \A i \in 1..MaxHistory :
        (Len(messages) >= i /\ spc[c] # "off")
            ~> (Len(got[c]) >= i \/ spc[c] = "off")

\* Subscriptions that read, sleep, break off and resume never keep a broadcast
\* from its write guard for good: it is answered, or its caller gives up.
BroadcastReturns == \A p \in Poster : (ppc[p] = "waiting") ~> (ppc[p] = "idle")

\* The room implements the log its users rely on.
payloads(c) == [i \in 1..Len(got[c]) |-> got[c][i].msg]

Log == INSTANCE BroadcastLog WITH log <- messages,
                                  got <- [c \in Client |-> payloads(c)]

LogSpec == Log!Spec
=============================================================================
