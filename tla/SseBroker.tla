----------------------------- MODULE SseBroker -----------------------------
(***************************************************************************)
(* The broker as its HTTP handlers see it (sse/src/lib.rs): the map from   *)
(* room names to rooms behind Db's RwLock, and the three handlers, each of *)
(* which first obtains its room with get_room_or_create_for_index and then *)
(* works on the room object it was given.                                  *)
(*                                                                         *)
(* The look-up under the read lock and the insertion under the write lock  *)
(* are two critical sections with a gap between them.  What happens inside *)
(* a room is one step here: SseRoom models it lock by lock and shows that  *)
(* it implements BroadcastLog.  Rooms live in a heap, because two requests *)
(* can hold different room objects for one name; that they never do is     *)
(* what Db has to guarantee.                                               *)
(***************************************************************************)
EXTENDS Sequences, Naturals

CONSTANTS RoomId,       \* room names
          Request,      \* HTTP requests that can be in flight at once
          Message,      \* payloads
          IdxMod,       \* unique indices are counted modulo this: 2^16 in the code
          MaxHistory,   \* bound: messages one room gets
          MaxIssued,    \* bound: indices one room issues
          NoRequest     \* what an idle request slot holds

ASSUME IdxModAssumption == IdxMod \in Nat \ {0}
ASSUME BrokerBoundsAssumption == MaxHistory \in Nat /\ MaxIssued \in Nat

VARIABLES rooms,        \* Db.rooms: name -> room object, or NoRoom
          heap,         \* the room objects ever created; a reference is an index
          pc, req,      \* each request: where it stands, what it asks
          ref,          \* the room object a request holds
          got,          \* what the SSE stream of a subscription has delivered
          accepted,     \* accepted[n]: broadcasts to n answered 200, in order
          issued        \* issued[n]: the indices issued for n, in order

dbVars == <<rooms, heap>>
history == <<accepted, issued>>
vars == <<dbVars, pc, req, ref, got, history>>

NoRoom == 0
EmptyRoom == [messages |-> <<>>, next_idx |-> 0]
RoomRecord == [messages : Seq(Message), next_idx : 0..(IdxMod - 1)]
HttpRequest == [op : {"subscribe", "issue_idx"}, name : RoomId]
               \cup [op : {"broadcast"}, name : RoomId, body : Message]

TypeOK ==
    /\ heap \in Seq(RoomRecord)
    /\ rooms \in [RoomId -> 0..Len(heap)]
    /\ pc \in [Request -> {"idle", "lookup", "missed", "joined", "streaming"}]
    /\ req \in [Request -> HttpRequest \cup {NoRequest}]
    /\ ref \in [Request -> 0..Len(heap)]
    /\ got \in [Request -> Seq(Message)]
    /\ accepted \in [RoomId -> Seq(Message)]
    /\ issued \in [RoomId -> Seq(0..(IdxMod - 1))]

Init ==
    /\ rooms = [n \in RoomId |-> NoRoom]
    /\ heap = <<>>
    /\ pc = [q \in Request |-> "idle"]
    /\ req = [q \in Request |-> NoRequest]
    /\ ref = [q \in Request |-> NoRoom]
    /\ got = [q \in Request |-> <<>>]
    /\ accepted = [n \in RoomId |-> <<>>]
    /\ issued = [n \in RoomId |-> <<>>]

Moves(q, from, to) ==
    /\ pc[q] = from
    /\ pc' = [pc EXCEPT ![q] = to]

\* A request is answered: its slot is free again.
Answered(q) ==
    /\ Moves(q, "joined", "idle")
    /\ req' = [req EXCEPT ![q] = NoRequest]
    /\ ref' = [ref EXCEPT ![q] = NoRoom]

\* A request arrives at one of the three routes.
Arrive(q, r) ==
    /\ Moves(q, "idle", "lookup")
    /\ req' = [req EXCEPT ![q] = r]
    /\ UNCHANGED <<dbVars, ref, got, history>>

\* The read lock: rooms.get(room_id) is Some, clone the Arc.
Found(q) ==
    /\ Moves(q, "lookup", "joined")
    /\ rooms[req[q].name] # NoRoom
    /\ ref' = [ref EXCEPT ![q] = rooms[req[q].name]]
    /\ UNCHANGED <<dbVars, req, got, history>>

\* None: the read guard is dropped, and the write lock is not held yet.
Missed(q) ==
    /\ Moves(q, "lookup", "missed")
    /\ rooms[req[q].name] = NoRoom
    /\ UNCHANGED <<dbVars, req, ref, got, history>>

\* The write lock, Entry::Vacant: a new room.
CreateRoom(q) ==
    /\ Moves(q, "missed", "joined")
    /\ rooms[req[q].name] = NoRoom
    /\ heap' = Append(heap, EmptyRoom)
    /\ rooms' = [rooms EXCEPT ![req[q].name] = Len(heap')]
    /\ ref' = [ref EXCEPT ![q] = Len(heap')]
    /\ UNCHANGED <<req, got, history>>

\* Mutant of CreatedMeanwhile: insert without looking again.
CreateAnyway(q) ==
    /\ Moves(q, "missed", "joined")
    /\ rooms[req[q].name] # NoRoom
    /\ heap' = Append(heap, EmptyRoom)
    /\ rooms' = [rooms EXCEPT ![req[q].name] = Len(heap')]
    /\ ref' = [ref EXCEPT ![q] = Len(heap')]
    /\ UNCHANGED <<req, got, history>>

\* The write lock, Entry::Occupied: another request created it in the gap.
CreatedMeanwhile(q) ==
    /\ Moves(q, "missed", "joined")
    /\ rooms[req[q].name] # NoRoom
    /\ ref' = [ref EXCEPT ![q] = rooms[req[q].name]]
    /\ UNCHANGED <<dbVars, req, got, history>>

\* Room::publish, and the 200.
Publish(q) ==
    /\ Answered(q)
    /\ req[q].op = "broadcast"
    /\ Len(heap[ref[q]].messages) < MaxHistory
    /\ heap' = [heap EXCEPT ![ref[q]].messages = Append(@, req[q].body)]
    /\ accepted' = [accepted EXCEPT ![req[q].name] = Append(@, req[q].body)]
    /\ UNCHANGED <<rooms, got, issued>>

\* Room::subscribe: the handler answers with the stream.
Subscribe(q) ==
    /\ Moves(q, "joined", "streaming")
    /\ req[q].op = "subscribe"
    /\ UNCHANGED <<dbVars, req, ref, got, history>>

\* Mutant of Deliver: the newest message first.
DeliverNewest(q) ==
    /\ pc[q] = "streaming"
    /\ Len(got[q]) < Len(heap[ref[q]].messages)
    /\ got' = [got EXCEPT ![q] =
                 Append(@, heap[ref[q]].messages[Len(heap[ref[q]].messages)])]
    /\ UNCHANGED <<dbVars, pc, req, ref, history>>

\* subscription_to_stream yields the next event and the client reads it.
Deliver(q) ==
    /\ pc[q] = "streaming"
    /\ Len(got[q]) < Len(heap[ref[q]].messages)
    /\ got' = [got EXCEPT ![q] = Append(@, heap[ref[q]].messages[Len(@) + 1])]
    /\ UNCHANGED <<dbVars, pc, req, ref, history>>

\* Mutant of IssueIdx: the counter is read, the addition is lost.
IssueIdxLosesUpdate(q) ==
    /\ Answered(q)
    /\ req[q].op = "issue_idx"
    /\ Len(issued[req[q].name]) < MaxIssued
    /\ issued' = [issued EXCEPT ![req[q].name] = Append(@, heap[ref[q]].next_idx)]
    /\ UNCHANGED <<dbVars, got, accepted>>

\* Mutant of IssueIdx: the counter grows beyond a u16.
IssueIdxUnbounded(q) ==
    /\ Answered(q)
    /\ req[q].op = "issue_idx"
    /\ Len(issued[req[q].name]) < MaxIssued
    /\ issued' = [issued EXCEPT ![req[q].name] = Append(@, heap[ref[q]].next_idx)]
    /\ heap' = [heap EXCEPT ![ref[q]].next_idx = @ + 1]
    /\ UNCHANGED <<rooms, got, accepted>>

\* issue_unique_idx: fetch_add returns the old value and wraps.
IssueIdx(q) ==
    /\ Answered(q)
    /\ req[q].op = "issue_idx"
    /\ Len(issued[req[q].name]) < MaxIssued
    /\ issued' = [issued EXCEPT ![req[q].name] = Append(@, heap[ref[q]].next_idx)]
    /\ heap' = [heap EXCEPT ![ref[q]].next_idx = (@ + 1) % IdxMod]
    /\ UNCHANGED <<rooms, got, accepted>>

\* The connection closes: the handler is dropped at an await, or the stream
\* between two events.  The room stays.
HangUp(q) ==
    /\ pc[q] # "idle"
    /\ pc' = [pc EXCEPT ![q] = "idle"]
    /\ req' = [req EXCEPT ![q] = NoRequest]
    /\ ref' = [ref EXCEPT ![q] = NoRoom]
    /\ got' = [got EXCEPT ![q] = <<>>]
    /\ UNCHANGED <<dbVars, history>>

GetRoomOrCreate(q) == Found(q) \/ Missed(q) \/ CreateRoom(q) \/ CreatedMeanwhile(q)

Next ==
    \E q \in Request :
        \/ \E r \in HttpRequest : Arrive(q, r)
        \/ GetRoomOrCreate(q)
        \/ Publish(q)
        \/ Subscribe(q)
        \/ Deliver(q)
        \/ IssueIdx(q)
        \/ HangUp(q)

Spec == Init /\ [][Next]_vars

-----------------------------------------------------------------------------
holding == {q \in Request : pc[q] \in {"joined", "streaming"}}

\* Two requests that name the same room work on the same room object, and
\* two that name different rooms on different ones, also when both found the
\* room missing and raced to create it.
OneRoomPerName ==
    \A q, r \in holding : ref[q] = ref[r] <=> req[q].name = req[r].name

\* A stream delivers what was broadcast to its own room, from the first
\* accepted message on and in the order of acceptance, and nothing else.
RoomIsolation ==
    \A q \in holding :
        /\ Len(got[q]) <= Len(accepted[req[q].name])
        /\ got[q] = SubSeq(accepted[req[q].name], 1, Len(got[q]))

\* No index is issued twice for a room, whichever requests ask for it.
UniqueIdx ==
    \A n \in RoomId : \A i, j \in 1..Len(issued[n]) :
        issued[n][i] = issued[n][j] => i = j

\* What the streams of a room name have delivered.
streamed(n) ==
    [q \in Request |-> IF pc[q] # "idle" /\ req[q].name = n THEN got[q] ELSE <<>>]

RoomLog(n) == INSTANCE BroadcastLog WITH Client <- Request,
                                         log <- accepted[n],
                                         got <- streamed(n)

\* Every room name is a log of its own, BroadcastLog, to those who stream it,
\* whichever room objects their requests were given.
EveryRoomIsALog ==
    /\ \A n \in RoomId : RoomLog(n)!Init
    /\ [][\A n \in RoomId : [RoomLog(n)!Next]_(RoomLog(n)!vars)]_vars
=============================================================================
