-------------------------- MODULE SseBroker_proofs --------------------------
(***************************************************************************)
(* What SseBroker's run checks on a small instance, for any room names,    *)
(* any number of requests, any messages, any width of the index counter    *)
(* and any bounds.                                                         *)
(***************************************************************************)
EXTENDS SseBroker, SequenceTheorems, TLAPS

-----------------------------------------------------------------------------
(* The invariant *)

\* A request that has been given a room has the one Db keeps for the name it
\* asks for - to the end, for rooms are never removed or replaced.
Holds ==
    \A q \in Request :
        /\ pc[q] # "idle" => req[q] \in HttpRequest
        /\ pc[q] \in {"joined", "streaming"} =>
              ref[q] # NoRoom /\ ref[q] = rooms[req[q].name]

\* Db: two names never share a room object.
Injective ==
    \A n, k \in RoomId : rooms[n] = rooms[k] /\ rooms[n] # NoRoom => n = k

\* A room object holds what was accepted for its name, and a name without one
\* has had no broadcast and no index.
Stored ==
    \A n \in RoomId :
        IF rooms[n] = NoRoom THEN accepted[n] = <<>> /\ issued[n] = <<>>
        ELSE heap[rooms[n]].messages = accepted[n]

\* Below the counter's width the next index is the number of those issued.
Counts ==
    \A n \in RoomId :
        /\ rooms[n] # NoRoom /\ Len(issued[n]) < IdxMod =>
              heap[rooms[n]].next_idx = Len(issued[n])
        /\ Len(issued[n]) <= IdxMod =>
              \A i \in 1..Len(issued[n]) : issued[n][i] = i - 1

\* What a stream has delivered is the beginning of what was accepted.
Begins(s, t) == Len(s) <= Len(t) /\ \A i \in 1..Len(s) : s[i] = t[i]

InOrder ==
    \A q \in Request :
        IF pc[q] = "streaming" THEN Begins(got[q], accepted[req[q].name])
                               ELSE got[q] = <<>>

IInv == TypeOK /\ Holds /\ Injective /\ Stored /\ Counts /\ InOrder

\* The broker starts without a room and without a request.
LEMMA IInvInit == Init => IInv
<1> SUFFICES ASSUME Init PROVE IInv
  OBVIOUS
<1>1. \A S : <<>> \in Seq(S) /\ Len(<<>>) = 0
  BY EmptySeq
<1>2. TypeOK
  BY <1>1 DEF Init, TypeOK, NoRoom
<1>3. Holds /\ Injective /\ InOrder
  BY DEF Init, Holds, Injective, InOrder
<1>4. Stored
  BY DEF Init, Stored
<1>5. Counts
  <2>1. \A n \in RoomId : rooms[n] = NoRoom /\ issued[n] = <<>>
    BY DEF Init
  <2>2. 1..Len(<<>>) = {}
    BY <1>1
  <2> QED BY <2>1, <2>2 DEF Counts
<1> QED BY <1>2, <1>3, <1>4, <1>5 DEF IInv

-----------------------------------------------------------------------------
(* What the steps that touch a room do to it *)

\* A room object that is updated is the only one that changes.
LEMMA HeapUpdate ==
  ASSUME heap \in Seq(RoomRecord), NEW r \in 1..Len(heap), NEW room \in RoomRecord,
         heap' = [heap EXCEPT ![r] = room]
  PROVE  /\ heap' \in Seq(RoomRecord) /\ Len(heap') = Len(heap) /\ heap'[r] = room
         /\ \A k \in 1..Len(heap) : k # r => heap'[k] = heap[k]
  BY ExceptSeq

\* A new room object is the last one, and empty.
LEMMA HeapGrows ==
  ASSUME heap \in Seq(RoomRecord), heap' = Append(heap, EmptyRoom)
  PROVE  /\ heap' \in Seq(RoomRecord) /\ Len(heap) \in Nat /\ Len(heap') = Len(heap) + 1
         /\ heap'[Len(heap')] = EmptyRoom
         /\ \A k \in 1..Len(heap) : heap'[k] = heap[k]
<1>1. EmptyRoom \in RoomRecord
  BY EmptySeq, IdxModAssumption DEF EmptyRoom, RoomRecord
<1> QED BY <1>1, AppendProperties, LenProperties

\* What a request with a room works on: the room of its name.
LEMMA OwnRoom ==
  ASSUME IInv, NEW q \in Request, pc[q] \in {"joined", "streaming"}
  PROVE  /\ req[q] \in HttpRequest /\ req[q].name \in RoomId
         /\ rooms[req[q].name] = ref[q] /\ ref[q] # NoRoom
         /\ ref[q] \in 1..Len(heap) /\ heap[ref[q]] \in RoomRecord
         /\ heap[ref[q]].messages = accepted[req[q].name]
         /\ accepted[req[q].name] \in Seq(Message)
<1>1. req[q] \in HttpRequest /\ rooms[req[q].name] = ref[q] /\ ref[q] # NoRoom
  BY DEF IInv, Holds
<1>2. req[q].name \in RoomId
  BY <1>1 DEF HttpRequest
<1>3. ref[q] \in 1..Len(heap)
  BY <1>1, LenProperties DEF IInv, TypeOK, NoRoom
<1>4. heap[ref[q]] \in RoomRecord
  BY <1>3, ElementOfSeq DEF IInv, TypeOK
<1>5. heap[ref[q]].messages = accepted[req[q].name] /\ accepted[req[q].name] \in Seq(Message)
  BY <1>1, <1>2 DEF IInv, TypeOK, Stored
<1> QED BY <1>1, <1>2, <1>3, <1>4, <1>5

\* A broadcast appends to the room of its name and to no other.
LEMMA PublishEffect ==
  ASSUME IInv, NEW q \in Request, Publish(q)
  PROVE  /\ req[q].name \in RoomId /\ req[q].body \in Message
         /\ rooms' = rooms /\ Len(heap') = Len(heap) /\ heap' \in Seq(RoomRecord)
         /\ accepted' = [accepted EXCEPT ![req[q].name] = Append(@, req[q].body)]
         /\ \A n \in RoomId : rooms[n] # NoRoom =>
               /\ heap[rooms[n]].messages = accepted[n] =>
                     heap'[rooms[n]].messages = accepted'[n]
               /\ heap'[rooms[n]].next_idx = heap[rooms[n]].next_idx
<1> DEFINE r == ref[q]
           room == [heap[r] EXCEPT !.messages = Append(@, req[q].body)]
<1>1. pc[q] = "joined" /\ req[q].op = "broadcast"
  BY DEF Publish, Answered, Moves
<1>2. /\ req[q] \in HttpRequest /\ req[q].name \in RoomId
      /\ rooms[req[q].name] = r /\ r # NoRoom /\ r \in 1..Len(heap)
      /\ heap[r] \in RoomRecord /\ heap[r].messages = accepted[req[q].name]
  BY <1>1, OwnRoom
<1>3. req[q].body \in Message
  BY <1>1, <1>2 DEF HttpRequest
<1>4. room \in RoomRecord /\ room.messages = Append(heap[r].messages, req[q].body)
      /\ room.next_idx = heap[r].next_idx
  <2>1. Append(heap[r].messages, req[q].body) \in Seq(Message)
    BY <1>2, <1>3, AppendProperties DEF RoomRecord
  <2> QED BY <1>2, <2>1 DEF RoomRecord
<1>5. heap' = [heap EXCEPT ![r] = room]
  BY DEF Publish
<1> HIDE DEF room
<1>6. /\ heap' \in Seq(RoomRecord) /\ Len(heap') = Len(heap) /\ heap'[r] = room
      /\ \A k \in 1..Len(heap) : k # r => heap'[k] = heap[k]
  BY <1>2, <1>4, <1>5, HeapUpdate DEF IInv, TypeOK
<1>7. rooms' = rooms
      /\ accepted' = [accepted EXCEPT ![req[q].name] = Append(@, req[q].body)]
  BY DEF Publish
<1>8. ASSUME NEW n \in RoomId, rooms[n] # NoRoom
      PROVE  /\ heap[rooms[n]].messages = accepted[n] =>
                   heap'[rooms[n]].messages = accepted'[n]
             /\ heap'[rooms[n]].next_idx = heap[rooms[n]].next_idx
  <2>1. rooms[n] \in 1..Len(heap)
    BY <1>8, LenProperties DEF IInv, TypeOK, NoRoom
  <2>2. CASE n = req[q].name
    BY <1>2, <1>4, <1>6, <1>7, <2>2 DEF IInv, TypeOK
  <2>3. CASE n # req[q].name
    <3>1. rooms[n] # r
      BY <1>2, <1>8, <2>3 DEF IInv, Injective
    <3> QED BY <1>2, <1>6, <1>7, <2>1, <2>3, <3>1 DEF IInv, TypeOK
  <2> QED BY <2>2, <2>3
<1> QED BY <1>2, <1>3, <1>6, <1>7, <1>8

\* An index is taken from the room of its name and from no other.
LEMMA IssueEffect ==
  ASSUME IInv, NEW q \in Request, IssueIdx(q)
  PROVE  LET n == req[q].name  r == ref[q] IN
         /\ n \in RoomId /\ rooms[n] = r /\ r # NoRoom
         /\ heap[r].next_idx \in 0..(IdxMod - 1)
         /\ rooms' = rooms /\ Len(heap') = Len(heap) /\ heap' \in Seq(RoomRecord)
         /\ issued' = [issued EXCEPT ![n] = Append(@, heap[r].next_idx)]
         /\ heap'[r].next_idx = (heap[r].next_idx + 1) % IdxMod
         /\ \A k \in RoomId : rooms[k] # NoRoom =>
               /\ heap'[rooms[k]].messages = heap[rooms[k]].messages
               /\ k # n => heap'[rooms[k]].next_idx = heap[rooms[k]].next_idx
<1> DEFINE r == ref[q]
           room == [heap[r] EXCEPT !.next_idx = (@ + 1) % IdxMod]
<1>1. pc[q] = "joined"
  BY DEF IssueIdx, Answered, Moves
<1>2. /\ req[q].name \in RoomId
      /\ rooms[req[q].name] = r /\ r # NoRoom /\ r \in 1..Len(heap)
      /\ heap[r] \in RoomRecord
  BY <1>1, OwnRoom
<1>3. heap[r].next_idx \in 0..(IdxMod - 1)
  BY <1>2 DEF RoomRecord
<1>4. room \in RoomRecord /\ room.messages = heap[r].messages
      /\ room.next_idx = (heap[r].next_idx + 1) % IdxMod
  <2>1. (heap[r].next_idx + 1) % IdxMod \in 0..(IdxMod - 1)
    BY <1>3, IdxModAssumption
  <2> QED BY <1>2, <2>1 DEF RoomRecord
<1>5. heap' = [heap EXCEPT ![r] = room]
  BY DEF IssueIdx
<1> HIDE DEF room
<1>6. /\ heap' \in Seq(RoomRecord) /\ Len(heap') = Len(heap) /\ heap'[r] = room
      /\ \A k \in 1..Len(heap) : k # r => heap'[k] = heap[k]
  BY <1>2, <1>4, <1>5, HeapUpdate DEF IInv, TypeOK
<1>7. /\ rooms' = rooms
      /\ issued' = [issued EXCEPT ![req[q].name] = Append(@, heap[r].next_idx)]
  BY DEF IssueIdx
<1>8. ASSUME NEW k \in RoomId, rooms[k] # NoRoom
      PROVE  /\ heap'[rooms[k]].messages = heap[rooms[k]].messages
             /\ k # req[q].name => heap'[rooms[k]].next_idx = heap[rooms[k]].next_idx
  <2>1. rooms[k] \in 1..Len(heap)
    BY <1>8, LenProperties DEF IInv, TypeOK, NoRoom
  <2>2. rooms[k] = r => k = req[q].name
    BY <1>2, <1>8 DEF IInv, Injective
  <2> QED BY <1>2, <1>4, <1>6, <2>1, <2>2
<1> QED BY <1>2, <1>3, <1>4, <1>6, <1>7, <1>8

\* A room that is created is the only one of its name, and empty.
LEMMA CreateEffect ==
  ASSUME IInv, NEW q \in Request, CreateRoom(q)
  PROVE  /\ req[q] \in HttpRequest /\ req[q].name \in RoomId
         /\ rooms[req[q].name] = NoRoom /\ Len(heap') # NoRoom
         /\ heap' \in Seq(RoomRecord) /\ Len(heap) \in Nat /\ Len(heap') = Len(heap) + 1
         /\ rooms' = [rooms EXCEPT ![req[q].name] = Len(heap')]
         /\ heap'[Len(heap')] = EmptyRoom
         /\ \A n \in RoomId : rooms[n] # Len(heap')
         /\ \A n \in RoomId : rooms[n] # NoRoom => heap'[rooms[n]] = heap[rooms[n]]
<1>1. req[q] \in HttpRequest
  BY DEF CreateRoom, Moves, IInv, Holds
<1>2. req[q].name \in RoomId
  BY <1>1 DEF HttpRequest
<1>3. /\ heap' \in Seq(RoomRecord) /\ Len(heap) \in Nat /\ Len(heap') = Len(heap) + 1
      /\ heap'[Len(heap')] = EmptyRoom
      /\ \A k \in 1..Len(heap) : heap'[k] = heap[k]
  BY HeapGrows DEF CreateRoom, IInv, TypeOK
<1>4. \A n \in RoomId : rooms[n] \in 0..Len(heap)
  BY DEF IInv, TypeOK
<1> QED BY <1>1, <1>2, <1>3, <1>4 DEF CreateRoom, NoRoom

-----------------------------------------------------------------------------
(* Every step keeps the invariant *)

\* The steps that leave Db, its rooms and the ghosts alone.
Looks(q) ==
    \/ \E r \in HttpRequest : Arrive(q, r)
    \/ Found(q) \/ Missed(q) \/ CreatedMeanwhile(q) \/ Subscribe(q) \/ HangUp(q)

\* Every step keeps the types.
LEMMA TypeNext ==
  ASSUME IInv, [Next]_vars
  PROVE  TypeOK'
<1> USE DEF IInv, dbVars, history
<1>1. ASSUME NEW q \in Request, Looks(q) PROVE TypeOK'
  <2>1. \A n \in RoomId : rooms[n] \in 0..Len(heap)
    BY DEF TypeOK
  <2>2. pc[q] # "idle" => req[q].name \in RoomId
    BY DEF Holds, HttpRequest
  <2>3. 0 \in 0..Len(heap)
    BY LenProperties DEF TypeOK
  <2>4. <<>> \in Seq(Message)
    BY EmptySeq
  <2>5. ASSUME NEW r \in HttpRequest, Arrive(q, r) PROVE TypeOK'
    BY <2>5 DEF Arrive, Moves, TypeOK
  <2>6. CASE Found(q) \/ CreatedMeanwhile(q)
    BY <2>1, <2>2, <2>6 DEF Found, CreatedMeanwhile, Moves, TypeOK
  <2>7. CASE Missed(q) \/ Subscribe(q)
    BY <2>7 DEF Missed, Subscribe, Moves, TypeOK
  <2>8. CASE HangUp(q)
    BY <2>3, <2>4, <2>8 DEF HangUp, TypeOK, NoRoom
  <2> QED BY <1>1, <2>5, <2>6, <2>7, <2>8 DEF Looks
<1>2. ASSUME NEW q \in Request, CreateRoom(q) PROVE TypeOK'
  <2>1. /\ heap' \in Seq(RoomRecord) /\ Len(heap) \in Nat /\ Len(heap') = Len(heap) + 1
        /\ rooms' = [rooms EXCEPT ![req[q].name] = Len(heap')]
    BY <1>2, CreateEffect
  <2>2. \A k \in 0..Len(heap) : k \in 0..Len(heap')
    BY <2>1
  <2>3. Len(heap') \in 0..Len(heap')
    BY <2>1
  <2> QED BY <1>2, <2>1, <2>2, <2>3 DEF CreateRoom, Moves, TypeOK
<1>3. ASSUME NEW q \in Request, Publish(q) PROVE TypeOK'
  <2>1. /\ req[q].name \in RoomId /\ req[q].body \in Message
        /\ rooms' = rooms /\ Len(heap') = Len(heap) /\ heap' \in Seq(RoomRecord)
        /\ accepted' = [accepted EXCEPT ![req[q].name] = Append(@, req[q].body)]
    BY <1>3, PublishEffect
  <2>2. Append(accepted[req[q].name], req[q].body) \in Seq(Message)
    BY <2>1, AppendProperties DEF TypeOK
  <2>3. 0 \in 0..Len(heap)
    BY LenProperties DEF TypeOK
  <2> QED BY <1>3, <2>1, <2>2, <2>3 DEF Publish, Answered, Moves, TypeOK, NoRoom
<1>4. ASSUME NEW q \in Request, IssueIdx(q) PROVE TypeOK'
  <2>1. /\ req[q].name \in RoomId /\ heap[ref[q]].next_idx \in 0..(IdxMod - 1)
        /\ rooms' = rooms /\ Len(heap') = Len(heap) /\ heap' \in Seq(RoomRecord)
        /\ issued' = [issued EXCEPT ![req[q].name] = Append(@, heap[ref[q]].next_idx)]
    BY <1>4, IssueEffect
  <2>2. Append(issued[req[q].name], heap[ref[q]].next_idx) \in Seq(0..(IdxMod - 1))
    BY <2>1, AppendProperties DEF TypeOK
  <2>3. 0 \in 0..Len(heap)
    BY LenProperties DEF TypeOK
  <2> QED BY <1>4, <2>1, <2>2, <2>3 DEF IssueIdx, Answered, Moves, TypeOK, NoRoom
<1>5. ASSUME NEW q \in Request, Deliver(q) PROVE TypeOK'
  <2>1. heap[ref[q]].messages \in Seq(Message)
    BY <1>5, OwnRoom DEF Deliver, RoomRecord
  <2>2. got[q] \in Seq(Message) /\ Len(got[q]) \in Nat /\ Len(heap[ref[q]].messages) \in Nat
    BY <2>1, LenProperties DEF TypeOK
  <2>3. heap[ref[q]].messages[Len(got[q]) + 1] \in Message
    BY <1>5, <2>1, <2>2, ElementOfSeq DEF Deliver
  <2>4. Append(got[q], heap[ref[q]].messages[Len(got[q]) + 1]) \in Seq(Message)
    BY <2>2, <2>3, AppendProperties
  <2> QED BY <1>5, <2>4 DEF Deliver, TypeOK
<1>6. CASE UNCHANGED vars
  BY <1>6 DEF vars, TypeOK
<1> QED BY <1>1, <1>2, <1>3, <1>4, <1>5, <1>6 DEF Next, GetRoomOrCreate, Looks

\* What a request was given stays the room of its name: a name that has a room
\* keeps it, and a request that finds none, or one made in the gap, gets the
\* one that is in the map by then.
LEMMA HoldsNext ==
  ASSUME IInv, [Next]_vars
  PROVE  Holds'
<1> USE DEF IInv, TypeOK, dbVars, history
<1>1. ASSUME NEW q \in Request, Looks(q) PROVE Holds'
  <2>1. ASSUME NEW r \in HttpRequest, Arrive(q, r) PROVE Holds'
    BY <2>1 DEF Arrive, Moves, Holds
  <2>2. CASE Found(q) \/ CreatedMeanwhile(q)
    BY <2>2 DEF Found, CreatedMeanwhile, Moves, Holds
  <2>3. CASE Missed(q)
    BY <2>3 DEF Missed, Moves, Holds
  <2>4. CASE Subscribe(q)
    BY <2>4 DEF Subscribe, Moves, Holds
  <2>5. CASE HangUp(q)
    BY <2>5 DEF HangUp, Holds
  <2> QED BY <1>1, <2>1, <2>2, <2>3, <2>4, <2>5 DEF Looks
<1>2. ASSUME NEW q \in Request, CreateRoom(q) PROVE Holds'
  <2>1. /\ req[q] \in HttpRequest /\ req[q].name \in RoomId
        /\ rooms[req[q].name] = NoRoom /\ Len(heap') # NoRoom
        /\ rooms' = [rooms EXCEPT ![req[q].name] = Len(heap')]
    BY <1>2, CreateEffect
  <2>2. /\ pc' = [pc EXCEPT ![q] = "joined"] /\ req' = req
        /\ ref' = [ref EXCEPT ![q] = Len(heap')]
    BY <1>2 DEF CreateRoom, Moves
  <2>3. ASSUME NEW o \in Request, o # q, pc[o] \in {"joined", "streaming"}
        PROVE  rooms'[req[o].name] = rooms[req[o].name]
    BY <2>1, <2>3, OwnRoom
  <2> QED BY <2>1, <2>2, <2>3 DEF Holds
<1>3. ASSUME NEW q \in Request, Publish(q) \/ IssueIdx(q) PROVE Holds'
  BY <1>3 DEF Publish, IssueIdx, Answered, Moves, Holds
<1>4. ASSUME NEW q \in Request, Deliver(q) PROVE Holds'
  BY <1>4 DEF Deliver, Holds
<1>5. CASE UNCHANGED vars
  BY <1>5 DEF vars, Holds
<1> QED BY <1>1, <1>2, <1>3, <1>4, <1>5 DEF Next, GetRoomOrCreate, Looks

\* A room object that is created is new to every name.
LEMMA InjectiveNext ==
  ASSUME IInv, [Next]_vars
  PROVE  Injective'
<1> USE DEF IInv, TypeOK, dbVars, history
<1>1. CASE rooms' = rooms
  BY <1>1 DEF Injective
<1>2. ASSUME NEW q \in Request, CreateRoom(q) PROVE Injective'
  <2>1. /\ rooms' = [rooms EXCEPT ![req[q].name] = Len(heap')]
        /\ \A n \in RoomId : rooms[n] # Len(heap')
    BY <1>2, CreateEffect
  <2> QED BY <2>1 DEF Injective
<1>3. rooms' = rooms \/ \E q \in Request : CreateRoom(q)
  BY DEF Next, GetRoomOrCreate, Arrive, Found, Missed, CreatedMeanwhile, Subscribe,
         HangUp, Publish, IssueIdx, Deliver, vars
<1> QED BY <1>1, <1>2, <1>3

\* The steps that change rooms or ghosts.
LEMMA StoreSteps ==
  ASSUME [Next]_vars
  PROVE  \/ UNCHANGED <<rooms, heap, accepted, issued>>
         \/ \E q \in Request : CreateRoom(q) \/ Publish(q) \/ IssueIdx(q)
  BY DEF Next, GetRoomOrCreate, Arrive, Found, Missed, CreatedMeanwhile, Subscribe,
         HangUp, Publish, IssueIdx, Deliver, vars, dbVars, history

\* What is in a room is what was accepted for its name.
LEMMA StoredNext ==
  ASSUME IInv, [Next]_vars
  PROVE  Stored'
<1> USE DEF IInv, TypeOK
<1>1. CASE UNCHANGED <<rooms, heap, accepted, issued>>
  BY <1>1 DEF Stored
<1>2. ASSUME NEW q \in Request, CreateRoom(q) PROVE Stored'
  <2>1. /\ req[q].name \in RoomId /\ rooms[req[q].name] = NoRoom /\ Len(heap') # NoRoom
        /\ rooms' = [rooms EXCEPT ![req[q].name] = Len(heap')]
        /\ heap'[Len(heap')] = EmptyRoom
        /\ \A n \in RoomId : rooms[n] # NoRoom => heap'[rooms[n]] = heap[rooms[n]]
    BY <1>2, CreateEffect
  <2>2. accepted' = accepted /\ issued' = issued
    BY <1>2 DEF CreateRoom, history
  <2>3. EmptyRoom.messages = <<>>
    BY DEF EmptyRoom
  <2> QED BY <2>1, <2>2, <2>3 DEF Stored
<1>3. ASSUME NEW q \in Request, Publish(q) PROVE Stored'
  <2>1. /\ req[q].name \in RoomId /\ rooms' = rooms
        /\ accepted' = [accepted EXCEPT ![req[q].name] = Append(@, req[q].body)]
        /\ \A n \in RoomId : rooms[n] # NoRoom /\ heap[rooms[n]].messages = accepted[n]
              => heap'[rooms[n]].messages = accepted'[n]
    BY <1>3, PublishEffect
  <2>2. rooms[req[q].name] # NoRoom
    BY <1>3, OwnRoom DEF Publish, Answered, Moves
  <2>3. issued' = issued
    BY <1>3 DEF Publish
  <2> QED BY <2>1, <2>2, <2>3 DEF Stored
<1>4. ASSUME NEW q \in Request, IssueIdx(q) PROVE Stored'
  <2>1. /\ req[q].name \in RoomId /\ rooms[req[q].name] # NoRoom /\ rooms' = rooms
        /\ issued' = [issued EXCEPT ![req[q].name] = Append(@, heap[ref[q]].next_idx)]
        /\ \A n \in RoomId : rooms[n] # NoRoom =>
              heap'[rooms[n]].messages = heap[rooms[n]].messages
    BY <1>4, IssueEffect
  <2>2. accepted' = accepted
    BY <1>4 DEF IssueIdx
  <2> QED BY <2>1, <2>2 DEF Stored
<1> QED BY <1>1, <1>2, <1>3, <1>4, StoreSteps

\* Below its width the counter does not wrap.
LEMMA NoWrap ==
  ASSUME NEW n \in Nat, n < IdxMod
  PROVE  n % IdxMod = n
  BY IdxModAssumption

\* While no more indices are issued than there are, each is the next number.
LEMMA CountsNext ==
  ASSUME IInv, [Next]_vars
  PROVE  Counts'
<1> USE DEF IInv, TypeOK
<1>1. CASE UNCHANGED <<rooms, heap, accepted, issued>>
  BY <1>1 DEF Counts
<1>2. ASSUME NEW q \in Request, CreateRoom(q) PROVE Counts'
  <2>1. /\ req[q].name \in RoomId /\ rooms[req[q].name] = NoRoom
        /\ rooms' = [rooms EXCEPT ![req[q].name] = Len(heap')]
        /\ heap'[Len(heap')] = EmptyRoom
        /\ \A n \in RoomId : rooms[n] # NoRoom => heap'[rooms[n]] = heap[rooms[n]]
    BY <1>2, CreateEffect
  <2>2. issued' = issued
    BY <1>2 DEF CreateRoom, history
  <2>3. EmptyRoom.next_idx = 0 /\ Len(<<>>) = 0
    BY EmptySeq DEF EmptyRoom
  <2>4. issued[req[q].name] = <<>>
    BY <2>1 DEF Stored
  <2> QED BY <2>1, <2>2, <2>3, <2>4 DEF Counts
<1>3. ASSUME NEW q \in Request, Publish(q) PROVE Counts'
  <2>1. /\ rooms' = rooms
        /\ \A n \in RoomId : rooms[n] # NoRoom =>
              heap'[rooms[n]].next_idx = heap[rooms[n]].next_idx
    BY <1>3, PublishEffect
  <2>2. issued' = issued
    BY <1>3 DEF Publish
  <2> QED BY <2>1, <2>2 DEF Counts
<1>4. ASSUME NEW q \in Request, IssueIdx(q) PROVE Counts'
  <2> DEFINE n == req[q].name
             i == heap[ref[q]].next_idx
  <2>1. /\ n \in RoomId /\ rooms[n] = ref[q] /\ ref[q] # NoRoom /\ rooms' = rooms
        /\ i \in 0..(IdxMod - 1)
        /\ issued' = [issued EXCEPT ![n] = Append(@, i)]
        /\ heap'[ref[q]].next_idx = (i + 1) % IdxMod
        /\ \A k \in RoomId : rooms[k] # NoRoom /\ k # n =>
              heap'[rooms[k]].next_idx = heap[rooms[k]].next_idx
    BY <1>4, IssueEffect
  <2> HIDE DEF n, i
  <2>2. /\ Len(issued[n]) \in Nat /\ issued'[n] = Append(issued[n], i)
        /\ Len(issued'[n]) = Len(issued[n]) + 1
        /\ \A j \in 1..Len(issued[n]) : issued'[n][j] = issued[n][j]
        /\ issued'[n][Len(issued[n]) + 1] = i
    BY <2>1, AppendProperties, LenProperties
  <2>3. /\ Len(issued[n]) < IdxMod => i = Len(issued[n])
        /\ Len(issued[n]) <= IdxMod => \A j \in 1..Len(issued[n]) : issued[n][j] = j - 1
    BY <2>1 DEF Counts, i
  <2>4. Len(issued'[n]) < IdxMod => heap'[rooms'[n]].next_idx = Len(issued'[n])
    <3>1. SUFFICES ASSUME Len(issued'[n]) < IdxMod
                   PROVE  heap'[rooms'[n]].next_idx = Len(issued'[n])
      OBVIOUS
    <3>2. i + 1 = Len(issued'[n]) /\ i + 1 \in Nat
      BY <2>2, <2>3, <3>1, IdxModAssumption
    <3>3. (i + 1) % IdxMod = i + 1
      BY <3>1, <3>2, NoWrap
    <3> QED BY <2>1, <3>2, <3>3
  <2>5. Len(issued'[n]) <= IdxMod =>
           \A j \in 1..Len(issued'[n]) : issued'[n][j] = j - 1
    BY <2>2, <2>3, IdxModAssumption
  <2>6. \A k \in RoomId : k # n => issued'[k] = issued[k]
    BY <2>1
  <2> QED BY <2>1, <2>4, <2>5, <2>6 DEF Counts
<1> QED BY <1>1, <1>2, <1>3, <1>4, StoreSteps

\* What was delivered stays the beginning of what was accepted: the log of a
\* name only grows, and the next message delivered is the next one of it.
LEMMA InOrderNext ==
  ASSUME IInv, [Next]_vars
  PROVE  InOrder'
<1> USE DEF IInv, TypeOK, dbVars, history
<1>1. ASSUME NEW q \in Request, Looks(q) \/ CreateRoom(q) \/ IssueIdx(q) PROVE InOrder'
  <2>1. Len(<<>>) = 0 /\ \A n \in RoomId : Len(accepted[n]) \in Nat
    BY EmptySeq, LenProperties
  <2>2. pc[q] # "idle" => req[q].name \in RoomId
    BY DEF Holds, HttpRequest
  <2>3. \A n \in RoomId : Begins(<<>>, accepted[n])
    BY <2>1 DEF Begins
  <2>4. accepted' = accepted
    BY <1>1 DEF Looks, Arrive, Found, Missed, CreatedMeanwhile, Subscribe, HangUp,
                CreateRoom, IssueIdx
  <2>5. \A o \in Request : o # q => pc'[o] = pc[o] /\ req'[o] = req[o] /\ got'[o] = got[o]
    BY <1>1 DEF Looks, Arrive, Found, Missed, CreatedMeanwhile, Subscribe, HangUp,
                CreateRoom, IssueIdx, Moves, Answered
  <2>6. got[q] = <<>> \/ HangUp(q)
    BY <1>1 DEF InOrder, Looks, Arrive, Found, Missed, CreatedMeanwhile, Subscribe,
                CreateRoom, IssueIdx, Moves, Answered
  <2>7. got'[q] = <<>>
    BY <1>1, <2>6 DEF Looks, Arrive, Found, Missed, CreatedMeanwhile, Subscribe, HangUp,
                      CreateRoom, IssueIdx
  <2>8. pc'[q] = "streaming" => req'[q] = req[q] /\ pc[q] # "idle"
    BY <1>1 DEF Looks, Arrive, Found, Missed, CreatedMeanwhile, Subscribe, HangUp,
                CreateRoom, IssueIdx, Moves, Answered
  <2> QED BY <2>2, <2>3, <2>4, <2>5, <2>7, <2>8 DEF InOrder
<1>2. ASSUME NEW q \in Request, Publish(q) PROVE InOrder'
  <2>1. /\ req[q].name \in RoomId /\ req[q].body \in Message
        /\ accepted' = [accepted EXCEPT ![req[q].name] = Append(@, req[q].body)]
    BY <1>2, PublishEffect
  <2>2. \A s, n : n \in RoomId /\ s \in Seq(Message) /\ Begins(s, accepted[n])
                     => Begins(s, accepted'[n])
    <3> SUFFICES ASSUME NEW n \in RoomId, NEW s \in Seq(Message), Begins(s, accepted[n])
                 PROVE  Begins(s, accepted'[n])
      OBVIOUS
    <3>1. CASE n # req[q].name
      BY <2>1, <3>1
    <3>2. CASE n = req[q].name
      <4>1. accepted'[n] = Append(accepted[n], req[q].body)
        BY <2>1, <3>2
      <4>2. /\ Len(accepted[n]) \in Nat /\ Len(s) \in Nat
            /\ Len(accepted'[n]) = Len(accepted[n]) + 1
            /\ \A i \in 1..Len(accepted[n]) : accepted'[n][i] = accepted[n][i]
        BY <2>1, <4>1, AppendProperties, LenProperties
      <4> QED BY <4>2 DEF Begins
    <3> QED BY <3>1, <3>2
  <2>3. pc[q] = "joined" /\ pc' = [pc EXCEPT ![q] = "idle"] /\ got' = got
        /\ \A o \in Request : o # q => req'[o] = req[o]
    BY <1>2 DEF Publish, Answered, Moves
  <2>4. \A o \in Request : pc[o] = "streaming" => req[o].name \in RoomId
    BY DEF Holds, HttpRequest
  <2> QED BY <2>2, <2>3, <2>4 DEF InOrder
<1>3. ASSUME NEW q \in Request, Deliver(q) PROVE InOrder'
  <2> DEFINE t == accepted[req[q].name]
             m == t[Len(got[q]) + 1]
  <2>1. pc[q] = "streaming" /\ heap[ref[q]].messages = t /\ t \in Seq(Message)
    BY <1>3, OwnRoom DEF Deliver
  <2>2. got' = [got EXCEPT ![q] = Append(@, m)] /\ Len(got[q]) < Len(t)
        /\ pc' = pc /\ req' = req /\ accepted' = accepted
    BY <1>3, <2>1 DEF Deliver
  <2>3. got[q] \in Seq(Message) /\ Len(got[q]) \in Nat /\ Len(t) \in Nat
    BY <2>1, LenProperties
  <2>4. m \in Message
    BY <2>1, <2>2, <2>3, ElementOfSeq
  <2>5. Begins(got[q], t)
    BY <2>1 DEF InOrder
  <2> HIDE DEF t, m
  <2>6. /\ Len(Append(got[q], m)) = Len(got[q]) + 1
        /\ \A i \in 1..Len(got[q]) : Append(got[q], m)[i] = got[q][i]
        /\ Append(got[q], m)[Len(got[q]) + 1] = m
    BY <2>3, <2>4, AppendProperties
  <2>7. Begins(Append(got[q], m), t)
    BY <2>2, <2>3, <2>5, <2>6 DEF Begins, m
  <2> QED BY <2>1, <2>2, <2>7 DEF InOrder, t
<1>4. CASE UNCHANGED vars
  BY <1>4 DEF vars, InOrder
<1> QED BY <1>1, <1>2, <1>3, <1>4 DEF Next, GetRoomOrCreate, Looks

\* The inductive invariant of the broker.
THEOREM Inductive == Spec => []IInv
<1>1. IInv /\ [Next]_vars => IInv'
  BY TypeNext, HoldsNext, InjectiveNext, StoredNext, CountsNext, InOrderNext DEF IInv
<1> QED BY <1>1, IInvInit, PTL DEF Spec

\* The type invariant of the broker.
THEOREM TypeCorrect == Spec => []TypeOK
<1>1. IInv => TypeOK
  BY DEF IInv
<1> QED BY <1>1, Inductive, PTL

\* Two requests for one name work on one room object and two for different
\* names on different ones, however many of them found the room missing and
\* raced to create it.
THEOREM RoomsAreOnePerName == Spec => []OneRoomPerName
<1>1. IInv => OneRoomPerName
  <2> SUFFICES ASSUME IInv, NEW q \in holding, NEW r \in holding
               PROVE  ref[q] = ref[r] <=> req[q].name = req[r].name
    BY DEF OneRoomPerName
  <2>1. /\ req[q].name \in RoomId /\ rooms[req[q].name] = ref[q] /\ ref[q] # NoRoom
        /\ req[r].name \in RoomId /\ rooms[req[r].name] = ref[r]
    BY OwnRoom DEF holding
  <2> QED BY <2>1 DEF IInv, Injective
<1> QED BY <1>1, Inductive, PTL

\* A stream delivers what was broadcast to its own room, from the first message
\* on, in order and with no gap, whoever else uses the broker.
THEOREM StreamsKeepToTheirRoom == Spec => []RoomIsolation
<1>1. IInv => RoomIsolation
  <2> SUFFICES ASSUME IInv, NEW q \in holding
               PROVE  /\ Len(got[q]) <= Len(accepted[req[q].name])
                      /\ got[q] = SubSeq(accepted[req[q].name], 1, Len(got[q]))
    BY DEF RoomIsolation
  <2> DEFINE t == accepted[req[q].name]
  <2>1. q \in Request /\ t \in Seq(Message) /\ got[q] \in Seq(Message)
    BY OwnRoom DEF holding, IInv, TypeOK
  <2>2. Len(got[q]) \in Nat /\ Len(t) \in Nat /\ Len(<<>>) = 0
    BY <2>1, LenProperties, EmptySeq
  <2>3. Begins(got[q], t)
    <3>1. CASE pc[q] = "streaming"
      BY <2>1, <3>1 DEF IInv, InOrder
    <3>2. CASE pc[q] # "streaming"
      BY <2>1, <2>2, <3>2 DEF IInv, InOrder, Begins
    <3> QED BY <3>1, <3>2
  <2> HIDE DEF t
  <2>4. Len(got[q]) <= Len(t) /\ \A i \in 1..Len(got[q]) : got[q][i] = t[i]
    BY <2>3 DEF Begins
  <2>5. /\ SubSeq(t, 1, Len(got[q])) \in Seq(Message)
        /\ Len(SubSeq(t, 1, Len(got[q]))) = Len(got[q])
        /\ \A i \in 1..Len(got[q]) : SubSeq(t, 1, Len(got[q]))[i] = t[i]
    BY <2>1, <2>2, <2>4, SubSeqProperties
  <2>6. got[q] = SubSeq(t, 1, Len(got[q]))
    BY <2>1, <2>4, <2>5, SeqEqual
  <2> QED BY <2>4, <2>6 DEF t
<1> QED BY <1>1, Inductive, PTL

\* No room issues more indices than its counter can tell apart.
IndicesFit == \A n \in RoomId : Len(issued[n]) <= IdxMod

\* As long as no room issues more indices than a u16 has values, none of them
\* is issued twice for a room.
THEOREM IndicesAreUniqueWhileTheyFit == Spec => [](IndicesFit => UniqueIdx)
<1>1. IInv => (IndicesFit => UniqueIdx)
  <2> SUFFICES ASSUME IInv, IndicesFit, NEW n \in RoomId,
                      NEW i \in 1..Len(issued[n]), NEW j \in 1..Len(issued[n]),
                      issued[n][i] = issued[n][j]
               PROVE  i = j
    BY DEF UniqueIdx
  <2>1. issued[n][i] = i - 1 /\ issued[n][j] = j - 1
    BY DEF IInv, Counts, IndicesFit
  <2>2. i \in Nat /\ j \in Nat
    BY LenProperties DEF IInv, TypeOK
  <2>3. i - 1 = j - 1
    BY <2>1
  <2> QED BY <2>2, <2>3
<1> QED BY <1>1, Inductive, PTL

-----------------------------------------------------------------------------
(* Every room name is a log *)

\* Seen from one name, a step is a step of its log or nothing.
LEMMA RoomLogNext ==
  ASSUME IInv, [Next]_vars, NEW n \in RoomId
  PROVE  [RoomLog(n)!Next]_(RoomLog(n)!vars)
<1> USE DEF IInv, TypeOK, dbVars, history
<1>1. ASSUME NEW q \in Request, Publish(q) PROVE [RoomLog(n)!Next]_(RoomLog(n)!vars)
  <2>1. /\ req[q].name \in RoomId /\ req[q].body \in Message
        /\ accepted' = [accepted EXCEPT ![req[q].name] = Append(@, req[q].body)]
    BY <1>1, PublishEffect
  <2>2. streamed(n)' = streamed(n)
    <3>1. pc[q] = "joined" /\ pc' = [pc EXCEPT ![q] = "idle"] /\ got' = got
          /\ \A o \in Request : o # q => req'[o] = req[o]
      BY <1>1 DEF Publish, Answered, Moves
    <3>2. got[q] = <<>>
      BY <3>1 DEF InOrder
    <3> QED BY <3>1, <3>2 DEF streamed
  <2>3. CASE n = req[q].name
    <3>1. RoomLog(n)!Post(req[q].body)
      BY <2>1, <2>2, <2>3 DEF RoomLog!Post
    <3> QED BY <2>1, <3>1 DEF RoomLog!Next
  <2>4. CASE n # req[q].name
    BY <2>1, <2>2, <2>4 DEF RoomLog!vars
  <2> QED BY <2>3, <2>4
<1>2. ASSUME NEW q \in Request, Deliver(q) PROVE [RoomLog(n)!Next]_(RoomLog(n)!vars)
  <2>1. /\ pc[q] = "streaming" /\ req[q].name \in RoomId
        /\ heap[ref[q]].messages = accepted[req[q].name]
    BY <1>2, OwnRoom DEF Deliver
  <2>2. /\ Len(got[q]) < Len(accepted[req[q].name])
        /\ got' = [got EXCEPT ![q] = Append(@, accepted[req[q].name][Len(@) + 1])]
        /\ pc' = pc /\ req' = req /\ accepted' = accepted
    BY <1>2, <2>1 DEF Deliver
  <2>3. CASE n = req[q].name
    <3>1. streamed(n) \in [Request -> Seq(Message)] /\ streamed(n)[q] = got[q]
      BY <2>1, <2>3, EmptySeq DEF streamed
    <3>2. streamed(n)' = [streamed(n) EXCEPT ![q] = Append(@, accepted[n][Len(@) + 1])]
      BY <2>1, <2>2, <2>3 DEF streamed
    <3>3. RoomLog(n)!Deliver(q)
      BY <2>2, <2>3, <3>1, <3>2 DEF RoomLog!Deliver
    <3> QED BY <3>3 DEF RoomLog!Next
  <2>4. CASE n # req[q].name
    <3>1. streamed(n)' = streamed(n)
      BY <2>1, <2>2, <2>4 DEF streamed
    <3> QED BY <2>2, <3>1 DEF RoomLog!vars
  <2> QED BY <2>3, <2>4
<1>3. ASSUME NEW q \in Request, HangUp(q) PROVE [RoomLog(n)!Next]_(RoomLog(n)!vars)
  <2>1. /\ pc[q] # "idle" /\ pc' = [pc EXCEPT ![q] = "idle"]
        /\ req' = [req EXCEPT ![q] = NoRequest] /\ got' = [got EXCEPT ![q] = <<>>]
        /\ accepted' = accepted
    BY <1>3 DEF HangUp
  <2>2. streamed(n)' = [streamed(n) EXCEPT ![q] = <<>>]
    BY <2>1 DEF streamed
  <2>3. RoomLog(n)!Rejoin(q)
    BY <2>1, <2>2 DEF RoomLog!Rejoin
  <2> QED BY <2>3 DEF RoomLog!Next
<1>4. ASSUME NEW q \in Request, Looks(q) \/ CreateRoom(q) \/ IssueIdx(q), ~HangUp(q)
      PROVE  UNCHANGED RoomLog(n)!vars
  <2>1. accepted' = accepted /\ got' = got
    BY <1>4 DEF Looks, Arrive, Found, Missed, CreatedMeanwhile, Subscribe, CreateRoom,
                IssueIdx
  <2>2. got[q] = <<>>
    BY <1>4 DEF InOrder, Looks, Arrive, Found, Missed, CreatedMeanwhile, Subscribe,
                CreateRoom, IssueIdx, Moves, Answered
  <2>3. \A o \in Request : o # q => pc'[o] = pc[o] /\ req'[o] = req[o]
    BY <1>4 DEF Looks, Arrive, Found, Missed, CreatedMeanwhile, Subscribe, CreateRoom,
                IssueIdx, Moves, Answered
  <2>4. streamed(n)' = streamed(n)
    BY <2>1, <2>2, <2>3 DEF streamed
  <2> QED BY <2>1, <2>4 DEF RoomLog!vars
<1>5. CASE UNCHANGED vars
  BY <1>5 DEF vars, streamed, RoomLog!vars
<1> QED BY <1>1, <1>2, <1>3, <1>4, <1>5 DEF Next, GetRoomOrCreate, Looks

\* Every room name is a log of its own, BroadcastLog, to those who stream it,
\* for any names and requests and whichever room objects the requests were
\* given: what is posted to one name is not seen under another.
THEOREM EveryRoomImplementsLog == Spec => EveryRoomIsALog
<1>1. Init => \A n \in RoomId : RoomLog(n)!Init
  BY DEF Init, streamed, RoomLog!Init
<1>2. IInv /\ [Next]_vars => [\A n \in RoomId : [RoomLog(n)!Next]_(RoomLog(n)!vars)]_vars
  BY RoomLogNext
<1> QED BY <1>1, <1>2, Inductive, PTL DEF Spec, EveryRoomIsALog
=============================================================================
