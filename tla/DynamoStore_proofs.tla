------------------------- MODULE DynamoStore_proofs -------------------------
(***************************************************************************)
(* Proofs about the DynamoDB store, for every number of threads (of one    *)
(* instance or of several), devices, attempts, and size of a page.         *)
(***************************************************************************)
EXTENDS DynamoStore, FiniteSetTheorems, TLAPS

-----------------------------------------------------------------------------
(***************************************************************************)
(* Rows, requests and updates (StoreTypes).                                *)
(***************************************************************************)

\* UPDATE ... SET status keeps every row but for its status.
LEMMA WithStatusRows ==
  ASSUME NEW T \in SUBSET DeviceRows, NEW d \in DeviceIds, NEW s \in Statuses
  PROVE  /\ WithStatus(T, d, s) \subseteq DeviceRows
         /\ \A r \in T : \E q \in WithStatus(T, d, s) :
              /\ q.device_id = r.device_id
              /\ q.owner = r.owner
              /\ q.created_at = r.created_at
              /\ r.device_id # d => q = r
              /\ r.device_id = d => q.status = s
         /\ \A q \in WithStatus(T, d, s) : \E r \in T :
              q = IF r.device_id = d THEN [r EXCEPT !.status = s] ELSE r
<1> DEFINE New(r) == IF r.device_id = d THEN [r EXCEPT !.status = s] ELSE r
<1>1. WithStatus(T, d, s) = {New(r) : r \in T}
  BY DEF WithStatus
<1>2. ASSUME NEW r \in T
      PROVE  /\ New(r) \in DeviceRows
             /\ New(r).device_id = r.device_id
             /\ New(r).owner = r.owner
             /\ New(r).created_at = r.created_at
             /\ r.device_id # d => New(r) = r
             /\ r.device_id = d => New(r).status = s
  <2>1. CASE r.device_id = d
    BY <2>1 DEF DeviceRows
  <2>2. CASE r.device_id # d
    BY <2>2
  <2>3. QED
    BY <2>1, <2>2
<1>3. \A q \in WithStatus(T, d, s) : \E r \in T : q = New(r)
  BY <1>1
<1>4. \A r \in T : New(r) \in WithStatus(T, d, s)
  BY <1>1
<1>5. WithStatus(T, d, s) \subseteq DeviceRows
  <2> HIDE DEF New
  <2> QED BY <1>2, <1>3
<1>6. \A r \in T : \E q \in WithStatus(T, d, s) :
        /\ q.device_id = r.device_id
        /\ q.owner = r.owner
        /\ q.created_at = r.created_at
        /\ r.device_id # d => q = r
        /\ r.device_id = d => q.status = s
  <2> HIDE DEF New
  <2> QED BY <1>2, <1>4
<1>7. QED
  BY <1>3, <1>5, <1>6

\* ... and so device_id stays a key.
LEMMA WithStatusKeys ==
  ASSUME NEW T \in SUBSET DeviceRows, NEW d \in DeviceIds, NEW s \in Statuses,
         \A r, q \in T : r.device_id = q.device_id => r = q
  PROVE  \A r, q \in WithStatus(T, d, s) : r.device_id = q.device_id => r = q
<1> DEFINE New(r) == IF r.device_id = d THEN [r EXCEPT !.status = s] ELSE r
<1>1. SUFFICES ASSUME NEW q1 \in WithStatus(T, d, s), NEW q2 \in WithStatus(T, d, s),
                      q1.device_id = q2.device_id
               PROVE  q1 = q2
  OBVIOUS
<1>2. PICK r1 \in T : q1 = New(r1)
  BY WithStatusRows
<1>3. PICK r2 \in T : q2 = New(r2)
  BY WithStatusRows
<1>4. \A r \in T : New(r).device_id = r.device_id
  BY DEF DeviceRows
<1>5. r1 = r2
  BY <1>1, <1>2, <1>3, <1>4
<1>6. QED
  BY <1>2, <1>3, <1>5

\* The set of rows with a key has that key's rows only.
LEMMA LookupRows ==
  ASSUME NEW T, NEW d
  PROVE  \A r : r \in Lookup(T, d) <=> r \in T /\ r.device_id = d
BY DEF Lookup

\* The shape of each kind of request.
LEMMA RequestShape ==
  ASSUME NEW r \in Requests
  PROVE  /\ r.op = "put_device" => r.row \in DeviceRows
         /\ r.op \in {"get_device", "get_uplinks", "set_device_status",
                      "put_uplink"} => r.device_id \in DeviceIds
         /\ r.op = "set_device_status" => r.status \in Statuses
         /\ r.op = "put_uplink" => r.received_at \in Times /\ r.payload \in Payloads
BY DEF Requests

\* What the handlers ask for is a request.
LEMMA RequestsAtTyped ==
  ASSUME NEW x \in Times
  PROVE  RequestsAt(x) \subseteq Requests
BY DEF RequestsAt, Requests, DeviceRows, Statuses

-----------------------------------------------------------------------------

\* device_id is a key of the table at its leader.
KeysUnique ==
  \A r, q \in devices : r.device_id = q.device_id => r = q

\* What a call keeps at each point of its way.
CallShape ==
  \A t \in Threads :
    /\ pc[t] # "idle" => req[t] \in Requests
    /\ pc[t] = "idle" => req[t] = NoRequest
    /\ pc[t] = "query" => req[t].op = "latest_uplinks"

\* A device whose registration was answered is in the table.
WinsStand ==
  \A d \in DeviceIds :
    won[d] > 0 => \E r \in devices : r.device_id = d

\* An acknowledgement on its way is about an item of the table.
AcksStand ==
  \A t \in Threads :
    pc[t] = "ret" /\ req[t].op = "put_uplink" =>
      /\ reply[t].rows \subseteq UplinkItems
      /\ \A a \in reply[t].rows : \E r \in uplinks :
           r.device_id = a.device_id /\ r.received_at = a.received_at

IInv ==
  /\ TypeOK
  /\ KeysUnique
  /\ ItemsComplete
  /\ CallShape
  /\ WinsStand
  /\ OneRegistrationWins
  /\ UpdatedRecordReturned
  /\ AcksStand
  /\ AckedUplinksKept
\* The steps of a call from its first request to its answer.
Served(t) ==
  \/ PutDevice(t) \/ GetDevice(t) \/ ListDevices(t) \/ PutUplink(t)
  \/ SetDeviceStatus(t) \/ GetUplinks(t) \/ LatestUplinks(t) \/ LatestOf(t)
  \/ RequestFails(t)

\* The call of t goes on without an answer.
GoesOn(t) ==
  /\ \/ UNCHANGED pc
     \/ req[t].op = "latest_uplinks" /\ pc' = [pc EXCEPT ![t] = "query"]
  /\ UNCHANGED <<req, reply, won, acked, known>>

DynamoReplies == [result : Results, rows : SUBSET (DeviceItems \cup UplinkItems)]

-----------------------------------------------------------------------------
\* The replies the methods give are replies.
LEMMA ReplyTypes ==
  /\ \A S \in SUBSET (DeviceItems \cup UplinkItems) : Ok(S) \in DynamoReplies
  /\ \A e \in Results : Err(e) \in DynamoReplies
  /\ NoReply \in DynamoReplies
BY DEF Ok, Err, NoReply, DynamoReplies, Results

\* Whatever the service does with a request of t, the call of t ends with an
\* answer or goes on, and no other call is touched.
LEMMA ServedStep ==
  ASSUME NEW t \in Threads, Served(t)
  PROVE  /\ pc[t] \in {"send", "query"}
         /\ UNCHANGED <<copies, now>>
         /\ GoesOn(t) \/ \E r : Answer(t, r)
<1> USE DEF GoesOn
<1>1. ASSUME NEW r, Executed(t, r)
      PROVE  UNCHANGED <<copies, now>> /\ (GoesOn(t) \/ \E x : Answer(t, x))
  BY <1>1 DEF Executed, NoAnswer
<1>2. CASE PutDevice(t) \/ PutUplink(t) \/ SetDeviceStatus(t)
  <2>1. pc[t] = "send" /\ \E r : Executed(t, r)
    BY <1>2 DEF PutDevice, PutUplink, SetDeviceStatus, Sending
  <2>2. QED
    BY <1>1, <2>1
<1>3. CASE GetDevice(t)
  BY <1>3 DEF GetDevice, Sending
<1>4. CASE ListDevices(t)
  BY <1>4 DEF ListDevices, Sending
<1>5. CASE GetUplinks(t)
  BY <1>5 DEF GetUplinks, Sending
<1>6. CASE LatestUplinks(t)
  BY <1>6 DEF LatestUplinks, Sending
<1>7. CASE LatestOf(t)
  BY <1>7 DEF LatestOf
<1>8. CASE RequestFails(t)
  BY <1>8 DEF RequestFails, NoAnswer
<1>9. QED
  BY <1>2, <1>3, <1>4, <1>5, <1>6, <1>7, <1>8 DEF Served

\* Next, with the steps of a call joined.
LEMMA NextCases ==
  ASSUME [Next]_vars
  PROVE  \/ Tick \/ Crash \/ UNCHANGED vars
         \/ \E d \in DeviceIds : ReplicateDevice(d) \/ ReplicateUplinks(d)
         \/ \E t \in Threads : \/ \E r \in RequestsAt(now) : Call(t, r)
                               \/ Served(t) \/ Return(t)
BY DEF Next, Served

\* The only requests that write table devices.
LEMMA DevicesStep ==
  ASSUME [Next]_vars
  PROVE  \/ UNCHANGED devices
         \/ \E t \in Threads :
              /\ PutDevice(t)
              /\ Lookup(devices, req[t].row.device_id) = {}
              /\ devices' = devices \cup {req[t].row}
         \/ \E t \in Threads :
              /\ SetDeviceStatus(t)
              /\ devices' = WithStatus(devices, req[t].device_id, req[t].status)
<1>1. ASSUME NEW t \in Threads, Served(t), ~ PutDevice(t), ~ SetDeviceStatus(t)
      PROVE  UNCHANGED devices
  BY <1>1 DEF Served, GetDevice, ListDevices, PutUplink, GetUplinks,
              LatestUplinks, LatestOf, RequestFails, tables
<1>2. ASSUME NEW t \in Threads, PutDevice(t)
      PROVE  \/ UNCHANGED devices
             \/ /\ Lookup(devices, req[t].row.device_id) = {}
                /\ devices' = devices \cup {req[t].row}
  BY <1>2 DEF PutDevice
<1>3. ASSUME NEW t \in Threads, SetDeviceStatus(t)
      PROVE  \/ UNCHANGED devices
             \/ devices' = WithStatus(devices, req[t].device_id, req[t].status)
  BY <1>3 DEF SetDeviceStatus
<1>4. ASSUME \/ Tick \/ Crash \/ UNCHANGED vars
             \/ \E d \in DeviceIds : ReplicateDevice(d) \/ ReplicateUplinks(d)
             \/ \E t \in Threads : \/ \E r \in RequestsAt(now) : Call(t, r)
                                   \/ Return(t)
      PROVE  UNCHANGED devices
  BY <1>4 DEF Tick, Crash, ReplicateDevice, ReplicateUplinks, Call, Return,
              vars, tables
<1>5. QED
  BY <1>1, <1>2, <1>3, <1>4, NextCases

\* The only request that writes table uplinks.
LEMMA UplinksStep ==
  ASSUME [Next]_vars
  PROVE  UNCHANGED uplinks \/ \E t \in Threads : PutUplink(t)
<1>1. ASSUME NEW t \in Threads, Served(t), ~ PutUplink(t)
      PROVE  UNCHANGED uplinks
  BY <1>1 DEF Served, PutDevice, GetDevice, ListDevices, SetDeviceStatus,
              GetUplinks, LatestUplinks, LatestOf, RequestFails, tables
<1>2. ASSUME \/ Tick \/ Crash \/ UNCHANGED vars
             \/ \E d \in DeviceIds : ReplicateDevice(d) \/ ReplicateUplinks(d)
             \/ \E t \in Threads : \/ \E r \in RequestsAt(now) : Call(t, r)
                                   \/ Return(t)
      PROVE  UNCHANGED uplinks
  BY <1>2 DEF Tick, Crash, ReplicateDevice, ReplicateUplinks, Call, Return,
              vars, tables
<1>3. QED
  BY <1>1, <1>2, NextCases

\* What a status request asks for.
LEMMA StatusRequest ==
  ASSUME CallShape, NEW t \in Threads, SetDeviceStatus(t)
  PROVE  req[t].device_id \in DeviceIds /\ req[t].status \in Statuses
BY RequestShape DEF CallShape, SetDeviceStatus, Sending

\* A registered device stays registered, with the data it was registered with.
LEMMA RowsKept ==
  ASSUME ItemsComplete, CallShape, [Next]_vars
  PROVE  \A r \in devices : \E q \in devices' :
           /\ q.device_id = r.device_id
           /\ q.owner = r.owner
           /\ q.created_at = r.created_at
<1>1. devices \in SUBSET DeviceRows
  BY DEF ItemsComplete, Complete
<1>2. QED
  BY <1>1, DevicesStep, StatusRequest, WithStatusRows

\* device_id stays a key: put_item refuses a second item, update_item keeps
\* the keys.
LEMMA KeysStep ==
  ASSUME ItemsComplete, CallShape, KeysUnique, [Next]_vars
  PROVE  KeysUnique'
<1>1. devices \in SUBSET DeviceRows
  BY DEF ItemsComplete, Complete
<1>2. CASE UNCHANGED devices
  BY <1>2 DEF KeysUnique
<1>3. ASSUME NEW t \in Threads, Lookup(devices, req[t].row.device_id) = {},
             devices' = devices \cup {req[t].row}
      PROVE  KeysUnique'
  BY <1>3, LookupRows DEF KeysUnique
<1>4. ASSUME NEW t \in Threads, SetDeviceStatus(t),
             devices' = WithStatus(devices, req[t].device_id, req[t].status)
      PROVE  KeysUnique'
  BY <1>1, <1>4, StatusRequest, WithStatusKeys DEF KeysUnique
<1>5. QED
  BY <1>2, <1>3, <1>4, DevicesStep

\* No write makes an incomplete item, and a copy only has items the leader had.
LEMMA CompleteStep ==
  ASSUME ItemsComplete, CallShape, [Next]_vars
  PROVE  ItemsComplete'
<1> USE DEF ItemsComplete, Complete
<1>1. devices' \subseteq DeviceRows
  <2>1. ASSUME NEW t \in Threads, PutDevice(t) PROVE req[t].row \in DeviceRows
    BY <2>1, RequestShape DEF PutDevice, Sending, CallShape
  <2>2. ASSUME NEW t \in Threads, SetDeviceStatus(t)
        PROVE  WithStatus(devices, req[t].device_id, req[t].status) \subseteq DeviceRows
    BY <2>2, StatusRequest, WithStatusRows
  <2>3. QED
    BY <2>1, <2>2, DevicesStep
<1>2. devices2' \subseteq devices2 \cup devices
  <2>1. ASSUME NEW d \in DeviceIds, ReplicateDevice(d)
        PROVE  devices2' \subseteq devices2 \cup devices
    BY <2>1, LookupRows DEF ReplicateDevice
  <2>2. ASSUME ~ \E d \in DeviceIds : ReplicateDevice(d)
        PROVE  UNCHANGED devices2
    BY <2>2, NextCases, ServedStep
       DEF Tick, Crash, ReplicateUplinks, Call, Return, vars, copies
  <2>3. QED
    BY <2>1, <2>2
<1>3. QED
  BY <1>1, <1>2

\* Every path through a call keeps its shape.
LEMMA ShapeStep ==
  ASSUME TypeOK, CallShape, [Next]_vars
  PROVE  CallShape'
<1> USE DEF TypeOK, CallShape, PcValues
<1>1. ASSUME NEW t \in Threads, Served(t) PROVE CallShape'
  <2>1. pc[t] \in {"send", "query"}
    BY <1>1, ServedStep
  <2>2. CASE GoesOn(t)
    BY <2>1, <2>2 DEF GoesOn
  <2>3. ASSUME NEW r, Answer(t, r) PROVE CallShape'
    BY <2>1, <2>3 DEF Answer
  <2>4. QED
    BY <1>1, <2>2, <2>3, ServedStep
<1>2. CASE Tick \/ UNCHANGED vars
  BY <1>2 DEF Tick, vars, call
<1>3. CASE Crash
  BY <1>3 DEF Crash
<1>4. ASSUME NEW d \in DeviceIds, ReplicateDevice(d) \/ ReplicateUplinks(d)
      PROVE  CallShape'
  BY <1>4 DEF ReplicateDevice, ReplicateUplinks, call
<1>5. ASSUME NEW t \in Threads, NEW r \in RequestsAt(now), Call(t, r)
      PROVE  CallShape'
  BY <1>5, RequestsAtTyped DEF Call
<1>6. ASSUME NEW t \in Threads, Return(t) PROVE CallShape'
  BY <1>6 DEF Return
<1>7. QED
  BY <1>1, <1>2, <1>3, <1>4, <1>5, <1>6, NextCases
-----------------------------------------------------------------------------
\* What an answer leaves behind.
LEMMA AnswerTypes ==
  ASSUME TypeOK, NEW t \in Threads, NEW r \in DynamoReplies, Answer(t, r)
  PROVE  /\ pc' \in [Threads -> PcValues]
         /\ req' \in [Threads -> Requests \cup {NoRequest}]
         /\ reply' \in [Threads -> DynamoReplies]
         /\ tries' \in [Threads -> 0 .. MaxAttempts - 1]
         /\ todo' \in [Threads -> SUBSET DeviceIds]
         /\ out' \in [Threads -> SUBSET UplinkItems]
         /\ UNCHANGED <<won, acked, known>>
BY DynamoAssumption DEF TypeOK, Answer, PcValues, DynamoReplies

\* What the loss of an answer leaves behind.
LEMMA NoAnswerTypes ==
  ASSUME TypeOK, NEW t \in Threads, NoAnswer(t)
  PROVE  /\ pc' \in [Threads -> PcValues]
         /\ req' \in [Threads -> Requests \cup {NoRequest}]
         /\ reply' \in [Threads -> DynamoReplies]
         /\ tries' \in [Threads -> 0 .. MaxAttempts - 1]
         /\ todo' \in [Threads -> SUBSET DeviceIds]
         /\ out' \in [Threads -> SUBSET UplinkItems]
         /\ UNCHANGED <<won, acked, known>>
<1>1. CASE Answer(t, Err("Store"))
  BY <1>1, AnswerTypes, ReplyTypes DEF Results
<1>2. CASE /\ tries[t] + 1 < MaxAttempts
           /\ tries' = [tries EXCEPT ![t] = @ + 1]
           /\ UNCHANGED <<pc, req, reply, todo, out, won, acked, known>>
  <2>1. tries' \in [Threads -> 0 .. MaxAttempts - 1]
    BY <1>2, DynamoAssumption DEF TypeOK
  <2>2. QED
    BY <1>2, <2>1 DEF TypeOK, DynamoReplies
<1>3. QED
  BY <1>1, <1>2 DEF NoAnswer

\* What is recorded when a call is made.
LEMMA KnownTypes ==
  ASSUME TypeOK, ItemsComplete, NEW r
  PROVE  KnownTo(r) \in [ids : SUBSET DeviceIds, latest : SUBSET UplinkItems]
<1> DEFINE ids    == {x.device_id : x \in devices2}
           newest == {u \in uplinks2 : NewestOf(u, UplinksOf(uplinks2, u.device_id))}
<1>1. ids \in SUBSET DeviceIds
  BY DEF ItemsComplete, Complete, DeviceRows
<1>2. /\ newest \in SUBSET UplinkItems
      /\ UplinksOf(newest, r.device_id) \in SUBSET UplinkItems
  BY DEF TypeOK, UplinksOf
<1>3. \/ KnownTo(r) = Known(ids, {})
      \/ KnownTo(r) = Known(ids, newest)
      \/ KnownTo(r) = Known({}, UplinksOf(newest, r.device_id))
      \/ KnownTo(r) = NothingKnown
  BY Zenon DEF KnownTo
<1> HIDE DEF ids, newest
<1>4. \A I \in SUBSET DeviceIds, L \in SUBSET UplinkItems :
        Known(I, L) \in [ids : SUBSET DeviceIds, latest : SUBSET UplinkItems]
  BY DEF Known
<1>5. QED
  BY <1>1, <1>2, <1>3, <1>4 DEF NothingKnown

\* The tables and their copies hold items of the right shape.
LEMMA TablesTyped ==
  ASSUME TypeOK, ItemsComplete, CallShape, [Next]_vars
  PROVE  /\ devices' \subseteq DeviceItems /\ devices2' \subseteq DeviceItems
         /\ uplinks' \subseteq UplinkItems /\ uplinks2' \subseteq UplinkItems
<1>1. devices' \subseteq DeviceItems /\ devices2' \subseteq DeviceItems
  BY CompleteStep DEF ItemsComplete, Complete, DeviceItems
<1>2. uplinks' \subseteq UplinkItems
  <2>1. ASSUME NEW t \in Threads, PutUplink(t) PROVE uplinks' \subseteq UplinkItems
    <3> DEFINE item == [device_id |-> req[t].device_id,
                        received_at |-> req[t].received_at,
                        payload |-> req[t].payload]
    <3>1. item \in UplinkItems
      BY <2>1, RequestShape DEF PutUplink, Sending, CallShape, UplinkItems
    <3>2. \A r \in uplinks' : r \in uplinks \/ r = item
      BY <2>1 DEF PutUplink
    <3>3. QED
      BY <3>1, <3>2 DEF TypeOK
  <2>2. QED
    BY <2>1, UplinksStep DEF TypeOK
<1>3. uplinks2' \subseteq UplinkItems
  <2>1. ASSUME NEW d \in DeviceIds, ReplicateUplinks(d)
        PROVE  uplinks2' \subseteq UplinkItems
    BY <2>1 DEF ReplicateUplinks, UplinksOf, TypeOK
  <2>2. ASSUME ~ \E d \in DeviceIds : ReplicateUplinks(d)
        PROVE  UNCHANGED uplinks2
    BY <2>2, NextCases, ServedStep
       DEF Tick, Crash, ReplicateDevice, Call, Return, vars, copies
  <2>3. QED
    BY <2>1, <2>2 DEF TypeOK
<1>4. QED
  BY <1>1, <1>2, <1>3

\* A step of a call leaves its variables in their types.
LEMMA ServedTypes ==
  ASSUME TypeOK, ItemsComplete, CallShape, KeysUnique, NEW t \in Threads, Served(t),
         devices' \subseteq DeviceItems
  PROVE  /\ pc' \in [Threads -> PcValues]
         /\ req' \in [Threads -> Requests \cup {NoRequest}]
         /\ reply' \in [Threads -> DynamoReplies]
         /\ tries' \in [Threads -> 0 .. MaxAttempts - 1]
         /\ todo' \in [Threads -> SUBSET DeviceIds]
         /\ out' \in [Threads -> SUBSET UplinkItems]
         /\ UNCHANGED <<won, acked, known>>
<1> DEFINE Typed == /\ pc' \in [Threads -> PcValues]
                    /\ req' \in [Threads -> Requests \cup {NoRequest}]
                    /\ reply' \in [Threads -> DynamoReplies]
                    /\ tries' \in [Threads -> 0 .. MaxAttempts - 1]
                    /\ todo' \in [Threads -> SUBSET DeviceIds]
                    /\ out' \in [Threads -> SUBSET UplinkItems]
                    /\ UNCHANGED <<won, acked, known>>
<1>1. ASSUME NEW r \in DynamoReplies, Answer(t, r) PROVE Typed
  BY <1>1, AnswerTypes
<1>2. ASSUME NoAnswer(t) PROVE Typed
  BY <1>2, NoAnswerTypes
<1>3. ASSUME NEW r \in DynamoReplies, Executed(t, r) PROVE Typed
  BY <1>1, <1>2, <1>3 DEF Executed
<1>4. /\ Err("Store") \in DynamoReplies
      /\ Err("DeviceAlreadyExists") \in DynamoReplies
      /\ Err("DeviceNotFound") \in DynamoReplies
  BY ReplyTypes DEF Results
<1>5. \A rows \in ScanAnswers : /\ rows \subseteq devices \cup devices2
                                /\ Ok(rows) \in DynamoReplies
  BY ReplyTypes DEF ScanAnswers, TypeOK
<1>6. \A d, n : \A rows \in QueryAnswers(d, n) :
         rows \subseteq UplinkItems /\ Ok(rows) \in DynamoReplies
  BY ReplyTypes DEF QueryAnswers, TypeOK
<1> SUFFICES Typed
  OBVIOUS
<1> HIDE DEF Typed
<1>7. CASE PutDevice(t)
  <2>1. req[t].row \in DeviceItems
    BY <1>7, RequestShape DEF PutDevice, Sending, CallShape, DeviceItems
  <2>2. Ok({req[t].row}) \in DynamoReplies
    BY <2>1, ReplyTypes
  <2>3. QED
    BY <1>3, <1>4, <1>7, <2>2 DEF PutDevice
<1>8. CASE GetDevice(t)
  <2>1. \A seen \in {devices, devices2} :
          Ok(Lookup(seen, req[t].device_id)) \in DynamoReplies
    BY ReplyTypes, LookupRows DEF TypeOK
  <2>2. QED
    BY <1>1, <1>4, <1>8, <2>1 DEF GetDevice
<1>9. CASE ListDevices(t)
  BY <1>1, <1>4, <1>5, <1>9 DEF ListDevices
<1>10. CASE PutUplink(t)
  <2> DEFINE item == [device_id |-> req[t].device_id,
                      received_at |-> req[t].received_at,
                      payload |-> req[t].payload]
  <2>1. item \in UplinkItems
    BY <1>10, RequestShape DEF PutUplink, Sending, CallShape, UplinkItems
  <2>2. Ok({item}) \in DynamoReplies
    BY <2>1, ReplyTypes
  <2>3. Executed(t, Ok({item}))
    BY <1>10 DEF PutUplink
  <2>4. QED
    BY <1>3, <2>2, <2>3
<1>11. CASE SetDeviceStatus(t)
  <2>1. Ok(Lookup(devices', req[t].device_id)) \in DynamoReplies
    BY ReplyTypes, LookupRows
  <2>2. QED
    BY <1>3, <1>4, <1>11, <2>1 DEF SetDeviceStatus
<1>12. CASE GetUplinks(t)
  BY <1>1, <1>6, <1>12 DEF GetUplinks
<1>13. CASE LatestUplinks(t)
  <2>1. CASE Answer(t, Err("Store"))
    BY <1>1, <1>4, <2>1
  <2>2. CASE ~ Answer(t, Err("Store"))
    <3>1. PICK rows \in ScanAnswers :
            /\ pc' = [pc EXCEPT ![t] = "query"]
            /\ todo' = [todo EXCEPT ![t] = {r.device_id : r \in rows}]
            /\ UNCHANGED <<req, reply, tries, out, won, acked, known>>
      BY <1>13, <2>2 DEF LatestUplinks
    <3>2. {r.device_id : r \in rows} \in SUBSET DeviceIds
      BY <1>5 DEF ItemsComplete, Complete, DeviceRows
    <3>3. /\ pc' \in [Threads -> PcValues]
          /\ todo' \in [Threads -> SUBSET DeviceIds]
      BY <3>1, <3>2 DEF TypeOK, PcValues
    <3>4. QED
      BY <3>1, <3>3 DEF Typed, TypeOK, DynamoReplies
  <2>3. QED
    BY <2>1, <2>2
<1>14. CASE LatestOf(t)
  <2>1. CASE Answer(t, Ok(out[t]))
    <3>1. Ok(out[t]) \in DynamoReplies
      BY ReplyTypes DEF TypeOK
    <3>2. QED
      BY <1>1, <2>1, <3>1
  <2>2. CASE ~ Answer(t, Ok(out[t]))
    <3>0. PICK d \in todo[t] : \E rows \in QueryAnswers(d, 1) :
            /\ out' = [out EXCEPT ![t] = @ \cup rows]
            /\ todo' = [todo EXCEPT ![t] = @ \ {d}]
            /\ UNCHANGED <<pc, req, reply, tries, won, acked, known>>
      BY <1>14, <2>2 DEF LatestOf
    <3>1. PICK rows \in QueryAnswers(d, 1) :
            /\ out' = [out EXCEPT ![t] = @ \cup rows]
            /\ todo' = [todo EXCEPT ![t] = @ \ {d}]
            /\ UNCHANGED <<pc, req, reply, tries, won, acked, known>>
      BY <3>0
    <3>2. rows \subseteq UplinkItems
      BY <1>6
    <3>3. /\ out' \in [Threads -> SUBSET UplinkItems]
          /\ todo' \in [Threads -> SUBSET DeviceIds]
      BY <3>1, <3>2 DEF TypeOK
    <3>4. QED
      BY <3>1, <3>3 DEF Typed, TypeOK, DynamoReplies
  <2>3. QED
    BY <2>1, <2>2
<1>15. CASE RequestFails(t)
  BY <1>1, <1>2, <1>4, <1>15 DEF RequestFails
<1>16. QED
  BY <1>7, <1>8, <1>9, <1>10, <1>11, <1>12, <1>13, <1>14, <1>15 DEF Served

\* Types are right in every state.
LEMMA TypeStep ==
  ASSUME TypeOK, ItemsComplete, CallShape, KeysUnique, AcksStand, [Next]_vars
  PROVE  TypeOK'
<1>0. /\ devices' \subseteq DeviceItems /\ devices2' \subseteq DeviceItems
      /\ uplinks' \subseteq UplinkItems /\ uplinks2' \subseteq UplinkItems
  BY TablesTyped
<1>1. ASSUME NEW t \in Threads, Served(t) PROVE TypeOK'
  <2>1. now' \in Times
    BY <1>1, ServedStep DEF TypeOK
  <2>2. QED
    BY <1>0, <1>1, <2>1, ServedTypes DEF TypeOK, DynamoReplies
<1>2. CASE Tick
  <2>1. now' \in Times
    BY <1>2, StoreAssumption DEF Tick, Times, TypeOK
  <2>2. QED
    BY <1>0, <1>2, <2>1 DEF Tick, TypeOK, call
<1>3. CASE Crash
  <2>1. /\ pc' \in [Threads -> PcValues]
        /\ req' \in [Threads -> Requests \cup {NoRequest}]
        /\ reply' \in [Threads -> DynamoReplies]
        /\ tries' \in [Threads -> 0 .. MaxAttempts - 1]
        /\ todo' \in [Threads -> SUBSET DeviceIds]
        /\ out' \in [Threads -> SUBSET UplinkItems]
    BY <1>3, ReplyTypes, DynamoAssumption DEF Crash, PcValues
  <2>2. known' \in [Threads -> [ids : SUBSET DeviceIds, latest : SUBSET UplinkItems]]
    BY <1>3 DEF Crash, NothingKnown, Known
  <2>3. QED
    BY <1>0, <1>3, <2>1, <2>2 DEF Crash, TypeOK, DynamoReplies
<1>4. ASSUME NEW d \in DeviceIds, ReplicateDevice(d) \/ ReplicateUplinks(d)
      PROVE  TypeOK'
  BY <1>0, <1>4 DEF ReplicateDevice, ReplicateUplinks, TypeOK, call
<1>5. ASSUME NEW t \in Threads, NEW r \in RequestsAt(now), Call(t, r)
      PROVE  TypeOK'
  <2>1. /\ pc' \in [Threads -> PcValues]
        /\ req' \in [Threads -> Requests \cup {NoRequest}]
    BY <1>5, RequestsAtTyped DEF Call, TypeOK, PcValues
  <2>2. known' \in [Threads -> [ids : SUBSET DeviceIds, latest : SUBSET UplinkItems]]
    BY <1>5, KnownTypes DEF Call, TypeOK
  <2>3. QED
    BY <1>0, <1>5, <2>1, <2>2 DEF Call, TypeOK
<1>6. ASSUME NEW t \in Threads, Return(t) PROVE TypeOK'
  <2>1. won' \in [DeviceIds -> Nat]
    BY <1>6 DEF Return, TypeOK
  <2>2. acked' \subseteq UplinkItems
    BY <1>6 DEF Return, TypeOK, AcksStand
  <2>3. /\ pc' \in [Threads -> PcValues]
        /\ req' \in [Threads -> Requests \cup {NoRequest}]
        /\ reply' \in [Threads -> DynamoReplies]
    BY <1>6, ReplyTypes DEF Return, TypeOK, PcValues, DynamoReplies
  <2>4. known' \in [Threads -> [ids : SUBSET DeviceIds, latest : SUBSET UplinkItems]]
    BY <1>6 DEF Return, TypeOK, NothingKnown, Known
  <2>5. QED
    BY <1>0, <1>6, <2>1, <2>2, <2>3, <2>4 DEF Return, TypeOK, DynamoReplies
<1>7. CASE UNCHANGED vars
  BY <1>7 DEF vars, tables, copies, call, TypeOK
<1>8. QED
  BY <1>1, <1>2, <1>3, <1>4, <1>5, <1>6, <1>7, NextCases
-----------------------------------------------------------------------------
\* The answer to a write that the service executed says what it found, or
\* that the store failed.
LEMMA ExecutedReply ==
  ASSUME TypeOK, NEW t \in Threads, pc[t] # "ret", NEW r, Executed(t, r),
         pc'[t] = "ret"
  PROVE  reply'[t] = r \/ reply'[t] = Err("Store")
BY DEF TypeOK, Executed, NoAnswer, Answer

\* How the answer to a write comes about: it was there before, or it reports
\* no success, or this step executed the write.
LEMMA WriteAnswered ==
  ASSUME TypeOK, CallShape, [Next]_vars, NEW t \in Threads,
         pc'[t] = "ret", req'[t].op \in Writes
  PROVE  /\ req'[t] = req[t]
         /\ \/ pc[t] = "ret" /\ reply'[t] = reply[t]
            \/ reply'[t].result # "Ok" /\ reply'[t].rows = {}
            \/ /\ PutDevice(t)
               /\ Lookup(devices, req[t].row.device_id) = {}
               /\ devices' = devices \cup {req[t].row}
            \/ /\ PutUplink(t)
               /\ \E item \in uplinks' \cap UplinkItems : reply'[t].rows = {item}
            \/ /\ SetDeviceStatus(t)
               /\ Lookup(devices, req[t].device_id) # {}
               /\ devices' = WithStatus(devices, req[t].device_id, req[t].status)
               /\ reply'[t].rows = Lookup(devices', req[t].device_id)
<1> DEFINE Before == req'[t] = req[t] /\ pc[t] = "ret" /\ reply'[t] = reply[t]
           Failed == reply'[t].result # "Ok" /\ reply'[t].rows = {}
<1>1. ASSUME NEW u \in Threads, Served(u), u # t PROVE Before
  <2>1. CASE GoesOn(u)
    BY <1>1, <2>1 DEF GoesOn, TypeOK
  <2>2. ASSUME NEW r, Answer(u, r) PROVE Before
    BY <1>1, <2>2 DEF Answer, TypeOK
  <2>3. QED
    BY <1>1, <2>1, <2>2, ServedStep
<1>2. CASE Served(t)
  <2>1. pc[t] \in {"send", "query"} /\ ~ GoesOn(t)
    BY <1>2, ServedStep DEF GoesOn, TypeOK
  <2>2. req'[t] = req[t] /\ pc[t] # "query"
    BY <1>2, <2>1, ServedStep DEF Answer, CallShape, Writes
  <2>3. Err("Store").result # "Ok" /\ Err("Store").rows = {}
    BY DEF Err
  <2>4. CASE PutDevice(t)
    <3>1. CASE /\ Lookup(devices, req[t].row.device_id) # {}
               /\ Executed(t, Err("DeviceAlreadyExists"))
      <4>1. Failed
        BY <2>1, <3>1, ExecutedReply DEF Err
      <4>2. QED
        BY <2>2, <4>1
    <3>2. QED
      BY <2>2, <2>4, <3>1 DEF PutDevice
  <2>5. CASE PutUplink(t)
    <3> DEFINE item == [device_id |-> req[t].device_id,
                        received_at |-> req[t].received_at,
                        payload |-> req[t].payload]
    <3>1. item \in uplinks' /\ Executed(t, Ok({item}))
      BY <2>5 DEF PutUplink
    <3>2. item \in UplinkItems
      BY <2>5, RequestShape DEF PutUplink, Sending, CallShape, UplinkItems
    <3> HIDE DEF item
    <3>3. Ok({item}).rows = {item}
      BY DEF Ok
    <3>4. QED
      BY <2>1, <2>2, <2>3, <2>5, <3>1, <3>2, <3>3, ExecutedReply
  <2>6. CASE SetDeviceStatus(t)
    <3>1. CASE /\ Lookup(devices, req[t].device_id) = {}
               /\ Executed(t, Err("DeviceNotFound"))
      <4>1. Failed
        BY <2>1, <3>1, ExecutedReply DEF Err
      <4>2. QED
        BY <2>2, <4>1
    <3>2. CASE /\ Lookup(devices, req[t].device_id) # {}
               /\ devices' = WithStatus(devices, req[t].device_id, req[t].status)
               /\ Executed(t, Ok(Lookup(devices', req[t].device_id)))
      <4>1. \/ reply'[t] = Ok(Lookup(devices', req[t].device_id))
            \/ reply'[t] = Err("Store")
        BY <2>1, <3>2, ExecutedReply
      <4>2. reply'[t].rows = Lookup(devices', req[t].device_id) \/ Failed
        BY <2>3, <4>1 DEF Ok
      <4>3. QED
        BY <2>2, <2>6, <3>2, <4>2
    <3>3. QED
      BY <2>6, <3>1, <3>2 DEF SetDeviceStatus
  <2>7. CASE RequestFails(t)
    <3>1. CASE NoAnswer(t)
      BY <2>1, <2>2, <2>3, <3>1 DEF NoAnswer, Answer, TypeOK
    <3>2. CASE Answer(t, Err("Store"))
      BY <2>2, <2>3, <3>2 DEF Answer, TypeOK
    <3>3. QED
      BY <2>7, <3>1, <3>2 DEF RequestFails
  <2>8. ~ GetDevice(t) /\ ~ ListDevices(t) /\ ~ GetUplinks(t) /\ ~ LatestUplinks(t)
        /\ ~ LatestOf(t)
    BY <2>2 DEF GetDevice, ListDevices, GetUplinks, LatestUplinks, LatestOf,
                Sending, Writes
  <2>9. QED
    BY <1>2, <2>4, <2>5, <2>6, <2>7, <2>8 DEF Served
<1>3. CASE Tick \/ UNCHANGED vars
  BY <1>3 DEF Tick, vars, call
<1>4. CASE Crash
  BY <1>4 DEF Crash
<1>5. ASSUME NEW d \in DeviceIds, ReplicateDevice(d) \/ ReplicateUplinks(d)
      PROVE  Before
  BY <1>5 DEF ReplicateDevice, ReplicateUplinks, call
<1>6. ASSUME NEW u \in Threads, NEW r \in RequestsAt(now), Call(u, r)
      PROVE  Before
  BY <1>6 DEF Call, TypeOK
<1>7. ASSUME NEW u \in Threads, Return(u) PROVE Before
  BY <1>7 DEF Return, TypeOK
<1>8. QED
  BY <1>1, <1>2, <1>3, <1>4, <1>5, <1>6, <1>7, NextCases

\* How an Ok answer is delivered: by the return of a thread that holds it.
LEMMA WonStep ==
  ASSUME TypeOK, [Next]_vars, NEW d \in DeviceIds
  PROVE  \/ won'[d] = won[d]
         \/ /\ won'[d] = won[d] + 1
            /\ \E t \in Threads : HoldsWin(t, d) /\ Return(t)
<1>1. ASSUME NEW t \in Threads, Served(t) PROVE won'[d] = won[d]
  BY <1>1, ServedStep DEF GoesOn, Answer
<1>2. ASSUME NEW t \in Threads, Return(t)
      PROVE  \/ won'[d] = won[d]
             \/ won'[d] = won[d] + 1 /\ HoldsWin(t, d)
  BY <1>2 DEF Return, HoldsWin, TypeOK
<1>3. ASSUME \/ Tick \/ Crash \/ UNCHANGED vars
             \/ \E e \in DeviceIds : ReplicateDevice(e) \/ ReplicateUplinks(e)
             \/ \E t \in Threads : \E r \in RequestsAt(now) : Call(t, r)
      PROVE  won'[d] = won[d]
  BY <1>3 DEF Tick, Crash, ReplicateDevice, ReplicateUplinks, Call, vars
<1>4. QED
  BY <1>1, <1>2, <1>3, NextCases

\* How a thread comes to hold an Ok answer to put_device: it held it before,
\* or this step is its put_item, which found no item.
LEMMA HoldsStep ==
  ASSUME TypeOK, CallShape, [Next]_vars,
         NEW t \in Threads, NEW d \in DeviceIds, HoldsWin(t, d)'
  PROVE  /\ req'[t] = req[t]
         /\ \/ HoldsWin(t, d)
            \/ /\ PutDevice(t)
               /\ Lookup(devices, d) = {}
               /\ devices' = devices \cup {req[t].row}
               /\ req[t].row.device_id = d
<1>1. /\ pc'[t] = "ret" /\ req'[t].op = "put_device" /\ req'[t].op \in Writes
      /\ req'[t].row.device_id = d /\ reply'[t].result = "Ok"
  BY DEF HoldsWin, Writes
<1>2. req'[t] = req[t] /\ ~ PutUplink(t) /\ ~ SetDeviceStatus(t)
  BY <1>1, WriteAnswered DEF PutUplink, SetDeviceStatus, Sending
<1>3. QED
  BY <1>1, <1>2, WriteAnswered DEF HoldsWin
\* Registrations: one winner, and its item stays.
LEMMA WinsStep ==
  ASSUME IInv, [Next]_vars
  PROVE  WinsStand' /\ OneRegistrationWins'
<1>0. TypeOK /\ CallShape /\ ItemsComplete
  BY DEF IInv
<1>1. ASSUME NEW d \in DeviceIds
      PROVE  won'[d] > 0 => \E r \in devices' : r.device_id = d
  <2>1. CASE won'[d] = won[d]
    BY <1>0, <2>1, RowsKept DEF IInv, WinsStand
  <2>2. CASE \E t \in Threads : HoldsWin(t, d) /\ Return(t)
    BY <1>0, <2>2, RowsKept DEF IInv, OneRegistrationWins
  <2>3. QED
    BY <1>0, <2>1, <2>2, WonStep
<1>2. ASSUME NEW d \in DeviceIds PROVE won'[d] <= 1
  <2>1. CASE won'[d] = won[d]
    BY <2>1 DEF IInv, OneRegistrationWins
  <2>2. CASE /\ won'[d] = won[d] + 1
             /\ \E t \in Threads : HoldsWin(t, d) /\ Return(t)
    BY <2>2 DEF IInv, OneRegistrationWins
  <2>3. QED
    BY <1>0, <2>1, <2>2, WonStep
<1>3. ASSUME NEW d \in DeviceIds, NEW t \in Threads, HoldsWin(t, d)'
      PROVE  /\ won'[d] = 0
             /\ \A u \in Threads \ {t} : ~ HoldsWin(u, d)'
             /\ \E r \in devices' :
                  /\ r.device_id = d
                  /\ r.owner = req'[t].row.owner
                  /\ r.created_at = req'[t].row.created_at
  <2>1. CASE HoldsWin(t, d)
    <3>1. req'[t] = req[t]
      BY <1>0, <1>3, HoldsStep
    <3>2. PICK r \in devices : /\ r.device_id = d
                               /\ r.owner = req[t].row.owner
                               /\ r.created_at = req[t].row.created_at
      BY <2>1 DEF IInv, OneRegistrationWins
    <3>3. \E q \in devices' : /\ q.device_id = d
                              /\ q.owner = req'[t].row.owner
                              /\ q.created_at = req'[t].row.created_at
      BY <1>0, <3>1, <3>2, RowsKept
    <3>4. Lookup(devices, d) # {}
      BY <3>2, LookupRows
    <3>5. ASSUME NEW u \in Threads \ {t}, HoldsWin(u, d)' PROVE FALSE
      <4>1. HoldsWin(u, d)
        BY <1>0, <3>4, <3>5, HoldsStep
      <4>2. QED
        BY <2>1, <4>1 DEF IInv, OneRegistrationWins
    <3>6. won'[d] = 0
      <4>1. won[d] = 0
        BY <2>1 DEF IInv, OneRegistrationWins
      <4>2. ASSUME NEW u \in Threads, HoldsWin(u, d), Return(u) PROVE FALSE
        <5>1. u = t
          BY <2>1, <4>2 DEF IInv, OneRegistrationWins
        <5>2. QED
          BY <1>0, <1>3, <4>2, <5>1 DEF Return, HoldsWin, TypeOK
      <4>3. QED
        BY <1>0, <4>1, <4>2, WonStep
    <3>7. QED
      BY <3>3, <3>5, <3>6
  <2>2. CASE ~ HoldsWin(t, d)
    <3>1. /\ PutDevice(t)
          /\ Lookup(devices, d) = {}
          /\ devices' = devices \cup {req'[t].row}
          /\ req'[t].row.device_id = d
      BY <1>0, <1>3, <2>2, HoldsStep
    <3>2. \A u \in Threads : ~ HoldsWin(u, d)
      BY <3>1, LookupRows DEF IInv, OneRegistrationWins
    <3>3. ASSUME NEW u \in Threads \ {t}, HoldsWin(u, d)' PROVE FALSE
      <4>1. pc[u] = "send" /\ pc'[u] = "ret"
        BY <1>0, <3>2, <3>3, HoldsStep DEF PutDevice, Sending, HoldsWin
      <4>2. Served(t) /\ t # u
        BY <3>1, <3>3 DEF Served
      <4>3. pc'[u] \in {pc[u], "query"}
        BY <1>0, <4>2, ServedStep DEF GoesOn, Answer, TypeOK
      <4>4. QED
        BY <4>1, <4>3
    <3>4. won[d] = 0
      <4>1. ~ \E r \in devices : r.device_id = d
        BY <3>1, LookupRows
      <4>2. ~ (won[d] > 0)
        BY <4>1 DEF IInv, WinsStand
      <4>3. QED
        BY <1>0, <4>2 DEF TypeOK
    <3>5. won'[d] = 0
      BY <1>0, <3>2, <3>4, WonStep
    <3>6. QED
      BY <3>1, <3>3, <3>5
  <2>3. QED
    BY <2>1, <2>2
<1>4. QED
  BY <1>1, <1>2, <1>3 DEF WinsStand, OneRegistrationWins

-----------------------------------------------------------------------------
\* A status reply is the one item of the device, with the status asked for:
\* the service updates and reads it at one instant.
LEMMA RecordStep ==
  ASSUME TypeOK, ItemsComplete, CallShape, KeysUnique, UpdatedRecordReturned,
         [Next]_vars
  PROVE  UpdatedRecordReturned'
<1> SUFFICES ASSUME NEW t \in Threads,
                    pc'[t] = "ret",
                    req'[t].op = "set_device_status",
                    reply'[t].result = "Ok"
             PROVE  \E r \in DeviceRows :
                      /\ reply'[t].rows = {r}
                      /\ r.device_id = req'[t].device_id
                      /\ r.status = req'[t].status
  BY DEF UpdatedRecordReturned
<1>1. /\ req'[t] = req[t]
      /\ \/ pc[t] = "ret" /\ reply'[t] = reply[t]
         \/ /\ SetDeviceStatus(t)
            /\ Lookup(devices, req[t].device_id) # {}
            /\ devices' = WithStatus(devices, req[t].device_id, req[t].status)
            /\ reply'[t].rows = Lookup(devices', req[t].device_id)
  BY WriteAnswered DEF Writes, PutDevice, PutUplink, Sending
<1>2. CASE pc[t] = "ret" /\ reply'[t] = reply[t]
  BY <1>1, <1>2 DEF UpdatedRecordReturned
<1>3. CASE /\ SetDeviceStatus(t)
           /\ Lookup(devices, req[t].device_id) # {}
           /\ devices' = WithStatus(devices, req[t].device_id, req[t].status)
           /\ reply'[t].rows = Lookup(devices', req[t].device_id)
  <2>1. /\ devices \in SUBSET DeviceRows
        /\ req[t].device_id \in DeviceIds
        /\ req[t].status \in Statuses
    BY <1>3, StatusRequest DEF ItemsComplete, Complete
  <2>2. PICK r \in devices : r.device_id = req[t].device_id
    BY <1>3, LookupRows
  <2>3. PICK q \in devices' : /\ q.device_id = req[t].device_id
                              /\ q.status = req[t].status
    BY <1>3, <2>1, <2>2, WithStatusRows
  <2>4. q \in DeviceRows
    BY <1>3, <2>1, WithStatusRows
  <2>5. Lookup(devices', req[t].device_id) = {q}
    BY <2>3, KeysStep, LookupRows DEF KeysUnique
  <2>6. QED
    BY <1>1, <1>3, <2>3, <2>4, <2>5
<1>4. QED
  BY <1>1, <1>2, <1>3

-----------------------------------------------------------------------------
\* An item of the table stays, or gives way to one with the same key.
LEMMA UplinksKept ==
  ASSUME [Next]_vars
  PROVE  \A r \in uplinks : \E q \in uplinks' :
           q.device_id = r.device_id /\ q.received_at = r.received_at
<1>1. ASSUME NEW t \in Threads, PutUplink(t), NEW r \in uplinks
      PROVE  \E q \in uplinks' :
               q.device_id = r.device_id /\ q.received_at = r.received_at
  <2> DEFINE item == [device_id |-> req[t].device_id,
                      received_at |-> req[t].received_at,
                      payload |-> req[t].payload]
  <2>1. /\ item \in uplinks'
        /\ \/ r \in uplinks'
           \/ r.device_id = item.device_id /\ r.received_at = item.received_at
    BY <1>1 DEF PutUplink
  <2>2. QED
    BY <2>1
<1>2. QED
  BY <1>1, UplinksStep

\* What is acknowledged is in the table, on the way and after delivery.
LEMMA AcksStep ==
  ASSUME TypeOK, CallShape, AcksStand, AckedUplinksKept, [Next]_vars
  PROVE  AcksStand' /\ AckedUplinksKept'
<1>1. ASSUME NEW t \in Threads, pc'[t] = "ret", req'[t].op = "put_uplink"
      PROVE  /\ reply'[t].rows \subseteq UplinkItems
             /\ \A a \in reply'[t].rows : \E r \in uplinks' :
                  r.device_id = a.device_id /\ r.received_at = a.received_at
  <2>1. /\ req'[t] = req[t]
        /\ \/ pc[t] = "ret" /\ reply'[t] = reply[t]
           \/ reply'[t].rows = {}
           \/ \E item \in uplinks' \cap UplinkItems : reply'[t].rows = {item}
    BY <1>1, WriteAnswered DEF Writes, PutDevice, SetDeviceStatus, Sending
  <2>2. CASE pc[t] = "ret" /\ reply'[t] = reply[t]
    BY <1>1, <2>1, <2>2, UplinksKept DEF AcksStand
  <2>3. CASE reply'[t].rows = {}
    BY <2>3
  <2>4. CASE \E item \in uplinks' \cap UplinkItems : reply'[t].rows = {item}
    BY <2>4
  <2>5. QED
    BY <2>1, <2>2, <2>3, <2>4
<1>2. ASSUME NEW a \in acked'
      PROVE  \E r \in uplinks' :
               r.device_id = a.device_id /\ r.received_at = a.received_at
  <2>1. CASE a \in acked
    BY <2>1, UplinksKept DEF AckedUplinksKept
  <2>2. ASSUME a \notin acked
        PROVE  \E t \in Threads : /\ pc[t] = "ret" /\ req[t].op = "put_uplink"
                                  /\ a \in reply[t].rows
    <3>1. ASSUME NEW t \in Threads, Return(t)
          PROVE  /\ pc[t] = "ret" /\ req[t].op = "put_uplink"
                 /\ a \in reply[t].rows
      BY <1>2, <2>2, <3>1 DEF Return
    <3>2. ASSUME NEW t \in Threads, Served(t) PROVE FALSE
      BY <1>2, <2>2, <3>2, ServedStep DEF GoesOn, Answer
    <3>3. ASSUME \/ Tick \/ Crash \/ UNCHANGED vars
                 \/ \E e \in DeviceIds : ReplicateDevice(e) \/ ReplicateUplinks(e)
                 \/ \E t \in Threads : \E r \in RequestsAt(now) : Call(t, r)
          PROVE  FALSE
      BY <1>2, <2>2, <3>3
         DEF Tick, Crash, ReplicateDevice, ReplicateUplinks, Call, vars
    <3>4. QED
      BY <3>1, <3>2, <3>3, NextCases
  <2>3. QED
    BY <2>1, <2>2, UplinksKept DEF AcksStand
<1>3. QED
  BY <1>1, <1>2 DEF AcksStand, AckedUplinksKept

-----------------------------------------------------------------------------
\* The initial state.
LEMMA InitIInv == Init => IInv
<1> SUFFICES ASSUME Init PROVE IInv
  OBVIOUS
<1>1. TypeOK
  BY StoreAssumption, DynamoAssumption, ReplyTypes
     DEF Init, TypeOK, Times, PcValues, NothingKnown, Known, DynamoReplies
<1>2. KeysUnique /\ ItemsComplete /\ CallShape /\ WinsStand /\ AckedUplinksKept
  BY DEF Init, KeysUnique, ItemsComplete, CallShape, WinsStand, AckedUplinksKept
<1>3. OneRegistrationWins /\ UpdatedRecordReturned /\ AcksStand
  BY DEF Init, OneRegistrationWins, HoldsWin, UpdatedRecordReturned, AcksStand
<1>4. QED
  BY <1>1, <1>2, <1>3 DEF IInv

\* The invariant is inductive.
LEMMA NextIInv == IInv /\ [Next]_vars => IInv'
<1> SUFFICES ASSUME IInv, [Next]_vars PROVE IInv'
  OBVIOUS
<1> USE DEF IInv
<1>1. TypeOK'
  BY TypeStep
<1>2. KeysUnique' /\ ItemsComplete' /\ CallShape'
  BY KeysStep, CompleteStep, ShapeStep
<1>3. WinsStand' /\ OneRegistrationWins'
  BY WinsStep
<1>4. UpdatedRecordReturned' /\ AcksStand' /\ AckedUplinksKept'
  BY RecordStep, AcksStep
<1>5. QED
  BY <1>1, <1>2, <1>3, <1>4

\* The inductive invariant of the DynamoDB store.
THEOREM DynamoInv == Spec => []IInv
BY InitIInv, NextIInv, PTL DEF Spec

\* The types of the state of DynamoDeviceStore and of its calls.
THEOREM DynamoTypeOK == Spec => []TypeOK
BY DynamoInv, PTL DEF IInv

\* However many instances race and however many attempts the SDK makes, one
\* registration of a device is answered Ok (put_device).
THEOREM DynamoOneWinner == Spec => []OneRegistrationWins
BY DynamoInv, PTL DEF IInv

\* set_device_status returns the record it wrote (ReturnValue::AllNew).
THEOREM DynamoUpdatedRecord == Spec => []UpdatedRecordReturned
BY DynamoInv, PTL DEF IInv

\* No write, and no lag of a copy, makes an item that item_to_device refuses.
THEOREM DynamoItemsComplete == Spec => []ItemsComplete
BY DynamoInv, PTL DEF IInv

\* An acknowledged uplink keeps its place in the table (put_uplink).
THEOREM DynamoAckedKept == Spec => []AckedUplinksKept
BY DynamoInv, PTL DEF IInv

\* A registered device is neither dropped nor changed but for its status, by
\* the set_device_status that asked for it.
THEOREM DynamoOnlyStatusChanges == Spec => OnlyStatusChanges
<1> DEFINE Kept ==
      \A r \in devices :
        \E q \in devices' :
          /\ q.device_id = r.device_id
          /\ q.owner = r.owner
          /\ q.created_at = r.created_at
          /\ q.status # r.status =>
               \E t \in Threads :
                 /\ pc[t] = "send"
                 /\ req[t].op = "set_device_status"
                 /\ req[t].device_id = r.device_id
                 /\ req[t].status = q.status
<1>1. IInv /\ [Next]_vars => [Kept]_vars
  <2> SUFFICES ASSUME IInv, [Next]_vars PROVE Kept
    OBVIOUS
  <2>1. devices \in SUBSET DeviceRows
    BY DEF IInv, ItemsComplete, Complete
  <2>2. CASE devices \subseteq devices'
    BY <2>2
  <2>3. ASSUME NEW t \in Threads, SetDeviceStatus(t),
               devices' = WithStatus(devices, req[t].device_id, req[t].status)
        PROVE  Kept
    <3>1. req[t].device_id \in DeviceIds /\ req[t].status \in Statuses
      BY <2>3, StatusRequest DEF IInv
    <3>2. pc[t] = "send" /\ req[t].op = "set_device_status"
      BY <2>3 DEF SetDeviceStatus, Sending
    <3>3. ASSUME NEW r \in devices
          PROVE  \E q \in devices' :
                   /\ q.device_id = r.device_id
                   /\ q.owner = r.owner
                   /\ q.created_at = r.created_at
                   /\ \/ q.status = r.status
                      \/ r.device_id = req[t].device_id /\ q.status = req[t].status
      BY <2>1, <2>3, <3>1, WithStatusRows
    <3>4. QED
      BY <3>2, <3>3
  <2>4. QED
    BY <2>2, <2>3, DevicesStep
<1>2. QED
  BY <1>1, DynamoInv, PTL DEF Spec, OnlyStatusChanges

-----------------------------------------------------------------------------
(***************************************************************************)
(* Reads: an answer is no older than what the copies held when the call    *)
(* was made.                                                               *)
(***************************************************************************)

\* q is the uplink u or a newer one of the same device.
AsNew(q, u) == q.device_id = u.device_id /\ q.received_at >= u.received_at

\* Every row of S has one at least as new in T.
CoveredBy(S, T) == \A u \in S : \E q \in T : AsNew(q, u)

IdsOf(rows) == {r.device_id : r \in rows}

\* A copy never has a device, or a newer uplink, than the leader.
CopiesBehind ==
  /\ IsFiniteSet(devices)
  /\ \A r, q \in devices2 : r.device_id = q.device_id => r = q
  /\ IdsOf(devices2) \subseteq IdsOf(devices)
  /\ CoveredBy(uplinks2, uplinks)

\* What was known when t made its call, the copies have ever since.
KnownHeld(t) ==
  /\ known[t].ids \subseteq IdsOf(devices2)
  /\ CoveredBy(known[t].latest, uplinks2)
  /\ pc[t] # "idle" /\ req[t].op = "get_uplinks" =>
       \A u \in known[t].latest : u.device_id = req[t].device_id

\* While latest_uplinks asks for one device after another: each device with a
\* known uplink is still to be asked for, or answered.
QueriesCover(t) ==
  pc[t] = "query" /\ Cardinality(devices) <= PageSize =>
    \A u \in known[t].latest :
      u.device_id \in known[t].ids =>
        u.device_id \in todo[t] \/ \E r \in out[t] : AsNew(r, u)

\* AnswersNoOlder, of one thread.
AnswerNoOlder(t) ==
  pc[t] = "ret" /\ reply[t].result = "Ok" =>
    /\ \A d \in known[t].ids :
         /\ req[t].op = "list_devices"
         /\ Cardinality(devices) <= PageSize
         => Lookup(reply[t].rows, d) # {}
    /\ \A u \in known[t].latest :
         /\ \/ req[t].op = "get_uplinks" /\ Limit > 0
            \/ /\ req[t].op = "latest_uplinks"
               /\ u.device_id \in known[t].ids
               /\ Cardinality(devices) <= PageSize
         => \E r \in reply[t].rows : AsNew(r, u)

ReadInv ==
  /\ CopiesBehind
  /\ \A t \in Threads : KnownHeld(t) /\ QueriesCover(t) /\ AnswerNoOlder(t)

\* Being covered is transitive.
LEMMA CoveredTrans ==
  ASSUME NEW S \in SUBSET UplinkItems, NEW T \in SUBSET UplinkItems,
         NEW V \in SUBSET UplinkItems, CoveredBy(S, T), CoveredBy(T, V)
  PROVE  CoveredBy(S, V)
<1>1. ASSUME NEW u \in S, NEW q \in T, NEW r \in V, AsNew(q, u), AsNew(r, q)
      PROVE  AsNew(r, u)
  <2>1. u.received_at \in Int /\ q.received_at \in Int /\ r.received_at \in Int
    BY StoreAssumption DEF UplinkItems, Times
  <2>2. QED
    BY <1>1, <2>1 DEF AsNew
<1>2. QED
  BY <1>1 DEF CoveredBy

\* Every table covers itself.
LEMMA CoveredSelf ==
  ASSUME NEW S \in SUBSET UplinkItems
  PROVE  CoveredBy(S, S)
<1>1. \A u \in S : u.received_at \in Int
  BY StoreAssumption DEF UplinkItems, Times
<1>2. QED
  BY <1>1 DEF CoveredBy, AsNew

\* A query answers something at least as new as each uplink the copy it asks has.
LEMMA QueryNew ==
  ASSUME TypeOK, NEW d, NEW limit \in Nat \ {0}, NEW rows \in QueryAnswers(d, limit),
         NEW u \in UplinkItems, u.device_id = d,
         \A S \in {uplinks, uplinks2} : \E q \in S : AsNew(q, u)
  PROVE  \E r \in rows : AsNew(r, u)
<1>1. PICK seen \in {uplinks, uplinks2} :
        /\ IsPage(rows, UplinksOf(seen, d), limit)
        /\ \A r \in rows, q \in UplinksOf(seen, d) \ rows : q.received_at <= r.received_at
  BY DEF QueryAnswers
<1> DEFINE own == UplinksOf(seen, d)
<1>2. PICK q \in own : AsNew(q, u)
  BY DEF UplinksOf, AsNew
<1>3. own \subseteq UplinkItems /\ \A r \in own : r.device_id = d
  BY DEF UplinksOf, TypeOK
<1>4. CASE q \in rows
  BY <1>2, <1>4
<1>5. CASE q \notin rows
  <2>1. rows \subseteq own /\ Cardinality(rows) = limit
    BY <1>1, <1>5 DEF IsPage
  <2>2. PICK r \in rows : TRUE
    BY <2>1, FS_EmptySet
  <2>3. r \in own /\ q.received_at <= r.received_at
    BY <1>1, <1>5, <2>1
  <2>4. r.received_at \in Int /\ q.received_at \in Int /\ u.received_at \in Int
    BY <1>3, <2>3, StoreAssumption DEF UplinkItems, Times
  <2>5. AsNew(r, u)
    BY <1>2, <1>3, <2>3, <2>4 DEF AsNew
  <2>6. QED
    BY <2>5
<1>6. QED
  BY <1>4, <1>5

\* Rows of which no two share a device, about devices of a finite table, are no
\* more than the rows of that table.
LEMMA NoMoreThan ==
  ASSUME NEW S, NEW T, IsFiniteSet(T),
         \A r, q \in S : r.device_id = q.device_id => r = q,
         IdsOf(S) \subseteq IdsOf(T)
  PROVE  IsFiniteSet(S) /\ Cardinality(S) <= Cardinality(T)
<1> DEFINE f == [r \in S |-> CHOOSE q \in T : q.device_id = r.device_id]
<1>1. ASSUME NEW r \in S PROVE f[r] \in T /\ f[r].device_id = r.device_id
  <2>1. \E q \in T : q.device_id = r.device_id
    BY DEF IdsOf
  <2>2. QED
    BY <2>1
<1>2. f \in [S -> T]
  BY <1>1
<1> HIDE DEF f
<1>3. f \in Injection(S, T)
  BY <1>1, <1>2 DEF Injection, IsInjective
<1>4. QED
  BY <1>3, FS_Injection

\* A scan of a table whose devices fit in a page answers every device its copy has.
LEMMA ScanComplete ==
  ASSUME KeysUnique, CopiesBehind, Cardinality(devices) <= PageSize,
         NEW rows \in ScanAnswers
  PROVE  IdsOf(devices2) \subseteq IdsOf(rows)
<1>1. PICK atLeader \in SUBSET DeviceIds :
        IsPage(rows,
               {r \in devices : r.device_id \in atLeader}
                 \cup {r \in devices2 : r.device_id \notin atLeader},
               PageSize)
  BY DEF ScanAnswers
<1> DEFINE items == {r \in devices : r.device_id \in atLeader}
                      \cup {r \in devices2 : r.device_id \notin atLeader}
<1>2. \A r, q \in items : r.device_id = q.device_id => r = q
  BY DEF KeysUnique, CopiesBehind
<1>3. IdsOf(items) \subseteq IdsOf(devices)
  BY DEF IdsOf, CopiesBehind
<1>4. IdsOf(devices2) \subseteq IdsOf(items)
  BY DEF IdsOf, CopiesBehind
<1>5. IsPage(rows, items, PageSize)
  BY <1>1
<1> HIDE DEF items
<1>6. IsFiniteSet(items) /\ Cardinality(items) <= Cardinality(devices)
  BY <1>2, <1>3, NoMoreThan DEF CopiesBehind
<1>7. rows = items
  <2>1. rows \subseteq items /\ (rows = items \/ Cardinality(rows) = PageSize)
    BY <1>5 DEF IsPage
  <2>2. IsFiniteSet(rows) /\ Cardinality(rows) <= Cardinality(items)
    BY <1>6, <2>1, FS_Subset
  <2>3. /\ Cardinality(rows) \in Nat /\ Cardinality(items) \in Nat
        /\ Cardinality(devices) \in Nat /\ PageSize \in Nat
    BY <1>6, <2>2, FS_CardinalityType, DynamoAssumption DEF CopiesBehind
  <2>4. CASE Cardinality(rows) = PageSize
    <3>1. Cardinality(items) = Cardinality(rows)
      BY <1>6, <2>2, <2>3, <2>4
    <3>2. QED
      BY <1>6, <2>1, <3>1, FS_Subset
  <2>5. QED
    BY <2>1, <2>4
<1>8. QED
  BY <1>4, <1>7

\* A table only gains devices.
LEMMA DevicesGrow ==
  ASSUME IInv, CopiesBehind, [Next]_vars
  PROVE  /\ IsFiniteSet(devices')
         /\ IdsOf(devices) \subseteq IdsOf(devices')
         /\ Cardinality(devices) <= Cardinality(devices')
<1>1. devices \in SUBSET DeviceRows
  BY DEF IInv, ItemsComplete, Complete
<1>2. IsFiniteSet(devices')
  <2>1. CASE UNCHANGED devices
    BY <2>1 DEF CopiesBehind
  <2>2. ASSUME NEW t \in Threads, devices' = devices \cup {req[t].row}
        PROVE  IsFiniteSet(devices')
    BY <2>2, FS_AddElement DEF CopiesBehind
  <2>3. ASSUME NEW t \in Threads, SetDeviceStatus(t),
               devices' = WithStatus(devices, req[t].device_id, req[t].status)
        PROVE  IsFiniteSet(devices')
    <3> DEFINE d == req[t].device_id
               s == req[t].status
    <3>1. d \in DeviceIds /\ s \in Statuses
      BY <2>3, StatusRequest DEF IInv
    <3>2. \A r, q \in devices' : r.device_id = q.device_id => r = q
      BY KeysStep DEF IInv, KeysUnique
    <3>3. IdsOf(devices') \subseteq IdsOf(devices)
      <4>1. ASSUME NEW q \in devices' PROVE \E r \in devices : q.device_id = r.device_id
        <5>1. PICK r \in devices :
                q = IF r.device_id = d THEN [r EXCEPT !.status = s] ELSE r
          BY <1>1, <2>3, <3>1, WithStatusRows
        <5>2. q.device_id = r.device_id
          BY <1>1, <5>1 DEF DeviceRows
        <5>3. QED
          BY <5>2
      <4>2. QED
        BY <4>1 DEF IdsOf
    <3>4. QED
      BY <3>2, <3>3, NoMoreThan DEF CopiesBehind
  <2>4. QED
    BY <2>1, <2>2, <2>3, DevicesStep
<1>3. IdsOf(devices) \subseteq IdsOf(devices')
  BY RowsKept DEF IInv, IdsOf
<1>4. QED
  BY <1>2, <1>3, NoMoreThan DEF IInv, KeysUnique

\* The copies only gain devices and newer uplinks, and stay behind the leader.
LEMMA CopiesStep ==
  ASSUME IInv, CopiesBehind, [Next]_vars, TypeOK'
  PROVE  /\ CopiesBehind'
         /\ IdsOf(devices2) \subseteq IdsOf(devices2')
         /\ CoveredBy(uplinks2, uplinks2')
<1>1. IdsOf(devices) \subseteq IdsOf(devices') /\ IsFiniteSet(devices')
  BY DevicesGrow
<1>2. CoveredBy(uplinks, uplinks')
  <2>1. \A r \in uplinks : r.received_at \in Int
    BY StoreAssumption DEF IInv, TypeOK, UplinkItems, Times
  <2>2. QED
    BY <2>1, UplinksKept DEF CoveredBy, AsNew
<1>3. /\ uplinks \in SUBSET UplinkItems /\ uplinks2 \in SUBSET UplinkItems
      /\ uplinks' \in SUBSET UplinkItems /\ uplinks2' \in SUBSET UplinkItems
  BY DEF IInv, TypeOK
<1>4. ASSUME ~ \E d \in DeviceIds : ReplicateDevice(d) PROVE UNCHANGED devices2
  BY <1>4, NextCases, ServedStep
     DEF Tick, Crash, ReplicateUplinks, Call, Return, vars, copies
<1>5. ASSUME ~ \E d \in DeviceIds : ReplicateUplinks(d) PROVE UNCHANGED uplinks2
  BY <1>5, NextCases, ServedStep
     DEF Tick, Crash, ReplicateDevice, Call, Return, vars, copies
<1>6. /\ \A r, q \in devices2' : r.device_id = q.device_id => r = q
      /\ IdsOf(devices2') \subseteq IdsOf(devices')
      /\ IdsOf(devices2) \subseteq IdsOf(devices2')
  <2>1. CASE UNCHANGED devices2
    BY <1>1, <2>1 DEF CopiesBehind
  <2>2. ASSUME NEW d \in DeviceIds, ReplicateDevice(d)
        PROVE  /\ \A r, q \in devices2' : r.device_id = q.device_id => r = q
               /\ IdsOf(devices2') \subseteq IdsOf(devices)
               /\ IdsOf(devices2) \subseteq IdsOf(devices2')
    <3>1. \A r : r \in devices2' <=> \/ r \in devices2 /\ r.device_id # d
                                     \/ r \in devices /\ r.device_id = d
      BY <2>2, LookupRows DEF ReplicateDevice
    <3>2. QED
      BY <3>1 DEF IInv, KeysUnique, CopiesBehind, IdsOf
  <2>3. QED
    BY <1>1, <1>4, <2>1, <2>2
<1>7. CoveredBy(uplinks2', uplinks') /\ CoveredBy(uplinks2, uplinks2')
  <2>1. CASE UNCHANGED uplinks2
    BY <1>2, <1>3, <2>1, CoveredTrans, CoveredSelf DEF CopiesBehind
  <2>2. ASSUME NEW d \in DeviceIds, ReplicateUplinks(d)
        PROVE  CoveredBy(uplinks2', uplinks') /\ CoveredBy(uplinks2, uplinks2')
    <3>1. UNCHANGED uplinks
      BY <2>2 DEF ReplicateUplinks, tables
    <3>2. \A r : r \in uplinks2' <=> \/ r \in uplinks2 /\ r.device_id # d
                                     \/ r \in uplinks /\ r.device_id = d
      BY <2>2 DEF ReplicateUplinks, UplinksOf
    <3>3. CoveredBy(uplinks2, uplinks) /\ CoveredBy(uplinks, uplinks)
          /\ CoveredBy(uplinks2, uplinks2)
      BY <1>3, CoveredSelf DEF CopiesBehind
    <3>4. QED
      BY <3>1, <3>2, <3>3 DEF CoveredBy, AsNew
  <2>3. QED
    BY <1>5, <2>1, <2>2
<1>8. QED
  BY <1>1, <1>6, <1>7 DEF CopiesBehind

\* A call that is not touched, and whose knowledge stays, is as fresh as it was.
LEMMA FreshStays ==
  ASSUME IInv, ReadInv, [Next]_vars, TypeOK', NEW t \in Threads,
         UNCHANGED <<pc[t], req[t], reply[t], todo[t], out[t], known[t]>>
  PROVE  KnownHeld(t)' /\ QueriesCover(t)' /\ AnswerNoOlder(t)'
<1>1. KnownHeld(t) /\ QueriesCover(t) /\ AnswerNoOlder(t) /\ CopiesBehind
  BY DEF ReadInv
<1>2. KnownHeld(t)'
  <2>1. /\ IdsOf(devices2) \subseteq IdsOf(devices2')
        /\ CoveredBy(uplinks2, uplinks2')
    BY <1>1, CopiesStep
  <2>2. /\ known[t].latest \in SUBSET UplinkItems
        /\ uplinks2 \in SUBSET UplinkItems /\ uplinks2' \in SUBSET UplinkItems
    BY DEF IInv, TypeOK
  <2>3. CoveredBy(known[t].latest, uplinks2')
    BY <1>1, <2>1, <2>2, CoveredTrans DEF KnownHeld
  <2>4. QED
    BY <1>1, <2>1, <2>3 DEF KnownHeld
<1>3. Cardinality(devices') <= PageSize => Cardinality(devices) <= PageSize
  <2>1. IsFiniteSet(devices) /\ IsFiniteSet(devices')
    BY <1>1, DevicesGrow DEF CopiesBehind
  <2>2. Cardinality(devices) \in Nat /\ Cardinality(devices') \in Nat
    BY <2>1, FS_CardinalityType
  <2>3. QED
    BY <1>1, <2>2, DevicesGrow, DynamoAssumption
<1>4. QED
  BY <1>1, <1>2, <1>3 DEF QueriesCover, AnswerNoOlder

\* The steps of one call touch no other.
LEMMA ServedOthers ==
  ASSUME TypeOK, NEW u \in Threads, Served(u), NEW t \in Threads, t # u
  PROVE  UNCHANGED <<pc[t], req[t], reply[t], todo[t], out[t], known[t]>>
<1> DEFINE Same == UNCHANGED <<pc[t], req[t], reply[t], todo[t], out[t], known[t]>>
<1>1. ASSUME NEW r, Answer(u, r) PROVE Same
  BY <1>1 DEF Answer, TypeOK
<1>2. ASSUME NoAnswer(u) PROVE Same
  BY <1>1, <1>2 DEF NoAnswer, TypeOK
<1> SUFFICES Same
  OBVIOUS
<1>3. CASE PutDevice(u) \/ PutUplink(u) \/ SetDeviceStatus(u)
  <2>1. \E r : Executed(u, r)
    BY <1>3 DEF PutDevice, PutUplink, SetDeviceStatus
  <2> HIDE DEF Same
  <2>2. QED
    BY <1>1, <1>2, <2>1 DEF Executed
<1>4. CASE GetDevice(u) \/ ListDevices(u) \/ GetUplinks(u) \/ RequestFails(u)
  <2> HIDE DEF Same
  <2>1. QED
    BY <1>1, <1>2, <1>4 DEF GetDevice, ListDevices, GetUplinks, RequestFails
<1>5. CASE LatestUplinks(u)
  <2>1. CASE Answer(u, Err("Store"))
    BY <1>1, <2>1
  <2>2. CASE ~ Answer(u, Err("Store"))
    BY <1>5, <2>2 DEF LatestUplinks, TypeOK
  <2>3. QED
    BY <2>1, <2>2
<1>6. CASE LatestOf(u)
  <2>1. CASE Answer(u, Ok(out[u]))
    BY <1>1, <2>1
  <2>2. CASE ~ Answer(u, Ok(out[u]))
    BY <1>6, <2>2 DEF LatestOf, TypeOK
  <2>3. QED
    BY <2>1, <2>2
<1>7. QED
  BY <1>3, <1>4, <1>5, <1>6 DEF Served

\* A step of a call keeps what was known when it was made.
LEMMA ServedKnown ==
  ASSUME IInv, ReadInv, [Next]_vars, TypeOK', NEW t \in Threads, Served(t)
  PROVE  KnownHeld(t)' /\ known'[t] = known[t] /\ req'[t] = req[t]
<1>1. KnownHeld(t) /\ CopiesBehind
  BY DEF ReadInv
<1>2. known' = known /\ req' = req /\ pc[t] # "idle"
  BY ServedStep DEF GoesOn, Answer
<1>3. /\ IdsOf(devices2) \subseteq IdsOf(devices2')
      /\ CoveredBy(uplinks2, uplinks2')
  BY <1>1, CopiesStep
<1>4. /\ known[t].latest \in SUBSET UplinkItems
      /\ uplinks2 \in SUBSET UplinkItems /\ uplinks2' \in SUBSET UplinkItems
  BY DEF IInv, TypeOK
<1>5. CoveredBy(known[t].latest, uplinks2')
  BY <1>1, <1>3, <1>4, CoveredTrans DEF KnownHeld
<1>6. QED
  BY <1>1, <1>2, <1>3, <1>5 DEF KnownHeld

\* What both places a query may be served from have of an uplink known.
LEMMA KnownAnswered ==
  ASSUME IInv, ReadInv, NEW t \in Threads, NEW u \in known[t].latest,
         NEW limit \in Nat \ {0}, NEW rows \in QueryAnswers(u.device_id, limit)
  PROVE  \E r \in rows : AsNew(r, u)
<1>1. /\ known[t].latest \in SUBSET UplinkItems
      /\ uplinks \in SUBSET UplinkItems /\ uplinks2 \in SUBSET UplinkItems
      /\ TypeOK
  BY DEF IInv, TypeOK
<1>2. CoveredBy(known[t].latest, uplinks2) /\ CoveredBy(uplinks2, uplinks)
  BY DEF ReadInv, KnownHeld, CopiesBehind
<1>3. CoveredBy(known[t].latest, uplinks)
  BY <1>1, <1>2, CoveredTrans
<1>4. \A S \in {uplinks, uplinks2} : \E q \in S : AsNew(q, u)
  BY <1>2, <1>3 DEF CoveredBy
<1>5. QED
  BY <1>1, <1>4, QueryNew

\* Each step of a call leaves its reads as fresh as what was known.
LEMMA ServedFresh ==
  ASSUME IInv, ReadInv, [Next]_vars, TypeOK', NEW t \in Threads, Served(t)
  PROVE  QueriesCover(t)' /\ AnswerNoOlder(t)'
<1> DEFINE Fresh == QueriesCover(t)' /\ AnswerNoOlder(t)'
<1>0. /\ TypeOK /\ CallShape /\ KeysUnique /\ CopiesBehind
      /\ KnownHeld(t) /\ QueriesCover(t)
      /\ known'[t] = known[t] /\ req'[t] = req[t]
  BY ServedKnown DEF IInv, ReadInv
<1>1. ASSUME NEW r, Answer(t, r) PROVE pc'[t] = "ret" /\ reply'[t] = r
  BY <1>0, <1>1 DEF Answer, TypeOK
<1>2. ASSUME NEW r, Answer(t, r), r.result # "Ok" PROVE Fresh
  BY <1>1, <1>2 DEF QueriesCover, AnswerNoOlder
<1>3. ASSUME pc'[t] # "query",
             req[t].op \notin {"list_devices", "get_uplinks", "latest_uplinks"}
      PROVE  Fresh
  BY <1>0, <1>3 DEF QueriesCover, AnswerNoOlder
<1>4. ASSUME pc'[t] = "send" PROVE Fresh
  BY <1>4 DEF QueriesCover, AnswerNoOlder
<1>5. Err("Store").result # "Ok"
  BY DEF Err
<1> SUFFICES Fresh
  OBVIOUS
<1>6. CASE PutDevice(t) \/ PutUplink(t) \/ SetDeviceStatus(t) \/ GetDevice(t)
  <2>1. /\ pc[t] = "send"
        /\ req[t].op \in {"put_device", "put_uplink", "set_device_status", "get_device"}
        /\ (\E r : Executed(t, r)) \/ (\E r : Answer(t, r))
    BY <1>6 DEF PutDevice, PutUplink, SetDeviceStatus, GetDevice, Sending
  <2>2. pc'[t] # "query"
    <3>1. ASSUME NoAnswer(t), ~ \E r : Answer(t, r) PROVE UNCHANGED pc
      BY <3>1 DEF NoAnswer
    <3>2. QED
      BY <1>1, <2>1, <3>1 DEF Executed
  <2> HIDE DEF Fresh
  <2>3. QED
    BY <1>3, <2>1, <2>2
<1>7. CASE RequestFails(t)
  <2>1. CASE Answer(t, Err("Store"))
    BY <1>2, <1>5, <2>1
  <2>2. CASE pc[t] = "send" /\ UNCHANGED pc
    BY <1>4, <2>2
  <2>3. QED
    BY <1>7, <2>1, <2>2 DEF RequestFails, NoAnswer
<1>8. CASE ListDevices(t)
  <2>1. PICK rows \in ScanAnswers :
          Answer(t, IF \A r \in rows : Complete(r) THEN Ok(rows) ELSE Err("Store"))
    BY <1>8 DEF ListDevices
  <2>2. devices' = devices /\ req[t].op = "list_devices"
    BY <1>8 DEF ListDevices, tables, Sending
  <2>3. CASE Answer(t, Ok(rows))
    <3>1. pc'[t] = "ret" /\ reply'[t].rows = rows
      BY <1>1, <2>3 DEF Ok
    <3>2. ASSUME Cardinality(devices) <= PageSize, NEW d \in known[t].ids
          PROVE  Lookup(rows, d) # {}
      <4>1. d \in IdsOf(rows)
        BY <1>0, <3>2, ScanComplete DEF KnownHeld
      <4>2. QED
        BY <4>1, LookupRows DEF IdsOf
    <3>3. QED
      BY <1>0, <2>2, <3>1, <3>2 DEF QueriesCover, AnswerNoOlder
  <2>4. CASE Answer(t, Err("Store"))
    BY <1>2, <1>5, <2>4
  <2>5. QED
    BY <2>1, <2>3, <2>4
<1>9. CASE GetUplinks(t)
  <2>1. PICK rows \in QueryAnswers(req[t].device_id, Limit) : Answer(t, Ok(rows))
    BY <1>9 DEF GetUplinks
  <2>2. req[t].op = "get_uplinks" /\ pc[t] = "send"
    BY <1>9 DEF GetUplinks, Sending
  <2>3. pc'[t] = "ret" /\ reply'[t].rows = rows
    BY <1>1, <2>1 DEF Ok
  <2>4. ASSUME Limit > 0, NEW u \in known[t].latest PROVE \E r \in rows : AsNew(r, u)
    <3>1. u.device_id = req[t].device_id
      BY <1>0, <2>2 DEF KnownHeld
    <3>2. Limit \in Nat \ {0}
      BY <2>4, StoreAssumption
    <3>3. QED
      BY <2>1, <3>1, <3>2, KnownAnswered
  <2>5. QED
    BY <1>0, <2>2, <2>3, <2>4 DEF QueriesCover, AnswerNoOlder
<1>10. CASE LatestUplinks(t)
  <2>1. PICK rows \in ScanAnswers :
          \/ /\ pc' = [pc EXCEPT ![t] = "query"]
             /\ todo' = [todo EXCEPT ![t] = {r.device_id : r \in rows}]
          \/ Answer(t, Err("Store"))
    BY <1>10 DEF LatestUplinks
  <2>2. CASE Answer(t, Err("Store"))
    BY <1>2, <1>5, <2>2
  <2>3. CASE /\ pc' = [pc EXCEPT ![t] = "query"]
             /\ todo' = [todo EXCEPT ![t] = {r.device_id : r \in rows}]
    <3>1. pc'[t] = "query" /\ todo'[t] = IdsOf(rows) /\ devices' = devices
      BY <1>0, <1>10, <2>3 DEF TypeOK, IdsOf, LatestUplinks, tables
    <3>2. Cardinality(devices) <= PageSize => known[t].ids \subseteq IdsOf(rows)
      BY <1>0, ScanComplete DEF KnownHeld
    <3>3. QED
      BY <1>0, <3>1, <3>2 DEF QueriesCover, AnswerNoOlder
  <2>4. QED
    BY <2>1, <2>2, <2>3
<1>11. CASE LatestOf(t)
  <2>0. pc[t] = "query" /\ devices' = devices /\ req[t].op = "latest_uplinks"
    BY <1>0, <1>11 DEF LatestOf, tables, CallShape
  <2>1. CASE todo[t] = {} /\ Answer(t, Ok(out[t]))
    <3>1. pc'[t] = "ret" /\ reply'[t].rows = out[t]
      BY <1>1, <2>1 DEF Ok
    <3>2. QED
      BY <1>0, <2>0, <2>1, <3>1 DEF QueriesCover, AnswerNoOlder
  <2>2. ASSUME NEW d \in todo[t], NEW rows \in QueryAnswers(d, 1),
               out' = [out EXCEPT ![t] = @ \cup rows],
               todo' = [todo EXCEPT ![t] = @ \ {d}],
               UNCHANGED pc
        PROVE  Fresh
    <3>1. out'[t] = out[t] \cup rows /\ todo'[t] = todo[t] \ {d} /\ pc'[t] = "query"
      BY <1>0, <2>0, <2>2 DEF TypeOK
    <3>2. ASSUME NEW u \in known[t].latest, u.device_id = d
          PROVE  \E r \in rows : AsNew(r, u)
      BY <2>2, <3>2, KnownAnswered
    <3>3. QED
      BY <1>0, <2>0, <3>1, <3>2 DEF QueriesCover, AnswerNoOlder
  <2>3. QED
    BY <1>11, <2>1, <2>2 DEF LatestOf
<1>12. QED
  BY <1>6, <1>7, <1>8, <1>9, <1>10, <1>11 DEF Served

\* What is known when a call is made, the copies have.
LEMMA CallKnown ==
  ASSUME TypeOK, NEW r
  PROVE  /\ KnownTo(r).ids \subseteq IdsOf(devices2)
         /\ KnownTo(r).latest \subseteq uplinks2
         /\ r.op = "get_uplinks" =>
              \A u \in KnownTo(r).latest : u.device_id = r.device_id
<1> DEFINE ids    == {x.device_id : x \in devices2}
           newest == {u \in uplinks2 : NewestOf(u, UplinksOf(uplinks2, u.device_id))}
<1>1. \/ KnownTo(r) = Known(ids, {}) /\ r.op = "list_devices"
      \/ KnownTo(r) = Known(ids, newest) /\ r.op = "latest_uplinks"
      \/ KnownTo(r) = Known({}, UplinksOf(newest, r.device_id))
      \/ KnownTo(r) = NothingKnown
  BY Zenon DEF KnownTo
<1>2. ids = IdsOf(devices2) /\ newest \subseteq uplinks2
      /\ UplinksOf(newest, r.device_id) \subseteq uplinks2
      /\ \A u \in UplinksOf(newest, r.device_id) : u.device_id = r.device_id
  BY DEF IdsOf, UplinksOf
<1> HIDE DEF ids, newest
<1>3. QED
  BY <1>1, <1>2 DEF Known, NothingKnown

\* The invariant of reads is inductive, beside that of the writes.
LEMMA ReadStep ==
  ASSUME IInv, ReadInv, [Next]_vars
  PROVE  ReadInv'
<1> DEFINE Fresh(t) == KnownHeld(t)' /\ QueriesCover(t)' /\ AnswerNoOlder(t)'
<1>0. TypeOK' /\ TypeOK /\ CopiesBehind
  BY NextIInv DEF IInv, ReadInv
<1>1. /\ CopiesBehind'
      /\ IdsOf(devices2) \subseteq IdsOf(devices2')
      /\ CoveredBy(uplinks2, uplinks2')
  BY <1>0, CopiesStep
<1>2. ASSUME NEW t \in Threads,
             UNCHANGED <<pc[t], req[t], reply[t], todo[t], out[t], known[t]>>
      PROVE  Fresh(t)
  BY <1>0, <1>2, FreshStays
<1>3. ASSUME NEW t \in Threads, pc'[t] = "idle", known'[t] = NothingKnown
      PROVE  Fresh(t)
  BY <1>3 DEF KnownHeld, QueriesCover, AnswerNoOlder, NothingKnown, Known, CoveredBy
<1>4. ASSUME NEW u \in Threads, Served(u), NEW t \in Threads PROVE Fresh(t)
  <2> HIDE DEF Fresh
  <2>1. CASE t = u
    BY <1>0, <1>4, <2>1, ServedKnown, ServedFresh DEF Fresh
  <2>2. CASE t # u
    BY <1>0, <1>2, <1>4, <2>2, ServedOthers
  <2>3. QED
    BY <2>1, <2>2
<1>5. ASSUME NEW u \in Threads, NEW r \in RequestsAt(now), Call(u, r), NEW t \in Threads
      PROVE  Fresh(t)
  <2>1. CASE t = u
    <3>1. /\ pc'[t] = "send" /\ req'[t] = r /\ known'[t] = KnownTo(r)
          /\ UNCHANGED copies
      BY <1>0, <1>5, <2>1 DEF Call, TypeOK
    <3>2. uplinks2 \in SUBSET UplinkItems /\ CoveredBy(uplinks2, uplinks2)
      BY <1>0, CoveredSelf DEF TypeOK
    <3>3. KnownHeld(t)'
      BY <1>0, <3>1, <3>2, CallKnown DEF KnownHeld, CoveredBy, copies
    <3>4. QED
      BY <3>1, <3>3 DEF QueriesCover, AnswerNoOlder
  <2>2. CASE t # u
    <3>1. UNCHANGED <<pc[t], req[t], reply[t], todo[t], out[t], known[t]>>
      BY <1>0, <1>5, <2>2 DEF Call, TypeOK
    <3> HIDE DEF Fresh
    <3>2. QED
      BY <1>2, <3>1
  <2>3. QED
    BY <2>1, <2>2
<1>6. ASSUME NEW u \in Threads, Return(u), NEW t \in Threads PROVE Fresh(t)
  <2>1. CASE t = u
    <3>1. pc'[t] = "idle" /\ known'[t] = NothingKnown
      BY <1>0, <1>6, <2>1 DEF Return, TypeOK
    <3> HIDE DEF Fresh
    <3>2. QED
      BY <1>3, <3>1
  <2>2. CASE t # u
    <3>1. UNCHANGED <<pc[t], req[t], reply[t], todo[t], out[t], known[t]>>
      BY <1>0, <1>6, <2>2 DEF Return, TypeOK
    <3> HIDE DEF Fresh
    <3>2. QED
      BY <1>2, <3>1
  <2>3. QED
    BY <2>1, <2>2
<1>7. ASSUME \/ Tick \/ UNCHANGED vars
             \/ \E d \in DeviceIds : ReplicateDevice(d) \/ ReplicateUplinks(d),
             NEW t \in Threads
      PROVE  Fresh(t)
  <2>1. UNCHANGED <<pc[t], req[t], reply[t], todo[t], out[t], known[t]>>
    BY <1>7 DEF Tick, vars, call, ReplicateDevice, ReplicateUplinks
  <2> HIDE DEF Fresh
  <2>2. QED
    BY <1>2, <2>1
<1>8. ASSUME Crash, NEW t \in Threads PROVE Fresh(t)
  <2>1. pc'[t] = "idle" /\ known'[t] = NothingKnown
    BY <1>8 DEF Crash
  <2> HIDE DEF Fresh
  <2>2. QED
    BY <1>3, <2>1
<1>9. \A t \in Threads : Fresh(t)
  <2> HIDE DEF Fresh
  <2>1. QED
    BY <1>4, <1>5, <1>6, <1>7, <1>8, NextCases
<1>10. QED
  BY <1>1, <1>9 DEF ReadInv

\* The answers of list_devices, latest_uplinks and get_uplinks are never older
\* than what the copies that lag held when the call was made, whichever copies
\* serve them, and in whatever order writes, pages and replication interleave.
THEOREM DynamoAnswersNoOlder == Spec => []AnswersNoOlder
<1>1. Init => ReadInv
  BY FS_EmptySet
     DEF Init, ReadInv, CopiesBehind, KnownHeld, QueriesCover, AnswerNoOlder,
         IdsOf, CoveredBy, NothingKnown, Known
<1>2. IInv /\ ReadInv /\ [Next]_vars => ReadInv'
  BY ReadStep
<1>3. ReadInv => AnswersNoOlder
  BY DEF ReadInv, AnswerNoOlder, AnswersNoOlder, AsNew
<1>4. QED
  BY <1>1, <1>2, <1>3, DynamoInv, PTL DEF Spec
=============================================================================
