------------------------- MODULE SqliteStore_proofs -------------------------
(***************************************************************************)
(* Proofs about the SQLite store, for every number of threads, devices,    *)
(* owners and payloads.                                                    *)
(***************************************************************************)
EXTENDS SqliteStore, FiniteSetTheorems, TLAPS

-----------------------------------------------------------------------------
(***************************************************************************)
(* Rows, requests and updates (StoreTypes).                                *)
(***************************************************************************)

\* UPDATE ... SET status keeps every row but for its status.
LEMMA WithStatusRows ==
  ASSUME NEW T \in SUBSET DeviceRows, NEW d \in DeviceIds, NEW s \in Statuses
  PROVE  /\ WithStatus(T, d, s) \subseteq DeviceRows
         /\ \A r \in T : \E q \in WithStatus(T, d, s) :
              /\ q.device_id = r.device_id
              /\ q.owner = r.owner
              /\ q.created_at = r.created_at
              /\ r.device_id # d => q = r
              /\ r.device_id = d => q.status = s
         /\ \A q \in WithStatus(T, d, s) : \E r \in T :
              q = IF r.device_id = d THEN [r EXCEPT !.status = s] ELSE r
<1> DEFINE New(r) == IF r.device_id = d THEN [r EXCEPT !.status = s] ELSE r
<1>1. WithStatus(T, d, s) = {New(r) : r \in T}
  BY DEF WithStatus
<1>2. ASSUME NEW r \in T
      PROVE  /\ New(r) \in DeviceRows
             /\ New(r).device_id = r.device_id
             /\ New(r).owner = r.owner
             /\ New(r).created_at = r.created_at
             /\ r.device_id # d => New(r) = r
             /\ r.device_id = d => New(r).status = s
  <2>1. CASE r.device_id = d
    BY <2>1 DEF DeviceRows
  <2>2. CASE r.device_id # d
    BY <2>2
  <2>3. QED
    BY <2>1, <2>2
<1>3. \A q \in WithStatus(T, d, s) : \E r \in T : q = New(r)
  BY <1>1
<1>4. \A r \in T : New(r) \in WithStatus(T, d, s)
  BY <1>1
<1>5. WithStatus(T, d, s) \subseteq DeviceRows
  <2> HIDE DEF New
  <2> QED BY <1>2, <1>3
<1>6. \A r \in T : \E q \in WithStatus(T, d, s) :
        /\ q.device_id = r.device_id
        /\ q.owner = r.owner
        /\ q.created_at = r.created_at
        /\ r.device_id # d => q = r
        /\ r.device_id = d => q.status = s
  <2> HIDE DEF New
  <2> QED BY <1>2, <1>4
<1>7. QED
  BY <1>3, <1>5, <1>6

\* ... and so device_id stays a key.
LEMMA WithStatusKeys ==
  ASSUME NEW T \in SUBSET DeviceRows, NEW d \in DeviceIds, NEW s \in Statuses,
         \A r, q \in T : r.device_id = q.device_id => r = q
  PROVE  \A r, q \in WithStatus(T, d, s) : r.device_id = q.device_id => r = q
<1> DEFINE New(r) == IF r.device_id = d THEN [r EXCEPT !.status = s] ELSE r
<1>1. SUFFICES ASSUME NEW q1 \in WithStatus(T, d, s), NEW q2 \in WithStatus(T, d, s),
                      q1.device_id = q2.device_id
               PROVE  q1 = q2
  OBVIOUS
<1>2. PICK r1 \in T : q1 = New(r1)
  BY WithStatusRows
<1>3. PICK r2 \in T : q2 = New(r2)
  BY WithStatusRows
<1>4. \A r \in T : New(r).device_id = r.device_id
  BY DEF DeviceRows
<1>5. r1 = r2
  BY <1>1, <1>2, <1>3, <1>4
<1>6. QED
  BY <1>2, <1>3, <1>5

\* The set of rows with a key has that key's rows only.
LEMMA LookupRows ==
  ASSUME NEW T, NEW d
  PROVE  \A r : r \in Lookup(T, d) <=> r \in T /\ r.device_id = d
BY DEF Lookup

\* The shape of each kind of request.
LEMMA RequestShape ==
  ASSUME NEW r \in Requests
  PROVE  /\ r.op = "put_device" => r.row \in DeviceRows
         /\ r.op \in {"get_device", "get_uplinks", "set_device_status",
                      "put_uplink"} => r.device_id \in DeviceIds
         /\ r.op = "set_device_status" => r.status \in Statuses
         /\ r.op = "put_uplink" => r.received_at \in Times /\ r.payload \in Payloads
BY DEF Requests

\* What the handlers ask for is a request.
LEMMA RequestsAtTyped ==
  ASSUME NEW x \in Times
  PROVE  RequestsAt(x) \subseteq Requests
BY DEF RequestsAt, Requests, DeviceRows, Statuses

-----------------------------------------------------------------------------


\* device_id is a key.
KeysUnique ==
  \A r, q \in devices : r.device_id = q.device_id => r = q

\* Every uplink has an id given out already.
IdsGiven == \A r \in uplinks : r.id <= lastId

\* The guard is held in a critical section and nowhere else.
Guarded == \A t \in Threads : mutex = t <=> pc[t] \in {"stmt", "reread"}

\* The methods whose SELECT is stepped.
Scans == {"list_devices", "latest_uplinks", "get_uplinks"}

\* What a call keeps at each point of its way.
CallShape ==
  \A t \in Threads :
    /\ pc[t] # "idle" => req[t] \in Requests
    /\ pc[t] = "idle" => req[t] = NoRequest
    /\ pc[t] \in {"relock", "reread"} => req[t].op = "set_device_status"
    /\ pc[t] # "ret" => reply[t] = NoReply
    /\ pc[t] # "stmt" \/ req[t].op \notin Scans => fetched[t] = {}

\* A device whose registration was answered, or is about to be, is there.
WinsStand ==
  \A d \in DeviceIds :
    won[d] > 0 => \E r \in devices : r.device_id = d

IInv ==
  /\ TypeOK
  /\ KeysUnique
  /\ IdsGiven
  /\ Guarded
  /\ CallShape
  /\ WinsStand
  /\ OneRegistrationWins
  /\ AckedUplinksKept

-----------------------------------------------------------------------------
\* What a return under the guard leaves behind.
LEMMA LeaveTypes ==
  ASSUME TypeOK, NEW t \in Threads, NEW r \in Replies, Leave(t, r)
  PROVE  /\ now' \in Times
         /\ mutex' \in Threads \cup {NoThread}
         /\ pc' \in [Threads -> PcValues]
         /\ req' \in [Threads -> Requests \cup {NoRequest}]
         /\ reply' \in [Threads -> Replies]
         /\ fetched' \in [Threads -> SUBSET (DeviceRows \cup UplinkRows)]
         /\ won' \in [DeviceIds -> Nat]
         /\ acked' \subseteq UplinkRows
BY DEF TypeOK, Leave, history, PcValues

\* A cursor is given rows of the tables.
LEMMA FetchTypes ==
  ASSUME TypeOK, NEW t \in Threads, NEW r \in DeviceRows \cup UplinkRows,
         Fetch(t, r)
  PROVE  TypeOK'
<1>1. fetched' \in [Threads -> SUBSET (DeviceRows \cup UplinkRows)]
  BY DEF TypeOK, Fetch
<1>2. QED
  BY <1>1 DEF TypeOK, Fetch, tables, history

\* The replies the methods give are replies.
LEMMA ReplyTypes ==
  /\ \A S \in SUBSET (DeviceRows \cup UplinkRows) : Ok(S) \in Replies
  /\ \A e \in Results : Err(e) \in Replies
  /\ NoReply \in Replies
BY DEF Ok, Err, NoReply, Replies, Results

\* Types are right in every state.
LEMMA TypeStep ==
  ASSUME TypeOK, CallShape, AckedUplinksKept, [Next]_vars
  PROVE  TypeOK'
<1> USE NoThreadAssumption, StoreAssumption
<1> DEFINE Tables == devices' \subseteq DeviceRows /\ uplinks' \subseteq UplinkRows
                       /\ lastId' \in Nat
<1>0. ASSUME NEW t \in Threads, NEW r \in Replies, Leave(t, r), Tables
      PROVE  TypeOK'
  BY <1>0, LeaveTypes DEF TypeOK
<1>00. ASSUME UNCHANGED tables PROVE Tables
  BY <1>00 DEF TypeOK, tables
<1>1. CASE Tick
  BY <1>1 DEF Tick, Times, TypeOK, tables, history
<1>2. CASE Crash
  <2>1. /\ pc' \in [Threads -> PcValues]
        /\ req' \in [Threads -> Requests \cup {NoRequest}]
        /\ reply' \in [Threads -> Replies]
        /\ fetched' \in [Threads -> SUBSET (DeviceRows \cup UplinkRows)]
    BY <1>2, ReplyTypes DEF Crash, PcValues
  <2>2. QED
    BY <1>2, <2>1 DEF Crash, TypeOK, tables, history
<1>3. ASSUME NEW t \in Threads, NEW r \in RequestsAt(now), Call(t, r)
      PROVE  TypeOK'
  <2>1. /\ pc' \in [Threads -> PcValues]
        /\ req' \in [Threads -> Requests \cup {NoRequest}]
    BY <1>3, RequestsAtTyped DEF Call, TypeOK, PcValues
  <2>2. QED
    BY <1>3, <2>1 DEF Call, TypeOK, tables, history
<1>4. ASSUME NEW t \in Threads, Lock(t) PROVE TypeOK'
  <2>1. pc' \in [Threads -> PcValues]
    BY <1>4 DEF Lock, TypeOK, PcValues
  <2>2. QED
    BY <1>4, <2>1 DEF Lock, TypeOK, tables, history
<1>5. ASSUME NEW t \in Threads, Return(t) PROVE TypeOK'
  <2>1. won' \in [DeviceIds -> Nat]
    BY <1>5 DEF Return, TypeOK
  <2>2. acked' \subseteq UplinkRows
    BY <1>5 DEF Return, TypeOK, AckedUplinksKept
  <2>3. /\ pc' \in [Threads -> PcValues]
        /\ req' \in [Threads -> Requests \cup {NoRequest}]
        /\ reply' \in [Threads -> Replies]
    BY <1>5, ReplyTypes DEF Return, TypeOK, PcValues
  <2>4. QED
    BY <1>5, <2>1, <2>2, <2>3 DEF Return, TypeOK, tables
<1>6. ASSUME NEW t \in Threads, PutDevice(t) PROVE TypeOK'
  <2>1. req[t].row \in DeviceRows
    BY <1>6, RequestShape DEF PutDevice, Running, CallShape
  <2>2. Tables
    BY <1>6, <2>1 DEF PutDevice, TypeOK
  <2>3. Ok({req[t].row}) \in Replies /\ Err("DeviceAlreadyExists") \in Replies
    BY <2>1, ReplyTypes DEF Results
  <2>4. QED
    BY <1>6, <1>0, <2>2, <2>3 DEF PutDevice
<1>7. ASSUME NEW t \in Threads, GetDevice(t) PROVE TypeOK'
  <2>1. Ok(Lookup(devices, req[t].device_id)) \in Replies
    BY ReplyTypes, LookupRows DEF TypeOK
  <2>2. QED
    BY <1>7, <1>0, <1>00, <2>1 DEF GetDevice
<1>8. ASSUME NEW t \in Threads, ListDevices(t) PROVE TypeOK'
  <2>1. Ok(fetched[t]) \in Replies
    BY ReplyTypes DEF TypeOK
  <2>2. \A r \in devices : r \in DeviceRows
    BY DEF TypeOK
  <2>3. QED
    BY <1>8, <1>0, <1>00, <2>1, <2>2, FetchTypes DEF ListDevices
<1>9. ASSUME NEW t \in Threads, PutUplink(t) PROVE TypeOK'
  <2> DEFINE row == [id |-> lastId + 1, device_id |-> req[t].device_id,
                     received_at |-> req[t].received_at,
                     payload |-> req[t].payload]
  <2>1. row \in UplinkRows
    BY <1>9, RequestShape DEF PutUplink, Running, CallShape, UplinkRows, TypeOK
  <2>2. Tables
    BY <1>9, <2>1 DEF PutUplink, TypeOK
  <2>3. Ok({row}) \in Replies
    BY <2>1, ReplyTypes
  <2>4. Leave(t, Ok({row}))
    BY <1>9 DEF PutUplink
  <2>5. QED
    BY <1>0, <2>2, <2>3, <2>4
<1>10. ASSUME NEW t \in Threads, SetDeviceStatus(t) PROVE TypeOK'
  <2>1. req[t].device_id \in DeviceIds /\ req[t].status \in Statuses
    BY <1>10, RequestShape DEF SetDeviceStatus, Running, CallShape
  <2>2. Tables
    BY <1>10, <2>1, WithStatusRows DEF SetDeviceStatus, TypeOK
  <2>3. CASE Leave(t, Err("DeviceNotFound"))
    BY <1>0, <2>2, <2>3, ReplyTypes DEF Results
  <2>4. CASE ~ Leave(t, Err("DeviceNotFound"))
    <3>1. /\ mutex' = NoThread
          /\ pc' = [pc EXCEPT ![t] = "relock"]
          /\ UNCHANGED <<now, req, reply, fetched, history>>
      BY <1>10, <2>4 DEF SetDeviceStatus
    <3>2. pc' \in [Threads -> PcValues]
      BY <3>1 DEF TypeOK, PcValues
    <3>3. QED
      BY <2>2, <3>1, <3>2 DEF TypeOK, history
  <2>5. QED
    BY <2>3, <2>4
<1>11. ASSUME NEW t \in Threads, SetDeviceStatusReread(t) PROVE TypeOK'
  <2>1. Ok(Lookup(devices, req[t].device_id)) \in Replies
    BY ReplyTypes, LookupRows DEF TypeOK
  <2>2. QED
    BY <1>11, <1>0, <1>00, <2>1 DEF SetDeviceStatusReread
<1>12. ASSUME NEW t \in Threads, LatestUplinks(t) PROVE TypeOK'
  <2>1. Ok(fetched[t]) \in Replies
    BY ReplyTypes DEF TypeOK
  <2>2. \A r \in uplinks : r \in UplinkRows
    BY DEF TypeOK
  <2>3. QED
    BY <1>12, <1>0, <1>00, <2>1, <2>2, FetchTypes DEF LatestUplinks
<1>13. ASSUME NEW t \in Threads, GetUplinks(t) PROVE TypeOK'
  <2>1. Ok(fetched[t]) \in Replies
    BY ReplyTypes DEF TypeOK
  <2>2. \A r \in UplinksOf(uplinks, req[t].device_id) : r \in UplinkRows
    BY DEF TypeOK, UplinksOf
  <2>3. QED
    BY <1>13, <1>0, <1>00, <2>1, <2>2, FetchTypes DEF GetUplinks
<1>14. ASSUME NEW t \in Threads, StatementFails(t) PROVE TypeOK'
  BY <1>14, <1>0, <1>00, ReplyTypes DEF StatementFails, Results
<1>15. CASE UNCHANGED vars
  BY <1>15 DEF vars, tables, history, TypeOK
<1>16. QED
  BY <1>1, <1>2, <1>3, <1>4, <1>5, <1>6, <1>7, <1>8, <1>9, <1>10, <1>11, <1>12,
     <1>13, <1>14, <1>15 DEF Next, Critical

-----------------------------------------------------------------------------
\* The only statements that write table devices are INSERT and UPDATE.
LEMMA DevicesStep ==
  ASSUME [Next]_vars
  PROVE  \/ UNCHANGED devices
         \/ \E t \in Threads :
              /\ PutDevice(t)
              /\ Lookup(devices, req[t].row.device_id) = {}
              /\ devices' = devices \cup {req[t].row}
         \/ \E t \in Threads :
              /\ SetDeviceStatus(t)
              /\ devices' = WithStatus(devices, req[t].device_id, req[t].status)
<1>1. ASSUME NEW t \in Threads, Critical(t), ~ PutDevice(t), ~ SetDeviceStatus(t)
      PROVE  UNCHANGED devices
  BY <1>1 DEF Critical, GetDevice, ListDevices, PutUplink, SetDeviceStatusReread,
              LatestUplinks, GetUplinks, StatementFails, Fetch, tables
<1>2. ASSUME NEW t \in Threads, Critical(t)
      PROVE  \/ UNCHANGED devices
             \/ PutDevice(t) /\ Lookup(devices, req[t].row.device_id) = {}
                  /\ devices' = devices \cup {req[t].row}
             \/ SetDeviceStatus(t)
                  /\ devices' = WithStatus(devices, req[t].device_id, req[t].status)
  <2>1. CASE PutDevice(t)
    BY <2>1 DEF PutDevice
  <2>2. CASE SetDeviceStatus(t)
    BY <2>2 DEF SetDeviceStatus
  <2>3. QED
    BY <1>1, <1>2, <2>1, <2>2
<1>3. ASSUME \/ Tick \/ Crash \/ UNCHANGED vars
             \/ \E t \in Threads : \/ \E r \in RequestsAt(now) : Call(t, r)
                                   \/ Lock(t) \/ Return(t)
      PROVE  UNCHANGED devices
  BY <1>3 DEF Tick, Crash, Call, Lock, Return, vars, tables
<1>4. QED
  BY <1>2, <1>3 DEF Next

\* The only statement that writes table uplinks is INSERT.
LEMMA UplinksStep ==
  ASSUME [Next]_vars
  PROVE  \/ UNCHANGED <<uplinks, lastId>>
         \/ \E t \in Threads : PutUplink(t)
<1>1. ASSUME NEW t \in Threads, Critical(t), ~ PutUplink(t)
      PROVE  UNCHANGED <<uplinks, lastId>>
  BY <1>1 DEF Critical, PutDevice, GetDevice, ListDevices, SetDeviceStatus,
              SetDeviceStatusReread, LatestUplinks, GetUplinks, StatementFails,
              Fetch, tables
<1>2. ASSUME \/ Tick \/ Crash \/ UNCHANGED vars
             \/ \E t \in Threads : \/ \E r \in RequestsAt(now) : Call(t, r)
                                   \/ Lock(t) \/ Return(t)
      PROVE  UNCHANGED <<uplinks, lastId>>
  BY <1>2 DEF Tick, Crash, Call, Lock, Return, vars, tables
<1>3. QED
  BY <1>1, <1>2 DEF Next

\* device_id stays a key: INSERT refuses a second row, UPDATE keeps the keys.
LEMMA KeysStep ==
  ASSUME TypeOK, CallShape, KeysUnique, [Next]_vars
  PROVE  KeysUnique'
<1>1. CASE UNCHANGED devices
  BY <1>1 DEF KeysUnique
<1>2. ASSUME NEW t \in Threads, Lookup(devices, req[t].row.device_id) = {},
             devices' = devices \cup {req[t].row}
      PROVE  KeysUnique'
  BY <1>2, LookupRows DEF KeysUnique
<1>3. ASSUME NEW t \in Threads, SetDeviceStatus(t),
             devices' = WithStatus(devices, req[t].device_id, req[t].status)
      PROVE  KeysUnique'
  <2>1. req[t].device_id \in DeviceIds /\ req[t].status \in Statuses
    BY <1>3, RequestShape DEF SetDeviceStatus, Running, CallShape
  <2>2. QED
    BY <1>3, <2>1, WithStatusKeys DEF TypeOK, KeysUnique
<1>4. QED
  BY <1>1, <1>2, <1>3, DevicesStep

\* Ids are given out in order.
LEMMA IdsStep ==
  ASSUME TypeOK, IdsGiven, [Next]_vars
  PROVE  IdsGiven'
<1>1. CASE UNCHANGED <<uplinks, lastId>>
  BY <1>1 DEF IdsGiven
<1>2. ASSUME NEW t \in Threads, PutUplink(t) PROVE IdsGiven'
  BY <1>2 DEF PutUplink, IdsGiven, TypeOK, UplinkRows
<1>3. QED
  BY <1>1, <1>2, UplinksStep

\* The guard is taken on entry to a critical section and dropped on the way
\* out, on every path.
LEMMA GuardStep ==
  ASSUME TypeOK, Guarded, CallShape, [Next]_vars
  PROVE  Guarded'
<1> USE NoThreadAssumption DEF TypeOK, Guarded, PcValues
<1>1. ASSUME NEW t \in Threads, NEW r, Leave(t, r), pc[t] \in {"stmt", "reread"}
      PROVE  Guarded'
  BY <1>1 DEF Leave
<1>2. ASSUME NEW t \in Threads, NEW r, Fetch(t, r) PROVE Guarded'
  BY <1>2 DEF Fetch
<1>3. ASSUME NEW t \in Threads, Critical(t), ~ SetDeviceStatus(t) PROVE Guarded'
  BY <1>1, <1>2, <1>3, Zenon
     DEF Critical, PutDevice, GetDevice, ListDevices, PutUplink,
         SetDeviceStatusReread, LatestUplinks, GetUplinks, StatementFails, Running
<1>4. ASSUME NEW t \in Threads, SetDeviceStatus(t) PROVE Guarded'
  <2>1. pc[t] = "stmt"
    BY <1>4 DEF SetDeviceStatus, Running
  <2>2. CASE Leave(t, Err("DeviceNotFound"))
    BY <1>1, <2>1, <2>2
  <2>3. CASE mutex' = NoThread /\ pc' = [pc EXCEPT ![t] = "relock"]
    BY <2>1, <2>3
  <2>4. QED
    BY <1>4, <2>2, <2>3 DEF SetDeviceStatus
<1>5. CASE Tick \/ UNCHANGED vars
  BY <1>5 DEF Tick, vars
<1>6. CASE Crash
  BY <1>6 DEF Crash
<1>7. ASSUME NEW t \in Threads, NEW r \in RequestsAt(now), Call(t, r)
      PROVE  Guarded'
  BY <1>7 DEF Call
<1>8. ASSUME NEW t \in Threads, Lock(t) PROVE Guarded'
  BY <1>8 DEF Lock
<1>9. ASSUME NEW t \in Threads, Return(t) PROVE Guarded'
  BY <1>9 DEF Return
<1>10. QED
  BY <1>3, <1>4, <1>5, <1>6, <1>7, <1>8, <1>9 DEF Next

\* Every path through a call keeps its shape.
LEMMA ShapeStep ==
  ASSUME TypeOK, CallShape, [Next]_vars
  PROVE  CallShape'
<1> USE DEF TypeOK, CallShape, PcValues
<1>1. ASSUME NEW t \in Threads, NEW r, Leave(t, r), pc[t] # "idle"
      PROVE  CallShape'
  BY <1>1 DEF Leave
<1>2. ASSUME NEW t \in Threads, NEW r, Fetch(t, r), pc[t] = "stmt", req[t].op \in Scans
      PROVE  CallShape'
  BY <1>2 DEF Fetch
<1>3. ASSUME NEW t \in Threads, Critical(t), ~ SetDeviceStatus(t)
      PROVE  CallShape'
  <2>1. pc[t] \in {"stmt", "reread"}
    BY <1>3 DEF Critical, PutDevice, GetDevice, ListDevices, PutUplink,
                SetDeviceStatusReread, LatestUplinks, GetUplinks,
                StatementFails, Running
  <2>2. \/ \E r : Leave(t, r)
        \/ pc[t] = "stmt" /\ req[t].op \in Scans /\ \E r : Fetch(t, r)
    BY <1>3
       DEF Critical, PutDevice, GetDevice, ListDevices, PutUplink,
           SetDeviceStatusReread, LatestUplinks, GetUplinks, StatementFails,
           Running, Scans
  <2>3. QED
    BY <1>1, <1>2, <2>1, <2>2
<1>4. ASSUME NEW t \in Threads, SetDeviceStatus(t) PROVE CallShape'
  <2>1. pc[t] = "stmt" /\ req[t].op = "set_device_status"
    BY <1>4 DEF SetDeviceStatus, Running
  <2>2. CASE Leave(t, Err("DeviceNotFound"))
    BY <1>1, <2>1, <2>2
  <2>3. CASE /\ pc' = [pc EXCEPT ![t] = "relock"]
             /\ UNCHANGED <<now, req, reply, fetched, history>>
             /\ fetched[t] = {}
    BY <2>1, <2>3
  <2>4. QED
    BY <1>4, <2>1, <2>2, <2>3 DEF SetDeviceStatus, Scans
<1>5. CASE Tick \/ UNCHANGED vars
  BY <1>5 DEF Tick, vars
<1>6. CASE Crash
  BY <1>6 DEF Crash
<1>7. ASSUME NEW t \in Threads, NEW r \in RequestsAt(now), Call(t, r)
      PROVE  CallShape'
  BY <1>7, RequestsAtTyped DEF Call
<1>8. ASSUME NEW t \in Threads, Lock(t) PROVE CallShape'
  BY <1>8 DEF Lock
<1>9. ASSUME NEW t \in Threads, Return(t) PROVE CallShape'
  BY <1>9 DEF Return
<1>10. QED
  BY <1>3, <1>4, <1>5, <1>6, <1>7, <1>8, <1>9 DEF Next

-----------------------------------------------------------------------------
\* A registered device stays registered, with the data it was registered with.
LEMMA RowsKept ==
  ASSUME TypeOK, CallShape, [Next]_vars
  PROVE  \A r \in devices : \E q \in devices' :
           /\ q.device_id = r.device_id
           /\ q.owner = r.owner
           /\ q.created_at = r.created_at
<1>1. ASSUME NEW t \in Threads, SetDeviceStatus(t)
      PROVE  req[t].device_id \in DeviceIds /\ req[t].status \in Statuses
  BY <1>1, RequestShape DEF SetDeviceStatus, Running, CallShape
<1>2. QED
  BY <1>1, DevicesStep, WithStatusRows DEF TypeOK

\* How a thread comes to hold an Ok answer to put_device: it held it before,
\* or this step is its INSERT, which found no row.
LEMMA HoldsStep ==
  ASSUME TypeOK, CallShape, [Next]_vars,
         NEW t \in Threads, NEW d \in DeviceIds, HoldsWin(t, d)'
  PROVE  /\ req'[t] = req[t]
         /\ \/ HoldsWin(t, d)
            \/ /\ PutDevice(t)
               /\ Lookup(devices, d) = {}
               /\ devices' = devices \cup {req[t].row}
               /\ req[t].row.device_id = d
<1> USE DEF TypeOK, HoldsWin
<1>1. ASSUME NEW u \in Threads, NEW r, Leave(u, r), u # t
      PROVE  req'[t] = req[t] /\ HoldsWin(t, d)
  BY <1>1 DEF Leave
<1>2. ASSUME NEW u \in Threads, NEW r, Fetch(u, r)
      PROVE  req'[t] = req[t] /\ HoldsWin(t, d)
  BY <1>2 DEF Fetch
<1>3. ASSUME NEW u \in Threads, Critical(u), ~ SetDeviceStatus(u), ~ PutDevice(u)
      PROVE  req'[t] = req[t] /\ HoldsWin(t, d)
  <2>1. \/ \E r : Fetch(u, r)
        \/ pc[u] = "stmt" /\ req[u].op # "put_device" /\ \E r : Leave(u, r)
        \/ pc[u] = "reread" /\ \E r : Leave(u, r)
        \/ Leave(u, Err("Store"))
    BY <1>3
       DEF Critical, GetDevice, ListDevices, PutUplink, SetDeviceStatusReread,
           LatestUplinks, GetUplinks, StatementFails, Running
  <2>2. CASE u # t
    BY <1>1, <1>2, <2>1, <2>2
  <2>3. CASE u = t
    BY <1>2, <2>1, <2>3 DEF Leave, Err, CallShape
  <2>4. QED
    BY <2>2, <2>3
<1>4. ASSUME NEW u \in Threads, SetDeviceStatus(u)
      PROVE  req'[t] = req[t] /\ HoldsWin(t, d)
  BY <1>4 DEF SetDeviceStatus, Running, Leave
<1>5. ASSUME NEW u \in Threads, PutDevice(u), u # t
      PROVE  req'[t] = req[t] /\ HoldsWin(t, d)
  BY <1>1, <1>5 DEF PutDevice
<1>6. ASSUME PutDevice(t)
      PROVE  /\ req'[t] = req[t]
             /\ Lookup(devices, d) = {}
             /\ devices' = devices \cup {req[t].row}
             /\ req[t].row.device_id = d
  <2>1. req'[t] = req[t] /\ req[t].row.device_id = d
    BY <1>6 DEF PutDevice, Leave
  <2>2. ~ Leave(t, Err("DeviceAlreadyExists"))
    BY DEF Leave, Err
  <2>3. QED
    BY <1>6, <2>1, <2>2 DEF PutDevice
<1>7. CASE Tick \/ UNCHANGED vars
  BY <1>7 DEF Tick, vars
<1>8. CASE Crash
  BY <1>8 DEF Crash
<1>9. ASSUME NEW u \in Threads, NEW r \in RequestsAt(now), Call(u, r)
      PROVE  req'[t] = req[t] /\ HoldsWin(t, d)
  BY <1>9 DEF Call
<1>10. ASSUME NEW u \in Threads, Lock(u)
       PROVE  req'[t] = req[t] /\ HoldsWin(t, d)
  BY <1>10 DEF Lock
<1>11. ASSUME NEW u \in Threads, Return(u)
       PROVE  req'[t] = req[t] /\ HoldsWin(t, d)
  BY <1>11 DEF Return
<1>12. QED
  BY <1>3, <1>4, <1>5, <1>6, <1>7, <1>8, <1>9, <1>10, <1>11 DEF Next

\* How an Ok answer is delivered: by the return of a thread that holds it.
LEMMA WonStep ==
  ASSUME TypeOK, [Next]_vars, NEW d \in DeviceIds
  PROVE  \/ won'[d] = won[d]
         \/ /\ won'[d] = won[d] + 1
            /\ \E t \in Threads : HoldsWin(t, d) /\ Return(t)
<1> USE DEF TypeOK, history
<1>1. ASSUME NEW t \in Threads, Critical(t) PROVE won'[d] = won[d]
  BY <1>1 DEF Critical, PutDevice, GetDevice, ListDevices, PutUplink,
              SetDeviceStatus, SetDeviceStatusReread, LatestUplinks,
              GetUplinks, StatementFails, Leave, Fetch
<1>2. ASSUME NEW t \in Threads, Return(t)
      PROVE  \/ won'[d] = won[d]
             \/ won'[d] = won[d] + 1 /\ HoldsWin(t, d)
  BY <1>2 DEF Return, HoldsWin
<1>3. ASSUME \/ Tick \/ Crash \/ UNCHANGED vars
             \/ \E t \in Threads : \/ \E r \in RequestsAt(now) : Call(t, r)
                                   \/ Lock(t)
      PROVE  won'[d] = won[d]
  BY <1>3 DEF Tick, Crash, Call, Lock, vars
<1>4. QED
  BY <1>1, <1>2, <1>3 DEF Next

\* Registrations: one winner, and its row stays.
LEMMA WinsStep ==
  ASSUME IInv, [Next]_vars
  PROVE  WinsStand' /\ OneRegistrationWins'
<1>0. TypeOK /\ CallShape /\ KeysUnique'
  BY KeysStep DEF IInv
<1>1. ASSUME NEW d \in DeviceIds
      PROVE  won'[d] > 0 => \E r \in devices' : r.device_id = d
  <2>1. CASE won'[d] = won[d]
    BY <1>0, <2>1, RowsKept DEF IInv, WinsStand
  <2>2. CASE \E t \in Threads : HoldsWin(t, d) /\ Return(t)
    BY <1>0, <2>2, RowsKept DEF IInv, OneRegistrationWins
  <2>3. QED
    BY <1>0, <2>1, <2>2, WonStep
<1>2. ASSUME NEW d \in DeviceIds PROVE won'[d] <= 1
  <2>1. CASE won'[d] = won[d]
    BY <2>1 DEF IInv, OneRegistrationWins
  <2>2. CASE /\ won'[d] = won[d] + 1
             /\ \E t \in Threads : HoldsWin(t, d) /\ Return(t)
    BY <2>2 DEF IInv, OneRegistrationWins
  <2>3. QED
    BY <1>0, <2>1, <2>2, WonStep
<1>3. ASSUME NEW d \in DeviceIds, NEW t \in Threads, HoldsWin(t, d)'
      PROVE  /\ won'[d] = 0
             /\ \A u \in Threads \ {t} : ~ HoldsWin(u, d)'
             /\ \E r \in devices' :
                  /\ r.device_id = d
                  /\ r.owner = req'[t].row.owner
                  /\ r.created_at = req'[t].row.created_at
             /\ \A r, q \in Lookup(devices', d) : r = q
  <2>1. \A r, q \in Lookup(devices', d) : r = q
    BY <1>0, LookupRows DEF KeysUnique
  <2>2. CASE HoldsWin(t, d)
    <3>1. req'[t] = req[t]
      BY <1>0, <1>3, HoldsStep
    <3>2. PICK r \in devices : /\ r.device_id = d
                               /\ r.owner = req[t].row.owner
                               /\ r.created_at = req[t].row.created_at
      BY <2>2 DEF IInv, OneRegistrationWins
    <3>3. \E q \in devices' : /\ q.device_id = d
                              /\ q.owner = req'[t].row.owner
                              /\ q.created_at = req'[t].row.created_at
      BY <1>0, <3>1, <3>2, RowsKept
    <3>4. Lookup(devices, d) # {}
      BY <3>2, LookupRows
    <3>5. ASSUME NEW u \in Threads \ {t}, HoldsWin(u, d)' PROVE FALSE
      <4>1. HoldsWin(u, d)
        BY <1>0, <3>4, <3>5, HoldsStep
      <4>2. QED
        BY <2>2, <4>1 DEF IInv, OneRegistrationWins
    <3>6. won'[d] = 0
      <4>1. won[d] = 0
        BY <2>2 DEF IInv, OneRegistrationWins
      <4>2. ASSUME NEW u \in Threads, HoldsWin(u, d), Return(u) PROVE FALSE
        <5>1. u = t
          BY <2>2, <4>2 DEF IInv, OneRegistrationWins
        <5>2. QED
          BY <1>0, <1>3, <4>2, <5>1 DEF Return, HoldsWin, TypeOK
      <4>3. QED
        BY <1>0, <4>1, <4>2, WonStep
    <3>7. QED
      BY <2>1, <3>3, <3>5, <3>6
  <2>3. CASE ~ HoldsWin(t, d)
    <3>1. /\ req'[t] = req[t]
          /\ PutDevice(t)
          /\ Lookup(devices, d) = {}
          /\ devices' = devices \cup {req[t].row}
          /\ req[t].row.device_id = d
      BY <1>0, <1>3, <2>3, HoldsStep
    <3>2. \A u \in Threads : ~ HoldsWin(u, d)
      BY <3>1, LookupRows DEF IInv, OneRegistrationWins
    <3>3. ASSUME NEW u \in Threads \ {t}, HoldsWin(u, d)' PROVE FALSE
      <4>1. PutDevice(u)
        BY <1>0, <3>2, <3>3, HoldsStep
      <4>2. mutex = u /\ mutex = t
        BY <3>1, <4>1 DEF IInv, Guarded, PutDevice, Running
      <4>3. QED
        BY <3>3, <4>2
    <3>4. won[d] = 0
      <4>1. ~ \E r \in devices : r.device_id = d
        BY <3>1, LookupRows
      <4>2. ~ (won[d] > 0)
        BY <4>1 DEF IInv, WinsStand
      <4>3. QED
        BY <1>0, <4>2 DEF TypeOK
    <3>5. won'[d] = 0
      BY <1>0, <3>2, <3>4, WonStep
    <3>6. QED
      BY <2>1, <3>1, <3>3, <3>5
  <2>4. QED
    BY <2>2, <2>3
<1>4. QED
  BY <1>1, <1>2, <1>3 DEF WinsStand, OneRegistrationWins

-----------------------------------------------------------------------------
\* What the reply to a put_uplink may become in a step.
LEMMA AckReplyStep ==
  ASSUME TypeOK, CallShape, [Next]_vars, NEW t \in Threads,
         pc'[t] = "ret", req'[t].op = "put_uplink"
  PROVE  /\ req'[t] = req[t]
         /\ \/ pc[t] = "ret" /\ reply'[t] = reply[t] /\ ~ Return(t)
            \/ reply'[t].rows = {}
            \/ /\ PutUplink(t)
               /\ \E row \in uplinks' :
                    row.id = lastId + 1 /\ reply'[t].rows = {row}
<1> USE DEF TypeOK
<1>1. ASSUME NEW u \in Threads, NEW r, Leave(u, r), u # t
      PROVE  req'[t] = req[t] /\ pc[t] = "ret" /\ reply'[t] = reply[t]
  BY <1>1 DEF Leave
<1>2. ASSUME NEW u \in Threads, NEW r, Fetch(u, r)
      PROVE  req'[t] = req[t] /\ pc[t] = "ret" /\ reply'[t] = reply[t]
  BY <1>2 DEF Fetch
<1>3. ASSUME NEW u \in Threads, Critical(u), ~ PutUplink(u)
      PROVE  /\ req'[t] = req[t]
             /\ \/ pc[t] = "ret" /\ reply'[t] = reply[t]
                \/ reply'[t].rows = {}
  <2>1. \/ \E r : Fetch(u, r)
        \/ pc[u] = "stmt" /\ req[u].op # "put_uplink" /\ \E r : Leave(u, r)
        \/ pc[u] = "reread" /\ \E r : Leave(u, r)
        \/ Leave(u, Err("Store"))
        \/ /\ pc' = [pc EXCEPT ![u] = "relock"]
           /\ UNCHANGED <<req, reply>>
    BY <1>3
       DEF Critical, PutDevice, GetDevice, ListDevices, SetDeviceStatus,
           SetDeviceStatusReread, LatestUplinks, GetUplinks, StatementFails,
           Running
  <2>2. CASE u # t
    BY <1>1, <1>2, <2>1, <2>2
  <2>3. CASE u = t
    BY <1>2, <2>1, <2>3 DEF Leave, Err, CallShape
  <2>4. QED
    BY <2>2, <2>3
<1>4. ASSUME NEW u \in Threads, PutUplink(u), u # t
      PROVE  req'[t] = req[t] /\ pc[t] = "ret" /\ reply'[t] = reply[t]
  BY <1>1, <1>4 DEF PutUplink
<1>5. ASSUME PutUplink(t)
      PROVE  /\ req'[t] = req[t]
             /\ \E row \in uplinks' :
                  row.id = lastId + 1 /\ reply'[t].rows = {row}
  <2> DEFINE row == [id |-> lastId + 1, device_id |-> req[t].device_id,
                     received_at |-> req[t].received_at,
                     payload |-> req[t].payload]
  <2>1. row \in uplinks' /\ Leave(t, Ok({row}))
    BY <1>5 DEF PutUplink
  <2>2. row.id = lastId + 1
    OBVIOUS
  <2> HIDE DEF row
  <2>3. req'[t] = req[t] /\ reply'[t].rows = {row}
    BY <2>1 DEF Leave, Ok
  <2>4. QED
    BY <2>1, <2>2, <2>3
<1>6. CASE Tick \/ UNCHANGED vars
  BY <1>6 DEF Tick, vars, Return
<1>7. CASE Crash
  BY <1>7 DEF Crash
<1>8. ASSUME NEW u \in Threads, NEW r \in RequestsAt(now), Call(u, r)
      PROVE  req'[t] = req[t] /\ pc[t] = "ret" /\ reply'[t] = reply[t]
  BY <1>8 DEF Call
<1>9. ASSUME NEW u \in Threads, Lock(u)
      PROVE  req'[t] = req[t] /\ pc[t] = "ret" /\ reply'[t] = reply[t]
  BY <1>9 DEF Lock
<1>10. ASSUME NEW u \in Threads, Return(u)
       PROVE  req'[t] = req[t] /\ pc[t] = "ret" /\ reply'[t] = reply[t]
  BY <1>10 DEF Return
<1>11. ~ Return(t)
  BY DEF Return
<1>12. QED
  BY <1>3, <1>4, <1>5, <1>6, <1>7, <1>8, <1>9, <1>10, <1>11 DEF Next

\* Acknowledged uplinks only grow by the rows of a put_uplink that returns.
LEMMA AckedStep ==
  ASSUME TypeOK, [Next]_vars
  PROVE  \/ acked' = acked
         \/ \E t \in Threads :
              /\ Return(t)
              /\ pc[t] = "ret"
              /\ req[t].op = "put_uplink"
              /\ acked' = acked \cup reply[t].rows
<1> USE DEF history
<1>1. ASSUME NEW t \in Threads, Critical(t) PROVE acked' = acked
  BY <1>1 DEF Critical, PutDevice, GetDevice, ListDevices, PutUplink,
              SetDeviceStatus, SetDeviceStatusReread, LatestUplinks,
              GetUplinks, StatementFails, Leave, Fetch
<1>2. ASSUME NEW t \in Threads, Return(t)
      PROVE  \/ acked' = acked
             \/ /\ pc[t] = "ret"
                /\ req[t].op = "put_uplink"
                /\ acked' = acked \cup reply[t].rows
  BY <1>2 DEF Return
<1>3. ASSUME \/ Tick \/ Crash \/ UNCHANGED vars
             \/ \E t \in Threads : \/ \E r \in RequestsAt(now) : Call(t, r)
                                   \/ Lock(t)
      PROVE  acked' = acked
  BY <1>3 DEF Tick, Crash, Call, Lock, vars
<1>4. QED
  BY <1>1, <1>2, <1>3 DEF Next

\* Acknowledged rows stay, and each row is acknowledged at most once.
LEMMA AckStep ==
  ASSUME IInv, [Next]_vars
  PROVE  AckedUplinksKept'
<1>0. TypeOK /\ CallShape /\ CallShape' /\ AckedUplinksKept /\ IdsGiven
  BY ShapeStep DEF IInv
<1>1. uplinks \subseteq uplinks'
  BY UplinksStep DEF PutUplink
<1>2. acked' \subseteq uplinks'
  BY <1>0, <1>1, AckedStep DEF AckedUplinksKept
<1>3. ASSUME NEW row, row.id = lastId + 1 PROVE row \notin uplinks
  BY <1>0, <1>3 DEF IdsGiven, TypeOK, UplinkRows
<1>4. ASSUME NEW t \in Threads, pc'[t] = "ret", req'[t].op = "put_uplink"
      PROVE  /\ reply'[t].rows \subseteq uplinks' \ acked'
             /\ \A u \in Threads \ {t} : req'[u].op = "put_uplink" =>
                  reply'[t].rows \cap reply'[u].rows = {}
  <2>0. req'[t] = req[t]
    BY <1>0, <1>4, AckReplyStep
  <2>1. CASE reply'[t].rows = {}
    BY <2>1
  <2>2. CASE /\ PutUplink(t)
             /\ \E row \in uplinks' :
                  row.id = lastId + 1 /\ reply'[t].rows = {row}
    <3>1. PICK row \in uplinks' : row.id = lastId + 1 /\ reply'[t].rows = {row}
      BY <2>2
    <3>2. row \notin uplinks
      BY <1>3, <3>1
    <3>3. acked' = acked
      BY <2>2 DEF PutUplink, Leave, history
    <3>4. row \notin acked'
      BY <1>0, <3>2, <3>3 DEF AckedUplinksKept
    <3>5. ASSUME NEW u \in Threads \ {t}, req'[u].op = "put_uplink"
          PROVE  row \notin reply'[u].rows
      <4>1. req'[u] = req[u] /\ pc'[u] = pc[u] /\ reply'[u] = reply[u]
        BY <1>0, <2>2, <3>5 DEF PutUplink, Leave, TypeOK
      <4>2. CASE pc[u] = "ret"
        BY <1>0, <3>2, <3>5, <4>1, <4>2 DEF AckedUplinksKept
      <4>3. CASE pc[u] # "ret"
        BY <1>0, <4>1, <4>3 DEF CallShape, NoReply
      <4>4. QED
        BY <4>2, <4>3
    <3>6. QED
      BY <3>1, <3>4, <3>5
  <2>3. CASE pc[t] = "ret" /\ reply'[t] = reply[t] /\ ~ Return(t)
    <3>1. /\ reply[t].rows \subseteq uplinks \ acked
          /\ \A u \in Threads \ {t} : req[u].op = "put_uplink" =>
               reply[t].rows \cap reply[u].rows = {}
      BY <1>0, <1>4, <2>0, <2>3 DEF AckedUplinksKept
    <3>2. reply'[t].rows \cap acked' = {}
      <4>1. ASSUME NEW u \in Threads, Return(u), req[u].op = "put_uplink"
            PROVE  reply[t].rows \cap reply[u].rows = {}
        BY <2>3, <3>1, <4>1
      <4>2. QED
        BY <1>0, <2>3, <3>1, <4>1, AckedStep
    <3>3. ASSUME NEW u \in Threads \ {t}, req'[u].op = "put_uplink"
          PROVE  reply'[t].rows \cap reply'[u].rows = {}
      <4>1. CASE pc'[u] # "ret"
        BY <1>0, <4>1 DEF CallShape, NoReply
      <4>2. CASE pc'[u] = "ret"
        <5>1. req'[u] = req[u]
          BY <1>0, <3>3, <4>2, AckReplyStep
        <5>2. CASE pc[u] = "ret" /\ reply'[u] = reply[u]
          BY <2>3, <3>1, <3>3, <5>1, <5>2
        <5>3. CASE reply'[u].rows = {}
          BY <5>3
        <5>4. CASE \E row \in uplinks' :
                     row.id = lastId + 1 /\ reply'[u].rows = {row}
          BY <1>3, <2>3, <3>1, <5>4
        <5>5. QED
          BY <1>0, <3>3, <4>2, <5>2, <5>3, <5>4, AckReplyStep
      <4>3. QED
        BY <4>1, <4>2
    <3>4. QED
      BY <1>1, <2>3, <3>1, <3>2, <3>3
  <2>4. QED
    BY <1>0, <1>4, <2>1, <2>2, <2>3, AckReplyStep
<1>5. QED
  BY <1>2, <1>4 DEF AckedUplinksKept

-----------------------------------------------------------------------------
\* The invariant holds on a fresh database.
LEMMA InitInv == Init => IInv
<1> SUFFICES ASSUME Init PROVE IInv
  OBVIOUS
<1>1. TypeOK
  BY ReplyTypes, StoreAssumption DEF Init, TypeOK, PcValues, Times
<1>2. KeysUnique /\ IdsGiven /\ WinsStand
  BY DEF Init, KeysUnique, IdsGiven, WinsStand
<1>3. Guarded /\ CallShape
  BY NoThreadAssumption DEF Init, Guarded, CallShape
<1>4. OneRegistrationWins /\ AckedUplinksKept
  BY DEF Init, OneRegistrationWins, AckedUplinksKept, HoldsWin
<1>5. QED
  BY <1>1, <1>2, <1>3, <1>4 DEF IInv

\* Every step preserves it.
LEMMA NextInv == IInv /\ [Next]_vars => IInv'
BY TypeStep, KeysStep, IdsStep, GuardStep, ShapeStep, WinsStep, AckStep DEF IInv

\* The inductive invariant holds in every reachable state.
LEMMA InvHolds == Spec => []IInv
BY InitInv, NextInv, PTL DEF Spec

\* Every variable of the store and of the calls on it keeps its type.
THEOREM StoreTypeOK == Spec => []TypeOK
<1>1. IInv => TypeOK
  BY DEF IInv
<1>2. QED
  BY <1>1, InvHolds, PTL

\* put_device answers Ok at most once for a device, and what it answered stands
\* in the table, for any number of racing threads and any crashes.
THEOREM StoreOneWinner == Spec => []OneRegistrationWins
<1>1. IInv => OneRegistrationWins
  BY DEF IInv
<1>2. QED
  BY <1>1, InvHolds, PTL

\* put_uplink never loses an uplink it acknowledged nor acknowledges one row
\* twice.
THEOREM StoreAckedKept == Spec => []AckedUplinksKept
<1>1. IInv => AckedUplinksKept
  BY DEF IInv
<1>2. QED
  BY <1>1, InvHolds, PTL

\* A registered device is never dropped and keeps its registration; its status
\* moves only in the step of a set_device_status that asked for it.
THEOREM StoreOnlyStatusChanges == Spec => OnlyStatusChanges
<1> DEFINE Kept == \A r \in devices :
                     \E q \in devices' :
                       /\ q.device_id = r.device_id
                       /\ q.owner = r.owner
                       /\ q.created_at = r.created_at
                       /\ q.status # r.status =>
                            \E t \in Threads :
                              /\ mutex = t
                              /\ req[t].op = "set_device_status"
                              /\ req[t].device_id = r.device_id
                              /\ req[t].status = q.status
<1>1. ASSUME IInv, [Next]_vars PROVE Kept
  <2>1. CASE UNCHANGED devices
    BY <2>1
  <2>2. ASSUME NEW t \in Threads, devices' = devices \cup {req[t].row}
        PROVE  Kept
    BY <2>2
  <2>3. ASSUME NEW t \in Threads, SetDeviceStatus(t),
               devices' = WithStatus(devices, req[t].device_id, req[t].status)
        PROVE  Kept
    <3>1. req[t].device_id \in DeviceIds /\ req[t].status \in Statuses
      BY <1>1, <2>3, RequestShape DEF SetDeviceStatus, Running, IInv, CallShape
    <3>2. mutex = t /\ req[t].op = "set_device_status"
      BY <1>1, <2>3 DEF SetDeviceStatus, Running, IInv, Guarded
    <3>3. \A r \in devices : \E q \in devices' :
            /\ q.device_id = r.device_id
            /\ q.owner = r.owner
            /\ q.created_at = r.created_at
            /\ r.device_id # req[t].device_id => q = r
            /\ r.device_id = req[t].device_id => q.status = req[t].status
      BY <1>1, <2>3, <3>1, WithStatusRows DEF IInv, TypeOK
    <3>4. QED
      BY <3>2, <3>3
  <2>4. QED
    BY <1>1, <2>1, <2>2, <2>3, DevicesStep
<1>2. QED
  BY <1>1, InvHolds, PTL DEF Spec, OnlyStatusChanges

-----------------------------------------------------------------------------
(***************************************************************************)
(* The SQLite store implements the contract of the trait: each step is a   *)
(* step of DeviceStore or leaves its variables alone.  What it takes       *)
(* beyond the invariant above is that the rows a cursor has delivered      *)
(* still answer the query on the tables as they are: nobody writes while   *)
(* it is open.                                                             *)
(***************************************************************************)
\* What the open cursor of thread t has delivered so far.
CursorSound(t) ==
  /\ req[t].op = "list_devices" => fetched[t] \subseteq devices
  /\ req[t].op = "latest_uplinks" =>
       /\ fetched[t] \subseteq uplinks
       /\ \A r \in fetched[t] : NewestOf(r, UplinksOf(uplinks, r.device_id))
       /\ \A r, q \in fetched[t] : r.device_id = q.device_id => r = q
  /\ req[t].op = "get_uplinks" =>
       LET own == UplinksOf(uplinks, req[t].device_id) IN
       /\ fetched[t] \subseteq own
       /\ \A r \in fetched[t], q \in own \ fetched[t] :
            q.received_at <= r.received_at
       /\ IsFiniteSet(fetched[t])
       /\ Cardinality(fetched[t]) <= Limit

CursorsSound == \A t \in Threads : pc[t] = "stmt" => CursorSound(t)

-----------------------------------------------------------------------------
\* A step of list_devices delivers a row of the table.
LEMMA ListFetch ==
  ASSUME TypeOK, NEW t \in Threads, req[t].op = "list_devices", CursorSound(t),
         NEW r \in devices, Fetch(t, r)
  PROVE  CursorSound(t)'
<1>1. fetched'[t] = fetched[t] \cup {r} /\ UNCHANGED <<req, devices>>
  BY DEF Fetch, tables, TypeOK
<1>2. QED
  BY <1>1 DEF CursorSound

\* A step of latest_uplinks delivers the newest row of a device not seen yet.
LEMMA LatestFetch ==
  ASSUME TypeOK, NEW t \in Threads, req[t].op = "latest_uplinks", CursorSound(t),
         NEW r \in uplinks, UplinksOf(fetched[t], r.device_id) = {},
         NewestOf(r, UplinksOf(uplinks, r.device_id)), Fetch(t, r)
  PROVE  CursorSound(t)'
<1>1. fetched'[t] = fetched[t] \cup {r} /\ UNCHANGED <<req, uplinks>>
  BY DEF Fetch, tables, TypeOK
<1>2. \A q \in fetched[t] : q.device_id # r.device_id
  BY DEF UplinksOf
<1>3. QED
  BY <1>1, <1>2 DEF CursorSound

\* A step of get_uplinks delivers a newest row among those left.
LEMMA RecentFetch ==
  ASSUME TypeOK, NEW t \in Threads, req[t].op = "get_uplinks", CursorSound(t),
         Cardinality(fetched[t]) < Limit,
         NEW r \in UplinksOf(uplinks, req[t].device_id) \ fetched[t],
         NewestOf(r, UplinksOf(uplinks, req[t].device_id) \ fetched[t]),
         Fetch(t, r)
  PROVE  CursorSound(t)'
<1> DEFINE own == UplinksOf(uplinks, req[t].device_id)
<1>1. fetched'[t] = fetched[t] \cup {r} /\ UNCHANGED <<req, uplinks>>
  BY DEF Fetch, tables, TypeOK
<1>2. /\ fetched[t] \subseteq own
      /\ \A x \in fetched[t], q \in own \ fetched[t] :
           q.received_at <= x.received_at
      /\ IsFiniteSet(fetched[t])
  BY DEF CursorSound
<1>3. fetched'[t] \subseteq own
  BY <1>1, <1>2
<1>4. \A x \in fetched'[t], q \in own \ fetched'[t] :
        q.received_at <= x.received_at
  BY <1>1, <1>2 DEF NewestOf
<1>5. IsFiniteSet(fetched'[t]) /\ Cardinality(fetched'[t]) <= Limit
  <2>1. /\ IsFiniteSet(fetched[t] \cup {r})
        /\ Cardinality(fetched[t] \cup {r}) = Cardinality(fetched[t]) + 1
    BY <1>2, FS_AddElement
  <2>2. Cardinality(fetched[t]) \in Nat
    BY <1>2, FS_CardinalityType
  <2>3. QED
    BY <1>1, <2>1, <2>2, StoreAssumption
<1>6. QED
  BY <1>1, <1>3, <1>4, <1>5 DEF CursorSound

\* While a cursor is open nobody else is in a critical section, so the tables
\* it reads stay as they are.
LEMMA CursorStep ==
  ASSUME IInv, CursorsSound, [Next]_vars
  PROVE  CursorsSound'
<1>0. TypeOK /\ Guarded /\ CallShape
  BY DEF IInv
<1> SUFFICES ASSUME NEW t \in Threads, pc'[t] = "stmt" PROVE CursorSound(t)'
  BY DEF CursorsSound
<1> USE <1>0 DEF TypeOK
<1>1. ASSUME UNCHANGED tables, pc[t] = "stmt", req'[t] = req[t],
             fetched'[t] = fetched[t]
      PROVE  CursorSound(t)'
  BY <1>1 DEF CursorsSound, CursorSound, tables
<1>2. ASSUME NEW u \in Threads, Critical(u) PROVE CursorSound(t)'
  <2>1. pc[u] \in {"stmt", "reread"}
    BY <1>2 DEF Critical, PutDevice, GetDevice, ListDevices, PutUplink,
                SetDeviceStatus, SetDeviceStatusReread, LatestUplinks,
                GetUplinks, StatementFails, Running
  <2>2. \/ \E r : Leave(u, r)
        \/ SetDeviceStatus(u) /\ pc' = [pc EXCEPT ![u] = "relock"]
        \/ pc[u] = "stmt" /\ \E r : Fetch(u, r)
    BY <1>2
       DEF Critical, PutDevice, GetDevice, ListDevices, PutUplink,
           SetDeviceStatus, SetDeviceStatusReread, LatestUplinks, GetUplinks,
           StatementFails, Running
  <2>3. pc[t] = "stmt"
    BY <2>2 DEF Leave, Fetch
  <2>4. u = t
    BY <2>1, <2>3 DEF Guarded
  <2>5. \E r : Fetch(t, r)
    BY <2>2, <2>4 DEF Leave
  <2>6. CursorSound(t)
    BY <2>3 DEF CursorsSound
  <2>7. ~ \E r : Leave(t, r)
    BY DEF Leave
  <2>8. \/ /\ req[t].op = "list_devices"
           /\ \E r \in devices : Fetch(t, r)
        \/ /\ req[t].op = "latest_uplinks"
           /\ \E r \in uplinks : /\ UplinksOf(fetched[t], r.device_id) = {}
                                 /\ NewestOf(r, UplinksOf(uplinks, r.device_id))
                                 /\ Fetch(t, r)
        \/ /\ req[t].op = "get_uplinks"
           /\ Cardinality(fetched[t]) < Limit
           /\ \E r \in UplinksOf(uplinks, req[t].device_id) \ fetched[t] :
                /\ NewestOf(r, UplinksOf(uplinks, req[t].device_id) \ fetched[t])
                /\ Fetch(t, r)
    <3>1. ~ SetDeviceStatus(t)
      BY <2>5 DEF SetDeviceStatus, Fetch, Leave
    <3>2. ListDevices(t) \/ LatestUplinks(t) \/ GetUplinks(t)
      BY <1>2, <2>4, <2>7, <3>1
         DEF Critical, PutDevice, GetDevice, PutUplink, SetDeviceStatusReread,
             StatementFails
    <3>3. QED
      BY <2>7, <3>2 DEF ListDevices, LatestUplinks, GetUplinks, Running
  <2>9. QED
    BY <2>6, <2>8, ListFetch, LatestFetch, RecentFetch
<1>3. CASE Tick \/ UNCHANGED vars
  BY <1>1, <1>3 DEF Tick, vars
<1>4. CASE Crash
  BY <1>4 DEF Crash
<1>5. ASSUME NEW u \in Threads, NEW r \in RequestsAt(now), Call(u, r)
      PROVE  CursorSound(t)'
  BY <1>1, <1>5 DEF Call
<1>6. ASSUME NEW u \in Threads, Lock(u) PROVE CursorSound(t)'
  <2>1. CASE pc[t] = "stmt"
    BY <1>1, <1>6, <2>1 DEF Lock
  <2>2. CASE pc[t] # "stmt"
    <3>1. fetched'[t] = {}
      BY <1>6, <2>2 DEF Lock, CallShape
    <3>2. QED
      BY <3>1, FS_EmptySet, StoreAssumption DEF CursorSound
  <2>3. QED
    BY <2>1, <2>2
<1>7. ASSUME NEW u \in Threads, Return(u) PROVE CursorSound(t)'
  BY <1>1, <1>7 DEF Return
<1>8. QED
  BY <1>2, <1>3, <1>4, <1>5, <1>6, <1>7 DEF Next

-----------------------------------------------------------------------------
\* Where the abstract call stands, thread by thread.
LEMMA AbstractPcValue ==
  ASSUME TypeOK, NEW t \in Threads
  PROVE  /\ pc[t] \in {"lock", "stmt"} => AbstractPc[t] = "called"
         /\ pc[t] \in {"relock", "reread"} => AbstractPc[t] = "applied"
         /\ pc[t] \in {"idle", "ret"} => AbstractPc[t] = pc[t]
BY DEF AbstractPc, TypeOK, PcValues

\* Moving one call moves one abstract call.
LEMMA AbstractPcStep ==
  ASSUME TypeOK, NEW t \in Threads, NEW p \in PcValues,
         pc' = [pc EXCEPT ![t] = p]
  PROVE  /\ p \in {"lock", "stmt"} => AbstractPc' = [AbstractPc EXCEPT ![t] = "called"]
         /\ p \in {"relock", "reread"} => AbstractPc' = [AbstractPc EXCEPT ![t] = "applied"]
         /\ p \in {"idle", "ret"} => AbstractPc' = [AbstractPc EXCEPT ![t] = p]
BY DEF AbstractPc, TypeOK, PcValues

\* The contract computes rows, requests and replies with the same operators.
LEMMA SameVocabulary ==
  /\ \A x : Contract!Ok(x) = Ok(x) /\ Contract!Err(x) = Err(x)
  /\ \A x, d : Contract!Lookup(x, d) = Lookup(x, d)
  /\ \A x, d, s : Contract!WithStatus(x, d, s) = WithStatus(x, d, s)
  /\ \A x, y : Contract!IsLatest(x, y) <=> IsLatest(x, y)
  /\ \A x, y, d : Contract!IsMostRecent(x, y, d) <=> IsMostRecent(x, y, d)
  /\ \A x : Contract!RequestsAt(x) = RequestsAt(x)
  /\ Contract!NoReply = NoReply
  /\ Contract!NoRequest = NoRequest
<1>1. \A x : Contract!Ok(x) = Ok(x) /\ Contract!Err(x) = Err(x)
  BY DEF Ok, Err, Contract!Ok, Contract!Err
<1>2. \A x, d : Contract!Lookup(x, d) = Lookup(x, d)
  BY DEF Lookup, Contract!Lookup
<1>3. \A x, d, s : Contract!WithStatus(x, d, s) = WithStatus(x, d, s)
  BY DEF WithStatus, Contract!WithStatus
<1>4. \A x, y : Contract!IsLatest(x, y) <=> IsLatest(x, y)
  BY DEF IsLatest, Contract!IsLatest, NewestOf, Contract!NewestOf,
         UplinksOf, Contract!UplinksOf
<1>5. \A x, y, d : Contract!IsMostRecent(x, y, d) <=> IsMostRecent(x, y, d)
  <2>1. \A x : Contract!Cardinality(x) = Cardinality(x)
    BY DEF Cardinality, Contract!Cardinality
  <2>2. QED
    BY <2>1 DEF IsMostRecent, Contract!IsMostRecent, UplinksOf, Contract!UplinksOf
<1>6. \A x : Contract!RequestsAt(x) = RequestsAt(x)
  BY DEF RequestsAt, Contract!RequestsAt, Statuses, Contract!Statuses
<1>7. Contract!NoReply = NoReply /\ Contract!NoRequest = NoRequest
  BY DEF NoReply, Contract!NoReply, NoRequest, Contract!NoRequest
<1>8. QED
  BY <1>1, <1>2, <1>3, <1>4, <1>5, <1>6, <1>7

\* Leaving the critical section is the abstract reply.
LEMMA LeaveReplies ==
  ASSUME TypeOK, NEW t \in Threads, NEW r, Leave(t, r)
  PROVE  Contract!Reply(t, r)
<1>1. AbstractPc' = [AbstractPc EXCEPT ![t] = "ret"]
  BY AbstractPcStep DEF Leave, PcValues
<1>2. QED
  BY <1>1 DEF Leave, Contract!Reply

\* When its cursor is exhausted, what list_devices returns is the table.
LEMMA ListAnswer ==
  ASSUME TypeOK, KeysUnique, NEW t \in Threads, req[t].op = "list_devices",
         CursorSound(t),
         {r \in devices : Lookup(fetched[t], r.device_id) = {}} = {}
  PROVE  fetched[t] = devices
<1>1. fetched[t] \subseteq devices
  BY DEF CursorSound
<1>2. ASSUME NEW r \in devices PROVE r \in fetched[t]
  <2>1. PICK q \in fetched[t] : q.device_id = r.device_id
    BY <1>2 DEF Lookup
  <2>2. QED
    BY <1>1, <2>1 DEF KeysUnique
<1>3. QED
  BY <1>1, <1>2

\* What latest_uplinks returns is one newest row for each device.
LEMMA LatestAnswer ==
  ASSUME TypeOK, NEW t \in Threads, req[t].op = "latest_uplinks", CursorSound(t),
         {r \in uplinks : UplinksOf(fetched[t], r.device_id) = {}} = {}
  PROVE  fetched[t] \in SUBSET uplinks /\ IsLatest(fetched[t], uplinks)
<1>1. \A q \in uplinks : \E r \in fetched[t] : r.device_id = q.device_id
  BY DEF UplinksOf
<1>2. QED
  BY <1>1 DEF CursorSound, IsLatest

\* What get_uplinks returns is the newest rows of the device, up to the limit.
LEMMA RecentAnswer ==
  ASSUME TypeOK, NEW t \in Threads, req[t].op = "get_uplinks", CursorSound(t),
         \/ UplinksOf(uplinks, req[t].device_id) \ fetched[t] = {}
         \/ Cardinality(fetched[t]) >= Limit
  PROVE  /\ fetched[t] \in SUBSET uplinks
         /\ IsMostRecent(fetched[t], uplinks, req[t].device_id)
<1> DEFINE own == UplinksOf(uplinks, req[t].device_id)
<1>1. /\ fetched[t] \subseteq own
      /\ \A r \in fetched[t], q \in own \ fetched[t] :
           q.received_at <= r.received_at
      /\ IsFiniteSet(fetched[t])
      /\ Cardinality(fetched[t]) <= Limit
  BY DEF CursorSound
<1>2. own \subseteq uplinks
  BY DEF UplinksOf
<1>3. Cardinality(fetched[t]) \in Nat
  BY <1>1, FS_CardinalityType
<1>4. fetched[t] = own \/ Cardinality(fetched[t]) = Limit
  BY <1>1, <1>3, StoreAssumption
<1>5. QED
  BY <1>1, <1>2, <1>4 DEF IsMostRecent

\* Each step of the SQLite store is a step of the contract, or none.
LEMMA StepSimulation ==
  ASSUME IInv, CursorsSound, [Next]_vars
  PROVE  [Contract!Next]_(Contract!vars)
<1>0. TypeOK /\ CallShape /\ KeysUnique
  BY DEF IInv
<1> USE <1>0
<1>1. ASSUME NEW t \in Threads, pc[t] = "stmt"
      PROVE  AbstractPc[t] = "called" /\ CursorSound(t)
  BY <1>1, AbstractPcValue DEF CursorsSound
<1>2. ASSUME NEW t \in Threads, \E r : Fetch(t, r)
      PROVE  UNCHANGED Contract!vars
  BY <1>2 DEF Fetch, Contract!vars, tables, AbstractPc
<1>3. ASSUME NEW t \in Threads, PutDevice(t) PROVE Contract!PutDevice(t)
  BY <1>1, <1>3, LeaveReplies, SameVocabulary
     DEF PutDevice, Running, Contract!PutDevice, Contract!Serving
<1>4. ASSUME NEW t \in Threads, GetDevice(t) PROVE Contract!GetDevice(t)
  BY <1>1, <1>4, LeaveReplies, SameVocabulary
     DEF GetDevice, Running, Contract!GetDevice, Contract!Serving, tables,
         Contract!tables
<1>5. ASSUME NEW t \in Threads, ListDevices(t)
      PROVE  Contract!ListDevices(t) \/ UNCHANGED Contract!vars
  <2>1. pc[t] = "stmt" /\ req[t].op = "list_devices"
    BY <1>5 DEF ListDevices, Running
  <2>2. CASE \E r : Fetch(t, r)
    BY <1>2, <2>2
  <2>3. CASE ~ \E r : Fetch(t, r)
    <3>1. /\ {r \in devices : Lookup(fetched[t], r.device_id) = {}} = {}
          /\ Leave(t, Ok(fetched[t]))
          /\ UNCHANGED tables
      BY <1>5, <2>3 DEF ListDevices
    <3>2. fetched[t] = devices
      BY <1>1, <2>1, <3>1, ListAnswer
    <3>3. QED
      BY <1>1, <2>1, <3>1, <3>2, LeaveReplies, SameVocabulary
         DEF Contract!ListDevices, Contract!Serving, tables, Contract!tables
  <2>4. QED
    BY <2>2, <2>3
<1>6. ASSUME NEW t \in Threads, PutUplink(t) PROVE Contract!PutUplink(t)
  BY <1>1, <1>6, LeaveReplies, SameVocabulary
     DEF PutUplink, Running, Contract!PutUplink, Contract!Serving
<1>7. ASSUME NEW t \in Threads, SetDeviceStatus(t)
      PROVE  Contract!SetDeviceStatus(t)
  <2>1. AbstractPc[t] = "called" /\ req[t].op = "set_device_status"
    BY <1>1, <1>7 DEF SetDeviceStatus, Running
  <2>2. pc' = [pc EXCEPT ![t] = "relock"] =>
          AbstractPc' = [AbstractPc EXCEPT ![t] = "applied"]
    BY AbstractPcStep DEF PcValues
  <2>3. QED
    BY <1>7, <2>1, <2>2, LeaveReplies, SameVocabulary
       DEF SetDeviceStatus, Contract!SetDeviceStatus, Contract!Serving
<1>8. ASSUME NEW t \in Threads, SetDeviceStatusReread(t)
      PROVE  Contract!SetDeviceStatusReply(t)
  BY <1>8, LeaveReplies, SameVocabulary, AbstractPcValue
     DEF SetDeviceStatusReread, Contract!SetDeviceStatusReply, tables,
         Contract!tables
<1>9. ASSUME NEW t \in Threads, LatestUplinks(t)
      PROVE  Contract!LatestUplinks(t) \/ UNCHANGED Contract!vars
  <2>1. pc[t] = "stmt" /\ req[t].op = "latest_uplinks"
    BY <1>9 DEF LatestUplinks, Running
  <2>2. CASE \E r : Fetch(t, r)
    BY <1>2, <2>2
  <2>3. CASE ~ \E r : Fetch(t, r)
    <3>1. /\ {r \in uplinks : UplinksOf(fetched[t], r.device_id) = {}} = {}
          /\ Leave(t, Ok(fetched[t]))
          /\ UNCHANGED tables
      BY <1>9, <2>3 DEF LatestUplinks
    <3>2. fetched[t] \in SUBSET uplinks /\ IsLatest(fetched[t], uplinks)
      BY <1>1, <2>1, <3>1, LatestAnswer
    <3>3. Contract!Reply(t, Ok(fetched[t]))
      BY <3>1, LeaveReplies, SameVocabulary
    <3>4. QED
      BY <1>1, <2>1, <3>1, <3>2, <3>3, SameVocabulary
         DEF Contract!LatestUplinks, Contract!Serving, tables, Contract!tables
  <2>4. QED
    BY <2>2, <2>3
<1>10. ASSUME NEW t \in Threads, GetUplinks(t)
       PROVE  Contract!GetUplinks(t) \/ UNCHANGED Contract!vars
  <2>1. pc[t] = "stmt" /\ req[t].op = "get_uplinks"
    BY <1>10 DEF GetUplinks, Running
  <2>2. CASE \E r : Fetch(t, r)
    BY <1>2, <2>2
  <2>3. CASE ~ \E r : Fetch(t, r)
    <3>1. /\ \/ UplinksOf(uplinks, req[t].device_id) \ fetched[t] = {}
             \/ Cardinality(fetched[t]) >= Limit
          /\ Leave(t, Ok(fetched[t]))
          /\ UNCHANGED tables
      BY <1>10, <2>3 DEF GetUplinks
    <3>2. /\ fetched[t] \in SUBSET uplinks
          /\ IsMostRecent(fetched[t], uplinks, req[t].device_id)
      BY <1>1, <2>1, <3>1, RecentAnswer
    <3>3. Contract!Reply(t, Ok(fetched[t]))
      BY <3>1, LeaveReplies, SameVocabulary
    <3>4. QED
      BY <1>1, <2>1, <3>1, <3>2, <3>3, SameVocabulary
         DEF Contract!GetUplinks, Contract!Serving, tables, Contract!tables
  <2>4. QED
    BY <2>2, <2>3
<1>11. ASSUME NEW t \in Threads, StatementFails(t) PROVE Contract!StoreFails(t)
  BY <1>11, LeaveReplies, SameVocabulary, AbstractPcValue
     DEF StatementFails, Contract!StoreFails, tables, Contract!tables
<1>12. ASSUME Tick PROVE Contract!Tick
  BY <1>12 DEF Tick, Contract!Tick, tables, Contract!tables, AbstractPc
<1>13. ASSUME Crash PROVE Contract!Crash
  BY <1>13, SameVocabulary DEF Crash, Contract!Crash, tables, Contract!tables, AbstractPc
<1>14. ASSUME NEW t \in Threads, NEW r \in RequestsAt(now), Call(t, r)
       PROVE  Contract!Call(t, r)
  BY <1>14, AbstractPcValue, AbstractPcStep
     DEF Call, Contract!Call, tables, Contract!tables, PcValues
<1>15. ASSUME NEW t \in Threads, Lock(t) PROVE UNCHANGED Contract!vars
  <2>1. AbstractPc' = AbstractPc
    BY <1>15 DEF Lock, AbstractPc, TypeOK, PcValues
  <2>2. QED
    BY <1>15, <2>1 DEF Lock, Contract!vars, tables
<1>16. ASSUME NEW t \in Threads, Return(t) PROVE Contract!Return(t)
  BY <1>16, SameVocabulary, AbstractPcValue, AbstractPcStep
     DEF Return, Contract!Return, tables, Contract!tables, PcValues
<1>17. ASSUME UNCHANGED vars PROVE UNCHANGED Contract!vars
  BY <1>17 DEF vars, Contract!vars, tables, AbstractPc
<1>18. QED
  BY <1>3, <1>4, <1>5, <1>6, <1>7, <1>8, <1>9, <1>10, <1>11, <1>12, <1>13, <1>14,
     <1>15, <1>16, <1>17, SameVocabulary DEF Next, Critical, Contract!Next

\* SqliteDeviceStore implements trait DeviceStore: every method takes effect at
\* one instant, whatever the other threads do, the stepped SELECTs included.
THEOREM StoreImplementsContract == Spec => ImplementsDeviceStore
<1>1. Init => Contract!Init
  BY SameVocabulary DEF Init, Contract!Init, AbstractPc
<1>2. Init => CursorsSound
  BY DEF Init, CursorsSound
<1>3. Spec => [](IInv /\ CursorsSound)
  BY <1>2, InitInv, NextInv, CursorStep, PTL DEF Spec
<1>4. QED
  BY <1>1, <1>3, StepSimulation, PTL DEF Spec, ImplementsDeviceStore, Contract!Spec
=============================================================================
