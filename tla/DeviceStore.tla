----------------------------- MODULE DeviceStore ----------------------------
(***************************************************************************)
(* The contract of trait DeviceStore (endpoint/src/store/mod.rs), as every *)
(* caller may rely on it: each method reads or changes the tables in one   *)
(* step between its call and its return, whatever the other threads do.    *)
(* The one exception is set_device_status, which changes the table in one  *)
(* step and reads the record it returns in a later one.                    *)
(***************************************************************************)
EXTENDS StoreTypes

VARIABLES
  devices,   \* table devices
  uplinks,   \* table uplinks
  lastId,    \* the id last given to an uplink
  now,       \* the clock
  pc,        \* pc[t]: where the call of thread t stands
  req,       \* req[t]: what thread t asked for
  reply      \* reply[t]: what it is about to be told

vars == <<devices, uplinks, lastId, now, pc, req, reply>>
tables == <<devices, uplinks, lastId>>

PcValues == {"idle", "called", "applied", "ret"}

TypeOK ==
  /\ devices \subseteq DeviceRows
  /\ uplinks \subseteq UplinkRows
  /\ lastId \in Nat
  /\ now \in Times
  /\ pc \in [Threads -> PcValues]
  /\ req \in [Threads -> Requests \cup {NoRequest}]
  /\ reply \in [Threads -> Replies]

Init ==
  /\ devices = {}
  /\ uplinks = {}
  /\ lastId = 0
  /\ now = 0
  /\ pc = [t \in Threads |-> "idle"]
  /\ req = [t \in Threads |-> NoRequest]
  /\ reply = [t \in Threads |-> NoReply]

Tick ==
  /\ now < MaxTime
  /\ now' = now + 1
  /\ UNCHANGED <<tables, pc, req, reply>>

Call(t, r) ==
  /\ pc[t] = "idle"
  /\ lastId < MaxRows
  /\ pc' = [pc EXCEPT ![t] = "called"]
  /\ req' = [req EXCEPT ![t] = r]
  /\ UNCHANGED <<tables, now, reply>>

\* Thread t has called method op and the method has not taken effect yet.
Serving(t, op) == pc[t] = "called" /\ req[t].op = op

Reply(t, r) ==
  /\ pc' = [pc EXCEPT ![t] = "ret"]
  /\ reply' = [reply EXCEPT ![t] = r]
  /\ UNCHANGED <<now, req>>

PutDevice(t) ==
  /\ Serving(t, "put_device")
  /\ UNCHANGED <<uplinks, lastId>>
  /\ \/ /\ Lookup(devices, req[t].row.device_id) = {}
        /\ devices' = devices \cup {req[t].row}
        /\ Reply(t, Ok({req[t].row}))
     \/ /\ Lookup(devices, req[t].row.device_id) # {}
        /\ UNCHANGED devices
        /\ Reply(t, Err("DeviceAlreadyExists"))

GetDevice(t) ==
  /\ Serving(t, "get_device")
  /\ Reply(t, Ok(Lookup(devices, req[t].device_id)))
  /\ UNCHANGED tables

ListDevices(t) ==
  /\ Serving(t, "list_devices")
  /\ Reply(t, Ok(devices))
  /\ UNCHANGED tables

\* The row in the reply is there to name what was acknowledged; the caller is
\* told Ok(()).
PutUplink(t) ==
  /\ Serving(t, "put_uplink")
  /\ lastId' = lastId + 1
  /\ LET row == [id |-> lastId + 1, device_id |-> req[t].device_id,
                 received_at |-> req[t].received_at, payload |-> req[t].payload]
     IN  /\ uplinks' = uplinks \cup {row}
         /\ Reply(t, Ok({row}))
  /\ UNCHANGED devices

SetDeviceStatus(t) ==
  /\ Serving(t, "set_device_status")
  /\ UNCHANGED <<uplinks, lastId>>
  /\ \/ /\ Lookup(devices, req[t].device_id) = {}
        /\ UNCHANGED devices
        /\ Reply(t, Err("DeviceNotFound"))
     \/ /\ Lookup(devices, req[t].device_id) # {}
        /\ devices' = WithStatus(devices, req[t].device_id, req[t].status)
        /\ pc' = [pc EXCEPT ![t] = "applied"]
        /\ UNCHANGED <<now, req, reply>>

SetDeviceStatusReply(t) ==
  /\ pc[t] = "applied"
  /\ Reply(t, Ok(Lookup(devices, req[t].device_id)))
  /\ UNCHANGED tables

LatestUplinks(t) ==
  /\ Serving(t, "latest_uplinks")
  /\ \E rows \in SUBSET uplinks :
       IsLatest(rows, uplinks) /\ Reply(t, Ok(rows))
  /\ UNCHANGED tables

GetUplinks(t) ==
  /\ Serving(t, "get_uplinks")
  /\ \E rows \in SUBSET uplinks :
       IsMostRecent(rows, uplinks, req[t].device_id) /\ Reply(t, Ok(rows))
  /\ UNCHANGED tables

\* The backend failed.  The call that fails leaves the tables as they are; a
\* set_device_status may also fail after its change was made.
StoreFails(t) ==
  /\ pc[t] \in {"called", "applied"}
  /\ Reply(t, Err("Store"))
  /\ UNCHANGED tables

Return(t) ==
  /\ pc[t] = "ret"
  /\ pc' = [pc EXCEPT ![t] = "idle"]
  /\ req' = [req EXCEPT ![t] = NoRequest]
  /\ reply' = [reply EXCEPT ![t] = NoReply]
  /\ UNCHANGED <<tables, now>>

\* The process dies and starts again: the calls are gone, the tables are not.
Crash ==
  /\ pc' = [t \in Threads |-> "idle"]
  /\ req' = [t \in Threads |-> NoRequest]
  /\ reply' = [t \in Threads |-> NoReply]
  /\ UNCHANGED <<tables, now>>

Next ==
  \/ Tick
  \/ Crash
  \/ \E t \in Threads :
       \/ PutDevice(t) \/ GetDevice(t) \/ ListDevices(t) \/ PutUplink(t)
       \/ SetDeviceStatus(t) \/ SetDeviceStatusReply(t)
       \/ LatestUplinks(t) \/ GetUplinks(t)
       \/ StoreFails(t) \/ Return(t)
       \/ \E r \in RequestsAt(now) : Call(t, r)

Spec == Init /\ [][Next]_vars
=============================================================================
