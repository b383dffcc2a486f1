----------------------------- MODULE SqliteStore ----------------------------
(***************************************************************************)
(* SqliteDeviceStore (endpoint/src/store/sqlite.rs): one connection behind *)
(* a mutex, shared by every request thread.  A method locks the mutex,     *)
(* runs its statement and drops the guard when it returns.  A SELECT is    *)
(* stepped row by row while the guard is held.  set_device_status drops    *)
(* the guard after its UPDATE and calls get_device, which locks again.     *)
(*                                                                         *)
(* The mutex is never poisoned here: no code panics while it is held.  A   *)
(* statement that fails leaves the tables alone (SQLite is in autocommit   *)
(* mode).                                                                  *)
(***************************************************************************)
EXTENDS StoreTypes

CONSTANT NoThread   \* the mutex is free

ASSUME NoThreadAssumption == NoThread \notin Threads

VARIABLES
  devices, uplinks, lastId,   \* the database file
  now,                        \* the wall clock
  mutex,                      \* the thread that holds the guard
  pc, req, reply,             \* the call each thread is making
  fetched,                    \* fetched[t]: rows its cursor has delivered
  won,                        \* history: Ok answers to put_device, by device
  acked                       \* history: the uplinks acknowledged

tables == <<devices, uplinks, lastId>>
history == <<won, acked>>
vars == <<tables, now, mutex, pc, req, reply, fetched, history>>

PcValues == {"idle", "lock", "stmt", "relock", "reread", "ret"}

TypeOK ==
  /\ devices \subseteq DeviceRows
  /\ uplinks \subseteq UplinkRows
  /\ lastId \in Nat
  /\ now \in Times
  /\ mutex \in Threads \cup {NoThread}
  /\ pc \in [Threads -> PcValues]
  /\ req \in [Threads -> Requests \cup {NoRequest}]
  /\ reply \in [Threads -> Replies]
  /\ fetched \in [Threads -> SUBSET (DeviceRows \cup UplinkRows)]
  /\ won \in [DeviceIds -> Nat]
  /\ acked \subseteq UplinkRows

\* SqliteDeviceStore::new on a fresh file: migrate makes two empty tables.
Init ==
  /\ devices = {}
  /\ uplinks = {}
  /\ lastId = 0
  /\ now = 0
  /\ mutex = NoThread
  /\ pc = [t \in Threads |-> "idle"]
  /\ req = [t \in Threads |-> NoRequest]
  /\ reply = [t \in Threads |-> NoReply]
  /\ fetched = [t \in Threads |-> {}]
  /\ won = [d \in DeviceIds |-> 0]
  /\ acked = {}

-----------------------------------------------------------------------------
Tick ==
  /\ now < MaxTime
  /\ now' = now + 1
  /\ UNCHANGED <<tables, mutex, pc, req, reply, fetched, history>>

\* A handler calls a method.  It has read the clock already: the row it
\* carries may be older than rows other threads store first.
Call(t, r) ==
  /\ pc[t] = "idle"
  /\ lastId < MaxRows
  /\ pc' = [pc EXCEPT ![t] = "lock"]
  /\ req' = [req EXCEPT ![t] = r]
  /\ UNCHANGED <<tables, now, mutex, reply, fetched, history>>

\* self.conn.lock()
Lock(t) ==
  /\ mutex = NoThread
  /\ mutex' = t
  /\ \/ pc[t] = "lock" /\ pc' = [pc EXCEPT ![t] = "stmt"]
     \/ pc[t] = "relock" /\ pc' = [pc EXCEPT ![t] = "reread"]
  /\ UNCHANGED <<tables, now, req, reply, fetched, history>>

\* Thread t holds the guard and its statement for method op is to run.
Running(t, op) == pc[t] = "stmt" /\ req[t].op = op

\* The method returns and drops the guard.
Leave(t, r) ==
  /\ mutex' = NoThread
  /\ pc' = [pc EXCEPT ![t] = "ret"]
  /\ reply' = [reply EXCEPT ![t] = r]
  /\ fetched' = [fetched EXCEPT ![t] = {}]
  /\ UNCHANGED <<now, req, history>>

\* sqlite3_step delivers one more row to the cursor of thread t.
Fetch(t, row) ==
  /\ fetched' = [fetched EXCEPT ![t] = @ \cup {row}]
  /\ UNCHANGED <<tables, now, mutex, pc, req, reply, history>>

\* Mutant: INSERT OR IGNORE, so that a second registration is told Ok.
PutDeviceIgnore(t) ==
  /\ Running(t, "put_device")
  /\ UNCHANGED <<uplinks, lastId>>
  /\ devices' = IF Lookup(devices, req[t].row.device_id) = {}
                THEN devices \cup {req[t].row} ELSE devices
  /\ Leave(t, Ok({req[t].row}))

\* Mutant: ON CONFLICT DO UPDATE SET status, so that registering again
\* reactivates a revoked device.
PutDeviceReactivates(t) ==
  /\ Running(t, "put_device")
  /\ UNCHANGED <<uplinks, lastId>>
  /\ \/ /\ Lookup(devices, req[t].row.device_id) = {}
        /\ devices' = devices \cup {req[t].row}
        /\ Leave(t, Ok({req[t].row}))
     \/ /\ Lookup(devices, req[t].row.device_id) # {}
        /\ devices' = WithStatus(devices, req[t].row.device_id, "active")
        /\ Leave(t, Err("DeviceAlreadyExists"))

\* INSERT INTO devices; a second row with the same key is refused.
PutDevice(t) ==
  /\ Running(t, "put_device")
  /\ UNCHANGED <<uplinks, lastId>>
  /\ \/ /\ Lookup(devices, req[t].row.device_id) = {}
        /\ devices' = devices \cup {req[t].row}
        /\ Leave(t, Ok({req[t].row}))
     \/ /\ Lookup(devices, req[t].row.device_id) # {}
        /\ UNCHANGED devices
        /\ Leave(t, Err("DeviceAlreadyExists"))

\* SELECT ... WHERE device_id = ?1, the first row if there is one.
GetDevice(t) ==
  /\ Running(t, "get_device")
  /\ Leave(t, Ok(Lookup(devices, req[t].device_id)))
  /\ UNCHANGED tables

\* SELECT ... FROM devices: a row whose key was not delivered yet, until none
\* is left.
ListDevices(t) ==
  /\ Running(t, "list_devices")
  /\ LET left == {r \in devices : Lookup(fetched[t], r.device_id) = {}} IN
     \/ \E r \in left : Fetch(t, r)
     \/ left = {} /\ Leave(t, Ok(fetched[t])) /\ UNCHANGED tables

\* Mutant: INSERT OR REPLACE with (device_id, received_at) as the key.
PutUplinkReplaces(t) ==
  /\ Running(t, "put_uplink")
  /\ lastId' = lastId + 1
  /\ LET row == [id |-> lastId + 1, device_id |-> req[t].device_id,
                 received_at |-> req[t].received_at, payload |-> req[t].payload]
     IN  /\ uplinks' = {r \in uplinks : r.device_id # row.device_id
                                     \/ r.received_at # row.received_at}
                         \cup {row}
         /\ Leave(t, Ok({row}))
  /\ UNCHANGED devices

\* INSERT INTO uplinks, with the next AUTOINCREMENT id.
PutUplink(t) ==
  /\ Running(t, "put_uplink")
  /\ lastId' = lastId + 1
  /\ LET row == [id |-> lastId + 1, device_id |-> req[t].device_id,
                 received_at |-> req[t].received_at, payload |-> req[t].payload]
     IN  /\ uplinks' = uplinks \cup {row}
         /\ Leave(t, Ok({row}))
  /\ UNCHANGED devices

\* Mutant: the guard is still held when get_device locks.
SetDeviceStatusHoldsGuard(t) ==
  /\ Running(t, "set_device_status")
  /\ UNCHANGED <<uplinks, lastId>>
  /\ \/ /\ Lookup(devices, req[t].device_id) = {}
        /\ UNCHANGED devices
        /\ Leave(t, Err("DeviceNotFound"))
     \/ /\ Lookup(devices, req[t].device_id) # {}
        /\ devices' = WithStatus(devices, req[t].device_id, req[t].status)
        /\ pc' = [pc EXCEPT ![t] = "relock"]
        /\ UNCHANGED <<now, mutex, req, reply, fetched, history>>

\* UPDATE devices SET status.  The block that holds the guard ends here, on
\* the path to DeviceNotFound and on the path to the re-read.
SetDeviceStatus(t) ==
  /\ Running(t, "set_device_status")
  /\ UNCHANGED <<uplinks, lastId>>
  /\ \/ /\ Lookup(devices, req[t].device_id) = {}
        /\ UNCHANGED devices
        /\ Leave(t, Err("DeviceNotFound"))
     \/ /\ Lookup(devices, req[t].device_id) # {}
        /\ devices' = WithStatus(devices, req[t].device_id, req[t].status)
        /\ mutex' = NoThread
        /\ pc' = [pc EXCEPT ![t] = "relock"]
        /\ UNCHANGED <<now, req, reply, fetched, history>>

\* self.get_device(device_id) at the end of set_device_status.  Devices are
\* never deleted, so the record is there.
SetDeviceStatusReread(t) ==
  /\ pc[t] = "reread"
  /\ Leave(t, Ok(Lookup(devices, req[t].device_id)))
  /\ UNCHANGED tables

\* SELECT device_id, MAX(received_at), payload ... GROUP BY device_id: one
\* group at a time, its bare columns taken from a row with the maximum.
LatestUplinks(t) ==
  /\ Running(t, "latest_uplinks")
  /\ LET left == {r \in uplinks : UplinksOf(fetched[t], r.device_id) = {}} IN
     \/ \E r \in left :
          NewestOf(r, UplinksOf(uplinks, r.device_id)) /\ Fetch(t, r)
     \/ left = {} /\ Leave(t, Ok(fetched[t])) /\ UNCHANGED tables

\* Mutant: ORDER BY received_at without DESC.
GetUplinksOldest(t) ==
  /\ Running(t, "get_uplinks")
  /\ LET left == UplinksOf(uplinks, req[t].device_id) \ fetched[t] IN
     \/ /\ Cardinality(fetched[t]) < Limit
        /\ \E r \in left :
             (\A q \in left : r.received_at <= q.received_at) /\ Fetch(t, r)
     \/ /\ left = {} \/ Cardinality(fetched[t]) >= Limit
        /\ Leave(t, Ok(fetched[t]))
        /\ UNCHANGED tables

\* SELECT ... WHERE device_id = ?1 ORDER BY received_at DESC LIMIT ?2.
GetUplinks(t) ==
  /\ Running(t, "get_uplinks")
  /\ LET left == UplinksOf(uplinks, req[t].device_id) \ fetched[t] IN
     \/ /\ Cardinality(fetched[t]) < Limit
        /\ \E r \in left : NewestOf(r, left) /\ Fetch(t, r)
     \/ /\ left = {} \/ Cardinality(fetched[t]) >= Limit
        /\ Leave(t, Ok(fetched[t]))
        /\ UNCHANGED tables

\* SQLite reports an error while the statement of thread t is prepared or
\* stepped: StoreError::Io, through `?`.
StatementFails(t) ==
  /\ pc[t] \in {"stmt", "reread"}
  /\ Leave(t, Err("Store"))
  /\ UNCHANGED tables

\* The handler gets the result.
Return(t) ==
  /\ pc[t] = "ret"
  /\ pc' = [pc EXCEPT ![t] = "idle"]
  /\ req' = [req EXCEPT ![t] = NoRequest]
  /\ reply' = [reply EXCEPT ![t] = NoReply]
  /\ won' = [d \in DeviceIds |->
               IF /\ req[t].op = "put_device"
                  /\ reply[t].result = "Ok"
                  /\ req[t].row.device_id = d
               THEN won[d] + 1 ELSE won[d]]
  /\ acked' = IF req[t].op = "put_uplink" THEN acked \cup reply[t].rows
                                          ELSE acked
  /\ UNCHANGED <<tables, now, mutex, fetched>>

\* The process dies between two steps and is started again on the same file.
\* migrate finds both tables (IF NOT EXISTS).
Crash ==
  /\ mutex' = NoThread
  /\ pc' = [t \in Threads |-> "idle"]
  /\ req' = [t \in Threads |-> NoRequest]
  /\ reply' = [t \in Threads |-> NoReply]
  /\ fetched' = [t \in Threads |-> {}]
  /\ UNCHANGED <<tables, now, history>>

\* What thread t does while it holds the guard.
Critical(t) ==
  \/ PutDevice(t) \/ GetDevice(t) \/ ListDevices(t) \/ PutUplink(t)
  \/ SetDeviceStatus(t) \/ SetDeviceStatusReread(t)
  \/ LatestUplinks(t) \/ GetUplinks(t)
  \/ StatementFails(t)

Next ==
  \/ Tick
  \/ Crash
  \/ \E t \in Threads :
       \/ \E r \in RequestsAt(now) : Call(t, r)
       \/ Lock(t) \/ Critical(t) \/ Return(t)

Spec == Init /\ [][Next]_vars

\* A thread that can run is scheduled by the operating system, and the mutex
\* is given to some waiting thread; it is not fair to a particular one.
Fairness ==
  /\ \A t \in Threads : WF_vars(Critical(t)) /\ WF_vars(Return(t))
  /\ WF_vars(\E t \in Threads : Lock(t))

LiveSpec == Spec /\ Fairness

-----------------------------------------------------------------------------
(***************************************************************************)
(* Properties.                                                             *)
(***************************************************************************)

\* Thread t holds an Ok answer to put_device for d, not yet delivered.
HoldsWin(t, d) ==
  /\ pc[t] = "ret"
  /\ req[t].op = "put_device"
  /\ req[t].row.device_id = d
  /\ reply[t].result = "Ok"

\* However registrations race and whatever crashes between an insert and its
\* answer, put_device says Ok for a device at most once, and a caller about to
\* be told Ok finds its own registration, and no other, in the table.
OneRegistrationWins ==
  \A d \in DeviceIds :
    /\ won[d] <= 1
    /\ \A t \in Threads : HoldsWin(t, d) =>
         /\ won[d] = 0
         /\ \A u \in Threads \ {t} : ~ HoldsWin(u, d)
         /\ \E r \in devices :
              /\ r.device_id = d
              /\ r.owner = req[t].row.owner
              /\ r.created_at = req[t].row.created_at
         /\ \A r, q \in Lookup(devices, d) : r = q

\* An uplink the store acknowledged stays in the table, and two calls are
\* never acknowledged with the same row: nothing is lost or counted twice.
AckedUplinksKept ==
  /\ acked \subseteq uplinks
  /\ \A t \in Threads : pc[t] = "ret" /\ req[t].op = "put_uplink" =>
       /\ reply[t].rows \subseteq uplinks \ acked
       /\ \A u \in Threads \ {t} :
            req[u].op = "put_uplink" => reply[t].rows \cap reply[u].rows = {}

\* What a step may never do to a registered device: drop it, or change what
\* it was registered with.  Only its status moves, and only in the step of a
\* set_device_status for this device, to the status that call asked for.
OnlyStatusChanges ==
  [][\A r \in devices :
       \E q \in devices' :
         /\ q.device_id = r.device_id
         /\ q.owner = r.owner
         /\ q.created_at = r.created_at
         /\ q.status # r.status =>
              \E t \in Threads :
                /\ mutex = t
                /\ req[t].op = "set_device_status"
                /\ req[t].device_id = r.device_id
                /\ req[t].status = q.status]_vars

\* Where a call stands, with the mutex and the cursors hidden.
AbstractPc ==
  [t \in Threads |->
     CASE pc[t] \in {"lock", "stmt"}     -> "called"
       [] pc[t] \in {"relock", "reread"} -> "applied"
       [] pc[t] \in {"idle", "ret"}      -> pc[t]]

Contract == INSTANCE DeviceStore WITH pc <- AbstractPc

\* The locked store implements the contract of the trait: each method takes
\* effect at one instant between its call and its return, the SELECTs that
\* are stepped row by row included.
ImplementsDeviceStore == Contract!Spec

\* set_device_status drops its guard before get_device locks the mutex again,
\* so no thread waits for itself: while callers wait, some call completes.
SomeCallCompletes ==
  (\E t \in Threads : pc[t] \in {"lock", "relock"})
    ~> ((\E t \in Threads : pc[t] = "ret") \/ (\A t \in Threads : pc[t] = "idle"))
=============================================================================
