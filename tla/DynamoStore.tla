----------------------------- MODULE DynamoStore ----------------------------
(***************************************************************************)
(* DynamoDeviceStore (endpoint/src/store/dynamo.rs): every method is one   *)
(* request to the service, except latest_uplinks, which is a scan followed *)
(* by one query for each device it found.                                  *)
(*                                                                         *)
(* External, from how the code uses it: a write with a condition is atomic *)
(* at the leader copy of a table; reads are eventually consistent (no      *)
(* request asks otherwise) and may be served by a copy that lags; a scan   *)
(* answers one page; the SDK sends a request again when no answer came,    *)
(* whether or not the service executed it, and gives up after MaxAttempts. *)
(***************************************************************************)
EXTENDS StoreTypes

CONSTANTS
  PageSize,    \* devices that fit in one page of a scan
  MaxAttempts  \* attempts the SDK makes for one request

ASSUME DynamoAssumption ==
  /\ PageSize \in Nat \ {0}
  /\ MaxAttempts \in Nat \ {0}

VARIABLES
  devices, uplinks,     \* the tables at their leader
  devices2, uplinks2,   \* the copies that lag
  now,                  \* the wall clock
  pc, req, reply,       \* the call each thread is making
  tries,                \* tries[t]: attempts that were not answered
  todo, out,            \* latest_uplinks: devices to query, rows found
  won,                  \* history: Ok answers to put_device, by device
  acked,                \* history: the uplinks acknowledged
  known                 \* history: what the copies held when t made its call

tables == <<devices, uplinks>>
copies == <<devices2, uplinks2>>
call == <<pc, req, reply, tries, todo, out>>
vars == <<tables, copies, now, call, won, acked, known>>

\* An item of the messages table; its key is (device_id, received_at).
UplinkItems ==
  [device_id : DeviceIds, received_at : Times, payload : Payloads]

\* An update may create an item that has its key and the status only.
PartialItems == [device_id : DeviceIds, status : Statuses]

DeviceItems == DeviceRows \cup PartialItems

PcValues == {"idle", "send", "query", "ret"}

TypeOK ==
  /\ devices \subseteq DeviceItems
  /\ devices2 \subseteq DeviceItems
  /\ uplinks \subseteq UplinkItems
  /\ uplinks2 \subseteq UplinkItems
  /\ now \in Times
  /\ pc \in [Threads -> PcValues]
  /\ req \in [Threads -> Requests \cup {NoRequest}]
  /\ reply \in [Threads -> [result : Results,
                            rows : SUBSET (DeviceItems \cup UplinkItems)]]
  /\ tries \in [Threads -> 0 .. MaxAttempts - 1]
  /\ todo \in [Threads -> SUBSET DeviceIds]
  /\ out \in [Threads -> SUBSET UplinkItems]
  /\ won \in [DeviceIds -> Nat]
  /\ acked \subseteq UplinkItems
  /\ known \in [Threads ->
                 [ids : SUBSET DeviceIds, latest : SUBSET UplinkItems]]

Known(ids, latest) == [ids |-> ids, latest |-> latest]

NothingKnown == Known({}, {})

Init ==
  /\ devices = {} /\ uplinks = {}
  /\ devices2 = {} /\ uplinks2 = {}
  /\ now = 0
  /\ pc = [t \in Threads |-> "idle"]
  /\ req = [t \in Threads |-> NoRequest]
  /\ reply = [t \in Threads |-> NoReply]
  /\ tries = [t \in Threads |-> 0]
  /\ todo = [t \in Threads |-> {}]
  /\ out = [t \in Threads |-> {}]
  /\ won = [d \in DeviceIds |-> 0]
  /\ acked = {}
  /\ known = [t \in Threads |-> NothingKnown]

-----------------------------------------------------------------------------
(***************************************************************************)
(* The clock and the service.                                              *)
(***************************************************************************)

Tick ==
  /\ now < MaxTime
  /\ now' = now + 1
  /\ UNCHANGED <<tables, copies, call, won, acked, known>>

\* The copies catch up on one item, or on the uplinks of one device, which
\* share a partition.
ReplicateDevice(d) ==
  /\ devices2' = (devices2 \ Lookup(devices2, d)) \cup Lookup(devices, d)
  /\ UNCHANGED <<tables, uplinks2, now, call, won, acked, known>>

ReplicateUplinks(d) ==
  /\ uplinks2' = (uplinks2 \ UplinksOf(uplinks2, d)) \cup UplinksOf(uplinks, d)
  /\ UNCHANGED <<tables, devices2, now, call, won, acked, known>>

-----------------------------------------------------------------------------
(***************************************************************************)
(* A call.                                                                 *)
(***************************************************************************)

\* The devices, and the newest uplink of each, that no answer to r may be
\* older than.
KnownTo(r) ==
  LET ids    == {x.device_id : x \in devices2}
      newest == {u \in uplinks2 : NewestOf(u, UplinksOf(uplinks2, u.device_id))}
  IN  CASE r.op = "list_devices"   -> Known(ids, {})
        [] r.op = "latest_uplinks" -> Known(ids, newest)
        [] r.op = "get_uplinks"    -> Known({}, UplinksOf(newest, r.device_id))
        [] OTHER                   -> NothingKnown

Call(t, r) ==
  /\ pc[t] = "idle"
  /\ r.op = "put_uplink" => Cardinality(uplinks) < MaxRows
  /\ pc' = [pc EXCEPT ![t] = "send"]
  /\ req' = [req EXCEPT ![t] = r]
  /\ known' = [known EXCEPT ![t] = KnownTo(r)]
  /\ UNCHANGED <<tables, copies, now, reply, tries, todo, out, won, acked>>

Sending(t, op) == pc[t] = "send" /\ req[t].op = op

Writes == {"put_device", "put_uplink", "set_device_status"}

\* The method returns r.
Answer(t, r) ==
  /\ pc' = [pc EXCEPT ![t] = "ret"]
  /\ reply' = [reply EXCEPT ![t] = r]
  /\ tries' = [tries EXCEPT ![t] = 0]
  /\ todo' = [todo EXCEPT ![t] = {}]
  /\ out' = [out EXCEPT ![t] = {}]
  /\ UNCHANGED <<req, won, acked, known>>

\* No answer to a write came: the SDK sends it again, or gives up.
NoAnswer(t) ==
  \/ /\ tries[t] + 1 < MaxAttempts
     /\ tries' = [tries EXCEPT ![t] = @ + 1]
     /\ UNCHANGED <<pc, req, reply, todo, out, won, acked, known>>
  \/ /\ tries[t] + 1 = MaxAttempts
     /\ Answer(t, Err("Store"))

\* The service executed the request and answers r; the answer may get lost.
Executed(t, r) == (Answer(t, r) \/ NoAnswer(t)) /\ UNCHANGED <<copies, now>>

\* The request got lost, was throttled or failed, before it changed anything.
\* The attempts of a read leave no trace, so they are not told apart.
RequestFails(t) ==
  /\ \/ pc[t] = "send" /\ req[t].op \in Writes /\ NoAnswer(t)
     \/ pc[t] = "send" /\ req[t].op \notin Writes /\ Answer(t, Err("Store"))
     \/ pc[t] = "query" /\ Answer(t, Err("Store"))
  /\ UNCHANGED <<tables, copies, now>>

\* Mutant: a condition that fails on a later attempt is taken for this
\* call's own insert.
PutDeviceRetryOk(t) ==
  /\ Sending(t, "put_device")
  /\ UNCHANGED uplinks
  /\ \/ /\ Lookup(devices, req[t].row.device_id) = {}
        /\ devices' = devices \cup {req[t].row}
        /\ Executed(t, Ok({req[t].row}))
     \/ /\ Lookup(devices, req[t].row.device_id) # {}
        /\ UNCHANGED devices
        /\ Executed(t, IF tries[t] > 0 THEN Ok({req[t].row})
                                       ELSE Err("DeviceAlreadyExists"))

\* Mutant: put_item without the condition.
PutDeviceUnconditional(t) ==
  /\ Sending(t, "put_device")
  /\ UNCHANGED uplinks
  /\ devices' = (devices \ Lookup(devices, req[t].row.device_id))
                   \cup {req[t].row}
  /\ Executed(t, Ok({req[t].row}))

\* put_item with attribute_not_exists(device_id).
PutDevice(t) ==
  /\ Sending(t, "put_device")
  /\ UNCHANGED uplinks
  /\ \/ /\ Lookup(devices, req[t].row.device_id) = {}
        /\ devices' = devices \cup {req[t].row}
        /\ Executed(t, Ok({req[t].row}))
     \/ /\ Lookup(devices, req[t].row.device_id) # {}
        /\ UNCHANGED devices
        /\ Executed(t, Err("DeviceAlreadyExists"))

\* item_to_device fails for an item that has not all its fields.
Complete(item) == item \in DeviceRows

\* get_item.
GetDevice(t) ==
  /\ Sending(t, "get_device")
  /\ \E seen \in {devices, devices2} :
       LET found == Lookup(seen, req[t].device_id) IN
       Answer(t, IF \A r \in found : Complete(r) THEN Ok(found) ELSE Err("Store"))
  /\ UNCHANGED <<tables, copies, now>>

\* rows is what a request for at most n of these items answers.
IsPage(rows, items, n) ==
  /\ rows \subseteq items
  /\ Cardinality(rows) <= n
  /\ rows = items \/ Cardinality(rows) = n

\* What one scan may answer: each item as the leader or as the copy has it,
\* and one page of them.
ScanAnswers ==
  {rows \in SUBSET (devices \cup devices2) :
     \E atLeader \in SUBSET DeviceIds :
       IsPage(rows,
              {r \in devices : r.device_id \in atLeader}
                \cup {r \in devices2 : r.device_id \notin atLeader},
              PageSize)}

ListDevices(t) ==
  /\ Sending(t, "list_devices")
  /\ \E rows \in ScanAnswers :
       Answer(t, IF \A r \in rows : Complete(r) THEN Ok(rows) ELSE Err("Store"))
  /\ UNCHANGED <<tables, copies, now>>

\* Mutant: a table whose key is device_id alone.
PutUplinkByDevice(t) ==
  /\ Sending(t, "put_uplink")
  /\ LET item == [device_id |-> req[t].device_id,
                  received_at |-> req[t].received_at, payload |-> req[t].payload]
     IN  /\ uplinks' = {r \in uplinks : r.device_id # item.device_id}
                         \cup {item}
         /\ Executed(t, Ok({item}))
  /\ UNCHANGED devices

\* put_item: an item with the same key is replaced.
PutUplink(t) ==
  /\ Sending(t, "put_uplink")
  /\ LET item == [device_id |-> req[t].device_id,
                  received_at |-> req[t].received_at, payload |-> req[t].payload]
     IN  /\ uplinks' = {r \in uplinks : \/ r.device_id # item.device_id
                                        \/ r.received_at # item.received_at}
                         \cup {item}
         /\ Executed(t, Ok({item}))
  /\ UNCHANGED devices

\* Mutant: update_item without the condition creates an item.
SetDeviceStatusUpserts(t) ==
  /\ Sending(t, "set_device_status")
  /\ UNCHANGED uplinks
  /\ LET d == req[t].device_id IN
     \/ /\ Lookup(devices, d) = {}
        /\ devices' = devices \cup {[device_id |-> d, status |-> req[t].status]}
        /\ Executed(t, Err("Store"))
     \/ /\ Lookup(devices, d) # {}
        /\ devices' = WithStatus(devices, d, req[t].status)
        /\ Executed(t, Ok(Lookup(devices', d)))

\* Mutant: ReturnValue::AllOld.
SetDeviceStatusAllOld(t) ==
  /\ Sending(t, "set_device_status")
  /\ UNCHANGED uplinks
  /\ LET d == req[t].device_id IN
     \/ /\ Lookup(devices, d) = {}
        /\ UNCHANGED devices
        /\ Executed(t, Err("DeviceNotFound"))
     \/ /\ Lookup(devices, d) # {}
        /\ devices' = WithStatus(devices, d, req[t].status)
        /\ Executed(t, Ok(Lookup(devices, d)))

\* update_item with attribute_exists(device_id), ReturnValue::AllNew.
SetDeviceStatus(t) ==
  /\ Sending(t, "set_device_status")
  /\ UNCHANGED uplinks
  /\ LET d == req[t].device_id IN
     \/ /\ Lookup(devices, d) = {}
        /\ UNCHANGED devices
        /\ Executed(t, Err("DeviceNotFound"))
     \/ /\ Lookup(devices, d) # {}
        /\ devices' = WithStatus(devices, d, req[t].status)
        /\ Executed(t, Ok(Lookup(devices', d)))

\* Mutant: scan_index_forward left at its default, oldest first.
QueryOldest(d, limit) ==
  {rows \in SUBSET (uplinks \cup uplinks2) :
     \E seen \in {uplinks, uplinks2} :
       LET own == UplinksOf(seen, d) IN
       /\ IsPage(rows, own, limit)
       /\ \A r \in rows, q \in own \ rows : q.received_at >= r.received_at}

\* What a query for the newest limit items of d may answer.
QueryAnswers(d, limit) ==
  {rows \in SUBSET (uplinks \cup uplinks2) :
     \E seen \in {uplinks, uplinks2} :
       LET own == UplinksOf(seen, d) IN
       /\ IsPage(rows, own, limit)
       /\ \A r \in rows, q \in own \ rows : q.received_at <= r.received_at}

GetUplinks(t) ==
  /\ Sending(t, "get_uplinks")
  /\ \E rows \in QueryAnswers(req[t].device_id, Limit) : Answer(t, Ok(rows))
  /\ UNCHANGED <<tables, copies, now>>

\* latest_uplinks begins with list_devices ...
LatestUplinks(t) ==
  /\ Sending(t, "latest_uplinks")
  /\ \E rows \in ScanAnswers :
       IF \A r \in rows : Complete(r)
       THEN /\ pc' = [pc EXCEPT ![t] = "query"]
            /\ todo' = [todo EXCEPT ![t] = {r.device_id : r \in rows}]
            /\ UNCHANGED <<req, reply, tries, out, won, acked, known>>
       ELSE Answer(t, Err("Store"))
  /\ UNCHANGED <<tables, copies, now>>

\* ... and asks for the newest uplink of each device, in the order of the scan.
\* A query that fails fails the call.
LatestOf(t) ==
  /\ pc[t] = "query"
  /\ \/ \E d \in todo[t] : \E rows \in QueryAnswers(d, 1) :
          /\ out' = [out EXCEPT ![t] = @ \cup rows]
          /\ todo' = [todo EXCEPT ![t] = @ \ {d}]
          /\ UNCHANGED <<pc, req, reply, tries, won, acked, known>>
     \/ todo[t] = {} /\ Answer(t, Ok(out[t]))
  /\ UNCHANGED <<tables, copies, now>>

\* The handler gets the result.
Return(t) ==
  /\ pc[t] = "ret"
  /\ pc' = [pc EXCEPT ![t] = "idle"]
  /\ req' = [req EXCEPT ![t] = NoRequest]
  /\ reply' = [reply EXCEPT ![t] = NoReply]
  /\ won' = [d \in DeviceIds |->
               IF /\ req[t].op = "put_device"
                  /\ reply[t].result = "Ok"
                  /\ req[t].row.device_id = d
               THEN won[d] + 1 ELSE won[d]]
  /\ acked' = IF req[t].op = "put_uplink" THEN acked \cup reply[t].rows
                                          ELSE acked
  /\ known' = [known EXCEPT ![t] = NothingKnown]
  /\ UNCHANGED <<tables, copies, now, tries, todo, out>>

\* The instance is killed.
Crash ==
  /\ pc' = [t \in Threads |-> "idle"]
  /\ req' = [t \in Threads |-> NoRequest]
  /\ reply' = [t \in Threads |-> NoReply]
  /\ tries' = [t \in Threads |-> 0]
  /\ todo' = [t \in Threads |-> {}]
  /\ out' = [t \in Threads |-> {}]
  /\ known' = [t \in Threads |-> NothingKnown]
  /\ UNCHANGED <<tables, copies, now, won, acked>>

Next ==
  \/ Tick
  \/ Crash
  \/ \E d \in DeviceIds : ReplicateDevice(d) \/ ReplicateUplinks(d)
  \/ \E t \in Threads :
       \/ \E r \in RequestsAt(now) : Call(t, r)
       \/ PutDevice(t) \/ GetDevice(t) \/ ListDevices(t) \/ PutUplink(t)
       \/ SetDeviceStatus(t) \/ GetUplinks(t)
       \/ LatestUplinks(t) \/ LatestOf(t)
       \/ RequestFails(t) \/ Return(t)

Spec == Init /\ [][Next]_vars

-----------------------------------------------------------------------------
(***************************************************************************)
(* Properties.                                                             *)
(***************************************************************************)

\* Thread t holds an Ok answer to put_device for d, not yet delivered.
HoldsWin(t, d) ==
  /\ pc[t] = "ret"
  /\ req[t].op = "put_device"
  /\ req[t].row.device_id = d
  /\ reply[t].result = "Ok"

\* However registrations race, from one instance or several, and whichever
\* answers get lost and are asked for again, put_device says Ok for a device
\* at most once, to the caller whose registration is in the table.
OneRegistrationWins ==
  \A d \in DeviceIds :
    /\ won[d] <= 1
    /\ \A t \in Threads : HoldsWin(t, d) =>
         /\ won[d] = 0
         /\ \A u \in Threads \ {t} : ~ HoldsWin(u, d)
         /\ \E r \in devices :
              /\ r.device_id = d
              /\ r.owner = req[t].row.owner
              /\ r.created_at = req[t].row.created_at

\* What a step may never do to a registered device: drop it, or change what
\* it was registered with.  Only its status moves, and only in the step of a
\* set_device_status for this device, to the status that call asked for.
OnlyStatusChanges ==
  [][\A r \in devices :
       \E q \in devices' :
         /\ q.device_id = r.device_id
         /\ q.owner = r.owner
         /\ q.created_at = r.created_at
         /\ q.status # r.status =>
              \E t \in Threads :
                /\ pc[t] = "send"
                /\ req[t].op = "set_device_status"
                /\ req[t].device_id = r.device_id
                /\ req[t].status = q.status]_vars

\* The record set_device_status returns has the status that was asked for,
\* whatever other threads set before and after.
UpdatedRecordReturned ==
  \A t \in Threads :
    /\ pc[t] = "ret"
    /\ req[t].op = "set_device_status"
    /\ reply[t].result = "Ok"
    => \E r \in DeviceRows :
         /\ reply[t].rows = {r}
         /\ r.device_id = req[t].device_id
         /\ r.status = req[t].status

\* No status change, of a device that is not there or not there yet, leaves an
\* item without owner behind: one such item would fail every list_devices,
\* latest_uplinks and fleet snapshot from then on.
ItemsComplete == \A r \in devices \cup devices2 : Complete(r)

\* An uplink that was acknowledged is in the table under its device and
\* instant, after lost answers, repeated writes and crashes.
AckedUplinksKept ==
  \A a \in acked :
    \E r \in uplinks :
      r.device_id = a.device_id /\ r.received_at = a.received_at

\* An answer is never older than what the lagging copies held when the call
\* was made.  As long as the devices fit in a page, a list has every device
\* the copies had, and latest_uplinks answers for each of those with an uplink
\* at least as new; get_uplinks gives the newest uplink the copies had, or a
\* newer one.
AnswersNoOlder ==
  \A t \in Threads :
    pc[t] = "ret" /\ reply[t].result = "Ok" =>
      /\ \A d \in known[t].ids :
           /\ req[t].op = "list_devices"
           /\ Cardinality(devices) <= PageSize
           => Lookup(reply[t].rows, d) # {}
      /\ \A u \in known[t].latest :
           /\ \/ req[t].op = "get_uplinks" /\ Limit > 0
              \/ /\ req[t].op = "latest_uplinks"
                 /\ u.device_id \in known[t].ids
                 /\ Cardinality(devices) <= PageSize
           => \E r \in reply[t].rows :
                r.device_id = u.device_id /\ r.received_at >= u.received_at

\* store/mod.rs: list_devices lists all registered devices.  A device that
\* every copy of the table had before the call is in the answer.
AllDevicesListed ==
  \A t \in Threads :
    /\ pc[t] = "ret"
    /\ req[t].op = "list_devices"
    /\ reply[t].result = "Ok"
    => \A d \in known[t].ids : Lookup(reply[t].rows, d) # {}
=============================================================================
