------------------------------ MODULE Endpoint ------------------------------
(***************************************************************************)
(* The request handlers of the endpoint (endpoint/src/handlers.rs,         *)
(* routes.rs, the server half of ui/mod.rs) as threads over the tables.    *)
(* A handler reads the clock and calls the store once or more; nothing is  *)
(* locked between two calls.  A call of the store is one step, which is    *)
(* what the contract of DeviceStore promises a caller.                     *)
(***************************************************************************)
EXTENDS Fleet, Sequences, Functions

CONSTANTS
  Threads,    \* the requests being handled at once
  Checks,     \* values of require_registration; routes.rs passes FALSE
  MaxTime,    \* bound on the clock
  MaxRows     \* bound on the uplinks stored

ASSUME EndpointAssumption ==
  /\ Checks \subseteq BOOLEAN
  /\ MaxTime \in Nat
  /\ MaxRows \in Nat

VARIABLES
  now,      \* the clock, in seconds
  status,   \* status[d] in table devices, or "none"
  rows,     \* table uplinks
  events,   \* what was broadcast to the dashboards
  pc,       \* pc[t]: the next step of the handler
  req,      \* req[t]: the request
  loc,      \* loc[t]: what the handler has read so far
  code,     \* code[t]: the status code of the answer
  \* history
  was,      \* was[t]: devices when the request came in, uplinks when the
            \* records it shows were read
  active    \* active[t]: devices active at some moment since it came in

tables == <<status, rows>>
vars == <<now, tables, events, pc, req, loc, code, was, active>>

NoDevs == [d \in DeviceIds |-> "none"]

\* at: the last clock reading; listed: the first device list of fleet_rows;
\* devs and health: the snapshot; row: the uplink stored.
NoLocals == [at |-> 0, listed |-> NoDevs, devs |-> NoDevs, health |-> {}, row |-> 0]

\* What set_status accepts for a status; any other text is refused.
Whitelist == Statuses

\* The requests, by the handler that serves them.
Requests ==
  [op : {"uplink"}, device_id : DeviceIds, check : Checks]
    \cup [op : {"register_device", "get_device", "get_device_uplinks",
                "device_detail"}, device_id : DeviceIds]
    \cup [op : {"set_status"}, device_id : DeviceIds, status : Whitelist]
    \cup [op : {"list_devices", "fleet_status", "fleet_summary", "fleet"}]

NoRequest == [op |-> "none"]

\* Routes behind require_admin.
AdminOps == {"fleet_status", "fleet_summary", "fleet", "device_detail",
             "set_status"}

\* Requests with a body to parse.
BodyOps == {"uplink", "register_device"}

\* Requests whose history the properties look at.
Recorded == {"uplink", "fleet", "fleet_status", "fleet_summary"}

\* impl IntoResponse for AppError.
CodeOf(error) ==
  CASE error = "MissingBody"         -> 400
    [] error = "InvalidPayload"      -> 422
    [] error = "DeviceAlreadyExists" -> 409
    [] error = "DeviceNotFound"      -> 404
    [] error = "DeviceNotRegistered" -> 403
    [] error = "Store"               -> 500

Codes == {0, 200, 201, 303, 400, 403, 404, 409, 422, 500}

\* Certificate subjects as parsed: those with a component OU=admin, and others.
Subjects == {"admin", "other"}

\* extract_client_subject: the context of the API gateway goes before the
\* header of the reverse proxy.
ClientSubject(context, proxy) == IF context \in Subjects THEN context ELSE proxy

IsAdminSubject(subject) == subject = "admin"

\* The newest uplink of d, as latest_uplinks and MAX(received_at) have it.
Newest(table, d) ==
  LET own == {r.received_at : r \in {q \in table : q.device_id = d}}
  IN  IF own = {} THEN Never ELSE CHOOSE m \in own : \A x \in own : x <= m

Latest(table) == [d \in DeviceIds |-> Newest(table, d)]

\* The rows of the page: the records of the first list, joined with the
\* health of the snapshot; a device the snapshot lacks has never uplinked.
FleetRows(list, snap) ==
  {LET known == {f \in snap : f.device_id = d} IN
   IF known = {}
   THEN [device_id |-> d, status |-> list[d], last_uplink |-> Never,
         staleness |-> "unknown"]
   ELSE [(CHOOSE f \in known : TRUE) EXCEPT !.status = list[d]] :
     d \in {e \in DeviceIds : list[e] \in Statuses}}

\* Mutant: the buckets count revoked devices too.
SummarizeAll(snap) ==
  LET In(s) == Cardinality({f \in snap : f.staleness = s})
  IN  [total |-> Cardinality(snap),
       active |-> Cardinality({f \in snap : f.status = "active"}),
       inactive |-> Cardinality({f \in snap : f.status # "active"}),
       fresh |-> In("fresh"), stale |-> In("stale"), dark |-> In("dark"),
       never |-> In("unknown")]

\* The counts of GET /fleet/summary.
Summarize(snap) ==
  LET act   == {f \in snap : f.status = "active"}
      In(s) == Cardinality({f \in act : f.staleness = s})
  IN  [total |-> Cardinality(snap), active |-> Cardinality(act),
       inactive |-> Cardinality(snap \ act),
       fresh |-> In("fresh"), stale |-> In("stale"), dark |-> In("dark"),
       never |-> In("unknown")]

-----------------------------------------------------------------------------
Init ==
  /\ now = 0
  /\ status = NoDevs
  /\ rows = {}
  /\ events = {}
  /\ pc = [t \in Threads |-> "idle"]
  /\ req = [t \in Threads |-> NoRequest]
  /\ loc = [t \in Threads |-> NoLocals]
  /\ code = [t \in Threads |-> 0]
  /\ was = [t \in Threads |-> [status |-> NoDevs, rows |-> {}]]
  /\ active = [t \in Threads |-> {}]

Tick ==
  /\ now < MaxTime
  /\ now' = now + 1
  /\ UNCHANGED <<tables, events, pc, req, loc, code, was, active>>

\* Mutant: the event is sent before the uplink is stored.
UplinkStepsEventFirst == <<"event", "send", "clock", "put_uplink">>

\* What an uplink takes: the clock, the store, and the clock again for the event.
UplinkSteps == <<"clock", "put_uplink", "event", "send">>

\* Mutant: the records are fetched after the snapshot.
FleetStepsListLast == <<"clock", "list", "latest", "list_rows">>

\* fleet_rows fetches the records; then snapshot_now reads the clock, lists
\* the devices (again) and reads the latest uplinks.
FleetSteps == <<"list_rows", "clock", "list", "latest">>

\* What the handler of r does, in order.
Steps(r) ==
  CASE r.op = "uplink"          -> IF r.check THEN <<"gate">> \o UplinkSteps ELSE UplinkSteps
    [] r.op = "register_device" -> <<"put_device">>
    [] r.op = "device_detail"   -> <<"get_device", "get_uplinks">>
    [] r.op = "get_device_uplinks" -> <<"get_uplinks">>
    [] r.op = "fleet"           -> FleetSteps
    [] r.op \in {"fleet_status", "fleet_summary"} -> <<"clock", "list", "latest">>
    [] r.op \in {"get_device", "list_devices", "set_status"} -> <<r.op>>

\* A request that came through the gate and whose body parsed.
Arrive(t, r) ==
  /\ pc[t] = "idle"
  /\ \E context, proxy \in Subjects \cup {"none"} :
       r.op \in AdminOps => IsAdminSubject(ClientSubject(context, proxy))
  /\ pc' = [pc EXCEPT ![t] = Head(Steps(r))]
  /\ req' = [req EXCEPT ![t] = r]
  /\ was' = IF r.op \in Recorded THEN [was EXCEPT ![t].status = status] ELSE was
  /\ active' = IF r.op \in Recorded
                THEN [active EXCEPT ![t] = {d \in DeviceIds : status[d] = "active"}]
                ELSE active
  /\ UNCHANGED <<now, tables, events, loc, code>>

\* The handler of t ends with this code.
Answer(t, c) ==
  /\ pc' = [pc EXCEPT ![t] = "done"]
  /\ code' = [code EXCEPT ![t] = c]
  /\ UNCHANGED <<now, req>>

\* The step of t went well: on to the next one, or 200.
Proceed(t) ==
  LET steps == Steps(req[t])
      i     == CHOOSE j \in DOMAIN steps : steps[j] = pc[t]
  IN  \/ /\ i < Len(steps)
         /\ pc' = [pc EXCEPT ![t] = steps[i + 1]]
         /\ UNCHANGED <<now, req, code>>
      \/ i = Len(steps) /\ Answer(t, 200)

\* A request turned away before any call of the store: by the gate or by the
\* form's check of the CSRF token, or because its body does not parse.
Refuse(t, r) ==
  /\ pc[t] = "idle"
  /\ \E c \in Codes :
       /\ \/ c = 403 /\ r.op \in AdminOps \cup {"register_device"}
          \/ c \in {CodeOf("MissingBody"), CodeOf("InvalidPayload")} /\ r.op \in BodyOps
          \/ c = CodeOf("InvalidPayload") /\ r.op = "set_status"
       /\ code' = [code EXCEPT ![t] = c]
  /\ pc' = [pc EXCEPT ![t] = "done"]
  /\ UNCHANGED <<now, tables, events, req, loc, was, active>>

\* now_rfc3339()
ReadClock(t) ==
  /\ pc[t] \in {"clock", "event"}
  /\ loc' = [loc EXCEPT ![t].at = now]
  /\ Proceed(t)
  /\ UNCHANGED <<tables, events, was, active>>

-----------------------------------------------------------------------------
(***************************************************************************)
(* Uplinks.                                                                *)
(***************************************************************************)

\* Mutant: any registered device passes.
GateAnyStatus(t) ==
  /\ pc[t] = "gate"
  /\ IF status[req[t].device_id] # "none" THEN Proceed(t)
                                          ELSE Answer(t, CodeOf("DeviceNotRegistered"))
  /\ UNCHANGED <<tables, events, loc, was, active>>

\* require_registration: the device must exist and be active.
Gate(t) ==
  /\ pc[t] = "gate"
  /\ IF status[req[t].device_id] = "active" THEN Proceed(t)
                                            ELSE Answer(t, CodeOf("DeviceNotRegistered"))
  /\ UNCHANGED <<tables, events, loc, was, active>>

PutUplink(t) ==
  /\ pc[t] = "put_uplink"
  /\ Cardinality(rows) < MaxRows
  /\ LET id == Cardinality(rows) + 1 IN
     /\ rows' = rows \cup {[id |-> id, device_id |-> req[t].device_id,
                            received_at |-> loc[t].at]}
     /\ loc' = [loc EXCEPT ![t].row = id]
  /\ Proceed(t)
  /\ UNCHANGED <<status, events, was, active>>

\* state.events.send(..), whose received_at is a second reading of the clock.
SendEvent(t) ==
  /\ pc[t] = "send"
  /\ events' = events \cup {[id |-> loc[t].row, device_id |-> req[t].device_id,
                             received_at |-> loc[t].at]}
  /\ Proceed(t)
  /\ UNCHANGED <<tables, loc, was, active>>

-----------------------------------------------------------------------------
(***************************************************************************)
(* Devices.                                                                *)
(***************************************************************************)

\* The row of d now says s; requests under way have seen d active if it is.
ChangeStatus(d, s) ==
  /\ status' = [status EXCEPT ![d] = s]
  /\ active' = [t \in Threads |->
                  IF s = "active" /\ req[t].op \in Recorded THEN active[t] \cup {d}
                                                    ELSE active[t]]

PutDevice(t) ==
  /\ pc[t] = "put_device"
  /\ \/ /\ status[req[t].device_id] = "none"
        /\ ChangeStatus(req[t].device_id, "active")
        /\ \E c \in {201, 303} : Answer(t, c)   \* the API's route, the form's
     \/ /\ status[req[t].device_id] # "none"
        /\ Answer(t, CodeOf("DeviceAlreadyExists"))
        /\ UNCHANGED <<status, active>>
  /\ UNCHANGED <<rows, events, loc, was>>

SetStatus(t) ==
  /\ pc[t] = "set_status"
  /\ \/ /\ status[req[t].device_id] # "none"
        /\ ChangeStatus(req[t].device_id, req[t].status)
        /\ Answer(t, 303)
     \/ /\ status[req[t].device_id] = "none"
        /\ Answer(t, CodeOf("DeviceNotFound"))
        /\ UNCHANGED <<status, active>>
  /\ UNCHANGED <<rows, events, loc, was>>

\* handle_get_device, and the start of device_detail.
GetDevice(t) ==
  /\ pc[t] = "get_device"
  /\ IF status[req[t].device_id] # "none" THEN Proceed(t)
                                          ELSE Answer(t, CodeOf("DeviceNotFound"))
  /\ UNCHANGED <<tables, events, loc, was, active>>

\* handle_list_devices, handle_get_device_uplinks and the end of device_detail.
ReadAndAnswer(t) ==
  /\ pc[t] \in {"list_devices", "get_uplinks"}
  /\ Proceed(t)
  /\ UNCHANGED <<tables, events, loc, was, active>>

-----------------------------------------------------------------------------
(***************************************************************************)
(* Fleet health.                                                           *)
(***************************************************************************)

\* fleet_rows: the records of the page.
ListRows(t) ==
  /\ pc[t] = "list_rows"
  /\ loc' = [loc EXCEPT ![t].listed = status]
  /\ was' = [was EXCEPT ![t].rows = rows]
  /\ Proceed(t)
  /\ UNCHANGED <<tables, events, active>>

\* snapshot: the device list ...
ListDevices(t) ==
  /\ pc[t] = "list"
  /\ loc' = [loc EXCEPT ![t].devs = status]
  /\ was' = IF req[t].op = "fleet" THEN was ELSE [was EXCEPT ![t].rows = rows]
  /\ Proceed(t)
  /\ UNCHANGED <<tables, events, active>>

\* ... and the latest uplinks.
LatestUplinks(t) ==
  /\ pc[t] = "latest"
  /\ loc' = [loc EXCEPT ![t] =
       [@ EXCEPT !.health = Snapshot(loc[t].devs, Latest(rows), loc[t].at),
                 !.devs = NoDevs]]
  /\ Proceed(t)
  /\ UNCHANGED <<tables, events, was, active>>

\* A call of the store failed and left the tables alone.
StoreFails(t) ==
  /\ pc[t] \notin {"idle", "done", "clock", "event", "send"}
  /\ Answer(t, CodeOf("Store"))
  /\ UNCHANGED <<tables, events, loc, was, active>>

\* The answer is on its way; the thread is free.
Respond(t) ==
  /\ pc[t] = "done"
  /\ pc' = [pc EXCEPT ![t] = "idle"]
  /\ req' = [req EXCEPT ![t] = NoRequest]
  /\ loc' = [loc EXCEPT ![t] = NoLocals]
  /\ code' = [code EXCEPT ![t] = 0]
  /\ was' = [was EXCEPT ![t] = [status |-> NoDevs, rows |-> {}]]
  /\ active' = [active EXCEPT ![t] = {}]
  /\ UNCHANGED <<now, tables, events>>

Next ==
  \/ Tick
  \/ \E t \in Threads :
       \/ \E r \in Requests : Arrive(t, r) \/ Refuse(t, r)
       \/ ReadClock(t) \/ Gate(t) \/ PutUplink(t) \/ SendEvent(t)
       \/ PutDevice(t) \/ SetStatus(t) \/ GetDevice(t) \/ ReadAndAnswer(t)
       \/ ListRows(t) \/ ListDevices(t) \/ LatestUplinks(t)
       \/ StoreFails(t) \/ Respond(t)

Spec == Init /\ [][Next]_vars

-----------------------------------------------------------------------------
(***************************************************************************)
(* Properties.                                                             *)
(***************************************************************************)

Devs == [DeviceIds -> Statuses \cup {"none"}]

Uplinks == [id : Nat, device_id : DeviceIds, received_at : 0 .. MaxTime]

\* The types of the variables, and that only a finished handler has a code.
TypeOK ==
  /\ now \in 0 .. MaxTime
  /\ status \in Devs
  /\ rows \subseteq Uplinks
  /\ events \subseteq Uplinks
  /\ req \in [Threads -> Requests \cup {NoRequest}]
  /\ code \in [Threads -> Codes]
  /\ active \in [Threads -> SUBSET DeviceIds]
  /\ \A t \in Threads :
       /\ loc[t].at \in 0 .. MaxTime
       /\ loc[t].listed \in Devs /\ loc[t].devs \in Devs
       /\ loc[t].row \in Nat
       /\ was[t].status \in Devs /\ was[t].rows \subseteq rows
       /\ (pc[t] = "done") <=> (code[t] # 0)
       /\ pc[t] = "idle" \/ pc[t] = "done" \/ pc[t] \in Range(Steps(req[t]))

\* What the finished answer of t shows of the fleet.
Shown(t) ==
  IF req[t].op = "fleet" THEN FleetRows(loc[t].listed, loc[t].health)
                         ELSE loc[t].health

Answered(t, ops) == pc[t] = "done" /\ code[t] = 200 /\ req[t].op \in ops

\* The fleet page and GET /fleet leave out no device registered before the
\* request, and no row is older than its record: an uplink that was stored when
\* the record was read shows (fleet_rows and snapshot read the tables three
\* times, unlocked in between).
RowsNoOlder ==
  \A t \in Threads : Answered(t, {"fleet", "fleet_status"}) =>
    /\ \A d \in DeviceIds : was[t].status[d] # "none" =>
         \E f \in Shown(t) : f.device_id = d
    /\ \A f \in Shown(t) :
         LET then == Newest(was[t].rows, f.device_id) IN
         then # Never => f.last_uplink # Never /\ f.last_uplink >= then

\* Behind require_registration an uplink is stored only for a device that was
\* active at some moment of the request: status and insert are two calls.
GateHolds ==
  \A t \in Threads : req[t].op = "uplink" /\ req[t].check =>
    (pc[t] \in Range(UplinkSteps) \/ code[t] = 200 => req[t].device_id \in active[t])

\* An event on the feed is about a row that is stored already, and is stamped
\* no earlier than the row: a dashboard that reloads on an event finds it.
EventAfterRow ==
  \A e \in events : \E r \in rows :
    r.id = e.id /\ r.device_id = e.device_id /\ r.received_at <= e.received_at

\* Each device GET /fleet/summary counts as dark was active at some moment of
\* the request and had no uplink younger than DARK_SECS by its clock reading.
SummaryAlarmsTrue ==
  \A t \in Threads : Answered(t, {"fleet_summary"}) =>
    Summarize(loc[t].health).dark <=
      Cardinality({d \in active[t] :
        \A r \in was[t].rows : r.device_id = d => r.received_at + DARK_SECS <= loc[t].at})

\* The documentation says of revoking a device that "its certificate stops
\* working with it" (docs/index.html): an uplink of a device that was revoked
\* all along is not accepted.  routes.rs passes require_registration = false.
RevokedRefused ==
  \A t \in Threads :
    Answered(t, {"uplink"}) /\ was[t].status[req[t].device_id] = "inactive" =>
      req[t].device_id \in active[t]
=============================================================================
