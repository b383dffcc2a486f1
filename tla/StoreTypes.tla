----------------------------- MODULE StoreTypes -----------------------------
(***************************************************************************)
(* The data the device store keeps and exchanges: the rows of its two      *)
(* tables, the requests its callers make and the replies they get.  A      *)
(* table is a set of rows.  The pair (owner_id, subject_dn) that comes     *)
(* with a registration is one opaque value, and so is an uplink's payload. *)
(* received_at and created_at are instants; that the order of their text   *)
(* is the order of the instants is an assumption of this module.           *)
(***************************************************************************)
EXTENDS Naturals, FiniteSets

CONSTANTS
  Threads,     \* the request threads of the endpoint
  DeviceIds,   \* device identifiers
  Owners,      \* what a registration says of a device (owner_id, subject_dn)
  Payloads,    \* uplink payloads
  Limit,       \* the limit the callers of get_uplinks pass
  MaxTime,     \* bound on the clock
  MaxRows      \* bound on the uplinks accepted

ASSUME StoreAssumption ==
  /\ MaxTime \in Nat
  /\ MaxRows \in Nat
  /\ Limit \in Nat

Times == 0 .. MaxTime

Statuses == {"active", "inactive"}

\* A row of table devices; device_id is its PRIMARY KEY.
DeviceRows ==
  [device_id : DeviceIds, owner : Owners, status : Statuses, created_at : Times]

\* A row of table uplinks; id is the AUTOINCREMENT key.
UplinkRows ==
  [id : Nat, device_id : DeviceIds, received_at : Times, payload : Payloads]

\* What a caller may ask: one kind of request per method of the trait.
Requests ==
  [op : {"put_device"}, row : DeviceRows]
    \cup [op : {"get_device", "get_uplinks"}, device_id : DeviceIds]
    \cup [op : {"list_devices", "latest_uplinks"}]
    \cup [op : {"put_uplink"}, device_id : DeviceIds, received_at : Times,
          payload : Payloads]
    \cup [op : {"set_device_status"}, device_id : DeviceIds, status : Statuses]

NoRequest == [op |-> "none"]

\* The requests the handlers build at clock reading t: registrations and
\* uplinks are stamped by the handler, before the store is called.
RequestsAt(t) ==
  [op : {"put_device"},
   row : [device_id : DeviceIds, owner : Owners, status : {"active"},
          created_at : {t}]]
    \cup [op : {"get_device", "get_uplinks"}, device_id : DeviceIds]
    \cup [op : {"list_devices", "latest_uplinks"}]
    \cup [op : {"put_uplink"}, device_id : DeviceIds, received_at : {t},
          payload : Payloads]
    \cup [op : {"set_device_status"}, device_id : DeviceIds, status : Statuses]

Results == {"none", "Ok", "DeviceAlreadyExists", "DeviceNotFound", "Store"}

Replies == [result : Results, rows : SUBSET (DeviceRows \cup UplinkRows)]

NoReply == [result |-> "none", rows |-> {}]

Ok(rows) == [result |-> "Ok", rows |-> rows]

Err(e) == [result |-> e, rows |-> {}]

-----------------------------------------------------------------------------
(***************************************************************************)
(* The queries, as conditions on the set of rows they return.              *)
(***************************************************************************)

Lookup(devices, d) == {r \in devices : r.device_id = d}

\* The table after UPDATE devices SET status = s WHERE device_id = d.
WithStatus(devices, d, s) ==
  {IF r.device_id = d THEN [r EXCEPT !.status = s] ELSE r : r \in devices}

UplinksOf(uplinks, d) == {r \in uplinks : r.device_id = d}

\* r is a newest row of rows.  Several rows may share the newest instant.
NewestOf(r, rows) ==
  /\ r \in rows
  /\ \A q \in rows : q.received_at <= r.received_at

\* One newest row for each device that has uplinked.
IsLatest(rows, uplinks) ==
  /\ \A r \in rows : NewestOf(r, UplinksOf(uplinks, r.device_id))
  /\ \A q \in uplinks : \E r \in rows : r.device_id = q.device_id
  /\ \A r, q \in rows : r.device_id = q.device_id => r = q

\* The newest rows of device d, at most Limit of them, and fewer than Limit
\* only when there are no more.
IsMostRecent(rows, uplinks, d) ==
  LET own == UplinksOf(uplinks, d) IN
  /\ rows \subseteq own
  /\ \A r \in rows, q \in own \ rows : q.received_at <= r.received_at
  /\ Cardinality(rows) <= Limit
  /\ rows = own \/ Cardinality(rows) = Limit
=============================================================================
