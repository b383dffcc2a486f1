------------------------------ MODULE Watchdog ------------------------------
(***************************************************************************)
(* The staleness watchdog (endpoint/src/watchdog.rs) over a store that     *)
(* request threads keep changing.  A tick reads the clock, then the device *)
(* list, then the latest uplinks, and other threads run in between.  The   *)
(* WARN and "recovered" lines are what the outside sees; they are emitted  *)
(* in the step that reads the uplinks, since what follows it touches no    *)
(* shared state.                                                           *)
(***************************************************************************)
EXTENDS Fleet

CONSTANTS
  INTERVAL,   \* WATCHDOG_INTERVAL_SECS, not 0: with 0 nothing is spawned
  Slack,      \* seconds a tick may be late, and a snapshot may overrun
  MaxTime,    \* bound on the clock
  MaxInflight,\* bound on the uplinks of a device being handled at once
  MaxBadBoots \* bound on the boots that cannot read the store

ASSUME WatchdogAssumption ==
  /\ INTERVAL \in Nat
  /\ 0 < INTERVAL
  /\ Slack \in Nat
  /\ MaxTime \in Nat
  /\ MaxInflight \in Nat
  /\ MaxBadBoots \in Nat

VARIABLES
  now,        \* the clock, in seconds
  status,     \* status[d] in table devices, or "unregistered"
  last,       \* last[d]: newest received_at stored for d, or Never
  inflight,   \* inflight[d]: received_at of uplinks stamped, not yet stored
  pc,         \* what the watchdog task does: "off", "list", "latest", "sleep"
  seeding,    \* this snapshot is the one that seeds known_dark
  deadline,   \* when the ticker fires next
  at,         \* the clock reading the snapshot is taken at
  devs,       \* the device list the snapshot has read
  knownDark,  \* known_dark
  \* history
  warns,      \* warns[d]: "device went dark" lines since last[d] changed
  badBoots,   \* boots whose seeding snapshot failed
  touched,    \* touched[d]: when the tables last changed for d
  steadySince \* when the watchdog last booted or had a snapshot fail

store == <<status, last, inflight, touched>>
task == <<pc, seeding, deadline, at, devs, knownDark>>
vars == <<now, store, task, warns, badBoots, steadySince>>

TypeOK ==
  /\ now \in Nat
  /\ status \in [DeviceIds -> Statuses \cup {"unregistered"}]
  /\ last \in [DeviceIds -> Instants]
  /\ inflight \in [DeviceIds -> SUBSET Nat]
  /\ pc \in {"off", "list", "latest", "sleep"}
  /\ seeding \in BOOLEAN
  /\ deadline \in Nat
  /\ at \in Nat
  /\ devs \in [DeviceIds -> Statuses \cup {"unregistered"}]
  /\ knownDark \subseteq DeviceIds
  /\ warns \in [DeviceIds -> Nat]
  /\ badBoots \in Nat
  /\ touched \in [DeviceIds -> Nat]
  /\ steadySince \in Nat

\* The device list of a snapshot that has not been read.
NoDevs == [d \in DeviceIds |-> "unregistered"]

Init ==
  /\ now = 0
  /\ status = [d \in DeviceIds |-> "unregistered"]
  /\ last = [d \in DeviceIds |-> Never]
  /\ inflight = [d \in DeviceIds |-> {}]
  /\ pc = "off"
  /\ seeding = FALSE
  /\ deadline = 0
  /\ at = 0
  /\ devs = NoDevs
  /\ knownDark = {}
  /\ warns = [d \in DeviceIds |-> 0]
  /\ badBoots = 0
  /\ touched = [d \in DeviceIds |-> 0]
  /\ steadySince = 0

-----------------------------------------------------------------------------
(***************************************************************************)
(* The clock and the request threads.  The tables may change while this    *)
(* process is down: with the DynamoDB backend other instances share them.  *)
(***************************************************************************)

\* The watchdog is at most Slack seconds behind its ticker.
Advance ==
  /\ now < MaxTime
  /\ pc # "off" => now < deadline + Slack
  /\ now' = now + 1
  /\ UNCHANGED <<store, task, warns, badBoots, steadySince>>

Register(d) ==
  /\ status[d] = "unregistered"
  /\ status' = [status EXCEPT ![d] = "active"]
  /\ touched' = [touched EXCEPT ![d] = now]
  /\ UNCHANGED <<now, last, inflight, task, warns, badBoots, steadySince>>

SetStatus(d, s) ==
  /\ status[d] \in Statuses \ {s}
  /\ status' = [status EXCEPT ![d] = s]
  /\ UNCHANGED <<now, last, inflight, touched, task, warns, badBoots,
                 steadySince>>

\* handle_uplink reads the clock ...
StampUplink(d) ==
  /\ Cardinality(inflight[d]) < MaxInflight
  /\ inflight' = [inflight EXCEPT ![d] = @ \cup {now}]
  /\ UNCHANGED <<now, status, last, touched, task, warns, badBoots,
                 steadySince>>

\* ... and stores the row later, perhaps after newer ones.  latest_uplinks
\* reports MAX(received_at).
StoreUplink(d, stamp) ==
  /\ stamp \in inflight[d]
  /\ inflight' = [inflight EXCEPT ![d] = @ \ {stamp}]
  /\ touched' = [touched EXCEPT ![d] = now]
  /\ IF last[d] = Never \/ last[d] < stamp
     THEN /\ last' = [last EXCEPT ![d] = stamp]
          /\ warns' = [warns EXCEPT ![d] = 0]
     ELSE UNCHANGED <<last, warns>>
  /\ UNCHANGED <<now, status, task, badBoots, steadySince>>

-----------------------------------------------------------------------------
(***************************************************************************)
(* The watchdog task.                                                      *)
(***************************************************************************)

\* A snapshot ends, well or not: its locals go out of scope.
EndSnapshot ==
  /\ pc' = "sleep"
  /\ at' = 0
  /\ devs' = NoDevs

\* spawn and the first tick, which fires at once; snapshot_now reads the clock.
Boot ==
  /\ pc = "off"
  /\ pc' = "list"
  /\ seeding' = TRUE
  /\ at' = now
  /\ deadline' = now + INTERVAL
  /\ steadySince' = now
  /\ UNCHANGED <<now, store, devs, knownDark, warns, badBoots>>

\* ticker.tick(); a tick that is late does not move the ones after it.
Wake ==
  /\ pc = "sleep"
  /\ now >= deadline
  /\ pc' = "list"
  /\ at' = now
  /\ deadline' = deadline + INTERVAL
  /\ UNCHANGED <<now, store, seeding, devs, knownDark, warns, badBoots,
                 steadySince>>

\* store.list_devices()
ReadDevices ==
  /\ pc = "list"
  /\ pc' = "latest"
  /\ devs' = status
  /\ UNCHANGED <<now, store, seeding, deadline, at, knownDark, warns, badBoots,
                 steadySince>>

\* store.latest_uplinks(), the join, and what the tick does with the snapshot.
DarkNow == DarkIn(Snapshot(devs, last, at))

\* The seeding snapshot: nothing is reported.
Seed ==
  /\ pc = "latest"
  /\ seeding
  /\ EndSnapshot
  /\ seeding' = FALSE
  /\ knownDark' = DarkNow
  /\ UNCHANGED <<now, store, deadline, warns, badBoots, steadySince>>

\* Mutant: known_dark.extend(dark_now), so that recovery goes unnoticed.
ReportExtends ==
  /\ pc = "latest"
  /\ ~ seeding
  /\ EndSnapshot
  /\ knownDark' = knownDark \cup DarkNow
  /\ warns' = [d \in DeviceIds |->
                 IF d \in DarkNow \ knownDark THEN warns[d] + 1 ELSE warns[d]]
  /\ UNCHANGED <<now, store, seeding, deadline, badBoots, steadySince>>

\* A later snapshot: a WARN for each device in dark_now - known_dark.
Report ==
  /\ pc = "latest"
  /\ ~ seeding
  /\ EndSnapshot
  /\ knownDark' = DarkNow
  /\ warns' = [d \in DeviceIds |->
                 IF d \in DarkNow \ knownDark THEN warns[d] + 1 ELSE warns[d]]
  /\ UNCHANGED <<now, store, seeding, deadline, badBoots, steadySince>>

\* Either read fails while seeding: the loop starts with an empty known_dark.
SeedFails ==
  /\ pc \in {"list", "latest"}
  /\ seeding
  /\ EndSnapshot
  /\ seeding' = FALSE
  /\ knownDark' = {}
  /\ badBoots < MaxBadBoots
  /\ badBoots' = badBoots + 1
  /\ steadySince' = now
  /\ UNCHANGED <<now, store, deadline, warns>>

\* Mutant: a failed snapshot counts as one with no devices.
ReportFailsClears ==
  /\ pc \in {"list", "latest"}
  /\ ~ seeding
  /\ EndSnapshot
  /\ steadySince' = now
  /\ knownDark' = {}
  /\ UNCHANGED <<now, store, seeding, deadline, warns, badBoots>>

\* Either read fails in the loop: the tick is skipped, known_dark is kept.
ReportFails ==
  /\ pc \in {"list", "latest"}
  /\ ~ seeding
  /\ EndSnapshot
  /\ steadySince' = now
  /\ UNCHANGED <<now, store, seeding, deadline, knownDark, warns, badBoots>>

\* The process stops; known_dark and the uplinks not yet stored are lost.
Crash ==
  /\ pc # "off"
  /\ pc' = "off"
  /\ at' = 0
  /\ devs' = NoDevs
  /\ deadline' = 0
  /\ seeding' = FALSE
  /\ knownDark' = {}
  /\ inflight' = [d \in DeviceIds |-> {}]
  /\ UNCHANGED <<now, status, last, touched, warns, badBoots, steadySince>>

Next ==
  \/ Advance
  \/ \E d \in DeviceIds :
       \/ Register(d) \/ StampUplink(d)
       \/ \E s \in Statuses : SetStatus(d, s)
       \/ \E stamp \in inflight[d] : StoreUplink(d, stamp)
  \/ Boot \/ Wake \/ ReadDevices \/ Seed \/ Report
  \/ SeedFails \/ ReportFails \/ Crash

Spec == Init /\ [][Next]_vars

-----------------------------------------------------------------------------
(***************************************************************************)
(* Properties.                                                             *)
(***************************************************************************)

\* d has been silent for DARK_SECS or more, by the tables and the clock.
IsDark(d) == last[d] # Never /\ now - last[d] >= DARK_SECS

\* One silence is reported once.  However ticks, late rows, failed snapshots
\* and restarts interleave, a device draws one "went dark" line between two of
\* its uplinks, and one more at most for each boot that could not seed.
OneWarnPerOutage == \A d \in DeviceIds : warns[d] <= 1 + badBoots

\* A step that warns about d finds d registered and really silent: an uplink
\* stored between the clock reading and the read of the table prevents it.
OnlySilentDevicesWarned ==
  [][\A d \in DeviceIds : warns'[d] > warns[d] =>
       status[d] \in Statuses /\ IsDark(d)]_vars

\* The latest instant at which something happened that a snapshot in progress
\* may have missed, or at which d became dark.
SettledSince(d) ==
  LET crossed == IF IsDark(d) THEN last[d] + DARK_SECS ELSE 0
      times   == {crossed, touched[d], steadySince}
  IN  CHOOSE m \in times : \A x \in times : x <= m

\* Detection is timely.  Once d has been dark (or not dark) for more than two
\* intervals and the slack, with no failed snapshot meanwhile, known_dark says so.
DetectionBound ==
  pc # "off" =>
    \A d \in DeviceIds :
      /\ status[d] \in Statuses
      /\ now - SettledSince(d) > 2 * INTERVAL + Slack
      => (d \in knownDark <=> IsDark(d))
=============================================================================
