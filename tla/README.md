# A verification of Supervictor

Supervictor is an IoT fleet: ESP32 firmware posts uplinks over mutual TLS to an
HTTP endpoint (axum, tokio), which keeps devices and uplinks in SQLite or
DynamoDB, shows them on a dashboard with a live feed, and runs a watchdog that
warns about devices that went silent. This directory holds TLA+ models of the
parts where concurrency, failure and ordering decide whether the system works,
the TLC runs that check them on small instances, and proofs for every instance.

Paths below are relative to `src/supervictor/`.

## 1. Inventory

| Component | State | Operations | Talks to | What is hard | Correct means |
|---|---|---|---|---|---|
| Device store contract, `endpoint/src/store/mod.rs` | tables devices, uplinks | put/get/list device, put/get/latest uplinks, set status | every handler, the watchdog | concurrent callers | each call takes effect at one instant |
| SQLite store, `endpoint/src/store/sqlite.rs` | the file, one mutex | the same | SQLite | stepped SELECTs, dropping and retaking the mutex, crashes | implements the contract; one registration wins; acknowledged uplinks stay |
| DynamoDB store, `endpoint/src/store/dynamo.rs` | two remote tables | the same | AWS | lost answers and repeated writes, lagging reads, paging, keys | one registration wins; the record returned is the one updated; no incomplete item; no answer older than the copies |
| Handlers and routes, `handlers.rs`, `routes.rs`, `error.rs` | none of their own | one handler per route | store, live feed | several store calls in one request | answers agree with the tables |
| Fleet health, `fleet.rs` | none | snapshot, classify, summarise | store | two reads and an older clock | no live device is called dark |
| Watchdog, `watchdog.rs` | `known_dark`, ticker | seed, tick | fleet health, log | late ticks, failed reads, restarts | one WARN an outage, true and in time |
| Live feed, `ui/sse.rs` | broadcast ring, a task and a buffer per client | publish, subscribe, forward | routes, browsers | slow or vanished clients | order, no duplicates, ingest never waits |
| Server lifecycle, `main.rs` | serving or draining | start, signal, exit | all of the above | requests and feeds open at the signal | in-flight requests finish |
| Dashboard and admin gate, `ui/mod.rs`, `views.rs`, `middleware.rs` | a cookie per browser | pages, forms | handlers, store | two tabs, repeated forms | a form is honoured only with its token |
| Timestamps, `time.rs` | none | format, parse | handlers, fleet health | calendar, text order | round trip; text order is time order |
| Firmware tasks, `edge/src/app/tasks.rs` | link, session, backoff | connect WiFi, connect, post, retry | radio, network, endpoint | everything may fail anywhere | reports again; backs off |
| Codecs and portal, `edge/src/network/` | fixed-size buffers | build and parse HTTP and DNS, serve the portal | firmware tasks, browsers | capacity limits | error or the whole message |
| Desktop client, `edge/src/bin/desktop_main.rs` | one connection | connect, post, retry | endpoint | failures | reports again |
| Certificate scripts, `endpoint/scripts/gen_certs.sh` | keys, requests, certificates, bundles on disk | `ca`, `device`, `server`, `admin`, with and without `FORCE=1` | openssl, the operator | a run that stops half-way, and is repeated | what is issued verifies; nothing is replaced unasked; a rerun repairs |
| Start-up, configuration, deployment | files, environment | run once | the operator | a step failing half-way | it starts, or says why not |

Interactions: a request thread calls the store directly and blocks on its mutex;
the uplink route publishes to the feed after the store call returned; the
watchdog and the dashboard read through fleet health with two store calls and no
lock across them; the firmware and the endpoint only share the TLS session.

## 2. Modules

| Module | Models |
|---|---|
| `StoreTypes` | rows, requests, replies and the queries as conditions on row sets |
| `DeviceStore` | the contract of the trait: an abstract specification |
| `SqliteStore`, `MCSqliteStore` | `SqliteDeviceStore`; `Contract` is its refinement mapping to `DeviceStore` |
| `DynamoStore`, `MCDynamoStore` | `DynamoDeviceStore`, with the service and the SDK as the code uses them |
| `Fleet` | classification and snapshot, as operators |
| `Endpoint`, `MCEndpoint` | every route and dashboard handler as a thread over the tables |
| `Watchdog` | the watchdog task and the threads that change the tables under it |
| `LiveFeed` | uplink route, broadcast ring, forwarders, clients, drain |
| `Dashboard` | tabs of one browser, the double-submit token, the script of a page |
| `EdgeDevice` | the firmware's two tasks, the network and the server around them |
| `Rfc3339` | timestamps: format, parse, calendar, order of texts |
| `EdgeHttp` | HTTP and DNS codecs of the firmware, answers of its portal |
| `Codecs`, `MCCodecs` | the two above at work on the inputs around their boundaries |
| `CertIssuance` | `gen_certs.sh`: steps over files, failures, reruns |
| `SqliteStore_proofs`, `DynamoStore_proofs`, `Endpoint_proofs`, `Watchdog_proofs`, `LiveFeed_proofs`, `Dashboard_proofs`, `CertIssuance_proofs` | theorems about the module of that name |
| `Edge_proofs` | theorems about `EdgeDevice`, `Codecs` and `EdgeHttp` |

`Endpoint` and `Watchdog` use `Fleet`; `SqliteStore` and `DynamoStore` use
`StoreTypes`; `SqliteStore` instantiates `DeviceStore`. The `MC` modules add
symmetry sets, or the finite sets of inputs of `Codecs`.

Operators whose comment begins with `Mutant:` are faulty variants of the
definition after them, one for each property: with the variant in place of the
definition the property fails, so the property depends on what the code does
there. No specification uses them. `PROJECT.json` maps each definition to the
source lines it stands for.

### The store

`pc[t]` says where the call of thread `t` stands: `lock` before
`self.conn.lock()`, `stmt` while it holds the guard, `relock` and `reread` for
the second lock at the end of `set_device_status`, `ret` before the handler has
the result. An INSERT or UPDATE is one step, since SQLite runs it in a
transaction of its own. A SELECT is stepped: `Fetch` delivers a row, the last
step finds none left. That other threads cannot interfere is a consequence of
the mutex that the runs and the proof establish, not an assumption. `Crash`
drops all calls and keeps the tables. `won` and `acked` are history: what callers
have been told.

The contract in `DeviceStore` lets `set_device_status` change the table in one
step and read its reply in a later one, which is what `sqlite.rs` does (the
guard is dropped at 162 and taken again) and less than `store/mod.rs` 79
promises, "returning the updated record": the reply may carry another thread's
status.

Abstractions: owner and subject are one opaque value, so are payloads, and
`received_at` is an instant; `Codecs` checks that the order of the texts the
stores sort is the order of the instants. A statement that fails leaves the
tables alone. The mutex is never poisoned, because no code panics while it holds
it.

### The DynamoDB store

Every method is one request, `latest_uplinks` a scan and then a query for each
device found. The service is external: a write takes effect at the leader copy of
a table at one instant (`devices`, `uplinks`), and since no request asks for
consistent reads, a read may be served by a copy that lags (`devices2`,
`uplinks2`, brought up to date by `ReplicateDevice` and `ReplicateUplinks`). The
answer to a write may get lost after the service executed it; the SDK then sends
it again, `MaxAttempts` times in all. A scan answers one page of `PageSize`
devices. `Crash` kills an instance with its calls; threads stand for those of one
or several instances, which share nothing but the tables.

`DynamoStore` does not implement the contract of `DeviceStore`, and no property
says so: a caller whose insert was executed but not answered is told
`DeviceAlreadyExists` by the second attempt, reads may be old, and an answer of
`latest_uplinks` is put together from several reads. What callers may rely on
instead is stated by its own properties. `known` is history for `AnswersNoOlder`:
what the copies held when a call was made. Attempts of reads are not told apart.
An attempt that got no answer has either been executed by then or never will be.
The deployment template grants the function no `dynamodb:UpdateItem`
(`endpoint/template.yaml` 100-104), so `set_device_status` runs only under a
policy that does.

### The handlers

A thread of `Endpoint` serves one request at a time. `Steps` gives the calls of
each handler in order, `pc[t]` the next one: the gate of `require_registration`,
clock readings, calls of the store, the broadcast. A call of the store is one
step, as `DeviceStore` promises a caller; between two calls other requests run.
`fleet_rows` reads the devices, the clock, the devices again and the latest
uplinks, and joins what it got (`FleetRows`). Requests turned away before any
call (the admin gate, the CSRF check of the two forms, a body that is missing or
does not parse, a status that is neither "active" nor "inactive") are `Refuse`; `StoreFails` is a failing call of
the store. `was` and `active` are history: what the tables held when the request came
in, or its records were read, and which devices were active since. The gate and the
insert are two calls, and `GateHolds` asks for no more than a device that was
active at some moment of the request: one that is revoked in between gets in.

### The watchdog

One step per read: `Wake` (and `Boot`) read the clock, `ReadDevices` the device
list, and `Seed` or `Report` the latest uplinks; between them request threads
register, revoke, stamp and store. The log lines and `known_dark` belong to the
last step, since what follows the second read touches nothing shared. `Slack`
bounds how late a tick is and how long a snapshot takes. Uplinks are stamped by
`StampUplink` and stored by `StoreUplink`, in any order. A stopped process
loses `known_dark`; the tables may change while it is down. Here and in `Endpoint` the
clock never steps back, which `SystemTime` does not promise: `EventAfterRow`,
`OneWarnPerOutage` and `DetectionBound` depend on it.

### The live feed

Events are numbered by broadcast. A connection has a forwarder task with a cursor
into the ring and an event in its hand, and a bounded buffer. `Publish` is
`events.send` with the answer to the request: one step, since the code between
the store's return and the send does not await. Channels of tokio are modelled
as `sse.rs` uses them. `strained` records that a client once let its buffer fill
up or its forwarder fell behind the ring.

### The dashboard

Tabs share the cookie `jar`. `net[t]` is the request or the answer of a tab on
its way: it may be overtaken by those of other tabs, and lost. `EnsureCsrf`
reuses the token of the cookie or issues a fresh one, `ServePost` is the check
and the store call of `set_status`; the register form goes through the same
check. `feed[t]` and `errors[t]` are the `EventSource` and the counter of the
script in `views.rs`: the browser retries by itself after a broken connection
(`Breaks`) and not after an answer it refuses (`Refused`), and the third error in
a row starts the timer of the reload. `page[t].settled` is history: the page was
asked for with a cookie and with no other answer to come that would replace it.

### The firmware

`wifi` is the connection task, `pc` the application task, one action for each
outcome of each await. `peer` and `inbox` are the far end as the device sees it:
the endpoint stores a POST (`ServeSession`) or refuses it with a 4xx or a 500
(`RefuseSession`, from `handlers.rs` and `error.rs`), answers in one or more pieces
either way, and closes, because every request says `Connection: close`. `outcome`
is history: the firmware takes any bytes for an answer (`tasks.rs` 166) and does not
look at the status, so an uplink that was refused is lost. The path may break at any moment, and the station may be
dropped. Timers are steps without a length, but the delay is a number: doubled
and capped. Writing may succeed on a session the server has closed already.
`post_request` cannot fail for the one uplink the firmware sends (`UplinkFits` in
`codecs`), so the branch for that is left out.

### Codecs and timestamps

Pure code, written as operators and driven by a small machine, `Codecs`, that
takes one input after another. A message is the sequence of the pieces that are
pushed, each with its length in bytes, so that what fits a buffer, what is
announced and what is missing can be told, and nothing else. Of the Content-Length
of a request the digits are kept (`Decimal`), which `RequestsWhole` reads back and
compares with the body. A timestamp is the
record of its fields with its fraction in groups of three digits; `TextOf` is what
a comparison of two texts looks at, byte by byte, with `YearText` for the year and
the byte behind it: four digits and a hyphen up to 9999, five digits from then on
(and up to the year 99999). A DNS packet is the sequence of
its length bytes. What comes in belongs to one of four sets (`Requests`,
`Responses`, `PortalMessages`, `Queries`), of which a run takes finite parts. They
bound three things: the id of an uplink has 64 bytes or fewer, which JSON escapes to
two each at most (quotes and backslashes; the firmware's id is ten digits), its host
has up to 200, and a file of the portal is below 10 MB.

### Certificates

A file is absent, torn or whole, and a whole one says which key it is, or is
for. `Steps` lists the commands of an issue, `Fail` ends the script in any of
them and leaves the file the command writes as it was, or torn. `Start` is the
operator's run, with or without `FORCE=1`, and contains `refuse_overwrite` and
the checks for the CA. openssl is external; it signs only with the key that
belongs to the CA's certificate.

## 3. Runs

| Run | Configuration | Checks |
|---|---|---|
| `sqlite` | 2 threads, 1 device, 2 uplinks, clock 0..1 | `OneRegistrationWins`, `AckedUplinksKept`, `OnlyStatusChanges`, `ImplementsDeviceStore`, `SomeCallCompletes` |
| `dynamo` | 2 threads, 1 device, 2 uplinks, clock 0..1, 2 attempts | `OneRegistrationWins`, `UpdatedRecordReturned`, `ItemsComplete`, `AckedUplinksKept`, `AnswersNoOlder`, `OnlyStatusChanges` |
| `endpoint` | 2 threads, 1 device, thresholds 1 and 2, clock 0..2, 1 uplink | `RowsNoOlder`, `GateHolds`, `EventAfterRow`, `SummaryAlarmsTrue` |
| `watchdog` | 1 device, thresholds 1 and 5, interval 1, slack 1, clock 0..10, 1 failed boot | `OneWarnPerOutage`, `DetectionBound`, `OnlySilentDevicesWarned` |
| `live_feed` | 1 request, 2 clients, ring 2, buffers 2, 4 events | `SeenInOrder`, `NoUnexplainedGap`, `IngestNeverWedged`, `ForwarderEnds`, `DrainEnds` |
| `dashboard` | 2 tabs, 1 of them with the script, 3 tokens | `SettledFormsHonoured`, `OnlyReactivateActivates`, `RecoversUnlessRefused` |
| `edge` | delays 1 to 6, answers of up to 2 pieces | `BackoffSchedule`, `OnlyFirstPostAnswered`, `KeepsReporting` |
| `codecs` | dates of 1970-73, 2000, 2100 and the turn of the year 10000; fractions of every width; lengths on both sides of every capacity | `RoundTrip`, `CalendarFollows`, `TextInOrder`, `RequestsWhole`, `UplinkFits`, `ParsedWhole`, `PortalAnnouncesWhatItSends`, `DnsQuestionInside` |
| `certs` | a CA, a device, an admin, 4 keys | `IssuedVerifies`, `NoSilentMismatch`, `RerunRepairs` |

What each shows is in `PROJECT.json`, in a sentence, and above each property in
its module. Type invariants are not spent a run on where they are proved for
every instance (section 5).

Why these bounds are enough to see the interesting cases.

- *Stores.* Two threads are what a race on the mutex or the table needs; the
  instant of a registration tells one from another, so one owner is enough; with
  two uplinks and `Limit` 1 the order and the limit of `get_uplinks` matter, with
  two instants both ties and late rows occur. With two attempts the second one
  meets what the first one did. Scans over several devices, which another
  thread's writes could tear, are left to the refinement theorem, which covers
  any number of devices; a scan of two devices that does go wrong is the run
  `dynamo_list`.
- *Handlers.* Two requests of any kind interleave between their store calls. A
  device that is registered, heard from and dark at an instant of 2 needs the
  clock 0..2. With one uplink no row arrives late behind a newer one; that case is
  in the runs of the stores and of the watchdog.
- *Watchdog.* Devices do not interact, so one is enough. `DetectionBound` says
  something of a device that came back only while it stays fresh for longer than
  the bound of 3, hence a dark threshold of 5; eleven instants hold an outage, a
  recovery and a second outage, or an outage across a restart.
- *Live feed.* With four events a forwarder can fall behind a ring of two, or a
  buffer of two can overflow, and events follow that show what came of it; two
  clients differ in pace.
- *Dashboard.* Two tabs are what a race for the cookie needs, three tokens let
  the cookie be replaced twice. One tab runs the script: scripts of different
  tabs share nothing.
- *Firmware.* A cap of 6 is not a power of two times the initial delay, so the
  capped step shows; two pieces leave one behind.
- *Codecs.* The calendar is walked day by day over leap years, a century that is
  one and a century that is not, and past the last day of four-digit years;
  instants with fractions of each width are compared pairwise.
- *Certificates.* Names share the CA and nothing else; the admin is the one with
  a bundle; four keys allow the CA and each name one, and one of them a second.

`MaxTime`, `MaxRows`, `MaxEvents`, `MaxFails`, `MaxInflight`, `MaxBadBoots`,
`MaxTokens`, `MaxKeys`, `MaxAttempts` and `MaxPieces` bound counters and are guards
of the actions that count. TLC checks for deadlock except in `live_feed`, where
the server may exit, `codecs`, which ends with its input, and `certs`, where no
key may be left to generate.

Runs that are expected to find a violation show what the code does where a
comment says otherwise:

| Run | The comment | What happens |
|---|---|---|
| `dynamo_list` | `store/mod.rs` 73: "List all registered devices" | one page of the scan is read; 1 thread, 2 devices and a page of 1 show a device left out |
| `edge_reuse` | `tasks.rs` 84: "one handshake, many POSTs" | each POST asks the server to close, so the second goes to a closed session |
| `endpoint_revoked` | `docs/index.html` 343 (of the repository): "its certificate stops working with it" | `routes.rs` 91 passes `require_registration = false`: an uplink of a revoked device is stored and answered with 200 |

`OnlyFirstPostAnswered` states what the second one means for data: the first POST
of a session is stored or refused, and none after it reaches the endpoint at all.

### Where else code and text part

Met while modelling; the models follow the code.

- `sqlite.rs` 162: the reply of `set_device_status` is read after the guard was
  dropped and taken again (see the store, above). `DynamoStore` returns the
  record it wrote (`UpdatedRecordReturned`).
- `watchdog.rs` 64 looks at staleness only, so a revoked device that goes quiet
  draws a WARN; `fleet.rs` 135 calls that "not an alert". `OnlySilentDevicesWarned`
  therefore says registered, not active.
- `watchdog.rs` 27 seeds `known_dark` "without alerting on devices that were
  already dark at boot"; when that first snapshot fails it starts empty and the
  next tick alerts on them. `OneWarnPerOutage` allows one WARN more for each such
  boot (`badBoots`).
- `tasks.rs` 161: no delay follows a failed write or read, where
  `edge/src/config.rs` 56 says one follows a failure of "DNS, TCP, TLS, HTTP".
- `views.rs` 20-21 says a page falls back to reloading when the feed is held up;
  an `EventSource` that is refused (an answer other than a 200 with an event
  stream) reports one error and never retries, so the count of three is not
  reached. `RecoversUnlessRefused` leaves that case out.
- `time.rs` 21 calls `parse_rfc3339_unix` the inverse of `format_rfc3339`. It is up
  to the end of 9999; then `format_rfc3339` writes a year of five digits, which
  the parser refuses and which sorts before 9999. `RoundTrip` and `TextInOrder`
  say so.
- `desktop_main.rs` passes a body that is JSON already to `post_request`, which
  encodes it again: the endpoint answers 422.
- `gen_certs.sh`: interrupted between `ca.key` and `ca.pem`, a rerun is refused
  since the key exists, while every other mode says "run: qs certs ca". A torn
  `.pem` blocks a rerun in the same way, an admin whose bundle failed needs
  `FORCE=1`, and a forced CA leaves the certificates issued before it unverifiable.
  `RerunRepairs` and `IssuedVerifies` are stated within that.
- The portal reads a request with a single read of at most 512 bytes: a body that
  comes in a later segment is answered with 400. Its feature cannot be built at
  this commit (`TODO.md` 40-43).
- `dns.rs` copies `QDCOUNT` from the query and repeats one question.

## 4. Fairness

- `SqliteStore`: weak fairness of each thread inside the guard and of its
  return, and of *some* thread getting the free mutex. `std::sync::Mutex` is not
  fair to a particular thread, so the property promises that some call completes.
- `LiveFeed`: weak fairness of tasks that are ready, as the runtime polls them,
  and of the exit once nothing is open. Nothing is assumed of clients: they need
  not read or leave. `DrainEnds` therefore allows a server that never exits while
  a browser keeps its feed open.
- `EdgeDevice`: weak fairness of the two tasks; strong fairness of what is tried
  again and again (start, associate, DHCP, DNS, TCP, handshake, the server's
  answer). That the endpoint stores an uplink now and then is an assumption about its
  store; refusals in between are allowed. `KeepsReporting` also assumes `NetworkSettles`: from some moment on
  the path does not break under a session. Without it no device could report.
- `Dashboard`: the server answers, the browser shows answers, goes on connecting
  and runs the timer. Nothing is assumed of the operator. `RecoversUnlessRefused`
  assumes `Calm`: from some moment on nothing is lost and no connection breaks.
- `CertIssuance`: a run goes on until it ends or fails, and an operator whose run
  failed runs it again without `FORCE` (strong fairness of `Start`).
  `RerunRepairs` assumes that steps stop failing and that the CA is in order.
- `Watchdog` needs none: `DetectionBound` is a bound on the clock. `DynamoStore`,
  `Endpoint` and `Codecs` state safety only: a call of a remote service may fail
  for ever, and a handler does nothing but call the store and answer.

## 5. Proofs

All constants are arbitrary, within the named assumptions of the modules
(`StoreAssumption`, `NoThreadAssumption`, `DynamoAssumption`, `FleetAssumption`,
`EndpointAssumption`, `WatchdogAssumption`, `LiveFeedAssumption`,
`DashboardAssumption`, `NonePageAssumption`, `EdgeAssumption`,
`MaxFailsAssumption`, `CertAssumption`, `CodecsAssumption`), which TLC evaluates on
each run. Every proof follows one scheme: an `IInv` that holds initially, that each
action keeps (a lemma for each action, or for what an action does to one thread or
one connection), and from which the property follows. Where a property is about
what was read and not about what may be written, a second invariant (`ReadInv`)
is added to `IInv` instead of making it larger.

*SQLite store.* `IInv` joins the type invariant with: a thread in its critical
section is the holder of the mutex (`Guarded`); the request, reply and cursor fit
the place where the call stands (`CallShape`); the tables have unique keys and
ids no larger than `lastId`; a win, given or about to be given, has its row in
the table; an acknowledgement has its row. None of the properties is inductive
alone: that a second win is impossible needs the row of the first, and that
acknowledged rows are distinct needs the bound on ids. From it follow
`StoreTypeOK`, `StoreOneWinner`, `StoreAckedKept` and, as an action property,
`StoreOnlyStatusChanges`.

*Refinement.* The second half of `SqliteStore_proofs` adds `CursorsSound`: what an
open cursor has delivered still answers its query on the tables as they are. It
is kept because only the holder of the guard writes, and it makes the last step of
a SELECT a legal answer of the contract. `StepSimulation` maps each action to the
action of the contract of the same name, and `Lock` and `Fetch` to stutters;
`StoreImplementsContract` is the theorem `Spec => ImplementsDeviceStore`.

*DynamoDB store.* Without a mutex the argument is in the conditions of the
requests: `WinsStand` (a device whose registration was answered is in the table,
so no later conditional insert succeeds), with `KeysUnique` for the table, and
`AcksStand` (an acknowledgement on its way is about an item of the table, which
only a write of the same key can replace). `CallShape` says what a call keeps at
each point of its way. `DynamoAnswersNoOlder` needs more, in `ReadInv`: a copy never
gets ahead of its leader, so what the copies held when the call was made is
covered by what they hold now (`CopiesBehind`, `KnownHeld`); and the rows a call of
`latest_uplinks` has gathered cover it for every device it has asked about
(`QueriesCover`). Covering is a relation between tables, for each row one that is
as new, and it is transitive: the maxima the property compares appear only in the
last step.

*Handlers.* `Control` and `Data` are the types with what a handler has read at
each step, and that no clock reading is of the future; `ActiveSeen` says a device
that is active now is among those seen active by every recorded request; with it
`EndpointGateHolds` survives a revocation between the gate and the insert.
`RowStored` says a request past its insert has its row, no newer than its clock
reading, from which
`EndpointEventAfterRow` follows. `ReadInv` follows the rows of the fleet page: what
a handler has listed so far holds every device that was registered when its
request came in, and no row of it is older (`Held`, `Listed`, `Finished`). From it
follow `EndpointRowsNoOlder` and `EndpointSummaryAlarms`, the second by counting: each
entry of the snapshot that is dark is a device of its own that was active and had
been silent (an injection, so no cardinality is computed).

*Watchdog.* `WatchdogOneWarn` rests on: a device that was warned about since it
was last heard from, and is beyond the allowance for bad boots, is in
`known_dark` or was dark when the seeding snapshot began; the clock reading of a
snapshot is never ahead of the clock. `WatchdogTruthful` follows from the latter
and from the saturating subtraction in `Age`. `WatchdogDetects` rests on
`TimelyInv`: the last tick was no earlier than an interval before the next one,
which is at most `Slack` overdue; a snapshot lists every device that was
registered before it began; and `known_dark` is right for some reading of the
clock less than one interval (two, while a snapshot is being taken) before the
deadline, for a device that nothing happened to since.

*Live feed.* `LiveFeedSeenInOrder` and `LiveFeedNoGap` rest on one invariant of a
connection: what was seen, what is buffered and what the forwarder holds ascend,
also across the places (`InOrder`); a full buffer or a forwarder behind the ring
is recorded (`Strain`); and without such a record the three places count on from
the start to the cursor (`NoGap`). That the pipeline is their concatenation is
only used at the end. `Counted` (events broadcast plus requests under way do not
exceed those accepted) is what types `sent`.

*Dashboard.* A token in use was issued (`TokensIssued`), and settledness is
followed from request to answer, page and form: while a settled page is on its
way or on display, no answer on its way brings a cookie and the form that is
submitted carries the cookie in the jar.

*Firmware.* `EdgeOnlyFirstPost`: the endpoint is at work only on the first POST of
a session, its end is open only before it has seen one, and what has not been read
yet is from its answer to the first, stored or refused. `EdgeBackoffSchedule` is the closed form of the
delay: after n failures in a row it is the first delay times 2^n, or the cap. Its
invariant (`OnSchedule`) carries one doubling over one step, capped or not.

*Timestamps.* `civil_from_days` is proved right for every day from 1970 on, not
on samples. A day is given its place in the era of 400 years that begins on
1 March: century, four years, year, and day of the year (`Place`). The divisions of
the code recover the year and its day from the place (`YearOfEra`), 153 days for
five months recover the month (`MonthIs`), and the day after is the next of the
month, the first of the next month, or the first of the next year, by cases on the
place (`DateFollows`).
Nothing is proved by induction over the days. `CodecRoundTrip` computes the days of the
date back with the same place, and the clock from its digits.
`CodecTextInOrder` compares two texts at the first field that differs, with the fraction in
its groups of three digits, and the year by what `YearTextIs` says of four digits.
All three hold at every instant of the clock (`ClockAtInstant`), these two as far as
the year has four digits, which they say.

*Messages.* Building a text, counting its bytes and reading a response line by line
are folds, written as recursive functions over the places of one sequence. The two
facts every proof about them needs are that such a function exists (`FoldExists`) and
that what holds of the first place, and of each after one it holds of, holds of all
(`UpTo`, from the smallest place where it fails). From these: one piece more is its
bytes more (`LengthAppend`); `Built` is the whole text if that fits and an error if
not (`BuiltIs`); `Pushed` never exceeds the buffer and is the whole text if that fits
(`PushedIs`). `CodecRequestsWhole` adds that reading back the digits of a
length gives the length (`DecimalRead`), and `CodecUplinkFits` and
`CodecPortalAnnounces` add up the pieces of each message; an error whose body was
cut to its 128 bytes still has room for all of it behind its header.
`CodecDnsQuestionInside` carries where the walk over the labels stands (`WalkedTo`):
at an offset that the labels before it add up to, or at the end of the name.
`CodecParsedWhole` carries what has been made of the lines read so far (`ReadTo`):
where the headers ended (`HeadersEnd`), the last line of each name (`LastOf`), and
the body joined from the lines behind (`Joins`).

*Certificates.* The certificate of a whole pair is for the key beside it, except
while a run is changing them or after a `FORCE` run was interrupted (`KeyMatches`);
what the steps of the run so far have left (`RunInv`) makes that true again when
it ends. `CertIssuedVerifies` also needs that nothing is issued while the CA is
renewed, `CertNoSilentMismatch` that `refuse_overwrite` looks for the key of the CA
and no CA has a certificate without one (`KeyFirst`).

Model-checked only: liveness (`SomeCallCompletes`, `IngestNeverWedged`,
`ForwarderEnds`, `DrainEnds`, `KeepsReporting`, `RecoversUnlessRefused`,
`RerunRepairs`), which the prover cannot treat under fairness. Every invariant and
every other action property that a passing run checks is a theorem.

## 6. Not modelled

- *Desktop client*: one sequential loop with a fixed delay over one connection;
  its messages are those of `EdgeHttp`.
- *Portal*: its routing and every answer are in `EdgeHttp`; the accept loop keeps
  no state between requests.
- *Configuration and store factory, start-up, TLS material*: straight lines that
  read the environment or constants once and go on or stop. The handshake belongs
  to mbedtls and rustls.
- *Wire types, HTML and styles, the deployment and development scripts, and the
  examples under `edge/examples` and `endpoint/examples`*: constants, layout and
  glue around external tools.
- *Station drop*: whether a drop between `sta_state()` and the wait for
  `StaDisconnected` (`tasks.rs` 28) is noticed is decided in esp-radio, which is
  not in the repository. `PROJECT.json` lists it as a hazard without a property.
- *Malformed texts*: what `parse_rfc3339_unix` refuses is refused by form; only
  texts the endpoint writes are enumerated.

## 7. What could come next

The desktop client beside the firmware; a composition of `Watchdog` with
`DynamoStore`'s lagging reads, which `Watchdog` takes from the contract; two devices
in `endpoint`.
