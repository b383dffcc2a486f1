-------------------------- MODULE Endpoint_proofs ---------------------------
(***************************************************************************)
(* Proofs about the request handlers, for every number of threads, devices *)
(* and uplinks.                                                            *)
(***************************************************************************)
EXTENDS Endpoint, FiniteSetTheorems, SequenceTheorems, TLAPS

\* Where the handlers are: a thread is idle, has answered, or is at a step of
\* the request it has; and only an answer has a code.
Control ==
  /\ pc = [t \in Threads |-> pc[t]]
  /\ req \in [Threads -> Requests \cup {NoRequest}]
  /\ code \in [Threads -> Codes]
  /\ \A t \in Threads :
       /\ (pc[t] = "done") <=> (code[t] # 0)
       /\ pc[t] = "idle" \/ pc[t] = "done" \/ pc[t] \in Range(Steps(req[t]))
       /\ pc[t] \notin {"idle", "done"} => req[t] \in Requests
       /\ pc[t] = "idle" => req[t] = NoRequest

\* What a handler may have read at instant n.
MayHold(l, n) ==
  /\ l = [at |-> l.at, listed |-> l.listed, devs |-> l.devs, health |-> l.health,
          row |-> l.row]
  /\ l.at \in 0 .. MaxTime /\ l.at <= n
  /\ l.listed \in Devs /\ l.devs \in Devs
  /\ l.row \in Nat

\* The tables, what the handlers have read of them, and that no handler has a
\* clock reading of the future.
Data ==
  /\ now \in 0 .. MaxTime
  /\ status \in Devs
  /\ rows \subseteq Uplinks /\ IsFiniteSet(rows)
  /\ events \subseteq Uplinks
  /\ active \in [Threads -> SUBSET DeviceIds]
  /\ was \in [Threads -> [status : Devs, rows : SUBSET Uplinks]]
  /\ \A t \in Threads : was[t].rows \subseteq rows
  /\ loc = [t \in Threads |-> loc[t]]
  /\ \A t \in Threads : MayHold(loc[t], now)

\* Devices that are active now were active at some moment of each request.
ActiveSeen ==
  \A t \in Threads : req[t].op \in Recorded =>
    \A d \in DeviceIds : status[d] = "active" => d \in active[t]

\* A handler about to publish has stored its row, and reads no earlier clock.
RowStored ==
  \A t \in Threads : pc[t] \in {"event", "send"} =>
    \E r \in rows : /\ r.id = loc[t].row
                    /\ r.device_id = req[t].device_id
                    /\ r.received_at <= loc[t].at

IInv == Control /\ Data /\ ActiveSeen /\ GateHolds /\ RowStored /\ EventAfterRow

-----------------------------------------------------------------------------
(***************************************************************************)
(* What Proceed does at each step of a handler.                            *)
(***************************************************************************)

\* The names of the steps of an uplink, and of all the other handlers.
UplinkNames == {"gate", "clock", "put_uplink", "event", "send"}

OtherNames ==
  {"put_device", "get_device", "get_uplinks", "list_rows", "clock", "list",
   "latest", "list_devices", "set_status"}

\* An uplink behind the gate takes the gate and then what every uplink takes.
LEMMA GatedSteps ==
  LET q == <<"gate">> \o UplinkSteps IN
  /\ Len(q) = 5 /\ DOMAIN q = 1 .. 5
  /\ q[1] = "gate" /\ q[2] = "clock" /\ q[3] = "put_uplink" /\ q[4] = "event"
  /\ q[5] = "send"
<1> DEFINE g == <<"gate">>
           q == g \o UplinkSteps
<1>1. g \in Seq(UplinkNames) /\ UplinkSteps \in Seq(UplinkNames)
  BY DEF UplinkSteps, UplinkNames
<1>2. Len(g) = 1 /\ Len(UplinkSteps) = 4
  BY DEF UplinkSteps
<1>3. /\ g[1] = "gate" /\ UplinkSteps[1] = "clock" /\ UplinkSteps[2] = "put_uplink"
      /\ UplinkSteps[3] = "event" /\ UplinkSteps[4] = "send"
  BY DEF UplinkSteps
<1> HIDE DEF g
<1>4. /\ q \in Seq(UplinkNames)
      /\ Len(q) = Len(g) + Len(UplinkSteps)
      /\ \A i \in 1 .. Len(g) + Len(UplinkSteps) :
           q[i] = IF i <= Len(g) THEN g[i] ELSE UplinkSteps[i - Len(g)]
  BY <1>1, ConcatProperties, Zenon
<1> HIDE DEF q
<1>5. Len(q) = 5 /\ DOMAIN q = 1 .. 5
  BY <1>2, <1>4
<1>6. \A i \in 1 .. 5 : q[i] = IF i <= 1 THEN g[i] ELSE UplinkSteps[i - 1]
  BY <1>2, <1>4
<1>7. /\ q[1] = "gate" /\ q[2] = "clock" /\ q[3] = "put_uplink" /\ q[4] = "event"
      /\ q[5] = "send"
  BY <1>3, <1>6
<1>8. QED
  BY <1>5, <1>7, Zenon DEF q, g

\* Proceed, once the place of the step among the steps of the handler is known.
LEMMA ProceedsAt ==
  ASSUME NEW t \in Threads, NEW q, NEW k, Steps(req[t]) = q,
         (CHOOSE j \in DOMAIN q : q[j] = pc[t]) = k, Proceed(t)
  PROVE  /\ UNCHANGED <<now, req>>
         /\ \/ k < Len(q) /\ pc' = [pc EXCEPT ![t] = q[k + 1]] /\ code' = code
            \/ /\ k = Len(q)
               /\ pc' = [pc EXCEPT ![t] = "done"]
               /\ code' = [code EXCEPT ![t] = 200]
<1> DEFINE steps == Steps(req[t])
           at == CHOOSE j \in DOMAIN steps : steps[j] = pc[t]
<1>1. at = k
  BY Zenon
<1>2. \/ /\ at < Len(steps)
         /\ pc' = [pc EXCEPT ![t] = steps[at + 1]]
         /\ UNCHANGED <<now, req, code>>
      \/ at = Len(steps) /\ Answer(t, 200)
  BY Zenon DEF Proceed
<1> HIDE DEF at
<1>3. QED
  BY <1>1, <1>2 DEF Answer

\* The steps of an uplink, in order; the last one is answered with 200.
LEMMA UplinkProceeds ==
  ASSUME NEW t \in Threads, req[t] \in Requests, req[t].op = "uplink",
         pc[t] \in Range(Steps(req[t])), Proceed(t)
  PROVE  /\ UNCHANGED <<now, req>>
         /\ pc[t] \in UplinkNames
         /\ pc[t] = "gate" => pc' = [pc EXCEPT ![t] = "clock"]
         /\ pc[t] = "clock" => pc' = [pc EXCEPT ![t] = "put_uplink"]
         /\ pc[t] = "put_uplink" => pc' = [pc EXCEPT ![t] = "event"]
         /\ pc[t] = "event" => pc' = [pc EXCEPT ![t] = "send"]
         /\ pc[t] # "send" => UNCHANGED code
         /\ pc[t] = "send" => /\ pc' = [pc EXCEPT ![t] = "done"]
                              /\ code' = [code EXCEPT ![t] = 200]
<1> PICK q : Steps(req[t]) = q
  OBVIOUS
<1>1. CASE req[t].check
  <2>1. q = <<"gate">> \o UplinkSteps
    BY <1>1 DEF Steps
  <2>2. /\ Len(q) = 5 /\ DOMAIN q = 1 .. 5
        /\ q[1] = "gate" /\ q[2] = "clock" /\ q[3] = "put_uplink"
        /\ q[4] = "event" /\ q[5] = "send"
    BY <2>1, GatedSteps, Zenon
  <2>3. PICK k \in 1 .. 5 : pc[t] = q[k]
    BY <2>2 DEF Range
  <2>4. \A i, j \in 1 .. 5 : q[i] = q[j] => i = j
    BY <2>2
  <2>5. /\ UNCHANGED <<now, req>>
        /\ k < 5 => pc' = [pc EXCEPT ![t] = q[k + 1]] /\ UNCHANGED code
        /\ k = 5 => pc' = [pc EXCEPT ![t] = "done"]
                       /\ code' = [code EXCEPT ![t] = 200]
    <3>1. (CHOOSE j \in DOMAIN q : q[j] = pc[t]) = k
      <4>1. k \in DOMAIN q /\ q[k] = pc[t]
        BY <2>2, <2>3
      <4>2. \A j \in DOMAIN q : q[j] = pc[t] => j = k
        BY <2>2, <2>3, <2>4
      <4>3. QED
        BY <4>1, <4>2
    <3>2. /\ UNCHANGED <<now, req>>
          /\ \/ k < Len(q) /\ pc' = [pc EXCEPT ![t] = q[k + 1]] /\ code' = code
             \/ /\ k = Len(q)
                /\ pc' = [pc EXCEPT ![t] = "done"]
                /\ code' = [code EXCEPT ![t] = 200]
      BY <3>1, ProceedsAt
    <3>3. QED
      BY <2>2, <3>2
  <2>6. QED
    BY <2>2, <2>3, <2>5 DEF UplinkNames
<1>2. CASE ~ req[t].check
  <2>1. q = UplinkSteps
    BY <1>2 DEF Steps
  <2>2. /\ Len(q) = 4 /\ DOMAIN q = 1 .. 4
        /\ q[1] = "clock" /\ q[2] = "put_uplink" /\ q[3] = "event" /\ q[4] = "send"
    BY <2>1 DEF UplinkSteps
  <2>3. PICK k \in 1 .. 4 : pc[t] = q[k]
    BY <2>2 DEF Range
  <2>4. \A i, j \in 1 .. 4 : q[i] = q[j] => i = j
    BY <2>2
  <2>5. /\ UNCHANGED <<now, req>>
        /\ k < 4 => pc' = [pc EXCEPT ![t] = q[k + 1]] /\ UNCHANGED code
        /\ k = 4 => pc' = [pc EXCEPT ![t] = "done"]
                       /\ code' = [code EXCEPT ![t] = 200]
    <3>1. (CHOOSE j \in DOMAIN q : q[j] = pc[t]) = k
      <4>1. k \in DOMAIN q /\ q[k] = pc[t]
        BY <2>2, <2>3
      <4>2. \A j \in DOMAIN q : q[j] = pc[t] => j = k
        BY <2>2, <2>3, <2>4
      <4>3. QED
        BY <4>1, <4>2
    <3>2. /\ UNCHANGED <<now, req>>
          /\ \/ k < Len(q) /\ pc' = [pc EXCEPT ![t] = q[k + 1]] /\ code' = code
             \/ /\ k = Len(q)
                /\ pc' = [pc EXCEPT ![t] = "done"]
                /\ code' = [code EXCEPT ![t] = 200]
      BY <3>1, ProceedsAt
    <3>3. QED
      BY <2>2, <3>2
  <2>6. QED
    BY <2>2, <2>3, <2>5 DEF UplinkNames
<1>3. QED
  BY <1>1, <1>2

\* The steps of every handler form a sequence, of names it does not share with
\* the publishing steps of an uplink unless it is one.  A gated uplink starts
\* at the gate.
LEMMA StepsShape ==
  ASSUME NEW r \in Requests
  PROVE  /\ Len(Steps(r)) \in Nat \ {0}
         /\ DOMAIN Steps(r) = 1 .. Len(Steps(r))
         /\ Range(Steps(r)) \subseteq IF r.op = "uplink" THEN UplinkNames ELSE OtherNames
         /\ r.op = "uplink" => Steps(r)[1] = IF r.check THEN "gate" ELSE "clock"
         /\ "set_status" \in Range(Steps(r)) => r.op = "set_status"
         /\ "put_device" \in Range(Steps(r)) => r.op = "register_device"
         /\ Range(UplinkSteps) = {"clock", "put_uplink", "event", "send"}
<1> PICK q : Steps(r) = q
  OBVIOUS
<1>1. Range(UplinkSteps) = {"clock", "put_uplink", "event", "send"}
  <2>1. /\ DOMAIN UplinkSteps = 1 .. 4
        /\ UplinkSteps[1] = "clock" /\ UplinkSteps[2] = "put_uplink"
        /\ UplinkSteps[3] = "event" /\ UplinkSteps[4] = "send"
    BY DEF UplinkSteps
  <2>2. QED
    BY <2>1 DEF Range
<1>2. CASE r.op = "uplink" /\ r.check
  <2>1. q = <<"gate">> \o UplinkSteps
    BY <1>2 DEF Steps
  <2>2. /\ Len(q) = 5 /\ DOMAIN q = 1 .. 5
        /\ q[1] = "gate" /\ q[2] = "clock" /\ q[3] = "put_uplink"
        /\ q[4] = "event" /\ q[5] = "send"
    BY <2>1, GatedSteps, Zenon
  <2>3. QED
    BY <1>1, <1>2, <2>2 DEF Range, UplinkNames
<1>3. CASE r.op = "uplink" /\ ~ r.check
  <2>1. q = UplinkSteps
    BY <1>3 DEF Steps
  <2>2. /\ Len(q) = 4 /\ DOMAIN q = 1 .. 4
        /\ q[1] = "clock" /\ q[2] = "put_uplink" /\ q[3] = "event" /\ q[4] = "send"
    BY <2>1 DEF UplinkSteps
  <2>3. QED
    BY <1>1, <1>3, <2>2 DEF Range, UplinkNames
<1>4. CASE r.op = "fleet"
  <2>1. q = FleetSteps
    BY <1>4 DEF Steps
  <2>2. /\ Len(q) = 4 /\ DOMAIN q = 1 .. 4
        /\ q[1] = "list_rows" /\ q[2] = "clock" /\ q[3] = "list" /\ q[4] = "latest"
    BY <2>1 DEF FleetSteps
  <2>3. QED
    BY <1>1, <1>4, <2>2 DEF Range, OtherNames
<1>5. CASE r.op \in {"fleet_status", "fleet_summary"}
  <2>1. q = <<"clock", "list", "latest">>
    BY <1>5 DEF Steps
  <2>2. /\ Len(q) = 3 /\ DOMAIN q = 1 .. 3
        /\ q[1] = "clock" /\ q[2] = "list" /\ q[3] = "latest"
    BY <2>1
  <2>3. QED
    BY <1>1, <1>5, <2>2 DEF Range, OtherNames
<1>6. CASE r.op = "device_detail"
  <2>1. q = <<"get_device", "get_uplinks">>
    BY <1>6 DEF Steps
  <2>2. Len(q) = 2 /\ DOMAIN q = 1 .. 2 /\ q[1] = "get_device" /\ q[2] = "get_uplinks"
    BY <2>1
  <2>3. QED
    BY <1>1, <1>6, <2>2 DEF Range, OtherNames
<1>7. CASE r.op \in {"register_device", "get_device_uplinks", "get_device",
                     "list_devices", "set_status"}
  <2>1. PICK n \in OtherNames :
          /\ q = <<n>>
          /\ n = "set_status" => r.op = "set_status"
          /\ n = "put_device" => r.op = "register_device"
    BY <1>7 DEF Steps, OtherNames
  <2>2. Len(q) = 1 /\ DOMAIN q = 1 .. 1 /\ q[1] = n
    BY <2>1
  <2>3. QED
    BY <1>1, <1>7, <2>1, <2>2 DEF Range
<1>8. r.op \in {"uplink", "register_device", "get_device", "get_device_uplinks",
                "device_detail", "set_status", "list_devices", "fleet_status",
                "fleet_summary", "fleet"}
  BY DEF Requests
<1>9. QED
  BY <1>2, <1>3, <1>4, <1>5, <1>6, <1>7, <1>8

\* A step that went well leads to another step of the handler, or to 200.
LEMMA Proceeds ==
  ASSUME NEW t \in Threads, req[t] \in Requests,
         pc[t] \in Range(Steps(req[t])), Proceed(t)
  PROVE  /\ UNCHANGED <<now, req>>
         /\ \/ /\ \E s \in Range(Steps(req[t])) : pc' = [pc EXCEPT ![t] = s]
               /\ UNCHANGED code
            \/ /\ pc' = [pc EXCEPT ![t] = "done"]
               /\ code' = [code EXCEPT ![t] = 200]
<1> PICK q : Steps(req[t]) = q
  OBVIOUS
<1>1. Len(q) \in Nat /\ DOMAIN q = 1 .. Len(q)
  BY StepsShape
<1> DEFINE i == CHOOSE j \in DOMAIN q : q[j] = pc[t]
<1>2. i \in DOMAIN q
  BY DEF Range
<1>3. /\ UNCHANGED <<now, req>>
      /\ \/ i < Len(q) /\ pc' = [pc EXCEPT ![t] = q[i + 1]] /\ code' = code
         \/ /\ i = Len(q)
            /\ pc' = [pc EXCEPT ![t] = "done"]
            /\ code' = [code EXCEPT ![t] = 200]
  BY DEF Proceed, Answer
<1> HIDE DEF i
<1>4. i < Len(q) => i + 1 \in DOMAIN q
  BY <1>1, <1>2
<1>5. QED
  BY <1>3, <1>4 DEF Range

-----------------------------------------------------------------------------
(***************************************************************************)
(* The control of the handlers, and the types of the tables.               *)
(***************************************************************************)

\* Two names no step has.
LEMMA NotSteps ==
  ASSUME NEW r \in Requests
  PROVE  "idle" \notin Range(Steps(r)) /\ "done" \notin Range(Steps(r))
BY StepsShape DEF UplinkNames, OtherNames

\* The codes of the errors.
LEMMA ErrorCodes ==
  /\ CodeOf("MissingBody") = 400 /\ CodeOf("InvalidPayload") = 422
  /\ CodeOf("DeviceAlreadyExists") = 409 /\ CodeOf("DeviceNotFound") = 404
  /\ CodeOf("DeviceNotRegistered") = 403 /\ CodeOf("Store") = 500
BY DEF CodeOf

\* A step of the handler of t that goes on, or ends it with another code than 200.
Moves(t) == Proceed(t) \/ \E c \in Codes \ {0, 200} : Answer(t, c)

\* A step of a handler keeps the control, the clock and the requests.
LEMMA MovesControl ==
  ASSUME NEW t \in Threads, Control, pc[t] \notin {"idle", "done"}, Moves(t)
  PROVE  Control' /\ UNCHANGED <<now, req>>
<1>1. req[t] \in Requests /\ pc[t] \in Range(Steps(req[t]))
  BY DEF Control
<1>2. /\ UNCHANGED <<now, req>>
      /\ \/ /\ \E s \in Range(Steps(req[t])) : pc' = [pc EXCEPT ![t] = s]
            /\ UNCHANGED code
         \/ \E c \in Codes \ {0} : /\ pc' = [pc EXCEPT ![t] = "done"]
                                   /\ code' = [code EXCEPT ![t] = c]
  BY <1>1, Proceeds DEF Moves, Answer, Codes
<1>3. CASE \E s \in Range(Steps(req[t])) : pc' = [pc EXCEPT ![t] = s] /\ UNCHANGED code
  <2>1. PICK s \in Range(Steps(req[t])) : pc' = [pc EXCEPT ![t] = s] /\ UNCHANGED code
    BY <1>3
  <2>2. s # "idle" /\ s # "done"
    BY <1>1, NotSteps
  <2>3. QED
    BY <1>1, <1>2, <2>1, <2>2 DEF Control
<1>4. CASE \E c \in Codes \ {0} : /\ pc' = [pc EXCEPT ![t] = "done"]
                                  /\ code' = [code EXCEPT ![t] = c]
  BY <1>1, <1>2, <1>4 DEF Control
<1>5. QED
  BY <1>2, <1>3, <1>4

\* The first step of a request is one of its steps.
LEMMA FirstStep ==
  ASSUME NEW r \in Requests
  PROVE  /\ Head(Steps(r)) = Steps(r)[1]
         /\ Head(Steps(r)) \in Range(Steps(r))
<1> PICK q : Steps(r) = q
  OBVIOUS
<1>1. 1 \in DOMAIN q
  BY StepsShape
<1>2. Head(q) = q[1]
  OBVIOUS
<1>3. QED
  BY <1>1, <1>2 DEF Range

\* Every step keeps the control of the handlers.
LEMMA ControlStep == Control /\ [Next]_vars => Control'
<1> SUFFICES ASSUME Control, [Next]_vars PROVE Control'
  OBVIOUS
<1>1. CASE Tick \/ UNCHANGED vars
  BY <1>1 DEF Tick, vars, Control
<1>2. ASSUME NEW t \in Threads, NEW r \in Requests, Arrive(t, r) PROVE Control'
  <2>1. /\ Head(Steps(r)) \in Range(Steps(r))
        /\ Head(Steps(r)) # "idle" /\ Head(Steps(r)) # "done"
    BY FirstStep, NotSteps
  <2>2. /\ pc[t] = "idle" /\ pc' = [pc EXCEPT ![t] = Head(Steps(r))]
        /\ req' = [req EXCEPT ![t] = r] /\ code' = code
    BY <1>2 DEF Arrive
  <2>3. QED
    BY <2>1, <2>2 DEF Control
<1>3. ASSUME NEW t \in Threads, NEW r \in Requests, Refuse(t, r) PROVE Control'
  <2>1. PICK c \in Codes :
          /\ \/ c = 403
             \/ c \in {CodeOf("MissingBody"), CodeOf("InvalidPayload")}
             \/ c = CodeOf("InvalidPayload")
          /\ code' = [code EXCEPT ![t] = c]
    BY <1>3, Zenon DEF Refuse
  <2>2. pc' = [pc EXCEPT ![t] = "done"] /\ req' = req
    BY <1>3 DEF Refuse
  <2>3. c # 0
    BY <2>1, ErrorCodes
  <2>4. QED
    BY <2>1, <2>2, <2>3 DEF Control
<1>4. ASSUME NEW t \in Threads, Respond(t) PROVE Control'
  BY <1>4 DEF Respond, Control, Codes
<1>5. ASSUME NEW t \in Threads,
             \/ ReadClock(t) \/ Gate(t) \/ PutUplink(t) \/ SendEvent(t)
             \/ PutDevice(t) \/ SetStatus(t) \/ GetDevice(t) \/ ReadAndAnswer(t)
             \/ ListRows(t) \/ ListDevices(t) \/ LatestUplinks(t) \/ StoreFails(t)
      PROVE  Control'
  <2>1. pc[t] \notin {"idle", "done"}
    BY <1>5 DEF ReadClock, Gate, PutUplink, SendEvent, PutDevice, SetStatus, GetDevice,
       ReadAndAnswer, ListRows, ListDevices, LatestUplinks, StoreFails
  <2>2. Moves(t)
    BY <1>5, ErrorCodes DEF Moves, ReadClock, Gate, PutUplink, SendEvent, PutDevice, SetStatus,
         GetDevice, ReadAndAnswer, ListRows, ListDevices, LatestUplinks, StoreFails,
         Codes
  <2>3. QED
    BY <2>1, <2>2, MovesControl
<1>6. QED
  BY <1>1, <1>2, <1>3, <1>4, <1>5 DEF Next

\* The device a request names, at the steps that use it.
LEMMA NamedDevice ==
  ASSUME NEW t \in Threads, Control,
         pc[t] \in {"gate", "put_uplink", "event", "send", "put_device", "set_status"}
  PROVE  /\ req[t] \in Requests
         /\ req[t].device_id \in DeviceIds
         /\ pc[t] \in {"gate", "put_uplink", "event", "send"} => req[t].op = "uplink"
         /\ pc[t] = "set_status" => req[t].status \in Statuses
<1>1. req[t] \in Requests /\ pc[t] \in Range(Steps(req[t]))
  BY DEF Control
<1>2. /\ pc[t] \in {"gate", "put_uplink", "event", "send"} => req[t].op = "uplink"
      /\ pc[t] = "put_device" => req[t].op = "register_device"
      /\ pc[t] = "set_status" => req[t].op = "set_status"
  BY <1>1, StepsShape DEF OtherNames
<1>3. QED
  BY <1>1, <1>2 DEF Requests, Whitelist

\* A step of a handler leaves the clock and its request alone.
LEMMA MovesQuiet ==
  ASSUME NEW t \in Threads, Control, pc[t] \notin {"idle", "done"}, Moves(t)
  PROVE  UNCHANGED <<now, req>>
BY MovesControl

\* A changed status is one, and the devices seen active are devices.
LEMMA ChangeTyped ==
  ASSUME NEW d \in DeviceIds, NEW s \in Statuses, Data, ChangeStatus(d, s)
  PROVE  status' \in Devs /\ active' \in [Threads -> SUBSET DeviceIds]
<1>1. status' \in Devs
  BY DEF ChangeStatus, Data, Devs
<1>2. active' \in [Threads -> SUBSET DeviceIds]
  BY DEF ChangeStatus, Data
<1>3. QED
  BY <1>1, <1>2

\* The reader's record is the only one to change.
LEMMA LocChange ==
  ASSUME NEW t \in Threads, NEW l, Data, now' = now, MayHold(l, now),
         loc' = [loc EXCEPT ![t] = l]
  PROVE  loc' = [u \in Threads |-> loc'[u]] /\ \A u \in Threads : MayHold(loc'[u], now')
BY DEF Data

\* Every step keeps the types of the tables and of what was read.
LEMMA DataStep == Control /\ Data /\ [Next]_vars => Data'
<1> SUFFICES ASSUME Control, Data, [Next]_vars PROVE Data'
  OBVIOUS
<1> USE EndpointAssumption DEF tables
<1>0. \A n \in 0 .. MaxTime : NoDevs \in Devs /\ MayHold(NoLocals, n)
  BY DEF MayHold, NoLocals, NoDevs, Devs
<1>1. CASE Tick \/ UNCHANGED vars
  BY <1>1 DEF Tick, vars, Data, MayHold
<1>2. ASSUME NEW t \in Threads, NEW r \in Requests, Arrive(t, r) PROVE Data'
  BY <1>2 DEF Arrive, Data
<1>3. ASSUME NEW t \in Threads, NEW r \in Requests, Refuse(t, r) PROVE Data'
  BY <1>3 DEF Refuse, Data
<1>4. ASSUME NEW t \in Threads, ReadClock(t) PROVE Data'
  <2>1. now' = now
    BY <1>4, MovesQuiet DEF ReadClock, Moves
  <2> DEFINE l == [loc[t] EXCEPT !.at = now]
  <2>2. MayHold(l, now)
    BY DEF Data, MayHold
  <2>3. loc' = [loc EXCEPT ![t] = l] /\ UNCHANGED <<tables, events, was, active>>
    BY <1>4 DEF ReadClock
  <2> HIDE DEF l
  <2>4. QED
    BY <2>1, <2>2, <2>3, LocChange DEF Data
<1>5. ASSUME NEW t \in Threads,
             Gate(t) \/ GetDevice(t) \/ ReadAndAnswer(t) \/ StoreFails(t)
      PROVE  Data'
  <2>1. UNCHANGED <<now, tables, events, loc, was, active>>
    BY <1>5, Zenon DEF Gate, GetDevice, ReadAndAnswer, StoreFails, Proceed, Answer
  <2>2. QED
    BY <2>1 DEF Data
<1>6. ASSUME NEW t \in Threads, PutUplink(t) PROVE Data'
  <2>1. now' = now
    BY <1>6, MovesQuiet DEF PutUplink, Moves
  <2> DEFINE id == Cardinality(rows) + 1
             l == [loc[t] EXCEPT !.row = id]
  <2>2. id \in Nat
    BY FS_CardinalityType DEF Data
  <2>3. rows' = rows \cup {[id |-> id, device_id |-> req[t].device_id,
                            received_at |-> loc[t].at]}
    BY <1>6 DEF PutUplink
  <2>4. loc' = [loc EXCEPT ![t] = l] /\ UNCHANGED <<status, events, was, active>>
    BY <1>6 DEF PutUplink
  <2> HIDE DEF id
  <2>5. MayHold(l, now)
    BY <2>2 DEF Data, MayHold
  <2> HIDE DEF l
  <2>6. [id |-> id, device_id |-> req[t].device_id, received_at |-> loc[t].at] \in Uplinks
    BY <1>6, <2>2, NamedDevice DEF PutUplink, Uplinks, Data, MayHold
  <2>7. rows' \subseteq Uplinks /\ IsFiniteSet(rows') /\ rows \subseteq rows'
    BY <2>3, <2>6, FS_AddElement DEF Data
  <2>8. QED
    BY <2>1, <2>4, <2>5, <2>7, LocChange DEF Data
<1>7. ASSUME NEW t \in Threads, SendEvent(t) PROVE Data'
  <2>1. now' = now
    BY <1>7, MovesQuiet DEF SendEvent, Moves
  <2>2. events' \subseteq Uplinks
    BY <1>7, NamedDevice DEF SendEvent, Uplinks, Data, MayHold
  <2>3. QED
    BY <1>7, <2>1, <2>2 DEF SendEvent, Data
<1>8. ASSUME NEW t \in Threads, PutDevice(t) PROVE Data'
  <2>1. now' = now
    BY <1>8 DEF PutDevice, Answer
  <2>2. status' \in Devs /\ active' \in [Threads -> SUBSET DeviceIds]
    BY <1>8, NamedDevice, ChangeTyped DEF PutDevice, Statuses, Data
  <2>3. QED
    BY <1>8, <2>1, <2>2 DEF PutDevice, Data
<1>9. ASSUME NEW t \in Threads, SetStatus(t) PROVE Data'
  <2>1. now' = now
    BY <1>9 DEF SetStatus, Answer
  <2>2. status' \in Devs /\ active' \in [Threads -> SUBSET DeviceIds]
    BY <1>9, NamedDevice, ChangeTyped DEF SetStatus, Data
  <2>3. QED
    BY <1>9, <2>1, <2>2 DEF SetStatus, Data
<1>10. ASSUME NEW t \in Threads, ListRows(t) PROVE Data'
  <2>1. now' = now
    BY <1>10, MovesQuiet DEF ListRows, Moves
  <2> DEFINE l == [loc[t] EXCEPT !.listed = status]
  <2>2. MayHold(l, now)
    BY DEF Data, MayHold
  <2>3. loc' = [loc EXCEPT ![t] = l] /\ UNCHANGED <<tables, events, active>>
    BY <1>10 DEF ListRows
  <2>4. /\ was' \in [Threads -> [status : Devs, rows : SUBSET Uplinks]]
        /\ \A u \in Threads : was'[u].rows \subseteq rows
    BY <1>10 DEF ListRows, Data
  <2> HIDE DEF l
  <2>5. QED
    BY <2>1, <2>2, <2>3, <2>4, LocChange DEF Data
<1>11. ASSUME NEW t \in Threads, ListDevices(t) PROVE Data'
  <2>1. now' = now
    BY <1>11, MovesQuiet DEF ListDevices, Moves
  <2> DEFINE l == [loc[t] EXCEPT !.devs = status]
  <2>2. MayHold(l, now)
    BY DEF Data, MayHold
  <2>3. loc' = [loc EXCEPT ![t] = l] /\ UNCHANGED <<tables, events, active>>
    BY <1>11 DEF ListDevices
  <2>4. /\ was' \in [Threads -> [status : Devs, rows : SUBSET Uplinks]]
        /\ \A u \in Threads : was'[u].rows \subseteq rows
    BY <1>11 DEF ListDevices, Data
  <2> HIDE DEF l
  <2>5. QED
    BY <2>1, <2>2, <2>3, <2>4, LocChange DEF Data
<1>12. ASSUME NEW t \in Threads, LatestUplinks(t) PROVE Data'
  <2>1. now' = now
    BY <1>12, MovesQuiet DEF LatestUplinks, Moves
  <2> DEFINE h == Snapshot(loc[t].devs, Latest(rows), loc[t].at)
             m == [loc[t] EXCEPT !.health = h]
             l == [m EXCEPT !.devs = NoDevs]
  <2>2. loc' = [loc EXCEPT ![t] = l]
    BY <1>12 DEF LatestUplinks, Data
  <2> HIDE DEF h
  <2>3. MayHold(l, now)
    <3>1. MayHold(m, now)
      BY DEF Data, MayHold
    <3> HIDE DEF m
    <3>2. NoDevs \in Devs
      BY DEF NoDevs, Devs
    <3>3. QED
      BY <3>1, <3>2 DEF MayHold
  <2>4. UNCHANGED <<tables, events, was, active>>
    BY <1>12 DEF LatestUplinks
  <2> HIDE DEF l
  <2>5. QED
    BY <2>1, <2>2, <2>3, <2>4, LocChange DEF Data
<1>13. ASSUME NEW t \in Threads, Respond(t) PROVE Data'
  <2>1. MayHold(NoLocals, now) /\ NoDevs \in Devs
    BY <1>0 DEF Data
  <2>2. QED
    BY <1>13, <2>1, LocChange DEF Respond, Data
<1>14. QED
  BY <1>1, <1>2, <1>3, <1>4, <1>5, <1>6, <1>7, <1>8, <1>9, <1>10, <1>11, <1>12,
     <1>13 DEF Next

-----------------------------------------------------------------------------
(***************************************************************************)
(* The registration gate.                                                  *)
(***************************************************************************)

\* The actions of a handler at work move it along its steps.
Works(t) ==
  \/ ReadClock(t) \/ Gate(t) \/ PutUplink(t) \/ SendEvent(t)
  \/ PutDevice(t) \/ SetStatus(t) \/ GetDevice(t) \/ ReadAndAnswer(t)
  \/ ListRows(t) \/ ListDevices(t) \/ LatestUplinks(t) \/ StoreFails(t)

\* Each action of a handler at work is such a step.
LEMMA WorksMoves ==
  ASSUME NEW t \in Threads, Works(t)
  PROVE  pc[t] \notin {"idle", "done"} /\ Moves(t)
<1>1. pc[t] \notin {"idle", "done"}
  BY DEF Works, ReadClock, Gate, PutUplink, SendEvent, PutDevice, SetStatus, GetDevice,
     ReadAndAnswer, ListRows, ListDevices, LatestUplinks, StoreFails
<1>2. Moves(t)
  BY ErrorCodes DEF Works, Moves, ReadClock, Gate, PutUplink, SendEvent, PutDevice,
     SetStatus, GetDevice, ReadAndAnswer, ListRows, ListDevices, LatestUplinks,
     StoreFails, Codes
<1>3. QED
  BY <1>1, <1>2

\* Where a handler at work goes: no other thread moves, only an uplink in its
\* last step answers 200 among the gated ones, and only the step before leads
\* to a publishing step.
LEMMA WorksControl ==
  ASSUME NEW t \in Threads, Control, Works(t)
  PROVE  /\ UNCHANGED <<now, req>>
         /\ \A u \in Threads \ {t} : pc'[u] = pc[u] /\ code'[u] = code[u]
         /\ req[t].op = "uplink" =>
              /\ code'[t] = 200 => pc[t] = "send"
              /\ pc'[t] \in Range(UplinkSteps) =>
                   pc[t] \in Range(UplinkSteps) \/ (pc[t] = "gate" /\ Proceed(t))
         /\ pc'[t] \in {"event", "send"} => /\ pc[t] \in {"put_uplink", "event"}
                                            /\ req[t].op = "uplink"
<1>1. /\ pc[t] \notin {"idle", "done"} /\ Moves(t)
      /\ req[t] \in Requests /\ pc[t] \in Range(Steps(req[t])) /\ code[t] = 0
      /\ code \in [Threads -> Codes]
      /\ pc = [v \in Threads |-> pc[v]]
  BY WorksMoves DEF Control
<1>2. CASE \E c \in Codes \ {0, 200} : Answer(t, c)
  <2>1. "done" \notin {"event", "send", "clock", "put_uplink"}
    OBVIOUS
  <2>2. "done" \notin Range(UplinkSteps)
    BY StepsShape, <1>1
  <2>3. QED
    BY <1>1, <1>2, <2>2 DEF Answer
<1>3. CASE Proceed(t) /\ req[t].op = "uplink"
  <2>1. Range(UplinkSteps) = {"clock", "put_uplink", "event", "send"}
    BY StepsShape, <1>1
  <2>2. QED
    BY <1>1, <1>3, <2>1, UplinkProceeds DEF UplinkNames
<1>4. CASE Proceed(t) /\ req[t].op # "uplink"
  <2>1. Range(Steps(req[t])) \subseteq OtherNames
    BY <1>1, <1>4, StepsShape
  <2>2. QED
    BY <1>1, <1>4, <2>1, Proceeds DEF OtherNames
<1>5. QED
  BY <1>1, <1>2, <1>3, <1>4 DEF Moves

\* The devices seen active only grow while a handler works.
LEMMA WorksActive ==
  ASSUME NEW t \in Threads, Data, Works(t)
  PROVE  \A u \in Threads : active[u] \subseteq active'[u]
BY DEF Works, ReadClock, Gate, PutUplink, SendEvent, PutDevice, SetStatus, GetDevice,
   ReadAndAnswer, ListRows, ListDevices, LatestUplinks, StoreFails, ChangeStatus, Data

\* The disjuncts of the next-state relation, by what they do to a handler.
LEMMA Disjuncts ==
  ASSUME [Next]_vars
  PROVE  \/ Tick \/ UNCHANGED vars
         \/ \E t \in Threads : \/ \E r \in Requests : Arrive(t, r) \/ Refuse(t, r)
                               \/ Respond(t) \/ Works(t)
BY DEF Next, Works

\* No request misses that a device is active.
LEMMA ActiveStep == Control /\ Data /\ ActiveSeen /\ [Next]_vars => ActiveSeen'
<1> SUFFICES ASSUME Control, Data, ActiveSeen, [Next]_vars PROVE ActiveSeen'
  OBVIOUS
<1>1. CASE Tick \/ UNCHANGED vars
  BY <1>1 DEF Tick, tables, vars, ActiveSeen
<1>2. ASSUME NEW t \in Threads, NEW r \in Requests, Arrive(t, r) PROVE ActiveSeen'
  BY <1>2 DEF Arrive, tables, ActiveSeen, Control, Data
<1>3. ASSUME NEW t \in Threads, NEW r \in Requests, Refuse(t, r) PROVE ActiveSeen'
  BY <1>3 DEF Refuse, tables, ActiveSeen
<1>4. ASSUME NEW t \in Threads, Respond(t) PROVE ActiveSeen'
  BY <1>4 DEF Respond, tables, ActiveSeen, Control, Data, NoRequest, Recorded
<1>5. ASSUME NEW t \in Threads, NEW d \in DeviceIds, NEW s \in Statuses,
             ChangeStatus(d, s), req' = req
      PROVE  ActiveSeen'
  BY <1>5 DEF ChangeStatus, ActiveSeen, Data, Devs
<1>6. ASSUME NEW t \in Threads, Works(t) PROVE ActiveSeen'
  <2>1. req' = req
    BY <1>6, WorksControl
  <2>2. \/ UNCHANGED <<status, active>>
        \/ \E d \in DeviceIds, s \in Statuses : ChangeStatus(d, s)
    <3>1. CASE PutDevice(t)
      BY <3>1, NamedDevice DEF PutDevice, Statuses
    <3>2. CASE SetStatus(t)
      BY <3>2, NamedDevice DEF SetStatus
    <3>3. CASE ~ PutDevice(t) /\ ~ SetStatus(t)
      BY <1>6, <3>3 DEF Works, ReadClock, Gate, PutUplink, SendEvent, GetDevice,
         ReadAndAnswer, ListRows, ListDevices, LatestUplinks, StoreFails, tables
    <3>4. QED
      BY <3>1, <3>2, <3>3
  <2>3. CASE UNCHANGED <<status, active>>
    BY <2>1, <2>3 DEF ActiveSeen
  <2>4. QED
    BY <2>1, <2>2, <2>3, <1>5
<1>7. QED
  BY <1>1, <1>2, <1>3, <1>4, <1>6, Disjuncts

\* Only the gate lets an uplink through to its steps, and only on an active
\* device.
LEMMA GateStep ==
  Control /\ Data /\ ActiveSeen /\ GateHolds /\ [Next]_vars => GateHolds'
<1> SUFFICES ASSUME Control, Data, ActiveSeen, GateHolds, [Next]_vars PROVE GateHolds'
  OBVIOUS
<1>1. CASE Tick \/ UNCHANGED vars
  BY <1>1 DEF Tick, vars, GateHolds
<1>2. ASSUME NEW t \in Threads, NEW r \in Requests, Arrive(t, r) PROVE GateHolds'
  <2>1. /\ pc' = [pc EXCEPT ![t] = Head(Steps(r))] /\ req' = [req EXCEPT ![t] = r]
        /\ code' = code /\ pc[t] = "idle"
        /\ \A u \in Threads \ {t} : active'[u] = active[u]
    BY <1>2 DEF Arrive, Data
  <2>2. code[t] = 0
    BY <2>1 DEF Control, Codes
  <2>3. r.op = "uplink" /\ r.check => Head(Steps(r)) \notin Range(UplinkSteps)
    BY FirstStep, StepsShape
  <2>4. QED
    BY <2>1, <2>2, <2>3 DEF GateHolds, Control
<1>3. ASSUME NEW t \in Threads, NEW r \in Requests, Refuse(t, r) PROVE GateHolds'
  <2>1. /\ pc[t] = "idle" /\ req' = req /\ active' = active
        /\ pc' = [pc EXCEPT ![t] = "done"]
        /\ \A u \in Threads \ {t} : code'[u] = code[u]
    BY <1>3, Zenon DEF Refuse, Control
  <2>2. req[t] = NoRequest
    BY <2>1 DEF Control
  <2>3. QED
    BY <2>1, <2>2 DEF GateHolds, Control, NoRequest
<1>4. ASSUME NEW t \in Threads, Respond(t) PROVE GateHolds'
  BY <1>4 DEF Respond, GateHolds, Control, Data, NoRequest
<1>5. ASSUME NEW t \in Threads, Works(t) PROVE GateHolds'
  <2>1. SUFFICES ASSUME req[t].op = "uplink", req[t].check,
                        pc'[t] \in Range(UplinkSteps) \/ code'[t] = 200
                 PROVE  req[t].device_id \in active'[t]
    BY <1>5, WorksControl, WorksActive DEF GateHolds
  <2>2. CASE pc[t] \in Range(UplinkSteps)
    BY <1>5, <2>1, <2>2, WorksActive DEF GateHolds
  <2>3. CASE pc[t] = "gate" /\ Proceed(t) /\ pc'[t] \in Range(UplinkSteps)
    <3>1. Gate(t) \/ StoreFails(t)
      BY <1>5, <2>3 DEF Works, ReadClock, PutUplink, SendEvent, PutDevice, SetStatus,
         GetDevice, ReadAndAnswer, ListRows, ListDevices, LatestUplinks
    <3>2. pc'[t] # "done"
      BY <2>3, NotSteps, StepsShape DEF Control
    <3>3. ~ \E c : Answer(t, c)
      BY <3>2 DEF Answer, Control
    <3>4. status[req[t].device_id] = "active"
      BY <3>1, <3>3 DEF Gate, StoreFails
    <3>5. req[t].device_id \in DeviceIds
      BY <2>3, NamedDevice
    <3>6. req[t].device_id \in active[t]
      BY <2>1, <3>4, <3>5 DEF ActiveSeen, Recorded
    <3>7. QED
      BY <1>5, <3>6, WorksActive
  <2>4. pc[t] = "send" => pc[t] \in Range(UplinkSteps)
    BY <1>5, WorksMoves, StepsShape DEF Control
  <2>5. QED
    BY <1>5, <2>1, <2>2, <2>3, <2>4, WorksControl
<1>6. QED
  BY <1>1, <1>2, <1>3, <1>4, <1>5, Disjuncts

-----------------------------------------------------------------------------
(***************************************************************************)
(* Events follow their rows.                                               *)
(***************************************************************************)

\* Rows are never removed or changed.
LEMMA RowsStay == [Next]_vars => rows \subseteq rows'
<1> SUFFICES ASSUME [Next]_vars PROVE rows \subseteq rows'
  OBVIOUS
<1>1. CASE Tick \/ UNCHANGED vars
  BY <1>1 DEF Tick, tables, vars
<1>2. ASSUME NEW t \in Threads, NEW r \in Requests, Arrive(t, r) \/ Refuse(t, r)
      PROVE  rows \subseteq rows'
  BY <1>2 DEF Arrive, Refuse, tables
<1>3. ASSUME NEW t \in Threads, Respond(t) PROVE rows \subseteq rows'
  BY <1>3 DEF Respond, tables
<1>4. ASSUME NEW t \in Threads, Works(t) PROVE rows \subseteq rows'
  <2>1. PutUplink(t) => rows \subseteq rows'
    BY DEF PutUplink
  <2>2. ~ PutUplink(t) => rows' = rows
    BY <1>4, Zenon DEF Works, tables, ReadClock, Gate, SendEvent, PutDevice, SetStatus,
       GetDevice, ReadAndAnswer, ListRows, ListDevices, LatestUplinks, StoreFails
  <2>3. QED
    BY <2>1, <2>2
<1>5. QED
  BY <1>1, <1>2, <1>3, <1>4, Disjuncts

\* The row is in the table before the event is made.
LEMMA RowStep == Control /\ Data /\ RowStored /\ [Next]_vars => RowStored'
<1> SUFFICES ASSUME Control, Data, RowStored, [Next]_vars PROVE RowStored'
  OBVIOUS
<1>0. rows \subseteq rows'
  BY RowsStay
<1>1. CASE Tick \/ UNCHANGED vars
  BY <1>1 DEF Tick, tables, vars, RowStored
<1>2. ASSUME NEW t \in Threads, NEW r \in Requests, Arrive(t, r) PROVE RowStored'
  <2>1. /\ pc' = [pc EXCEPT ![t] = Head(Steps(r))] /\ req' = [req EXCEPT ![t] = r]
        /\ loc' = loc /\ rows' = rows
    BY <1>2 DEF Arrive, tables
  <2>2. Head(Steps(r)) \notin {"event", "send"}
    BY FirstStep, StepsShape DEF OtherNames
  <2>3. QED
    BY <2>1, <2>2 DEF RowStored, Control
<1>3. ASSUME NEW t \in Threads, NEW r \in Requests, Refuse(t, r) PROVE RowStored'
  BY <1>3 DEF Refuse, RowStored, Control, tables
<1>4. ASSUME NEW t \in Threads, Respond(t) PROVE RowStored'
  BY <1>4 DEF Respond, RowStored, Control, Data, tables
<1>5. ASSUME NEW t \in Threads, Works(t) PROVE RowStored'
  <2>1. \A u \in Threads \ {t} : loc'[u] = loc[u]
    BY <1>5 DEF Works, ReadClock, Gate, PutUplink, SendEvent, PutDevice, SetStatus,
       GetDevice, ReadAndAnswer, ListRows, ListDevices, LatestUplinks, StoreFails, Data
  <2>2. SUFFICES ASSUME pc'[t] \in {"event", "send"}
                 PROVE  \E r \in rows' : /\ r.id = loc'[t].row
                                         /\ r.device_id = req'[t].device_id
                                         /\ r.received_at <= loc'[t].at
    BY <1>0, <1>5, <2>1, WorksControl DEF RowStored
  <2>3. pc[t] \in {"put_uplink", "event"} /\ req' = req
    BY <1>5, <2>2, WorksControl
  <2>4. MayHold(loc[t], now) /\ loc = [u \in Threads |-> loc[u]]
    BY DEF Data
  <2>5. CASE PutUplink(t)
    <3> DEFINE r == [id |-> Cardinality(rows) + 1, device_id |-> req[t].device_id,
                     received_at |-> loc[t].at]
    <3>1. r \in rows'
      BY <2>5 DEF PutUplink
    <3>2. loc'[t] = [loc[t] EXCEPT !.row = Cardinality(rows) + 1]
      BY <2>4, <2>5 DEF PutUplink
    <3>3. loc'[t].row = Cardinality(rows) + 1 /\ loc'[t].at = loc[t].at
      BY <2>4, <3>2 DEF MayHold
    <3>4. loc[t].at <= loc[t].at
      BY <2>4, EndpointAssumption DEF MayHold
    <3>5. QED
      BY <2>3, <3>1, <3>3, <3>4
  <2>6. CASE ReadClock(t) /\ pc[t] = "event"
    <3>1. loc'[t].at = now /\ loc'[t].row = loc[t].row
      BY <2>4, <2>6 DEF ReadClock, MayHold
    <3>2. PICK r \in rows : /\ r.id = loc[t].row /\ r.device_id = req[t].device_id
                            /\ r.received_at <= loc[t].at
      BY <2>6 DEF RowStored
    <3>3. r.received_at <= now
      BY <2>4, <3>2, EndpointAssumption DEF MayHold, Data, Uplinks
    <3>4. QED
      BY <1>0, <2>3, <3>1, <3>2, <3>3
  <2>7. CASE StoreFails(t)
    BY <2>2, <2>7 DEF StoreFails, Answer, Control
  <2>8. QED
    BY <1>5, <2>3, <2>5, <2>6, <2>7 DEF Works, ReadClock, Gate, SendEvent, PutDevice,
       SetStatus, GetDevice, ReadAndAnswer, ListRows, ListDevices, LatestUplinks
<1>6. QED
  BY <1>1, <1>2, <1>3, <1>4, <1>5, Disjuncts

\* An event is sent only by a handler that stored its row.
LEMMA EventStep == RowStored /\ EventAfterRow /\ [Next]_vars => EventAfterRow'
<1> SUFFICES ASSUME RowStored, EventAfterRow, [Next]_vars PROVE EventAfterRow'
  OBVIOUS
<1>1. rows \subseteq rows'
  BY RowsStay
<1>2. CASE \E t \in Threads : SendEvent(t)
  <2>1. PICK t \in Threads : SendEvent(t)
    BY <1>2
  <2>2. /\ pc[t] = "send" /\ rows' = rows
        /\ events' = events \cup {[id |-> loc[t].row, device_id |-> req[t].device_id,
                                   received_at |-> loc[t].at]}
    BY <2>1 DEF SendEvent, tables
  <2>3. QED
    BY <2>2 DEF RowStored, EventAfterRow
<1>3. CASE ~ \E t \in Threads : SendEvent(t)
  <2>1. events' = events
    <3>1. CASE Tick \/ UNCHANGED vars
      BY <3>1 DEF Tick, vars
    <3>2. ASSUME NEW t \in Threads, NEW r \in Requests, Arrive(t, r) \/ Refuse(t, r)
          PROVE  events' = events
      BY <3>2 DEF Arrive, Refuse
    <3>3. ASSUME NEW t \in Threads, Respond(t) PROVE events' = events
      BY <3>3 DEF Respond
    <3>4. ASSUME NEW t \in Threads, Works(t) PROVE events' = events
      BY <1>3, <3>4, Zenon DEF Works, ReadClock, Gate, PutUplink, PutDevice, SetStatus,
         GetDevice, ReadAndAnswer, ListRows, ListDevices, LatestUplinks, StoreFails
    <3>5. QED
      BY <3>1, <3>2, <3>3, <3>4, Disjuncts
  <2>2. QED
    BY <1>1, <2>1 DEF EventAfterRow
<1>4. QED
  BY <1>2, <1>3

-----------------------------------------------------------------------------
(***************************************************************************)
(* The newest uplink of a device.                                          *)
(***************************************************************************)

\* A set of numbers below a bound has a greatest one, unless it is empty.
LEMMA BoundedMax ==
  ASSUME NEW n \in Nat, NEW S, S \subseteq 0 .. n, S # {}
  PROVE  \E m \in S : \A x \in S : x <= m
<1> DEFINE gaps == {n - x : x \in S}
<1>1. gaps \subseteq Nat /\ gaps # {} /\ \A x \in S : n - x \in gaps
  <2>1. \A x \in S : n - x \in Nat /\ n - x \in gaps
    <3>1. \A x \in 0 .. n : n - x \in Nat
      OBVIOUS
    <3>2. QED
      BY <3>1
  <2>2. \A g \in gaps : \E x \in S : g = n - x
    OBVIOUS
  <2> HIDE DEF gaps
  <2>3. QED
    BY <2>1, <2>2
<1> DEFINE less == OpToRel(<, Nat)
<1>2. IsWellFoundedOn(less, Nat)
  BY NatLessThanWellFounded
<1> HIDE DEF less
<1>3. PICK g \in gaps : \A h \in gaps : ~ (<<h, g>> \in less)
  BY <1>1, <1>2, WFMin
<1>4. \A h \in gaps : ~ (h < g)
  BY <1>1, <1>3 DEF less, OpToRel
<1>5. PICK m \in S : g = n - m
  BY <1>3
<1> HIDE DEF gaps
<1>6. ASSUME NEW x \in S PROVE x <= m
  <2>1. x \in 0 .. n /\ m \in 0 .. n /\ ~ (n - x < n - m)
    BY <1>1, <1>4, <1>5
  <2>2. QED
    BY <2>1
<1>7. QED
  BY <1>6

\* The newest uplink of a device: none, or one that no other is newer than.
LEMMA NewestIs ==
  ASSUME NEW d, NEW table, table \subseteq Uplinks
  PROVE  /\ \/ Newest(table, d) = Never
            \/ /\ Newest(table, d) \in 0 .. MaxTime
               /\ \E r \in table : r.device_id = d /\ r.received_at = Newest(table, d)
         /\ \A r \in table : r.device_id = d =>
              Newest(table, d) # Never /\ r.received_at <= Newest(table, d)
<1> DEFINE own == {r.received_at : r \in {q \in table : q.device_id = d}}
<1>1. Newest(table, d) =
        IF own = {} THEN Never ELSE CHOOSE m \in own : \A x \in own : x <= m
  BY DEF Newest
<1>2. own \subseteq 0 .. MaxTime
  BY DEF Uplinks
<1>3. \A m \in own : \E r \in table : r.device_id = d /\ r.received_at = m
  OBVIOUS
<1>4. \A r \in table : r.device_id = d => r.received_at \in own
  OBVIOUS
<1> HIDE DEF own
<1>5. ASSUME own # {}
      PROVE  Newest(table, d) \in own /\ \A x \in own : x <= Newest(table, d)
  <2>1. \E m \in own : \A x \in own : x <= m
    BY <1>2, <1>5, BoundedMax, EndpointAssumption
  <2>2. QED
    BY <1>1, <1>5, <2>1
<1>6. \A n \in 0 .. MaxTime : n # Never
  BY EndpointAssumption, FleetAssumption
<1>7. QED
  BY <1>1, <1>2, <1>3, <1>4, <1>5, <1>6

-----------------------------------------------------------------------------
(***************************************************************************)
(* What the handlers of fleet health have read.                            *)
(***************************************************************************)

Fleets == {"fleet", "fleet_status", "fleet_summary"}

\* The devices that statuses s has a row for.
Registered(s) == {d \in DeviceIds : s[d] # "none"}

\* The devices of a snapshot.
Ids(snap) == {f.device_id : f \in snap}

Health == [device_id : DeviceIds, status : Statuses, last_uplink : Instants,
           staleness : Staleness]

\* A device, once registered, stays, and there are finitely many: so every
\* device a request has seen is registered still.
Held ==
  /\ IsFiniteSet(Registered(status))
  /\ \A t \in Threads : /\ active[t] \subseteq Registered(status)
                        /\ Registered(was[t].status) \subseteq Registered(status)

\* What a handler has of the device list at each of its steps, the records of
\* the fleet page first and then the devices of the snapshot.
Listed(t) ==
  /\ req[t].op = "fleet" =>
       /\ pc[t] \in {"clock", "list"} =>
            /\ Registered(was[t].status) \subseteq Registered(loc[t].listed)
            /\ Registered(loc[t].listed) \subseteq Registered(status)
       /\ pc[t] = "latest" =>
            /\ Registered(was[t].status) \subseteq Registered(loc[t].listed)
            /\ Registered(loc[t].listed) \subseteq Registered(loc[t].devs)
  /\ req[t].op \in Fleets /\ pc[t] = "latest" =>
       /\ Registered(was[t].status) \subseteq Registered(loc[t].devs)
       /\ \A d \in DeviceIds : loc[t].devs[d] = "active" => d \in active[t]

\* What the snapshot of a finished answer says of each device.
HealthTrue(t) ==
  /\ loc[t].health \subseteq Health
  /\ \A f, g \in loc[t].health : f.device_id = g.device_id => f = g
  /\ \A f \in loc[t].health :
       /\ f.status = "active" => f.device_id \in active[t]
       /\ f.staleness = "dark" =>
            f.last_uplink # Never /\ f.last_uplink + DARK_SECS <= loc[t].at
       /\ \A r \in was[t].rows : r.device_id = f.device_id =>
            f.last_uplink # Never /\ r.received_at <= f.last_uplink

\* What a finished answer of the fleet handlers is made of.
Finished(t) ==
  Answered(t, Fleets) =>
    /\ HealthTrue(t)
    /\ Registered(was[t].status) \subseteq Ids(loc[t].health)
    /\ req[t].op = "fleet" =>
         /\ Registered(was[t].status) \subseteq Registered(loc[t].listed)
         /\ Registered(loc[t].listed) \subseteq Ids(loc[t].health)

\* What has been read, beside the invariant of the control and the data.
ReadInv == Held /\ \A t \in Threads : Listed(t) /\ Finished(t)

-----------------------------------------------------------------------------
(***************************************************************************)
(* The handlers of fleet health, step by step.                             *)
(***************************************************************************)

\* The steps of the fleet page and of the two fleet requests of the API.
LEMMA FleetShape ==
  ASSUME NEW r \in Requests, r.op \in Fleets
  PROVE  \E q : /\ Steps(r) = q
                /\ \/ /\ r.op = "fleet" /\ Len(q) = 4 /\ DOMAIN q = 1 .. 4
                      /\ q[1] = "list_rows" /\ q[2] = "clock" /\ q[3] = "list"
                      /\ q[4] = "latest"
                   \/ /\ r.op # "fleet" /\ Len(q) = 3 /\ DOMAIN q = 1 .. 3
                      /\ q[1] = "clock" /\ q[2] = "list" /\ q[3] = "latest"
<1>1. CASE r.op = "fleet"
  <2>1. Steps(r) = FleetSteps
    BY <1>1 DEF Steps
  <2>2. QED
    BY <1>1, <2>1 DEF FleetSteps
<1>2. CASE r.op \in {"fleet_status", "fleet_summary"}
  <2>1. Steps(r) = <<"clock", "list", "latest">>
    BY <1>2 DEF Steps
  <2>2. QED
    BY <1>2, <2>1
<1>3. QED
  BY <1>1, <1>2 DEF Fleets

\* A fleet handler reads the records first if it is the page, then the clock,
\* then the devices, then the latest uplinks, and only then answers 200.
LEMMA FleetProceeds ==
  ASSUME NEW t \in Threads, req[t] \in Requests, req[t].op \in Fleets,
         pc[t] \in Range(Steps(req[t]))
  PROVE  /\ pc[t] \in {"list_rows", "clock", "list", "latest"}
         /\ pc[t] = "list_rows" => req[t].op = "fleet"
         /\ Proceed(t) =>
              /\ UNCHANGED <<now, req>>
              /\ pc[t] = "list_rows" => pc' = [pc EXCEPT ![t] = "clock"]
              /\ pc[t] = "clock" => pc' = [pc EXCEPT ![t] = "list"]
              /\ pc[t] = "list" => pc' = [pc EXCEPT ![t] = "latest"]
              /\ pc[t] # "latest" => UNCHANGED code
              /\ pc[t] = "latest" => /\ pc' = [pc EXCEPT ![t] = "done"]
                                     /\ code' = [code EXCEPT ![t] = 200]
<1>1. PICK q : /\ Steps(req[t]) = q
               /\ \/ /\ req[t].op = "fleet" /\ Len(q) = 4 /\ DOMAIN q = 1 .. 4
                     /\ q[1] = "list_rows" /\ q[2] = "clock" /\ q[3] = "list"
                     /\ q[4] = "latest"
                  \/ /\ req[t].op # "fleet" /\ Len(q) = 3 /\ DOMAIN q = 1 .. 3
                     /\ q[1] = "clock" /\ q[2] = "list" /\ q[3] = "latest"
  BY FleetShape
<1>2. PICK k \in DOMAIN q : pc[t] = q[k]
  BY <1>1 DEF Range
<1>3. \A i, j \in DOMAIN q : q[i] = q[j] => i = j
  BY <1>1
<1>4. (CHOOSE j \in DOMAIN q : q[j] = pc[t]) = k
  BY <1>2, <1>3
<1>5. Proceed(t) =>
        /\ UNCHANGED <<now, req>>
        /\ \/ k < Len(q) /\ pc' = [pc EXCEPT ![t] = q[k + 1]] /\ code' = code
           \/ /\ k = Len(q)
              /\ pc' = [pc EXCEPT ![t] = "done"]
              /\ code' = [code EXCEPT ![t] = 200]
  BY <1>1, <1>4, ProceedsAt
<1>6. CASE req[t].op = "fleet"
  <2>1. /\ Len(q) = 4 /\ q[1] = "list_rows" /\ q[2] = "clock" /\ q[3] = "list"
        /\ q[4] = "latest" /\ k \in 1 .. 4
    BY <1>1, <1>2, <1>6
  <2>2. k = 1 \/ k = 2 \/ k = 3 \/ k = 4
    BY <2>1
  <2>3. QED
    BY <1>2, <1>5, <1>6, <2>1, <2>2
<1>7. CASE req[t].op # "fleet"
  <2>1. /\ Len(q) = 3 /\ q[1] = "clock" /\ q[2] = "list" /\ q[3] = "latest"
        /\ k \in 1 .. 3
    BY <1>1, <1>2, <1>7
  <2>2. k = 1 \/ k = 2 \/ k = 3
    BY <2>1
  <2>3. QED
    BY <1>2, <1>5, <1>7, <2>1, <2>2
<1>8. QED
  BY <1>6, <1>7

\* The row of one device written: it is registered, and no other row is touched.
LEMMA ChangeRegisters ==
  ASSUME NEW d \in DeviceIds, NEW s \in Statuses, Control, Data, ChangeStatus(d, s)
  PROVE  /\ Registered(status') = Registered(status) \cup {d}
         /\ \A t \in Threads : active[t] \subseteq active'[t]
                               /\ active'[t] \subseteq active[t] \cup {d}
<1>1. status' = [status EXCEPT ![d] = s] /\ status \in Devs /\ s # "none"
  BY DEF ChangeStatus, Data, Statuses
<1>2. \A e \in DeviceIds : status'[e] = IF e = d THEN s ELSE status[e]
  BY <1>1 DEF Devs
<1>3. Registered(status') = Registered(status) \cup {d}
  BY <1>1, <1>2 DEF Registered
<1>4. \A t \in Threads : active[t] \subseteq active'[t]
                         /\ active'[t] \subseteq active[t] \cup {d}
  BY DEF ChangeStatus, Data
<1>5. QED
  BY <1>3, <1>4

\* A handler at work writes the row of one device or none, and records the
\* uplinks that were there when it reads the records it will show.
LEMMA WorksHistory ==
  ASSUME NEW t \in Threads, Control, Data, Works(t)
  PROVE  /\ \/ UNCHANGED <<status, active>>
            \/ \E d \in DeviceIds, s \in Statuses : ChangeStatus(d, s)
         /\ \A u \in Threads : was'[u].status = was[u].status
         /\ \A u \in Threads \ {t} : was'[u] = was[u] /\ loc'[u] = loc[u]
<1>1. CASE PutDevice(t)
  BY <1>1, NamedDevice DEF PutDevice, Statuses
<1>2. CASE SetStatus(t)
  BY <1>2, NamedDevice DEF SetStatus
<1>3. CASE ListRows(t)
  BY <1>3 DEF ListRows, tables, Data
<1>4. CASE ListDevices(t)
  BY <1>4 DEF ListDevices, tables, Data
<1>5. CASE ReadClock(t) \/ Gate(t) \/ PutUplink(t) \/ SendEvent(t) \/ GetDevice(t)
           \/ ReadAndAnswer(t) \/ LatestUplinks(t) \/ StoreFails(t)
  BY <1>5 DEF ReadClock, Gate, PutUplink, SendEvent, GetDevice, ReadAndAnswer,
     LatestUplinks, StoreFails, tables, Data
<1>6. QED
  BY <1>1, <1>2, <1>3, <1>4, <1>5 DEF Works

\* Devices are never dropped, so what a request has seen of them still holds.
LEMMA HeldStep ==
  Control /\ Data /\ Held /\ [Next]_vars =>
    Held' /\ Registered(status) \subseteq Registered(status')
<1> SUFFICES ASSUME Control, Data, Held, [Next]_vars
             PROVE  Held' /\ Registered(status) \subseteq Registered(status')
  OBVIOUS
<1>1. CASE Tick \/ UNCHANGED vars
  BY <1>1 DEF Tick, tables, vars, Held
<1>2. ASSUME NEW t \in Threads, NEW r \in Requests, Arrive(t, r)
      PROVE  Held' /\ Registered(status) \subseteq Registered(status')
  <2>1. /\ status' = status
        /\ was' = IF r.op \in Recorded THEN [was EXCEPT ![t].status = status] ELSE was
        /\ active' = IF r.op \in Recorded
                THEN [active EXCEPT ![t] = {d \in DeviceIds : status[d] = "active"}]
                ELSE active
    BY <1>2 DEF Arrive, tables
  <2>2. {d \in DeviceIds : status[d] = "active"} \subseteq Registered(status)
    BY DEF Registered
  <2>3. \A u \in Threads : active'[u] \subseteq Registered(status)
    BY <2>1, <2>2 DEF Held, Data
  <2>4. \A u \in Threads : was'[u].status \in {was[u].status, status}
    BY <2>1 DEF Data
  <2>5. \A u \in Threads : Registered(was'[u].status) \subseteq Registered(status)
    BY <2>4 DEF Held
  <2>6. QED
    BY <2>1, <2>3, <2>5 DEF Held
<1>3. ASSUME NEW t \in Threads, NEW r \in Requests, Refuse(t, r)
      PROVE  Held' /\ Registered(status) \subseteq Registered(status')
  BY <1>3 DEF Refuse, tables, Held
<1>4. ASSUME NEW t \in Threads, Respond(t)
      PROVE  Held' /\ Registered(status) \subseteq Registered(status')
  <2>1. /\ status' = status
        /\ was' = [was EXCEPT ![t] = [status |-> NoDevs, rows |-> {}]]
        /\ active' = [active EXCEPT ![t] = {}]
    BY <1>4 DEF Respond, tables
  <2>2. Registered(NoDevs) = {}
    BY DEF Registered, NoDevs
  <2>3. \A u \in Threads : was'[u].status \in {was[u].status, NoDevs}
    BY <2>1 DEF Data
  <2>4. \A u \in Threads : Registered(was'[u].status) \subseteq Registered(status)
    BY <2>2, <2>3 DEF Held
  <2>5. \A u \in Threads : active'[u] \subseteq Registered(status)
    BY <2>1 DEF Held, Data
  <2>6. QED
    BY <2>1, <2>4, <2>5 DEF Held
<1>5. ASSUME NEW t \in Threads, Works(t)
      PROVE  Held' /\ Registered(status) \subseteq Registered(status')
  <2>1. \A u \in Threads : Registered(was'[u].status) = Registered(was[u].status)
    BY <1>5, WorksHistory
  <2>2. CASE UNCHANGED <<status, active>>
    BY <2>1, <2>2 DEF Held
  <2>3. ASSUME NEW d \in DeviceIds, NEW s \in Statuses, ChangeStatus(d, s)
        PROVE  Held' /\ Registered(status) \subseteq Registered(status')
    <3>1. Registered(status') = Registered(status) \cup {d}
      BY <2>3, ChangeRegisters
    <3>2. \A u \in Threads : active'[u] \subseteq active[u] \cup {d}
      BY <2>3, ChangeRegisters
    <3>3. IsFiniteSet(Registered(status'))
      BY <3>1, FS_AddElement DEF Held
    <3>4. QED
      BY <2>1, <3>1, <3>2, <3>3 DEF Held
  <2>4. QED
    BY <1>5, <2>2, <2>3, WorksHistory
<1>6. QED
  BY <1>1, <1>2, <1>3, <1>4, <1>5, Disjuncts

-----------------------------------------------------------------------------
(***************************************************************************)
(* What a snapshot says.                                                   *)
(***************************************************************************)

\* A device is called dark only if its last uplink is DARK_SECS old.
LEMMA DarkIs ==
  ASSUME NEW at \in Nat, NEW last \in Nat \cup {Never}
  PROVE  /\ StalenessOf(last, at) \in Staleness
         /\ StalenessOf(last, at) = "dark" => last # Never /\ last + DARK_SECS <= at
<1>1. CASE last = Never
  <2>1. StalenessOf(last, at) = "unknown"
    BY <1>1 DEF StalenessOf
  <2>2. QED
    BY <2>1 DEF Staleness
<1>2. CASE last # Never
  <2> DEFINE age == Age(last, at)
  <2>1. last \in Nat /\ age \in Nat
    BY <1>2 DEF Age
  <2>2. age >= DARK_SECS => last + DARK_SECS <= at
    BY <2>1, FleetAssumption DEF Age
  <2>3. \/ age < FRESH_SECS \/ (age >= FRESH_SECS /\ age < DARK_SECS)
        \/ age >= DARK_SECS
    BY <2>1, FleetAssumption
  <2> HIDE DEF age
  <2>4. /\ StalenessOf(last, at) \in Staleness
        /\ StalenessOf(last, at) = "dark" => age >= DARK_SECS
    BY <1>2, <2>1, <2>3, FleetAssumption DEF StalenessOf, Staleness, age
  <2>5. QED
    BY <1>2, <2>2, <2>4
<1>3. QED
  BY <1>1, <1>2

\* The snapshot has one entry for each registered device, with its status, its
\* newest uplink, and its staleness at the instant given.
LEMMA SnapshotIs ==
  ASSUME NEW devs \in Devs, NEW at \in 0 .. MaxTime, NEW table, table \subseteq Uplinks,
         NEW snap, snap = Snapshot(devs, Latest(table), at)
  PROVE  /\ snap \subseteq Health
         /\ Ids(snap) = Registered(devs)
         /\ \A f, g \in snap : f.device_id = g.device_id => f = g
         /\ \A f \in snap :
              /\ f.status = devs[f.device_id]
              /\ f.staleness = "dark" =>
                   f.last_uplink # Never /\ f.last_uplink + DARK_SECS <= at
              /\ \A r \in table : r.device_id = f.device_id =>
                   f.last_uplink # Never /\ r.received_at <= f.last_uplink
<1> DEFINE last(d) == Newest(table, d)
           entry(d) == [device_id |-> d, status |-> devs[d], last_uplink |-> last(d),
                        staleness |-> StalenessOf(last(d), at)]
<1>1. at \in Nat
  BY EndpointAssumption
<1>2. Registered(devs) = {e \in DeviceIds : devs[e] \in Statuses}
  BY DEF Registered, Devs, Statuses
<1>3. snap = {entry(d) : d \in Registered(devs)}
  BY <1>2 DEF Snapshot, Latest
<1>4. ASSUME NEW d \in DeviceIds PROVE last(d) \in Nat \cup {Never}
  BY NewestIs, EndpointAssumption
<1>5. \A f \in snap : \E d \in Registered(devs) : f = entry(d)
  BY <1>3
<1>6. \A d \in Registered(devs) : entry(d) \in Health
  <2>1. ASSUME NEW d \in Registered(devs) PROVE entry(d) \in Health
    <3>1. d \in DeviceIds /\ devs[d] \in Statuses
      BY <1>2
    <3>2. StalenessOf(last(d), at) \in Staleness
      BY <1>1, <1>4, <3>1, DarkIs
    <3>3. last(d) \in Instants
      BY <1>4, <3>1 DEF Instants
    <3> HIDE DEF last
    <3>4. QED
      BY <3>1, <3>2, <3>3 DEF Health
  <2>2. QED
    BY <2>1
<1>7. Ids(snap) = Registered(devs)
  <2>1. \A d \in Registered(devs) : entry(d) \in snap /\ entry(d).device_id = d
    BY <1>3
  <2>2. \A f \in snap : f.device_id \in Registered(devs)
    BY <1>5
  <2> HIDE DEF entry
  <2>3. QED
    BY <2>1, <2>2 DEF Ids
<1>8. \A f, g \in snap : f.device_id = g.device_id => f = g
  BY <1>5
<1>9. ASSUME NEW f \in snap
      PROVE  /\ f.status = devs[f.device_id]
             /\ f.staleness = "dark" =>
                  f.last_uplink # Never /\ f.last_uplink + DARK_SECS <= at
             /\ \A r \in table : r.device_id = f.device_id =>
                  f.last_uplink # Never /\ r.received_at <= f.last_uplink
  <2>1. PICK d \in Registered(devs) : f = entry(d)
    BY <1>5
  <2>2. /\ f.device_id = d /\ f.status = devs[d] /\ f.last_uplink = last(d)
        /\ f.staleness = StalenessOf(last(d), at)
    BY <2>1
  <2>3. d \in DeviceIds
    BY <1>2
  <2>4. StalenessOf(last(d), at) = "dark" => last(d) # Never /\ last(d) + DARK_SECS <= at
    BY <1>1, <1>4, <2>3, DarkIs
  <2>5. \A r \in table : r.device_id = d => last(d) # Never /\ r.received_at <= last(d)
    BY NewestIs
  <2> HIDE DEF last
  <2>6. QED
    BY <2>2, <2>4, <2>5
<1>10. QED
  BY <1>3, <1>6, <1>7, <1>8, <1>9

\* What a handler has read stays true while the others go on.
LEMMA ReadFrame ==
  ASSUME NEW t \in Threads, Listed(t), Finished(t),
         pc'[t] = pc[t], req'[t] = req[t], code'[t] = code[t], loc'[t] = loc[t],
         was'[t] = was[t], active[t] \subseteq active'[t],
         Registered(status) \subseteq Registered(status')
  PROVE  Listed(t)' /\ Finished(t)'
<1>1. Listed(t)'
  BY DEF Listed
<1>2. Finished(t)'
  BY DEF Finished, HealthTrue, Answered
<1>3. QED
  BY <1>1, <1>2

\* A handler that is not at a later step of fleet health and has not answered
\* 200 has nothing to show.
LEMMA NothingRead ==
  ASSUME NEW t \in Threads,
         \/ req'[t].op \notin Fleets
         \/ pc'[t] \notin {"clock", "list", "latest", "done"}
         \/ pc'[t] = "clock" /\ req'[t].op # "fleet"
         \/ pc'[t] = "done" /\ code'[t] # 200
  PROVE  Listed(t)' /\ Finished(t)'
BY DEF Listed, Finished, Answered, Fleets

\* A request begins with the records of the page, or with the clock.
LEMMA ArriveRead ==
  ASSUME Control, NEW t \in Threads, NEW r \in Requests, Arrive(t, r)
  PROVE  Listed(t)' /\ Finished(t)'
<1>1. pc'[t] = Head(Steps(r)) /\ req'[t] = r
  BY DEF Arrive, Control
<1>2. r.op = "fleet" => Head(Steps(r)) = "list_rows"
  BY FirstStep, FleetShape DEF Fleets
<1>3. r.op \in Fleets /\ r.op # "fleet" => Head(Steps(r)) = "clock"
  BY FirstStep, FleetShape
<1>4. QED
  BY <1>1, <1>2, <1>3, NothingRead

\* The records of the fleet page: every device registered by then.
LEMMA ListRowsRead ==
  ASSUME Control, Data, Held, NEW t \in Threads, req[t].op \in Fleets, ListRows(t)
  PROVE  Listed(t)' /\ Finished(t)'
<1>1. pc[t] = "list_rows" /\ req[t] \in Requests /\ pc[t] \in Range(Steps(req[t]))
  BY DEF ListRows, Control
<1>2. /\ req[t].op = "fleet" /\ req' = req /\ pc'[t] = "clock"
  BY <1>1, FleetProceeds DEF ListRows, Control
<1>3. /\ loc'[t] = [loc[t] EXCEPT !.listed = status]
      /\ was'[t].status = was[t].status /\ status' = status
  BY DEF ListRows, Data, tables
<1>4. loc'[t].listed = status
  BY <1>3 DEF Data, MayHold
<1>5. Listed(t)'
  BY <1>2, <1>3, <1>4 DEF Listed, Held
<1>6. Finished(t)'
  BY <1>2 DEF Finished, Answered
<1>7. QED
  BY <1>5, <1>6

\* Reading the clock loses nothing that was read.
LEMMA ClockRead ==
  ASSUME Control, Data, NEW t \in Threads, Listed(t), req[t].op \in Fleets, ReadClock(t)
  PROVE  Listed(t)' /\ Finished(t)'
<1>1. pc[t] \in {"clock", "event"} /\ req[t] \in Requests
      /\ pc[t] \in Range(Steps(req[t]))
  BY DEF ReadClock, Control
<1>2. pc[t] = "clock" /\ req' = req /\ pc'[t] = "list"
  BY <1>1, FleetProceeds DEF ReadClock, Control
<1>3. /\ loc'[t].listed = loc[t].listed /\ was' = was /\ status' = status
  BY DEF ReadClock, Data, MayHold, tables
<1>4. Listed(t)'
  BY <1>2, <1>3 DEF Listed
<1>5. Finished(t)'
  BY <1>2 DEF Finished, Answered
<1>6. QED
  BY <1>4, <1>5

\* The devices of the snapshot: every record of the page is among them.
LEMMA ListDevicesRead ==
  ASSUME Control, Data, ActiveSeen, Held, NEW t \in Threads, Listed(t),
         req[t].op \in Fleets, ListDevices(t)
  PROVE  Listed(t)' /\ Finished(t)'
<1>1. pc[t] = "list" /\ req[t] \in Requests /\ pc[t] \in Range(Steps(req[t]))
  BY DEF ListDevices, Control
<1>2. req' = req /\ pc'[t] = "latest"
  BY <1>1, FleetProceeds DEF ListDevices, Control
<1>3. /\ loc'[t] = [loc[t] EXCEPT !.devs = status]
      /\ was'[t].status = was[t].status /\ status' = status /\ active' = active
  BY DEF ListDevices, Data, tables
<1>4. loc'[t].devs = status /\ loc'[t].listed = loc[t].listed
  BY <1>3 DEF Data, MayHold
<1>5. \A d \in DeviceIds : status[d] = "active" => d \in active[t]
  BY DEF ActiveSeen, Fleets, Recorded
<1>6. Listed(t)'
  BY <1>1, <1>2, <1>3, <1>4, <1>5 DEF Listed, Held
<1>7. Finished(t)'
  BY <1>2 DEF Finished, Answered
<1>8. QED
  BY <1>6, <1>7

\* The latest uplinks make the snapshot, and the answer is finished.
LEMMA LatestRead ==
  ASSUME Control, Data, NEW t \in Threads, Listed(t), req[t].op \in Fleets,
         LatestUplinks(t)
  PROVE  Listed(t)' /\ Finished(t)'
<1>1. pc[t] = "latest" /\ req[t] \in Requests /\ pc[t] \in Range(Steps(req[t]))
  BY DEF LatestUplinks, Control
<1>2. req' = req /\ pc'[t] = "done"
  BY <1>1, FleetProceeds DEF LatestUplinks, Control
<1> DEFINE h == Snapshot(loc[t].devs, Latest(rows), loc[t].at)
           m == [loc[t] EXCEPT !.health = h]
<1>3. loc'[t] = [m EXCEPT !.devs = NoDevs] /\ was' = was /\ active' = active
  BY DEF LatestUplinks, Data
<1>4. PICK snap : snap = h
  OBVIOUS
<1>5. /\ snap \subseteq Health
      /\ Ids(snap) = Registered(loc[t].devs)
      /\ \A f, g \in snap : f.device_id = g.device_id => f = g
      /\ \A f \in snap :
           /\ f.status = loc[t].devs[f.device_id]
           /\ f.staleness = "dark" =>
                f.last_uplink # Never /\ f.last_uplink + DARK_SECS <= loc[t].at
           /\ \A r \in rows : r.device_id = f.device_id =>
                f.last_uplink # Never /\ r.received_at <= f.last_uplink
  BY <1>4, SnapshotIs DEF Data, MayHold
<1> HIDE DEF h
<1>6. /\ loc'[t].health = snap /\ loc'[t].at = loc[t].at
      /\ loc'[t].listed = loc[t].listed
  BY <1>3, <1>4 DEF Data, MayHold
<1>7. /\ Registered(was[t].status) \subseteq Registered(loc[t].devs)
      /\ \A d \in DeviceIds : loc[t].devs[d] = "active" => d \in active[t]
      /\ req[t].op = "fleet" =>
           /\ Registered(was[t].status) \subseteq Registered(loc[t].listed)
           /\ Registered(loc[t].listed) \subseteq Registered(loc[t].devs)
  BY <1>1 DEF Listed
<1>8. was[t].rows \subseteq rows /\ \A f \in snap : f.device_id \in DeviceIds
  BY <1>5 DEF Data, Health
<1>9. HealthTrue(t)'
  BY <1>3, <1>5, <1>6, <1>7, <1>8 DEF HealthTrue
<1>10. Finished(t)'
  BY <1>2, <1>3, <1>5, <1>6, <1>7, <1>9 DEF Finished
<1>11. Listed(t)'
  BY <1>2 DEF Listed
<1>12. QED
  BY <1>10, <1>11

\* Every step keeps what the handlers of fleet health have read.
LEMMA ReadStep == IInv /\ ReadInv /\ [Next]_vars => ReadInv'
<1> SUFFICES ASSUME IInv, ReadInv, [Next]_vars PROVE ReadInv'
  OBVIOUS
<1>1. /\ Control /\ Data /\ ActiveSeen
      /\ Held /\ \A t \in Threads : Listed(t) /\ Finished(t)
  BY DEF IInv, ReadInv
<1>2. Held' /\ Registered(status) \subseteq Registered(status')
  BY <1>1, HeldStep
<1>3. SUFFICES \A u \in Threads : Listed(u)' /\ Finished(u)'
  BY <1>2 DEF ReadInv
<1>4. CASE Tick \/ UNCHANGED vars
  <2>1. UNCHANGED <<status, pc, req, code, loc, was, active>>
    BY <1>4 DEF Tick, tables, vars
  <2>2. QED
    BY <1>1, <1>2, <2>1, ReadFrame
<1>5. ASSUME NEW t \in Threads, NEW r \in Requests, Arrive(t, r), NEW u \in Threads
      PROVE  Listed(u)' /\ Finished(u)'
  <2>1. CASE u = t
    BY <1>1, <1>5, <2>1, ArriveRead
  <2>2. CASE u # t
    <3>1. /\ pc'[u] = pc[u] /\ req'[u] = req[u] /\ code'[u] = code[u]
          /\ loc'[u] = loc[u] /\ was'[u] = was[u] /\ active[u] \subseteq active'[u]
      BY <1>1, <1>5, <2>2 DEF Arrive, Control, Data
    <3>2. QED
      BY <1>1, <1>2, <3>1, ReadFrame
  <2>3. QED
    BY <2>1, <2>2
<1>6. ASSUME NEW t \in Threads, NEW r \in Requests, Refuse(t, r), NEW u \in Threads
      PROVE  Listed(u)' /\ Finished(u)'
  <2>1. CASE u = t
    <3>1. req'[t].op = "none"
      BY <1>1, <1>6 DEF Refuse, Control, NoRequest
    <3>2. QED
      BY <2>1, <3>1, NothingRead DEF Fleets
  <2>2. CASE u # t
    <3>1. /\ pc'[u] = pc[u] /\ req' = req /\ loc' = loc /\ was' = was
          /\ active' = active
      BY <1>1, <1>6, <2>2 DEF Refuse, Control
    <3>2. code'[u] = code[u]
      BY <1>1, <1>6, <2>2, Zenon DEF Refuse, Control
    <3>3. QED
      BY <1>1, <1>2, <3>1, <3>2, ReadFrame
  <2>3. QED
    BY <2>1, <2>2
<1>7. ASSUME NEW t \in Threads, Respond(t), NEW u \in Threads
      PROVE  Listed(u)' /\ Finished(u)'
  <2>1. CASE u = t
    BY <1>1, <1>7, <2>1, NothingRead DEF Respond, Control
  <2>2. CASE u # t
    <3>1. /\ pc'[u] = pc[u] /\ req'[u] = req[u] /\ code'[u] = code[u]
          /\ loc'[u] = loc[u] /\ was'[u] = was[u] /\ active[u] \subseteq active'[u]
      BY <1>1, <1>7, <2>2 DEF Respond, Control, Data
    <3>2. QED
      BY <1>1, <1>2, <3>1, ReadFrame
  <2>3. QED
    BY <2>1, <2>2
<1>8. ASSUME NEW t \in Threads, Works(t), NEW u \in Threads
      PROVE  Listed(u)' /\ Finished(u)'
  <2>1. CASE u # t
    <3>1. pc'[u] = pc[u] /\ req'[u] = req[u] /\ code'[u] = code[u]
      BY <1>1, <1>8, <2>1, WorksControl
    <3>2. loc'[u] = loc[u] /\ was'[u] = was[u] /\ active[u] \subseteq active'[u]
      BY <1>1, <1>8, <2>1, WorksHistory, WorksActive
    <3>3. QED
      BY <1>1, <1>2, <3>1, <3>2, ReadFrame
  <2>2. CASE u = t /\ req[t].op \notin Fleets
    <3>1. req' = req
      BY <1>1, <1>8, WorksControl
    <3>2. QED
      BY <2>2, <3>1, NothingRead
  <2>3. CASE u = t /\ req[t].op \in Fleets
    <3>1. /\ pc[t] \notin {"idle", "done"} /\ req[t] \in Requests
          /\ pc[t] \in Range(Steps(req[t]))
      BY <1>1, <1>8, WorksMoves DEF Control
    <3>2. pc[t] \in {"list_rows", "clock", "list", "latest"}
      BY <2>3, <3>1, FleetProceeds
    <3>3. \/ ReadClock(t) \/ ListRows(t) \/ ListDevices(t) \/ LatestUplinks(t)
          \/ StoreFails(t)
      BY <1>8, <3>2 DEF Works, Gate, PutUplink, SendEvent, PutDevice, SetStatus,
         GetDevice, ReadAndAnswer
    <3>4. CASE StoreFails(t)
      BY <1>1, <2>3, <3>4, NothingRead, ErrorCodes DEF StoreFails, Answer, Control
    <3>5. QED
      BY <1>1, <2>3, <3>3, <3>4, ListRowsRead, ClockRead, ListDevicesRead, LatestRead
  <2>4. QED
    BY <2>1, <2>2, <2>3
<1>9. QED
  BY <1>4, <1>5, <1>6, <1>7, <1>8, Disjuncts

\* At the start nothing is stored, and every thread is idle.
LEMMA InitIInv == Init => IInv
<1> SUFFICES ASSUME Init PROVE IInv
  OBVIOUS
<1> USE DEF Init
<1>1. Control
  BY DEF Control, Codes
<1>2. Data
  <2>1. NoDevs \in Devs /\ MayHold(NoLocals, 0)
    BY EndpointAssumption DEF NoDevs, Devs, MayHold, NoLocals
  <2>2. IsFiniteSet({})
    BY FS_EmptySet
  <2>3. QED
    BY <2>1, <2>2, EndpointAssumption DEF Data
<1>3. ActiveSeen
  BY DEF ActiveSeen, NoRequest, Recorded
<1>4. GateHolds
  BY DEF GateHolds, NoRequest
<1>5. RowStored /\ EventAfterRow
  BY DEF RowStored, EventAfterRow
<1>6. QED
  BY <1>1, <1>2, <1>3, <1>4, <1>5 DEF IInv

\* At the start nothing is read.
LEMMA InitRead == Init => ReadInv
<1> SUFFICES ASSUME Init PROVE ReadInv
  OBVIOUS
<1>1. Registered(NoDevs) = {}
  BY DEF Registered, NoDevs
<1>2. Held
  BY <1>1, FS_EmptySet DEF Init, Held
<1>3. ASSUME NEW t \in Threads PROVE Listed(t) /\ Finished(t)
  BY DEF Init, Listed, Finished, Answered
<1>4. QED
  BY <1>2, <1>3 DEF ReadInv

\* The rows of the fleet page are the records, each with the last uplink of the
\* snapshot if that has the device.
LEMMA FleetRowsAre ==
  ASSUME NEW list \in Devs, NEW snap, snap \subseteq Health,
         Registered(list) \subseteq Ids(snap)
  PROVE  /\ \A d \in Registered(list) : \E f \in FleetRows(list, snap) : f.device_id = d
         /\ \A f \in FleetRows(list, snap) :
              \E g \in snap : /\ g.device_id = f.device_id
                              /\ g.last_uplink = f.last_uplink
<1> DEFINE known(d) == {f \in snap : f.device_id = d}
           row(d) == [(CHOOSE f \in known(d) : TRUE) EXCEPT !.status = list[d]]
<1>1. Registered(list) = {e \in DeviceIds : list[e] \in Statuses}
  BY DEF Registered, Devs, Statuses
<1>2. ASSUME NEW d \in Registered(list) PROVE known(d) # {}
  BY DEF Ids
<1>3. FleetRows(list, snap) =
        {IF known(d) = {}
         THEN [device_id |-> d, status |-> list[d], last_uplink |-> Never,
               staleness |-> "unknown"]
         ELSE row(d) : d \in Registered(list)}
  BY <1>1, Zenon DEF FleetRows
<1>4. ASSUME NEW d \in Registered(list)
      PROVE  \E g \in snap : /\ g.device_id = d /\ row(d).device_id = d
                             /\ row(d).last_uplink = g.last_uplink
  <2>1. PICK g : g = CHOOSE f \in known(d) : TRUE
    OBVIOUS
  <2>2. g \in known(d)
    BY <1>2, <2>1
  <2>3. g \in snap /\ g.device_id = d /\ g \in Health
    BY <2>2
  <2>4. row(d) = [g EXCEPT !.status = list[d]]
    BY <2>1
  <2> HIDE DEF row
  <2>5. row(d).device_id = g.device_id /\ row(d).last_uplink = g.last_uplink
    BY <2>3, <2>4 DEF Health
  <2>6. QED
    BY <2>3, <2>5
<1> HIDE DEF row, known
<1>5. /\ \A d \in Registered(list) : row(d) \in FleetRows(list, snap)
      /\ \A f \in FleetRows(list, snap) : \E d \in Registered(list) : f = row(d)
  BY <1>2, <1>3
<1>6. QED
  BY <1>4, <1>5

\* A finished answer shows no device less and no uplink older than was there.
LEMMA RowsNoOlderHolds == IInv /\ ReadInv => RowsNoOlder
<1> SUFFICES ASSUME IInv, ReadInv, NEW t \in Threads,
                    Answered(t, {"fleet", "fleet_status"})
             PROVE  /\ \A d \in DeviceIds : was[t].status[d] # "none" =>
                         \E f \in Shown(t) : f.device_id = d
                    /\ \A f \in Shown(t) :
                         LET then == Newest(was[t].rows, f.device_id) IN
                         then # Never => f.last_uplink # Never /\ f.last_uplink >= then
  BY DEF RowsNoOlder
<1>1. /\ HealthTrue(t)
      /\ Registered(was[t].status) \subseteq Ids(loc[t].health)
      /\ req[t].op = "fleet" =>
           /\ Registered(was[t].status) \subseteq Registered(loc[t].listed)
           /\ Registered(loc[t].listed) \subseteq Ids(loc[t].health)
  BY DEF ReadInv, Finished, Answered, Fleets
<1>2. loc[t].health \subseteq Health /\ loc[t].listed \in Devs
      /\ was[t].rows \subseteq Uplinks
  BY <1>1 DEF HealthTrue, IInv, Data, MayHold
<1>3. /\ \A d \in Registered(was[t].status) : \E f \in Shown(t) : f.device_id = d
      /\ \A f \in Shown(t) : \E g \in loc[t].health :
           g.device_id = f.device_id /\ g.last_uplink = f.last_uplink
  <2>1. CASE req[t].op = "fleet"
    <3>1. Shown(t) = FleetRows(loc[t].listed, loc[t].health)
      BY <2>1 DEF Shown
    <3>2. QED
      BY <1>1, <1>2, <2>1, <3>1, FleetRowsAre
  <2>2. CASE req[t].op # "fleet"
    <3>1. Shown(t) = loc[t].health
      BY <2>2 DEF Shown
    <3>2. QED
      BY <1>1, <3>1 DEF Ids
  <2>3. QED
    BY <2>1, <2>2
<1>4. ASSUME NEW f \in Shown(t), Newest(was[t].rows, f.device_id) # Never
      PROVE  f.last_uplink # Never /\ f.last_uplink >= Newest(was[t].rows, f.device_id)
  <2>1. PICK r \in was[t].rows :
          /\ r.device_id = f.device_id
          /\ r.received_at = Newest(was[t].rows, f.device_id)
    BY <1>2, <1>4, NewestIs
  <2>2. PICK g \in loc[t].health :
          g.device_id = f.device_id /\ g.last_uplink = f.last_uplink
    BY <1>3
  <2>3. g.last_uplink # Never /\ r.received_at <= g.last_uplink
    BY <1>1, <2>1, <2>2 DEF HealthTrue
  <2>4. g.last_uplink \in Nat /\ r.received_at \in Nat
    BY <1>2, <2>3, EndpointAssumption DEF Health, Instants, Uplinks
  <2>5. QED
    BY <2>1, <2>2, <2>3, <2>4
<1>5. QED
  BY <1>3, <1>4 DEF Registered

\* A device counted as dark is one of those seen active, and silent by then.
LEMMA SummaryAlarmsHold == IInv /\ ReadInv => SummaryAlarmsTrue
<1> SUFFICES ASSUME IInv, ReadInv, NEW t \in Threads, Answered(t, {"fleet_summary"})
             PROVE  Summarize(loc[t].health).dark <=
                      Cardinality({d \in active[t] : \A r \in was[t].rows :
                        r.device_id = d => r.received_at + DARK_SECS <= loc[t].at})
  BY DEF SummaryAlarmsTrue
<1> DEFINE dark == {f \in {g \in loc[t].health : g.status = "active"} :
                      f.staleness = "dark"}
           silent == {d \in active[t] : \A r \in was[t].rows :
                        r.device_id = d => r.received_at + DARK_SECS <= loc[t].at}
           id == [f \in dark |-> f.device_id]
<1>1. HealthTrue(t)
  BY DEF ReadInv, Finished, Answered, Fleets
<1>2. Summarize(loc[t].health).dark = Cardinality(dark)
  BY DEF Summarize
<1>3. IsFiniteSet(silent)
  <2>1. silent \subseteq Registered(status) /\ IsFiniteSet(Registered(status))
    BY DEF ReadInv, Held
  <2>2. QED
    BY <2>1, FS_Subset
<1>4. ASSUME NEW f \in dark PROVE f.device_id \in silent
  <2>1. /\ f.device_id \in active[t]
        /\ f.last_uplink # Never /\ f.last_uplink + DARK_SECS <= loc[t].at
        /\ \A r \in was[t].rows : r.device_id = f.device_id =>
             r.received_at <= f.last_uplink
        /\ f.last_uplink \in Instants
    BY <1>1 DEF HealthTrue, Health
  <2>2. f.last_uplink \in Nat /\ loc[t].at \in Nat /\ DARK_SECS \in Nat
    BY <2>1, EndpointAssumption, FleetAssumption DEF Instants, IInv, Data, MayHold
  <2>3. ASSUME NEW r \in was[t].rows, r.device_id = f.device_id
        PROVE  r.received_at + DARK_SECS <= loc[t].at
    <3>1. r.received_at \in Nat
      BY EndpointAssumption DEF IInv, Data, Uplinks
    <3>2. r.received_at <= f.last_uplink
      BY <2>1, <2>3
    <3>3. QED
      BY <2>1, <2>2, <3>1, <3>2
  <2>4. QED
    BY <2>1, <2>3
<1>5. id \in Injection(dark, silent)
  <2>1. id \in [dark -> silent]
    BY <1>4
  <2>2. \A f, g \in dark : id[f] = id[g] => f = g
    BY <1>1 DEF HealthTrue
  <2> HIDE DEF dark, silent, id
  <2>3. QED
    BY <2>1, <2>2 DEF Injection, IsInjective
<1> HIDE DEF dark, silent, id
<1>6. Cardinality(dark) <= Cardinality(silent)
  BY <1>3, <1>5, FS_Injection
<1>7. QED
  BY <1>2, <1>6 DEF silent

-----------------------------------------------------------------------------
(***************************************************************************)
(* The theorems.                                                           *)
(***************************************************************************)

\* The inductive invariant of the request handlers.
THEOREM EndpointInv == Spec => []IInv
<1>1. IInv /\ [Next]_vars => IInv'
  BY ControlStep, DataStep, ActiveStep, GateStep, RowStep, EventStep DEF IInv
<1>2. QED
  BY InitIInv, <1>1, PTL DEF Spec

\* The variables have their types, no handler reads the clock ahead, and only a
\* finished handler has a status code.
THEOREM EndpointTypeOK == Spec => []TypeOK
<1>1. IInv => TypeOK
  BY DEF IInv, Control, Data, MayHold, TypeOK
<1>2. QED
  BY EndpointInv, <1>1, PTL

\* An uplink behind the gate (handlers.rs handle_uplink with
\* require_registration) is stored only for a device that was active at some
\* moment of its request, whatever the other requests do meanwhile.
THEOREM EndpointGateHolds == Spec => []GateHolds
<1>1. IInv => GateHolds
  BY DEF IInv
<1>2. QED
  BY EndpointInv, <1>1, PTL

\* Every event on the feed is about a row that is already stored, and carries
\* no earlier a timestamp than that row (routes.rs create_uplink).
THEOREM EndpointEventAfterRow == Spec => []EventAfterRow
<1>1. IInv => EventAfterRow
  BY DEF IInv
<1>2. QED
  BY EndpointInv, <1>1, PTL

\* What the handlers of fleet health have read of the tables, with the
\* invariant of the control it rests on.
THEOREM EndpointReads == Spec => [](IInv /\ ReadInv)
<1>1. IInv /\ ReadInv /\ [Next]_vars => ReadInv'
  BY ReadStep
<1>2. QED
  BY EndpointInv, InitRead, <1>1, PTL DEF Spec

\* The fleet page and GET /fleet leave out no device registered before the
\* request and show no uplink older than one that was stored when the record was
\* read, though fleet_rows and snapshot read the tables three times, unlocked in
\* between (ui/mod.rs fleet_rows, fleet.rs snapshot).
THEOREM EndpointRowsNoOlder == Spec => []RowsNoOlder
BY EndpointReads, RowsNoOlderHolds, PTL

\* Each device GET /fleet/summary counts as dark was active at some moment of
\* the request and had been silent for DARK_SECS by its clock (fleet.rs
\* summarize over snapshot).
THEOREM EndpointSummaryAlarms == Spec => []SummaryAlarmsTrue
BY EndpointReads, SummaryAlarmsHold, PTL
=============================================================================
