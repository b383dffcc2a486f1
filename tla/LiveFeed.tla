------------------------------ MODULE LiveFeed ------------------------------
(***************************************************************************)
(* The dashboard's live feed (endpoint/src/ui/sse.rs) between the ingest   *)
(* route that publishes (routes.rs uplink) and the browsers that read, and *)
(* the drain of the server around both (main.rs).                          *)
(*                                                                         *)
(* Events are numbered in the order of their broadcast.  A connection to   *)
(* /ui/events has a forwarder task, which reads the broadcast ring at its  *)
(* own cursor, and a bounded buffer between the task and the response.     *)
(* The ring and the buffer are tokio's broadcast and mpsc channels,        *)
(* modelled from how sse.rs uses them.  A forwarder never sees the ring    *)
(* Closed while the server runs: the router, and the service of the        *)
(* connection itself, hold senders.                                        *)
(***************************************************************************)
EXTENDS Naturals, Sequences, FiniteSets

CONSTANTS
  Requests,             \* uplink requests the server handles at once
  Conns,                \* connections to /ui/events
  BROADCAST_CAPACITY,   \* events the ring retains
  CLIENT_BUFFER,        \* events buffered for one client
  MaxEvents             \* bound on the uplinks received

ASSUME LiveFeedAssumption ==
  /\ BROADCAST_CAPACITY \in Nat \ {0}
  /\ CLIENT_BUFFER \in Nat \ {0}
  /\ MaxEvents \in Nat

VARIABLES
  phase,     \* "serving", "draining" after the signal, "exited"
  request,   \* request[q]: "idle", "handling" or "stored"
  accepted,  \* uplink requests accepted so far
  sent,      \* events broadcast so far
  client,    \* client[c]: "new", "open" or "gone"
  task,      \* task[c]: "none", "recv", "send" or "ended"
  start,     \* start[c]: events broadcast before c subscribed
  cursor,    \* cursor[c]: the next event its forwarder reads
  held,      \* held[c]: the event it has received and not passed on
  buffer,    \* buffer[c]: events in the client's buffer
  seen,      \* seen[c]: events written to the client
  strained   \* history: c filled its buffer or fell behind the ring

server == <<phase, request, accepted>>
feed == <<client, task, start, cursor, held, buffer, seen, strained>>
vars == <<server, sent, feed>>

Events == 1 .. MaxEvents

TypeOK ==
  /\ phase \in {"serving", "draining", "exited"}
  /\ request \in [Requests -> {"idle", "handling", "stored"}]
  /\ accepted \in 0 .. MaxEvents
  /\ sent \in 0 .. MaxEvents
  /\ client \in [Conns -> {"new", "open", "gone"}]
  /\ task \in [Conns -> {"none", "recv", "send", "ended"}]
  /\ start \in [Conns -> 0 .. MaxEvents]
  /\ cursor \in [Conns -> 0 .. MaxEvents + 1]
  /\ held \in [Conns -> 0 .. MaxEvents]
  /\ buffer \in [Conns -> Seq(Events)]
  /\ seen \in [Conns -> Seq(Events)]
  /\ strained \in [Conns -> BOOLEAN]

Init ==
  /\ phase = "serving"
  /\ request = [q \in Requests |-> "idle"]
  /\ accepted = 0
  /\ sent = 0
  /\ client = [c \in Conns |-> "new"]
  /\ task = [c \in Conns |-> "none"]
  /\ start = [c \in Conns |-> 0]
  /\ cursor = [c \in Conns |-> 0]
  /\ held = [c \in Conns |-> 0]
  /\ buffer = [c \in Conns |-> <<>>]
  /\ seen = [c \in Conns |-> <<>>]
  /\ strained = [c \in Conns |-> FALSE]

-----------------------------------------------------------------------------
(***************************************************************************)
(* Ingest: the uplink route.                                               *)
(***************************************************************************)
Accept(q) ==
  /\ phase = "serving"
  /\ request[q] = "idle"
  /\ accepted < MaxEvents
  /\ accepted' = accepted + 1
  /\ request' = [request EXCEPT ![q] = "handling"]
  /\ UNCHANGED <<phase, sent, feed>>

\* handle_uplink stores the row, or fails and the route returns early with
\* nothing published.
HandleUplink(q) ==
  /\ request[q] = "handling"
  /\ \/ request' = [request EXCEPT ![q] = "stored"]
     \/ request' = [request EXCEPT ![q] = "idle"]
  /\ UNCHANGED <<phase, accepted, sent, feed>>

\* The oldest event the ring still holds after n broadcasts.
Oldest(n) == IF n > BROADCAST_CAPACITY THEN n - BROADCAST_CAPACITY + 1 ELSE 1

\* Mutant: the publisher waits until no client's buffer is full.
PublishWaits(q) ==
  /\ request[q] = "stored"
  /\ \A c \in Conns : Len(buffer[c]) < CLIENT_BUFFER
  /\ sent' = sent + 1
  /\ request' = [request EXCEPT ![q] = "idle"]
  /\ strained' = [c \in Conns |->
                    \/ strained[c]
                    \/ task[c] \in {"recv", "send"} /\ cursor[c] < Oldest(sent + 1)]
  /\ UNCHANGED <<phase, accepted, client, task, start, cursor, held, buffer, seen>>

\* state.events.send(..) and the answer: no receiver can delay it.
Publish(q) ==
  /\ request[q] = "stored"
  /\ sent' = sent + 1
  /\ request' = [request EXCEPT ![q] = "idle"]
  /\ strained' = [c \in Conns |->
                    \/ strained[c]
                    \/ task[c] \in {"recv", "send"} /\ cursor[c] < Oldest(sent + 1)]
  /\ UNCHANGED <<phase, accepted, client, task, start, cursor, held, buffer, seen>>

-----------------------------------------------------------------------------
(***************************************************************************)
(* GET /ui/events and its forwarder task.                                  *)
(***************************************************************************)
\* Mutant: a new client is given the events the ring still holds.
SubscribeReplays(c) ==
  /\ phase = "serving"
  /\ client[c] = "new"
  /\ client' = [client EXCEPT ![c] = "open"]
  /\ task' = [task EXCEPT ![c] = "recv"]
  /\ start' = [start EXCEPT ![c] = sent]
  /\ cursor' = [cursor EXCEPT ![c] = Oldest(sent)]
  /\ UNCHANGED <<server, sent, held, buffer, seen, strained>>

Subscribe(c) ==
  /\ phase = "serving"
  /\ client[c] = "new"
  /\ client' = [client EXCEPT ![c] = "open"]
  /\ task' = [task EXCEPT ![c] = "recv"]
  /\ start' = [start EXCEPT ![c] = sent]
  /\ cursor' = [cursor EXCEPT ![c] = sent + 1]
  /\ UNCHANGED <<server, sent, held, buffer, seen, strained>>

\* source.recv() is Ok(ev).
Recv(c) ==
  /\ task[c] = "recv"
  /\ Oldest(sent) <= cursor[c]
  /\ cursor[c] <= sent
  /\ held' = [held EXCEPT ![c] = cursor[c]]
  /\ cursor' = [cursor EXCEPT ![c] = @ + 1]
  /\ task' = [task EXCEPT ![c] = "send"]
  /\ UNCHANGED <<server, sent, client, start, buffer, seen, strained>>

\* source.recv() is Err(Lagged): the cursor skips ahead.
Lagged(c) ==
  /\ task[c] = "recv"
  /\ cursor[c] < Oldest(sent)
  /\ cursor' = [cursor EXCEPT ![c] = Oldest(sent)]
  /\ UNCHANGED <<server, sent, client, task, start, held, buffer, seen, strained>>

\* Mutant: the buffer counts as full one event early.
TrySendEarlyFull(c) ==
  /\ task[c] = "send"
  /\ held' = [held EXCEPT ![c] = 0]
  /\ task' = [task EXCEPT ![c] = IF client[c] = "gone" THEN "ended" ELSE "recv"]
  /\ buffer' = IF client[c] = "open" /\ Len(buffer[c]) < CLIENT_BUFFER - 1
               THEN [buffer EXCEPT ![c] = Append(@, held[c])] ELSE buffer
  /\ UNCHANGED <<server, sent, client, start, cursor, seen, strained>>

\* Mutant: Closed is ignored like Full.
TrySendIgnoresClosed(c) ==
  /\ task[c] = "send"
  /\ held' = [held EXCEPT ![c] = 0]
  /\ task' = [task EXCEPT ![c] = "recv"]
  /\ buffer' = IF client[c] = "open" /\ Len(buffer[c]) < CLIENT_BUFFER
               THEN [buffer EXCEPT ![c] = Append(@, held[c])] ELSE buffer
  /\ UNCHANGED <<server, sent, client, start, cursor, seen, strained>>

\* tx.try_send(ev): Closed ends the task, Full drops the event.
TrySend(c) ==
  /\ task[c] = "send"
  /\ held' = [held EXCEPT ![c] = 0]
  /\ \/ /\ client[c] = "gone"
        /\ task' = [task EXCEPT ![c] = "ended"]
        /\ UNCHANGED <<buffer, strained>>
     \/ /\ client[c] = "open"
        /\ Len(buffer[c]) = CLIENT_BUFFER
        /\ task' = [task EXCEPT ![c] = "recv"]
        /\ UNCHANGED <<buffer, strained>>
     \/ /\ client[c] = "open"
        /\ Len(buffer[c]) < CLIENT_BUFFER
        /\ buffer' = [buffer EXCEPT ![c] = Append(@, held[c])]
        /\ strained' = [strained EXCEPT
                          ![c] = @ \/ Len(buffer'[c]) = CLIENT_BUFFER]
        /\ task' = [task EXCEPT ![c] = "recv"]
  /\ UNCHANGED <<server, sent, client, start, cursor, seen>>

\* The response stream takes an event (poll_next) and the client gets it.
Deliver(c) ==
  /\ client[c] = "open"
  /\ buffer[c] # <<>>
  /\ seen' = [seen EXCEPT ![c] = Append(@, Head(buffer[c]))]
  /\ buffer' = [buffer EXCEPT ![c] = Tail(@)]
  /\ UNCHANGED <<server, sent, client, task, start, cursor, held, strained>>

\* The browser leaves, or keep-alive finds it gone: the response, and with it
\* the receiving end of the buffer, is dropped.
Disconnect(c) ==
  /\ client[c] = "open"
  /\ client' = [client EXCEPT ![c] = "gone"]
  /\ buffer' = [buffer EXCEPT ![c] = <<>>]
  /\ UNCHANGED <<server, sent, task, start, cursor, held, seen, strained>>

-----------------------------------------------------------------------------
\* SIGTERM or Ctrl-C: shutdown_signal resolves, nothing new is accepted.
Signal ==
  /\ phase = "serving"
  /\ phase' = "draining"
  /\ UNCHANGED <<request, accepted, sent, feed>>

\* Mutant: the server also joins the forwarder tasks before it exits.
ExitJoinsTasks ==
  /\ phase = "draining"
  /\ \A q \in Requests : request[q] = "idle"
  /\ \A c \in Conns : client[c] # "open" /\ task[c] \in {"none", "ended"}
  /\ phase' = "exited"
  /\ UNCHANGED <<request, accepted, sent, feed>>

\* axum::serve(..).await returns once every connection is closed; the runtime
\* goes down with the tasks that are left.
Exit ==
  /\ phase = "draining"
  /\ \A q \in Requests : request[q] = "idle"
  /\ \A c \in Conns : client[c] # "open"
  /\ phase' = "exited"
  /\ task' = [c \in Conns |-> IF task[c] = "none" THEN "none" ELSE "ended"]
  /\ held' = [c \in Conns |-> 0]
  /\ UNCHANGED <<request, accepted, sent, client, start, cursor, buffer, seen,
                 strained>>

Forward(c) == Recv(c) \/ Lagged(c) \/ TrySend(c)

Handle(q) == HandleUplink(q) \/ Publish(q)

Next ==
  \/ Signal \/ Exit
  \/ \E q \in Requests : Accept(q) \/ Handle(q)
  \/ \E c \in Conns : \/ Subscribe(c) \/ Forward(c)
                      \/ Deliver(c) \/ Disconnect(c)

Spec == Init /\ [][Next]_vars

\* The runtime polls a task that is ready.  Nothing makes a client read, or
\* leave.
Fairness ==
  /\ \A q \in Requests : WF_vars(Handle(q))
  /\ \A c \in Conns : WF_vars(Forward(c))
  /\ WF_vars(Exit)

LiveSpec == Spec /\ Fairness
-----------------------------------------------------------------------------
(***************************************************************************)
(* Properties.                                                             *)
(***************************************************************************)

\* Everything on its way to c, oldest first.
Pipeline(c) ==
  seen[c] \o buffer[c] \o (IF held[c] = 0 THEN <<>> ELSE <<held[c]>>)

\* A client gets the events broadcast since it subscribed, in broadcast order
\* and none twice, whatever is dropped on the way.
SeenInOrder ==
  \A c \in Conns :
    LET p == Pipeline(c) IN
    \A i \in 1 .. Len(p) :
      /\ start[c] < p[i]
      /\ p[i] < cursor[c]
      /\ i > 1 => p[i - 1] < p[i]

\* The client's buffer has no more than CLIENT_BUFFER events, and an event is
\* missing only if the client once let the buffer fill up or its forwarder fell
\* a whole ring behind.
NoUnexplainedGap ==
  \A c \in Conns :
    /\ Len(buffer[c]) <= CLIENT_BUFFER
    /\ client[c] = "open" /\ ~ strained[c] =>
         Pipeline(c) = [i \in 1 .. cursor[c] - 1 - start[c] |-> start[c] + i]

\* sse.rs: a slow or absent dashboard can never wedge ingest.  Every uplink
\* request is answered, also one accepted just before the signal, and whether or
\* not any client reads.
IngestNeverWedged ==
  \A q \in Requests : request[q] # "idle" ~> request[q] = "idle"

\* The forwarder of a client that left ends, once there is an event it has not
\* read.
ForwarderEnds ==
  \A c \in Conns :
    client[c] = "gone" /\ cursor[c] <= sent ~> task[c] = "ended"

\* After the signal the server exits, unless a browser keeps its live feed open.
DrainEnds ==
  phase = "draining" ~> phase = "exited" \/ \E c \in Conns : client[c] = "open"
=============================================================================
