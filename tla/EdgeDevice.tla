----------------------------- MODULE EdgeDevice -----------------------------
(***************************************************************************)
(* The embedded firmware (edge/src/app/tasks.rs): the task that keeps the  *)
(* WiFi station connected and the task that opens an mTLS session and      *)
(* posts uplinks over it.  Of the endpoint at the other end of the session *)
(* only what the device sees is here: it answers a POST, stored or refused *)
(* (handlers.rs, error.rs), with one or more pieces and, because every     *)
(* POST says "Connection: close" (network/http.rs), then closes.  Timers   *)
(* are steps; how long each one lasts only matters for the backoff.        *)
(***************************************************************************)
EXTENDS Naturals

CONSTANTS
  BACKOFF_INITIAL,   \* first delay after a failure
  BACKOFF_MAX,       \* cap of the delay
  MaxPieces,         \* bound on the reads an answer takes
  MaxFails           \* bound on the failures counted

ASSUME EdgeAssumption ==
  /\ BACKOFF_INITIAL \in Nat \ {0}
  /\ BACKOFF_MAX \in Nat
  /\ BACKOFF_INITIAL <= BACKOFF_MAX
  /\ MaxPieces \in Nat \ {0}
  /\ MaxFails \in Nat

\* The failures counted reach the cap.
ASSUME MaxFailsAssumption == BACKOFF_INITIAL * 2 ^ MaxFails >= BACKOFF_MAX

VARIABLES
  wifi,      \* the connection task
  started,   \* the WiFi controller is started
  linked,    \* the station is associated
  address,   \* the stack has an IPv4 address
  pc,        \* the app task
  backoff,   \* its current delay
  peer,      \* the endpoint's end of the session
  inbox,     \* pieces of answers not read yet
  \* history
  fails,     \* failed attempts since the last handshake, up to MaxFails
  posts,     \* POSTs written to this session: 0, 1, or 2 for more
  outcome    \* what the endpoint did with the POST written last

radio == <<wifi, started, linked, address>>
app == <<pc, backoff, peer, inbox, fails, posts, outcome>>
vars == <<radio, app>>

TypeOK ==
  /\ wifi \in {"top", "wait", "lost", "start", "connect", "retry"}
  /\ started \in BOOLEAN
  /\ linked \in BOOLEAN
  /\ address \in BOOLEAN
  /\ pc \in {"link", "ip", "dns", "tcp", "tls", "post", "read", "pause",
             "backoff"}
  /\ backoff \in BACKOFF_INITIAL .. BACKOFF_MAX
  /\ peer \in {"none", "open", "busy", "closed", "lost"}
  /\ inbox \in 0 .. MaxPieces
  /\ fails \in 0 .. MaxFails
  /\ posts \in 0 .. 2
  /\ outcome \in {"none", "stored", "refused"}

Init ==
  /\ wifi = "top"
  /\ started = FALSE
  /\ linked = FALSE
  /\ address = FALSE
  /\ pc = "link"
  /\ backoff = BACKOFF_INITIAL
  /\ peer = "none"
  /\ inbox = 0
  /\ fails = 0
  /\ posts = 0
  /\ outcome = "none"

-----------------------------------------------------------------------------
(***************************************************************************)
(* Task connection, and the air around it.                                 *)
(***************************************************************************)

\* Top of the loop: sta_state() == Connected?
WifiTop ==
  /\ wifi = "top"
  /\ wifi' = IF linked THEN "wait" ELSE "start"
  /\ UNCHANGED <<started, linked, address, app>>

\* wait_for_event(StaDisconnected) returns.
WifiLost ==
  /\ wifi = "wait"
  /\ ~ linked
  /\ wifi' = "lost"
  /\ UNCHANGED <<started, linked, address, app>>

\* The five seconds after a disconnect; the loop goes on to is_started().
WifiLostDelay ==
  /\ wifi = "lost"
  /\ wifi' = "start"
  /\ UNCHANGED <<started, linked, address, app>>

\* start_async() unless the controller is started already.
WifiStart ==
  /\ wifi = "start"
  /\ started' = TRUE
  /\ wifi' = "connect"
  /\ UNCHANGED <<linked, address, app>>

WifiStartFails ==
  /\ wifi = "start"
  /\ ~ started
  /\ wifi' = "retry"
  /\ UNCHANGED <<started, linked, address, app>>

\* connect_async() is Ok: the station is associated.
WifiConnect ==
  /\ wifi = "connect"
  /\ linked' = TRUE
  /\ wifi' = "top"
  /\ UNCHANGED <<started, address, app>>

WifiConnectFails ==
  /\ wifi = "connect"
  /\ ~ linked
  /\ wifi' = "retry"
  /\ UNCHANGED <<started, linked, address, app>>

\* The five seconds after a failure; back to the top of the loop.
WifiRetryDelay ==
  /\ wifi = "retry"
  /\ wifi' = "top"
  /\ UNCHANGED <<started, linked, address, app>>

\* The access point drops the station; the session underneath is dead.  What
\* was in flight is lost, what had arrived can still be read.
StaDisconnected ==
  /\ linked
  /\ linked' = FALSE
  /\ address' = FALSE
  /\ peer' = IF peer = "none" THEN "none" ELSE "lost"
  /\ \E n \in 0 .. inbox : inbox' = n
  /\ UNCHANGED <<wifi, started, pc, backoff, fails, posts, outcome>>

Dhcp ==
  /\ linked
  /\ ~ address
  /\ address' = TRUE
  /\ UNCHANGED <<wifi, started, linked, app>>

-----------------------------------------------------------------------------
(***************************************************************************)
(* Task app: getting a session.                                            *)
(***************************************************************************)

LinkUp ==
  /\ pc = "link"
  /\ linked
  /\ pc' = "ip"
  /\ UNCHANGED <<radio, backoff, peer, inbox, fails, posts, outcome>>

ConfigV4 ==
  /\ pc = "ip"
  /\ address
  /\ pc' = "dns"
  /\ UNCHANGED <<radio, backoff, peer, inbox, fails, posts, outcome>>

\* dns_query returns an address.
Resolve ==
  /\ pc = "dns"
  /\ linked /\ address
  /\ pc' = "tcp"
  /\ UNCHANGED <<radio, backoff, peer, inbox, fails, posts, outcome>>

\* socket.connect and Session::new succeed.
Connect ==
  /\ pc = "tcp"
  /\ linked /\ address
  /\ pc' = "tls"
  /\ peer' = "open"
  /\ UNCHANGED <<radio, backoff, inbox, fails, posts, outcome>>

\* Mutant: a handshake does not reset the backoff.
HandshakeNoReset ==
  /\ pc = "tls"
  /\ peer = "open"
  /\ pc' = "post"
  /\ fails' = 0
  /\ posts' = 0
  /\ UNCHANGED <<radio, backoff, peer, inbox, outcome>>

\* session.connect() completes in time: the handshake resets the backoff.
Handshake ==
  /\ pc = "tls"
  /\ peer = "open"
  /\ pc' = "post"
  /\ backoff' = BACKOFF_INITIAL
  /\ fails' = 0
  /\ posts' = 0
  /\ UNCHANGED <<radio, peer, inbox, outcome>>

\* DNS gives an error or nothing, TCP or Session::new fails, the handshake
\* fails or times out.  The socket and the session go out of scope.
AttemptFails ==
  /\ pc \in {"dns", "tcp", "tls"}
  /\ pc' = "backoff"
  /\ peer' = "none"
  /\ UNCHANGED <<radio, backoff, inbox, fails, posts, outcome>>

\* The delay after one more failure: doubled, and capped.
NextBackoff(b) == IF b * 2 > BACKOFF_MAX THEN BACKOFF_MAX ELSE b * 2

\* backoff_delay: sleep, double, `continue`.
BackoffDelay ==
  /\ pc = "backoff"
  /\ pc' = "dns"
  /\ backoff' = NextBackoff(backoff)
  /\ fails' = IF fails < MaxFails THEN fails + 1 ELSE fails
  /\ UNCHANGED <<radio, peer, inbox, posts, outcome>>

-----------------------------------------------------------------------------
(***************************************************************************)
(* Task app: posting over the session.                                     *)
(***************************************************************************)

\* post_request fits its buffer for the fixed uplink, and session.write
\* succeeds.  It does so also when the endpoint has closed its
\* end, or is out of reach: then the request goes nowhere.
WritePost ==
  /\ pc = "post"
  /\ pc' = "read"
  /\ peer' = IF peer = "open" THEN "busy" ELSE peer
  /\ outcome' = "none"
  /\ posts' = IF posts = 0 THEN 1 ELSE 2
  /\ UNCHANGED <<radio, backoff, inbox, fails>>

\* Mutant: the bytes left in the receive buffer survive the session.
LeaveSessionKeepsBytes ==
  /\ pc' = "dns"
  /\ peer' = "none"
  /\ UNCHANGED <<radio, backoff, inbox, fails, posts, outcome>>

\* `break` and session.close(): straight on to the next DNS query.
LeaveSession ==
  /\ pc' = "dns"
  /\ peer' = "none"
  /\ inbox' = 0
  /\ UNCHANGED <<radio, backoff, fails, posts, outcome>>

\* session.write fails on a session that is no longer whole.
WriteFails ==
  /\ pc = "post"
  /\ peer \in {"closed", "lost"}
  /\ LeaveSession

\* session.read gives n > 0 bytes: one piece, taken for the answer.
ReadPiece ==
  /\ pc = "read"
  /\ inbox > 0
  /\ inbox' = inbox - 1
  /\ pc' = "pause"
  /\ UNCHANGED <<radio, backoff, peer, fails, posts, outcome>>

\* Mutant: zero bytes count as an answer, the session is kept.
ReadEofStays ==
  /\ pc = "read"
  /\ inbox = 0
  /\ peer = "closed"
  /\ pc' = "pause"
  /\ UNCHANGED <<radio, backoff, peer, inbox, fails, posts, outcome>>

\* session.read gives 0 bytes: the endpoint closed.
ReadEof ==
  /\ pc = "read"
  /\ inbox = 0
  /\ peer = "closed"
  /\ LeaveSession

\* session.read fails or is given up after HTTP_READ_TIMEOUT.
ReadFails ==
  /\ pc = "read"
  /\ inbox = 0
  /\ peer \in {"busy", "lost"}
  /\ LeaveSession

\* Timer::after(MAIN_LOOP_DELAY)
MainLoopDelay ==
  /\ pc = "pause"
  /\ pc' = "post"
  /\ UNCHANGED <<radio, backoff, peer, inbox, fails, posts, outcome>>

\* The endpoint answers a POST and closes as it was asked to.
AnswerPost(fate) ==
  /\ peer = "busy"
  /\ outcome' = fate
  /\ \E n \in 1 .. MaxPieces : inbox' = n
  /\ peer' = "closed"
  /\ UNCHANGED <<radio, pc, backoff, fails, posts>>

\* put_uplink is Ok, and the answer a 200.
ServeSession == AnswerPost("stored")

\* The store fails, or the uplink is not accepted: a 500 or a 4xx, and nothing
\* is stored.
RefuseSession == AnswerPost("refused")

\* The path to the endpoint breaks under the session.
PathLost ==
  /\ peer \in {"open", "busy", "closed"}
  /\ peer' = "lost"
  /\ \E n \in 0 .. inbox : inbox' = n
  /\ UNCHANGED <<radio, pc, backoff, fails, posts, outcome>>

Wifi ==
  \/ WifiTop \/ WifiLost \/ WifiLostDelay \/ WifiStart \/ WifiStartFails
  \/ WifiConnect \/ WifiConnectFails \/ WifiRetryDelay

App ==
  \/ LinkUp \/ ConfigV4 \/ Resolve \/ Connect \/ Handshake \/ AttemptFails
  \/ BackoffDelay \/ WritePost \/ WriteFails \/ ReadPiece \/ ReadEof
  \/ ReadFails \/ MainLoopDelay

Next ==
  \/ Wifi \/ App
  \/ StaDisconnected \/ Dhcp \/ ServeSession \/ RefuseSession \/ PathLost

Spec == Init /\ [][Next]_vars

\* The executor runs a task that is ready.  An operation tried again and again
\* succeeds now and then, and now and then the endpoint stores and answers in
\* time.
Fairness ==
  /\ WF_vars(Wifi) /\ SF_vars(WifiStart) /\ SF_vars(WifiConnect)
  /\ SF_vars(Dhcp)
  /\ WF_vars(App)
  /\ SF_vars(Resolve) /\ SF_vars(Connect) /\ SF_vars(Handshake)
  /\ SF_vars(ServeSession)

LiveSpec == Spec /\ Fairness

-----------------------------------------------------------------------------
(***************************************************************************)
(* Properties.                                                             *)
(***************************************************************************)

\* The delay follows the number of failures since the last handshake: doubled
\* each time, never above the cap, back to the start only by a handshake.
BackoffSchedule ==
  LET wanted == BACKOFF_INITIAL * 2 ^ fails
  IN  backoff = IF wanted > BACKOFF_MAX THEN BACKOFF_MAX ELSE wanted

\* What the device takes for an answer, on the first POST of a session, is one:
\* the endpoint has stored that uplink, or refused it, which the device does not
\* look at.  A later POST on the same session never reaches the endpoint,
\* whatever the device reads.
OnlyFirstPostAnswered ==
  /\ pc = "pause" /\ posts = 1 => outcome # "none"
  /\ posts = 2 => outcome = "none" /\ peer # "busy"

\* The network stops breaking under the device.
NetworkSettles == <>[][~ PathLost /\ ~ StaDisconnected]_vars

\* The device keeps reporting: once the network settles, uplink after uplink
\* is stored, whatever failed or was refused before.
KeepsReporting ==
  NetworkSettles => []<>(outcome = "stored") /\ []<>(outcome # "stored")

\* tasks.rs: the session is reused across uplinks, one handshake and many
\* POSTs.  The endpoint has not closed the session a POST is written to.
SessionReusable ==
  [][pc = "post" /\ pc' = "read" => peer # "closed"]_vars
=============================================================================
