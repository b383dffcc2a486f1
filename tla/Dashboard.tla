----------------------------- MODULE Dashboard ------------------------------
(***************************************************************************)
(* The dashboard as an operator uses it: several tabs of one browser, the  *)
(* double-submit token and the forms of endpoint/src/ui/mod.rs, and the    *)
(* script of ui/views.rs that keeps a page live.  The server keeps nothing *)
(* between requests but the status of the device; requests and answers may *)
(* be delayed, overtake each other and get lost.  Cookies and EventSource  *)
(* are the browser's.  There is one device, registered; the register form  *)
(* goes through the same check as the status form.                         *)
(***************************************************************************)
EXTENDS Naturals

CONSTANTS
  Tabs,        \* tabs of one browser, sharing its cookies
  LiveTabs,    \* those of them that run the script
  MaxTokens,   \* bound on the tokens issued
  None         \* no token, no page

ASSUME DashboardAssumption ==
  /\ LiveTabs \subseteq Tabs
  /\ MaxTokens \in Nat
  /\ None \notin Nat

VARIABLES
  status,   \* of the device, in the store
  issued,   \* tokens issued so far; a token is the number it was issued as
  jar,      \* the cookie sv_csrf of the browser
  net,      \* net[t]: the request of tab t under way, or its answer
  page,     \* page[t]: the page on display, None for an error of the browser
  feed,     \* feed[t]: the EventSource of the page on display
  errors    \* errors[t]: what the script of that page counts

vars == <<status, issued, jar, net, page, feed, errors>>

Statuses == {"active", "inactive"}

Tokens == 1 .. MaxTokens

Idle == [kind |-> "idle"]

\* settled is history: the page was requested with a cookie, at a moment when
\* no other answer was to bring a new one.
Pages == [token : Tokens, shown : Statuses, settled : BOOLEAN]

ASSUME NonePageAssumption == None \notin Pages

Messages ==
  [kind : {"get"}, cookie : Tokens \cup {None}, settled : BOOLEAN]
    \cup [kind : {"post"}, cookie : Tokens \cup {None}]
    \cup [kind : {"page"}, page : Pages, set_cookie : BOOLEAN]
    \cup [kind : {"idle", "redirect", "forbidden"}]

Init ==
  /\ status = "active"
  /\ issued = 0
  /\ jar = None
  /\ net = [t \in Tabs |-> Idle]
  /\ page = [t \in Tabs |-> None]
  /\ feed = [t \in Tabs |-> "none"]
  /\ errors = [t \in Tabs |-> 0]

-----------------------------------------------------------------------------
(***************************************************************************)
(* The browser.                                                            *)
(***************************************************************************)

\* An answer that will replace the cookie is, or may be, on its way.
BringsCookie(m) ==
  \/ m.kind = "get" /\ m.cookie = None
  \/ m.kind = "page" /\ m.set_cookie

Request(t) ==
  net' = [net EXCEPT ![t] =
            [kind |-> "get", cookie |-> jar,
             settled |-> jar # None /\ \A u \in Tabs : ~ BringsCookie(net[u])]]

\* The operator opens or reloads the page of a tab.
Load(t) ==
  /\ net[t] = Idle
  /\ Request(t)
  /\ UNCHANGED <<status, issued, jar, page, feed, errors>>

\* ... or presses the button of the status form.
Submit(t) ==
  /\ net[t] = Idle
  /\ page[t] # None
  /\ net' = [net EXCEPT ![t] = [kind |-> "post", cookie |-> jar]]
  /\ UNCHANGED <<status, issued, jar, page, feed, errors>>

\* The answer comes in: a page with its script, or a redirect, or an error.
Receive(t) ==
  /\ \/ /\ net[t].kind = "page"
        /\ net' = [net EXCEPT ![t] = Idle]
        /\ jar' = IF net[t].set_cookie THEN net[t].page.token ELSE jar
        /\ page' = [page EXCEPT ![t] = net[t].page]
        /\ feed' = [feed EXCEPT ![t] = IF t \in LiveTabs THEN "connecting" ELSE "none"]
        /\ errors' = [errors EXCEPT ![t] = 0]
     \/ /\ net[t].kind = "redirect"
        /\ Request(t)
        /\ UNCHANGED <<jar, page, feed, errors>>
     \/ /\ net[t].kind = "forbidden"
        /\ net' = [net EXCEPT ![t] = Idle]
        /\ page' = [page EXCEPT ![t] = None]
        /\ feed' = [feed EXCEPT ![t] = "none"]
        /\ errors' = [errors EXCEPT ![t] = 0]
        /\ UNCHANGED jar
  /\ UNCHANGED <<status, issued>>

\* The request or the answer is lost; the browser shows an error of its own.
Lose(t) ==
  /\ net[t] # Idle
  /\ net' = [net EXCEPT ![t] = Idle]
  /\ page' = [page EXCEPT ![t] = None]
  /\ feed' = [feed EXCEPT ![t] = "none"]
  /\ errors' = [errors EXCEPT ![t] = 0]
  /\ UNCHANGED <<status, issued, jar>>

-----------------------------------------------------------------------------
(***************************************************************************)
(* The server.                                                             *)
(***************************************************************************)

\* Mutant: every page comes with a token of its own.
EnsureCsrfAlways(cookie) == [token |-> issued + 1, fresh |-> TRUE]

\* ensure_csrf: the token of the cookie, or a fresh one and a Set-Cookie.
EnsureCsrf(cookie) ==
  IF cookie # None THEN [token |-> cookie, fresh |-> FALSE]
                   ELSE [token |-> issued + 1, fresh |-> TRUE]

\* fleet and device_detail.
ServePage(t) ==
  /\ net[t].kind = "get"
  /\ LET csrf == EnsureCsrf(net[t].cookie) IN
     /\ csrf.token <= MaxTokens
     /\ issued' = IF csrf.fresh THEN csrf.token ELSE issued
     /\ net' = [net EXCEPT ![t] =
                  [kind |-> "page", set_cookie |-> csrf.fresh,
                   page |-> [token |-> csrf.token, shown |-> status,
                             settled |-> net[t].settled]]]
  /\ UNCHANGED <<status, jar, page, feed, errors>>

\* csrf_ok: the cookie is there, and is what the form says.
CsrfOk(cookie, submitted) == cookie # None /\ cookie = submitted

Other(s) == IF s = "active" THEN "inactive" ELSE "active"

\* Mutant: the form asks for a change, and the server looks what to.
FormStatusToggles(p) == Other(status)

\* status_form: the status the button on the page asks for.
FormStatus(p) == Other(p.shown)

\* set_status.  The form is the one on display: the page stays until the
\* answer comes in.
ServePost(t) ==
  /\ net[t].kind = "post"
  /\ \/ /\ CsrfOk(net[t].cookie, page[t].token)
        /\ status' = FormStatus(page[t])
        /\ net' = [net EXCEPT ![t] = [kind |-> "redirect"]]
     \/ /\ ~ CsrfOk(net[t].cookie, page[t].token)
        /\ net' = [net EXCEPT ![t] = [kind |-> "forbidden"]]
        /\ UNCHANGED status
  /\ UNCHANGED <<issued, jar, page, feed, errors>>

-----------------------------------------------------------------------------
(***************************************************************************)
(* The script of the page.                                                 *)
(***************************************************************************)

\* onopen
Opens(t) ==
  /\ feed[t] = "connecting"
  /\ feed' = [feed EXCEPT ![t] = "live"]
  /\ errors' = [errors EXCEPT ![t] = 0]
  /\ UNCHANGED <<status, issued, jar, net, page>>

\* Mutant: the third error closes the EventSource and that is all.
OnErrorStops(t, next) ==
  /\ errors' = [errors EXCEPT ![t] = @ + 1]
  /\ feed' = [feed EXCEPT ![t] = IF errors'[t] >= 3 THEN "stopped" ELSE next]
  /\ UNCHANGED <<status, issued, jar, net, page>>

\* onerror, where the browser goes on to next: the third error in a row closes
\* the EventSource and starts the timer of the reload.
OnError(t, next) ==
  /\ errors' = [errors EXCEPT ![t] = @ + 1]
  /\ feed' = [feed EXCEPT ![t] = IF errors'[t] >= 3 THEN "waiting" ELSE next]
  /\ UNCHANGED <<status, issued, jar, net, page>>

\* The connection breaks, or cannot be made: the browser tries again.
Breaks(t) == feed[t] \in {"connecting", "live"} /\ OnError(t, "connecting")

\* An answer other than a 200 with an event stream, as a proxy gives that holds
\* the answer back until it times out: the browser does not try again.
Refused(t) == feed[t] = "connecting" /\ OnError(t, "refused")

\* location.reload(), 30 seconds later.
Reload(t) ==
  /\ feed[t] = "waiting"
  /\ net[t] = Idle
  /\ Request(t)
  /\ UNCHANGED <<status, issued, jar, page, feed, errors>>

Next ==
  \E t \in Tabs :
    \/ Load(t) \/ Submit(t) \/ Receive(t) \/ Lose(t)
    \/ ServePage(t) \/ ServePost(t)
    \/ Opens(t) \/ Breaks(t) \/ Refused(t) \/ Reload(t)

Spec == Init /\ [][Next]_vars

\* The server answers, the browser shows answers, runs the timer and goes on
\* trying to connect.  Nothing is assumed of the operator or the network.
Fairness ==
  \A t \in Tabs :
    /\ WF_vars(ServePage(t)) /\ WF_vars(ServePost(t)) /\ WF_vars(Receive(t))
    /\ WF_vars(Opens(t)) /\ WF_vars(Reload(t))

LiveSpec == Spec /\ Fairness

-----------------------------------------------------------------------------
(***************************************************************************)
(* Properties.                                                             *)
(***************************************************************************)

\* The types of the variables; a token that is in use was issued.
TypeOK ==
  /\ status \in Statuses
  /\ issued \in 0 .. MaxTokens
  /\ jar \in (1 .. issued) \cup {None}
  /\ net \in [Tabs -> Messages]
  /\ page \in [Tabs -> Pages \cup {None}]
  /\ feed \in [Tabs -> {"none", "connecting", "live", "refused", "waiting"}]
  /\ errors \in [Tabs -> 0 .. 3]
  /\ \A t \in Tabs :
       /\ net[t].kind = "post" => page[t] # None
       /\ feed[t] # "none" => page[t] # None
       /\ feed[t] = "waiting" <=> errors[t] = 3

\* Once the browser has its cookie and no answer with another one is on its way,
\* the form of a page opened from then on is not refused, whatever the other
\* tabs do (ensure_csrf hands out the token of the cookie again).
SettledFormsHonoured ==
  \A t \in Tabs : net[t].kind = "forbidden" => ~ page[t].settled

\* A revoked device becomes active only through the form of a page that showed
\* it revoked: however old the page, pressing "revoke" never reactivates.
OnlyReactivateActivates ==
  [][status = "inactive" /\ status' = "active" =>
       \E t \in Tabs : net[t].kind = "post" /\ page[t].shown = "inactive"
                         /\ net'[t].kind = "redirect"]_vars

\* The network stops losing requests and breaking connections.
Calm == <>[][\A t \in Tabs : ~ Lose(t) /\ ~ Breaks(t)]_vars

\* On a network that calms down a page gets its feed again, by the browser's
\* retry or by the reload, unless its EventSource was refused or the tab shows
\* an error (ui/views.rs, onerror).
RecoversUnlessRefused ==
  Calm => \A t \in LiveTabs :
    feed[t] \notin {"live", "refused", "none"} ~> feed[t] \in {"live", "refused", "none"}
=============================================================================
