-------------------------- MODULE Dashboard_proofs --------------------------
(***************************************************************************)
(* Proofs about the dashboard's forms, for every number of tabs and of     *)
(* tokens.                                                                 *)
(***************************************************************************)
EXTENDS Dashboard, TLAPS

\* The browser has its cookie, and nothing under way will replace it.
Stable == jar # None /\ \A u \in Tabs : ~ BringsCookie(net[u])

\* A token on its way is one that was issued.
TokensIssued ==
  \A t \in Tabs :
    /\ net[t].kind \in {"get", "post"} => net[t].cookie \in (1 .. issued) \cup {None}
    /\ net[t].kind = "page" => net[t].page.token \in 1 .. issued

\* Something settled is under way or on display only when the cookie will not
\* change any more, and it carries that cookie.
RequestsSettled ==
  \A t \in Tabs :
    net[t].kind = "get" => (net[t].settled => Stable /\ net[t].cookie = jar)

AnswersSettled ==
  \A t \in Tabs :
    net[t].kind = "page" => (net[t].page.settled => Stable /\ net[t].page.token = jar)

PagesSettled ==
  \A t \in Tabs :
    page[t] # None => (page[t].settled => Stable /\ page[t].token = jar)

\* A form is sent from the page on display, with the cookie of that moment.
FormsSettled ==
  \A t \in Tabs :
    /\ net[t].kind \in {"post", "forbidden"} => page[t] # None
    /\ net[t].kind = "post" => (page[t].settled => net[t].cookie = jar)

IInv ==
  /\ TypeOK
  /\ TokensIssued
  /\ RequestsSettled
  /\ AnswersSettled
  /\ PagesSettled
  /\ FormsSettled
  /\ SettledFormsHonoured
-----------------------------------------------------------------------------
(***************************************************************************)
(* Messages.                                                               *)
(***************************************************************************)

\* What each kind of message carries.
LEMMA MessageShape ==
  ASSUME NEW m \in Messages
  PROVE  /\ m.kind \in {"get", "post", "page", "idle", "redirect", "forbidden"}
         /\ m.kind = "get" => m.cookie \in Tokens \cup {None} /\ m.settled \in BOOLEAN
         /\ m.kind = "post" => m.cookie \in Tokens \cup {None}
         /\ m.kind = "page" => m.page \in Pages /\ m.set_cookie \in BOOLEAN
BY DEF Messages

\* What the actions put on the network are messages.
LEMMA MessagesMade ==
  /\ \A c \in Tokens \cup {None}, s \in BOOLEAN :
       [kind |-> "get", cookie |-> c, settled |-> s] \in Messages
  /\ \A c \in Tokens \cup {None} : [kind |-> "post", cookie |-> c] \in Messages
  /\ \A p \in Pages, b \in BOOLEAN :
       [kind |-> "page", set_cookie |-> b, page |-> p] \in Messages
  /\ Idle \in Messages
  /\ [kind |-> "redirect"] \in Messages
  /\ [kind |-> "forbidden"] \in Messages
BY DEF Messages, Idle

\* The page a request is answered with: its token is the cookie of the request,
\* or a fresh one that comes with Set-Cookie.
LEMMA PageServed ==
  ASSUME TypeOK, TokensIssued, NEW t \in Tabs, ServePage(t)
  PROVE  /\ net[t].kind = "get"
         /\ net' = [net EXCEPT ![t] = net'[t]]
         /\ net'[t] \in Messages /\ net'[t].kind = "page"
         /\ net'[t].page.settled = net[t].settled
         /\ net'[t].page.token \in 1 .. issued'
         /\ net[t].cookie # None => /\ ~ net'[t].set_cookie
                                    /\ net'[t].page.token = net[t].cookie
         /\ issued' \in 0 .. MaxTokens /\ issued <= issued'
<1> DEFINE csrf == EnsureCsrf(net[t].cookie)
           p == [token |-> csrf.token, shown |-> status, settled |-> net[t].settled]
           m == [kind |-> "page", set_cookie |-> csrf.fresh, page |-> p]
<1>1. /\ net[t].kind = "get" /\ csrf.token <= MaxTokens
      /\ issued' = IF csrf.fresh THEN csrf.token ELSE issued
      /\ net' = [net EXCEPT ![t] = m]
  BY Zenon DEF ServePage
<1>2. net[t] \in Messages /\ issued \in 0 .. MaxTokens /\ MaxTokens \in Nat
  BY DashboardAssumption DEF TypeOK
<1>3. net[t].cookie \in (1 .. issued) \cup {None} /\ net[t].settled \in BOOLEAN
  BY <1>1, <1>2, MessageShape DEF TokensIssued
<1>4. /\ csrf.fresh \in BOOLEAN
      /\ csrf.token \in 1 .. issued'
      /\ issued' \in 0 .. MaxTokens /\ issued <= issued'
      /\ net[t].cookie # None => ~ csrf.fresh /\ csrf.token = net[t].cookie
  <2>1. CASE net[t].cookie # None
    <3>1. csrf = [token |-> net[t].cookie, fresh |-> FALSE]
      BY <2>1 DEF EnsureCsrf
    <3>2. csrf.token = net[t].cookie /\ csrf.fresh = FALSE
      BY <3>1
    <3>3. issued' = issued
      BY <1>1, <3>2, Zenon
    <3>4. ~ csrf.fresh /\ csrf.fresh \in BOOLEAN
      BY <3>2, Zenon
    <3> HIDE DEF csrf
    <3>5. QED
      BY <1>2, <1>3, <2>1, <3>2, <3>3, <3>4
  <2>2. CASE net[t].cookie = None
    <3>1. csrf = [token |-> issued + 1, fresh |-> TRUE]
      BY <2>2 DEF EnsureCsrf
    <3>2. csrf.token = issued + 1 /\ csrf.fresh = TRUE
      BY <3>1
    <3>3. issued' = issued + 1
      BY <1>1, <3>2, Zenon
    <3>4. csrf.fresh \in BOOLEAN
      BY <3>2, Zenon
    <3> HIDE DEF csrf
    <3>5. QED
      BY <1>1, <1>2, <2>2, <3>2, <3>3, <3>4
  <2>3. QED
    BY <2>1, <2>2
<1>5. p \in Pages
  <2>1. csrf.token \in Tokens
    BY <1>2, <1>4 DEF Tokens
  <2> HIDE DEF csrf
  <2>2. QED
    BY <1>3, <2>1 DEF Pages, TypeOK
<1>6. /\ m \in Messages /\ m.kind = "page" /\ m.page.settled = net[t].settled
      /\ m.page.token = csrf.token /\ m.set_cookie = csrf.fresh
  <2> HIDE DEF csrf
  <2>1. m.kind = "page" /\ m.page = p /\ m.set_cookie = csrf.fresh
    BY Zenon
  <2>2. p.settled = net[t].settled /\ p.token = csrf.token
    BY Zenon
  <2>3. QED
    BY <1>4, <1>5, <2>1, <2>2, MessagesMade, Zenon
<1> HIDE DEF m
<1>7. net'[t] = m
  BY <1>1 DEF TypeOK
<1>8. net' = [net EXCEPT ![t] = net'[t]]
  BY <1>1, <1>7, Zenon
<1>9. QED
  BY <1>1, <1>4, <1>6, <1>7, <1>8, Zenon
-----------------------------------------------------------------------------
(***************************************************************************)
(* What a step does to cookies, messages and pages.                        *)
(***************************************************************************)

\* The tab sends a GET.
Asks(t) == Request(t) /\ UNCHANGED <<issued, jar, page>>

\* The tab sends its form.
Sends(t) ==
  /\ page[t] # None
  /\ net' = [net EXCEPT ![t] = [kind |-> "post", cookie |-> jar]]
  /\ UNCHANGED <<issued, jar, page>>

\* The tab shows the page that came in.
Shows(t) ==
  /\ net[t].kind = "page"
  /\ net' = [net EXCEPT ![t] = Idle]
  /\ jar' = IF net[t].set_cookie THEN net[t].page.token ELSE jar
  /\ page' = [page EXCEPT ![t] = net[t].page]
  /\ UNCHANGED issued

\* The tab shows an error.
Drops(t) ==
  /\ net' = [net EXCEPT ![t] = Idle]
  /\ page' = [page EXCEPT ![t] = None]
  /\ UNCHANGED <<issued, jar>>

\* What a step does to the cookie, the exchanges and the pages: one of these.
LEMMA NetCases ==
  ASSUME [Next]_vars
  PROVE  \/ UNCHANGED <<issued, jar, net, page>>
         \/ \E t \in Tabs : \/ Asks(t) \/ Sends(t) \/ Shows(t) \/ Drops(t)
                            \/ ServePage(t) \/ ServePost(t)
<1>1. ASSUME NEW t \in Tabs, Load(t) \/ Reload(t) PROVE Asks(t)
  BY <1>1 DEF Load, Reload, Asks
<1>2. ASSUME NEW t \in Tabs, Submit(t) PROVE Sends(t)
  BY <1>2 DEF Submit, Sends
<1>3. ASSUME NEW t \in Tabs, Receive(t) PROVE Asks(t) \/ Shows(t) \/ Drops(t)
  BY <1>3, Zenon DEF Receive, Asks, Shows, Drops
<1>4. ASSUME NEW t \in Tabs, Lose(t) PROVE Drops(t)
  BY <1>4 DEF Lose, Drops
<1>5. ASSUME NEW t \in Tabs, Opens(t) \/ Breaks(t) \/ Refused(t)
      PROVE  UNCHANGED <<issued, jar, net, page>>
  BY <1>5, Zenon DEF Opens, Breaks, Refused, OnError
<1>6. CASE UNCHANGED vars
  BY <1>6 DEF vars
<1>7. QED
  BY <1>1, <1>2, <1>3, <1>4, <1>5, <1>6, Zenon DEF Next

\* The tab that sends a GET knows whether the cookie is settled.
LEMMA AskMade ==
  ASSUME TypeOK, NEW t \in Tabs, Asks(t)
  PROVE  /\ net' = [net EXCEPT ![t] = net'[t]]
         /\ net'[t] \in Messages /\ net'[t].kind = "get"
         /\ net'[t].cookie = jar
         /\ net'[t].settled => Stable
<1> DEFINE m == [kind |-> "get", cookie |-> jar,
                 settled |-> jar # None /\ \A u \in Tabs : ~ BringsCookie(net[u])]
<1>1. net' = [net EXCEPT ![t] = m]
  BY Zenon DEF Asks, Request
<1>2. jar \in Tokens \cup {None}
  BY DashboardAssumption DEF TypeOK, Tokens
<1>3. (jar # None /\ \A u \in Tabs : ~ BringsCookie(net[u])) \in BOOLEAN
  BY Zenon
<1>4. m \in Messages
  BY <1>2, <1>3, MessagesMade, Zenon
<1>5. m.kind = "get" /\ m.cookie = jar
  BY Zenon
<1>6. m.settled => Stable
  BY Zenon DEF Stable
<1> HIDE DEF m
<1>7. net'[t] = m
  BY <1>1 DEF TypeOK
<1>8. net' = [net EXCEPT ![t] = net'[t]]
  BY <1>1, <1>7, Zenon
<1>9. QED
  BY <1>4, <1>5, <1>6, <1>7, <1>8, Zenon

\* A form on its way carries the cookie the browser has.
LEMMA SendMade ==
  ASSUME TypeOK, NEW t \in Tabs, Sends(t)
  PROVE  /\ net' = [net EXCEPT ![t] = net'[t]]
         /\ net'[t] \in Messages /\ net'[t].kind = "post"
         /\ net'[t].cookie = jar
<1> DEFINE m == [kind |-> "post", cookie |-> jar]
<1>1. net' = [net EXCEPT ![t] = m]
  BY Zenon DEF Sends
<1>2. jar \in Tokens \cup {None}
  BY DashboardAssumption DEF TypeOK, Tokens
<1>3. m \in Messages /\ m.kind = "post" /\ m.cookie = jar
  BY <1>2, MessagesMade
<1> HIDE DEF m
<1>4. net'[t] = m
  BY <1>1 DEF TypeOK
<1>5. QED
  BY <1>1, <1>3, <1>4, Zenon

\* A form is answered with a redirect or refused.
LEMMA PostServed ==
  ASSUME TypeOK, NEW t \in Tabs, ServePost(t)
  PROVE  /\ net[t].kind = "post"
         /\ net' = [net EXCEPT ![t] = net'[t]]
         /\ net'[t] \in Messages
         /\ \/ net'[t].kind = "redirect"
            \/ net'[t].kind = "forbidden" /\ ~ CsrfOk(net[t].cookie, page[t].token)
         /\ UNCHANGED <<issued, jar, page>>
<1>1. /\ net[t].kind = "post"
      /\ \/ net' = [net EXCEPT ![t] = [kind |-> "redirect"]]
         \/ /\ net' = [net EXCEPT ![t] = [kind |-> "forbidden"]]
            /\ ~ CsrfOk(net[t].cookie, page[t].token)
      /\ UNCHANGED <<issued, jar, page>>
  BY Zenon DEF ServePost
<1>2. \/ net'[t] = [kind |-> "redirect"]
      \/ net'[t] = [kind |-> "forbidden"] /\ ~ CsrfOk(net[t].cookie, page[t].token)
  BY <1>1 DEF TypeOK
<1>3. QED
  BY <1>1, <1>2, MessagesMade DEF TypeOK

-----------------------------------------------------------------------------
\* Once the browser has its cookie and no other one is on its way, it keeps it.
LEMMA StableStep ==
  ASSUME TypeOK, TokensIssued, Stable, [Next]_vars
  PROVE  Stable' /\ jar' = jar
<1> USE DEF Stable
<1>0. ASSUME NEW t \in Tabs, net' = [net EXCEPT ![t] = net'[t]], jar' = jar,
             ~ BringsCookie(net[t])'
      PROVE  Stable' /\ jar' = jar
  BY <1>0 DEF BringsCookie, TypeOK
<1>1. CASE UNCHANGED <<issued, jar, net, page>>
  BY <1>1 DEF BringsCookie
<1>2. ASSUME NEW t \in Tabs, Asks(t) PROVE Stable' /\ jar' = jar
  BY <1>0, <1>2, AskMade DEF Asks, BringsCookie
<1>3. ASSUME NEW t \in Tabs, Sends(t) PROVE Stable' /\ jar' = jar
  BY <1>0, <1>3, SendMade DEF Sends, BringsCookie
<1>4. ASSUME NEW t \in Tabs, net' = [net EXCEPT ![t] = Idle], jar' = jar
      PROVE  Stable' /\ jar' = jar
  <2>1. net'[t] = Idle
    BY <1>4 DEF TypeOK
  <2>2. net'[t].kind = "idle"
    BY <2>1 DEF Idle
  <2>3. net' = [net EXCEPT ![t] = net'[t]]
    BY <1>4, <2>1, Zenon
  <2>4. QED
    BY <1>0, <1>4, <2>2, <2>3 DEF BringsCookie
<1>5. ASSUME NEW t \in Tabs, Shows(t) PROVE Stable' /\ jar' = jar
  <2>1. ~ net[t].set_cookie
    BY <1>5, Zenon DEF Shows, BringsCookie
  <2>2. jar' = jar /\ net' = [net EXCEPT ![t] = Idle]
    BY <1>5, <2>1, Zenon DEF Shows
  <2>3. QED
    BY <1>4, <2>2
<1>6. ASSUME NEW t \in Tabs, Drops(t) PROVE Stable' /\ jar' = jar
  BY <1>4, <1>6 DEF Drops
<1>7. ASSUME NEW t \in Tabs, ServePage(t) PROVE Stable' /\ jar' = jar
  <2>1. net[t].kind = "get" /\ net[t].cookie # None
    BY <1>7, PageServed DEF BringsCookie
  <2>2. net'[t].kind = "page" /\ ~ net'[t].set_cookie
    BY <1>7, <2>1, PageServed, Zenon
  <2>3. jar' = jar
    BY <1>7 DEF ServePage
  <2>4. net' = [net EXCEPT ![t] = net'[t]]
    BY <1>7, PageServed, Zenon
  <2>5. ~ BringsCookie(net[t])'
    BY <2>2, Zenon DEF BringsCookie
  <2>6. QED
    BY <1>0, <2>3, <2>4, <2>5
<1>8. ASSUME NEW t \in Tabs, ServePost(t) PROVE Stable' /\ jar' = jar
  BY <1>0, <1>8, PostServed DEF BringsCookie
<1>9. QED
  BY <1>1, <1>2, <1>3, <1>5, <1>6, <1>7, <1>8, NetCases
-----------------------------------------------------------------------------
\* The parts of the type invariant.
NetTyped ==
  /\ issued \in 0 .. MaxTokens
  /\ jar \in (1 .. issued) \cup {None}
  /\ net \in [Tabs -> Messages]

PageTyped ==
  /\ page \in [Tabs -> Pages \cup {None}]
  /\ feed \in [Tabs -> {"none", "connecting", "live", "refused", "waiting"}]
  /\ errors \in [Tabs -> 0 .. 3]
  /\ \A t \in Tabs :
       /\ feed[t] # "none" => page[t] # None
       /\ feed[t] = "waiting" <=> errors[t] = 3

\* The exchanges stay well formed.
LEMMA NetTypedStep ==
  ASSUME TypeOK, TokensIssued, [Next]_vars
  PROVE  NetTyped'
<1> USE DashboardAssumption DEF NetTyped, TypeOK
<1>1. CASE UNCHANGED <<issued, jar, net, page>>
  BY <1>1
<1>2. ASSUME NEW t \in Tabs, Asks(t) PROVE NetTyped'
  BY <1>2, AskMade DEF Asks
<1>3. ASSUME NEW t \in Tabs, Sends(t) PROVE NetTyped'
  BY <1>3, SendMade DEF Sends
<1>4. ASSUME NEW t \in Tabs, Shows(t) PROVE NetTyped'
  <2>1. net[t].page.token \in 1 .. issued
    BY <1>4 DEF Shows, TokensIssued
  <2>2. jar' \in {jar, net[t].page.token}
    BY <1>4, Zenon DEF Shows
  <2>3. issued' = issued /\ net' = [net EXCEPT ![t] = Idle]
    BY <1>4, Zenon DEF Shows
  <2>4. QED
    BY <2>1, <2>2, <2>3, MessagesMade
<1>5. ASSUME NEW t \in Tabs, Drops(t) PROVE NetTyped'
  BY <1>5, MessagesMade DEF Drops
<1>6. ASSUME NEW t \in Tabs, ServePage(t) PROVE NetTyped'
  <2>1. jar' = jar
    BY <1>6 DEF ServePage
  <2>2. net' \in [Tabs -> Messages]
    BY <1>6, PageServed
  <2>3. issued' \in 0 .. MaxTokens /\ issued <= issued'
    BY <1>6, PageServed
  <2>4. QED
    BY <2>1, <2>2, <2>3
<1>7. ASSUME NEW t \in Tabs, ServePost(t) PROVE NetTyped'
  BY <1>7, PostServed
<1>8. QED
  BY <1>1, <1>2, <1>3, <1>4, <1>5, <1>6, <1>7, NetCases

\* The pages stay well formed.
LEMMA PageTypedStep ==
  ASSUME TypeOK, [Next]_vars
  PROVE  PageTyped'
<1> USE DEF PageTyped, TypeOK
<1>1. ASSUME UNCHANGED <<page, feed, errors>> PROVE PageTyped'
  BY <1>1
<1>2. ASSUME NEW t \in Tabs, Load(t) \/ Submit(t) \/ ServePage(t) \/ Reload(t)
      PROVE  UNCHANGED <<page, feed, errors>>
  BY <1>2, Zenon DEF Load, Submit, ServePage, Reload
<1>3. ASSUME NEW t \in Tabs, ServePost(t)
      PROVE  UNCHANGED <<page, feed, errors>>
  BY <1>3, Zenon DEF ServePost
<1>4. ASSUME NEW t \in Tabs, NEW p \in Pages \cup {None}, NEW f,
             page' = [page EXCEPT ![t] = p],
             feed' = [feed EXCEPT ![t] = f],
             errors' = [errors EXCEPT ![t] = 0],
             f = "none" \/ (f = "connecting" /\ p # None)
      PROVE  PageTyped'
  BY <1>4
<1>5. ASSUME NEW t \in Tabs, Receive(t) PROVE PageTyped'
  <2>1. CASE net[t].kind = "page" /\ page' = [page EXCEPT ![t] = net[t].page]
    <3>1. net[t].page \in Pages /\ net[t].page # None
      BY <2>1, MessageShape, NonePageAssumption
    <3>2. /\ feed' = [feed EXCEPT ![t] = IF t \in LiveTabs THEN "connecting" ELSE "none"]
          /\ errors' = [errors EXCEPT ![t] = 0]
      BY <1>5, <2>1 DEF Receive
    <3>3. QED
      BY <1>4, <2>1, <3>1, <3>2
  <2>2. CASE UNCHANGED <<page, feed, errors>>
    BY <1>1, <2>2
  <2>3. CASE /\ page' = [page EXCEPT ![t] = None]
             /\ feed' = [feed EXCEPT ![t] = "none"]
             /\ errors' = [errors EXCEPT ![t] = 0]
    BY <1>4, <2>3
  <2>4. QED
    BY <1>5, <2>1, <2>2, <2>3, Zenon DEF Receive
<1>6. ASSUME NEW t \in Tabs, Lose(t) PROVE PageTyped'
  BY <1>4, <1>6 DEF Lose
<1>7. ASSUME NEW t \in Tabs, Opens(t) PROVE PageTyped'
  BY <1>7 DEF Opens
<1>8. ASSUME NEW t \in Tabs, Breaks(t) \/ Refused(t) PROVE PageTyped'
  <2>1. PICK next \in {"connecting", "refused"} :
          /\ feed[t] \in {"connecting", "live"}
          /\ errors' = [errors EXCEPT ![t] = @ + 1]
          /\ feed' = [feed EXCEPT ![t] = IF errors'[t] >= 3 THEN "waiting" ELSE next]
          /\ UNCHANGED page
    BY <1>8 DEF Breaks, Refused, OnError
  <2>2. errors[t] \in 0 .. 2
    BY <2>1
  <2>3. errors'[t] = errors[t] + 1
    BY <2>1
  <2>4. QED
    BY <2>1, <2>2, <2>3
<1>9. CASE UNCHANGED vars
  BY <1>9 DEF vars
<1>10. QED
  BY <1>1, <1>2, <1>3, <1>5, <1>6, <1>7, <1>8, <1>9, Zenon DEF Next

\* The device keeps one of its statuses.
LEMMA StatusTypedStep ==
  ASSUME TypeOK, [Next]_vars
  PROVE  status' \in Statuses
<1>1. ASSUME NEW t \in Tabs, ServePost(t) PROVE status' \in Statuses
  BY <1>1 DEF ServePost, FormStatus, Other, Statuses, TypeOK
<1>2. ASSUME NEW t \in Tabs,
             \/ Load(t) \/ Submit(t) \/ Receive(t) \/ Lose(t) \/ ServePage(t)
             \/ Opens(t) \/ Breaks(t) \/ Refused(t) \/ Reload(t)
      PROVE  status' = status
  BY <1>2, Zenon DEF Load, Submit, Receive, Lose, ServePage, Opens, Breaks,
                     Refused, OnError, Reload
<1>3. QED
  BY <1>1, <1>2 DEF Next, vars, TypeOK

-----------------------------------------------------------------------------
\* A token under way was issued.
LEMMA TokensStep ==
  ASSUME TypeOK, TokensIssued, [Next]_vars
  PROVE  TokensIssued'
<1> USE DEF TypeOK, TokensIssued
<1>0. /\ issued \in Nat /\ issued' \in Nat /\ issued <= issued'
      /\ net' \in [Tabs -> Messages]
  <2>1. ASSUME NEW t \in Tabs, ServePage(t) PROVE issued <= issued'
    BY <2>1, PageServed
  <2>2. issued <= issued' \/ issued' = issued
    BY <2>1, NetCases, PostServed DEF Asks, Sends, Shows, Drops
  <2>3. QED
    BY <2>2, NetTypedStep, DashboardAssumption DEF NetTyped
<1>1. ASSUME NEW t \in Tabs, net' = [net EXCEPT ![t] = net'[t]],
             /\ net'[t].kind \in {"get", "post"} =>
                  net'[t].cookie \in (1 .. issued') \cup {None}
             /\ net'[t].kind = "page" => net'[t].page.token \in 1 .. issued'
      PROVE  TokensIssued'
  <2>1. ASSUME NEW u \in Tabs, u # t PROVE net'[u] = net[u]
    BY <1>1, <2>1
  <2>2. QED
    BY <1>0, <1>1, <2>1
<1>2. CASE UNCHANGED <<issued, jar, net, page>>
  BY <1>2
<1>3. ASSUME NEW t \in Tabs, Asks(t) PROVE TokensIssued'
  BY <1>1, <1>3, AskMade DEF Asks
<1>4. ASSUME NEW t \in Tabs, Sends(t) PROVE TokensIssued'
  BY <1>1, <1>4, SendMade DEF Sends
<1>5. ASSUME NEW t \in Tabs, net' = [net EXCEPT ![t] = Idle] PROVE TokensIssued'
  <2>1. net'[t] = Idle
    BY <1>5
  <2>2. net'[t].kind = "idle" /\ net' = [net EXCEPT ![t] = net'[t]]
    BY <1>5, <2>1 DEF Idle
  <2>3. QED
    BY <1>1, <2>2
<1>6. ASSUME NEW t \in Tabs, Shows(t) \/ Drops(t) PROVE TokensIssued'
  BY <1>5, <1>6, Zenon DEF Shows, Drops
<1>7. ASSUME NEW t \in Tabs, ServePage(t) PROVE TokensIssued'
  BY <1>1, <1>7, PageServed
<1>8. ASSUME NEW t \in Tabs, ServePost(t) PROVE TokensIssued'
  BY <1>1, <1>8, PostServed
<1>9. QED
  BY <1>2, <1>3, <1>4, <1>6, <1>7, <1>8, NetCases
-----------------------------------------------------------------------------
(***************************************************************************)
(* What is settled stays so.                                               *)
(***************************************************************************)

\* The invariants of one tab.
TabSettled(t) ==
  /\ net[t].kind = "get" => (net[t].settled => Stable /\ net[t].cookie = jar)
  /\ net[t].kind = "page" => (net[t].page.settled => Stable /\ net[t].page.token = jar)
  /\ page[t] # None => (page[t].settled => Stable /\ page[t].token = jar)
  /\ net[t].kind \in {"post", "forbidden"} => page[t] # None
  /\ net[t].kind = "post" => (page[t].settled => net[t].cookie = jar)
  /\ net[t].kind = "forbidden" => ~ page[t].settled

\* A step is a step of one tab.
LEMMA OneTab ==
  ASSUME TypeOK, TokensIssued, [Next]_vars
  PROVE  \/ UNCHANGED <<issued, jar, net, page>>
         \/ \E t \in Tabs :
              /\ \/ Asks(t) \/ Sends(t) \/ Shows(t) \/ Drops(t)
                 \/ ServePage(t) \/ ServePost(t)
              /\ \A u \in Tabs \ {t} : net'[u] = net[u] /\ page'[u] = page[u]
<1> USE DEF TypeOK
<1>1. ASSUME NEW t \in Tabs, Asks(t) \/ Sends(t)
      PROVE  \A u \in Tabs \ {t} : net'[u] = net[u] /\ page'[u] = page[u]
  BY <1>1, AskMade, SendMade DEF Asks, Sends
<1>2. ASSUME NEW t \in Tabs, Shows(t) \/ Drops(t)
      PROVE  \A u \in Tabs \ {t} : net'[u] = net[u] /\ page'[u] = page[u]
  BY <1>2 DEF Shows, Drops
<1>3. ASSUME NEW t \in Tabs, ServePage(t)
      PROVE  \A u \in Tabs \ {t} : net'[u] = net[u] /\ page'[u] = page[u]
  <2>1. page' = page
    BY <1>3 DEF ServePage
  <2>2. QED
    BY <1>3, <2>1, PageServed
<1>4. ASSUME NEW t \in Tabs, ServePost(t)
      PROVE  \A u \in Tabs \ {t} : net'[u] = net[u] /\ page'[u] = page[u]
  BY <1>4, PostServed
<1>5. QED
  BY <1>1, <1>2, <1>3, <1>4, NetCases

\* Once the cookie is settled, every form has its token.
LEMMA SettledStep ==
  ASSUME TypeOK, TokensIssued, \A t \in Tabs : TabSettled(t), [Next]_vars,
         NEW u \in Tabs
  PROVE  TabSettled(u)'
<1>1. TabSettled(u)
  OBVIOUS
<1>2. ASSUME net'[u] = net[u], page'[u] = page[u], jar' = jar PROVE TabSettled(u)'
  BY <1>1, <1>2, StableStep DEF TabSettled
<1>3. ASSUME net'[u] = net[u], page'[u] = page[u], ~ Stable, jar' # jar
      PROVE  TabSettled(u)'
  <2>1. net[u].kind # "post" \/ ~ page[u].settled
    BY <1>1, <1>3 DEF TabSettled
  <2>2. QED
    BY <1>1, <1>3, <2>1 DEF TabSettled
<1>4. CASE net'[u] = net[u] /\ page'[u] = page[u]
  BY <1>2, <1>3, <1>4, StableStep
<1>5. CASE Asks(u)
  <2>1. /\ net'[u].kind = "get" /\ net'[u].cookie = jar /\ jar' = jar
        /\ net'[u].settled => Stable
        /\ page'[u] = page[u]
    BY <1>5, AskMade DEF Asks
  <2>2. QED
    BY <1>1, <2>1, StableStep DEF TabSettled
<1>6. CASE Sends(u)
  <2>1. /\ net'[u].kind = "post" /\ net'[u].cookie = jar /\ jar' = jar
        /\ page'[u] = page[u] /\ page[u] # None
    BY <1>6, SendMade DEF Sends
  <2>2. QED
    BY <1>1, <2>1, StableStep DEF TabSettled
<1>7. CASE Shows(u)
  <2>1. /\ net[u].kind = "page" /\ page' = [page EXCEPT ![u] = net[u].page]
        /\ net' = [net EXCEPT ![u] = Idle]
    BY <1>7, Zenon DEF Shows
  <2>2. page'[u] = net[u].page /\ net'[u] = Idle
    BY <2>1 DEF TypeOK
  <2>3. net'[u].kind = "idle"
    BY <2>2 DEF Idle
  <2>4. net[u].page.settled => Stable' /\ net[u].page.token = jar'
    BY <1>1, <2>1, StableStep DEF TabSettled
  <2>5. QED
    BY <2>2, <2>3, <2>4 DEF TabSettled
<1>8. CASE Drops(u)
  <2>1. page'[u] = None /\ net'[u] = Idle
    BY <1>8 DEF TypeOK, Drops
  <2>2. net'[u].kind = "idle"
    BY <2>1 DEF Idle
  <2>3. QED
    BY <2>1, <2>2 DEF TabSettled
<1>9. CASE ServePage(u)
  <2>1. /\ net[u].kind = "get" /\ net'[u].kind = "page"
        /\ net'[u].page.settled = net[u].settled
        /\ net[u].cookie # None => net'[u].page.token = net[u].cookie
    BY <1>9, PageServed, Zenon
  <2>2. page' = page /\ jar' = jar
    BY <1>9, Zenon DEF ServePage
  <2>3. net[u].settled => Stable /\ net[u].cookie = jar /\ jar # None
    BY <1>1, <2>1 DEF TabSettled, Stable
  <2>4. net'[u].page.settled => Stable' /\ net'[u].page.token = jar'
    BY <2>1, <2>2, <2>3, StableStep
  <2>5. QED
    BY <1>1, <2>1, <2>2, <2>4, StableStep DEF TabSettled
<1>10. CASE ServePost(u)
  <2>1. /\ net[u].kind = "post" /\ jar' = jar /\ page'[u] = page[u]
        /\ \/ net'[u].kind = "redirect"
           \/ net'[u].kind = "forbidden" /\ ~ CsrfOk(net[u].cookie, page[u].token)
    BY <1>10, PostServed
  <2>2. page[u] # None /\ (page[u].settled => CsrfOk(net[u].cookie, page[u].token))
    BY <1>1, <2>1 DEF TabSettled, CsrfOk, Stable
  <2>3. QED
    BY <1>1, <2>1, <2>2, StableStep DEF TabSettled
<1>11. QED
  BY <1>2, <1>4, <1>5, <1>6, <1>7, <1>8, <1>9, <1>10, OneTab

-----------------------------------------------------------------------------
\* The invariant tab by tab, and kind of state by kind of state.
LEMMA TabsSettled ==
  (\A t \in Tabs : TabSettled(t)) <=>
    /\ RequestsSettled /\ AnswersSettled /\ PagesSettled /\ FormsSettled
    /\ SettledFormsHonoured
BY DEF TabSettled, RequestsSettled, AnswersSettled, PagesSettled, FormsSettled,
       SettledFormsHonoured

\* A browser that has loaded nothing.
LEMMA InitIInv == Init => IInv
<1> SUFFICES ASSUME Init PROVE IInv
  OBVIOUS
<1>1. \A t \in Tabs : /\ net[t] = Idle /\ net[t].kind = "idle" /\ page[t] = None
  BY DEF Init, Idle
<1>2. TypeOK
  BY <1>1, MessagesMade, DashboardAssumption DEF Init, TypeOK, Statuses
<1>3. QED
  BY <1>1, <1>2
     DEF IInv, TokensIssued, RequestsSettled, AnswersSettled, PagesSettled,
         FormsSettled, SettledFormsHonoured

\* Every step keeps the inductive invariant.
LEMMA NextIInv == IInv /\ [Next]_vars => IInv'
<1> SUFFICES ASSUME IInv, [Next]_vars PROVE IInv'
  OBVIOUS
<1>1. TypeOK /\ TokensIssued /\ \A t \in Tabs : TabSettled(t)
  BY TabsSettled DEF IInv
<1>2. \A t \in Tabs : TabSettled(t)'
  BY <1>1, SettledStep
<1>3. /\ RequestsSettled' /\ AnswersSettled' /\ PagesSettled' /\ FormsSettled'
      /\ SettledFormsHonoured'
  BY <1>2 DEF TabSettled, RequestsSettled, AnswersSettled, PagesSettled,
              FormsSettled, SettledFormsHonoured
<1>4. TypeOK'
  BY <1>1, <1>3, NetTypedStep, PageTypedStep, StatusTypedStep
     DEF TypeOK, NetTyped, PageTyped, FormsSettled
<1>5. QED
  BY <1>1, <1>3, <1>4, TokensStep DEF IInv

\* The inductive invariant of the dashboard (ui/mod.rs and its page script).
THEOREM DashboardInv == Spec => []IInv
BY InitIInv, NextIInv, PTL DEF Spec

\* The types of what the browser and the server exchange and keep.
THEOREM DashboardTypeOK == Spec => []TypeOK
BY DashboardInv, PTL DEF IInv

\* A form of a page opened after the browser had its cookie is not refused,
\* for any number of tabs (ensure_csrf and csrf_ok).
THEOREM DashboardFormsHonoured == Spec => []SettledFormsHonoured
BY DashboardInv, PTL DEF IInv

\* A device becomes active again only through the form of a page that showed
\* it revoked, however old that page is (status_form).
THEOREM DashboardOnlyReactivate == Spec => OnlyReactivateActivates
<1> DEFINE Reactivated ==
      status = "inactive" /\ status' = "active" =>
        \E t \in Tabs : net[t].kind = "post" /\ page[t].shown = "inactive"
                          /\ net'[t].kind = "redirect"
<1>1. IInv /\ [Next]_vars => [Reactivated]_vars
  <2> SUFFICES ASSUME IInv, [Next]_vars, status = "inactive", status' = "active"
               PROVE  \E t \in Tabs : /\ net[t].kind = "post"
                                      /\ page[t].shown = "inactive"
                                      /\ net'[t].kind = "redirect"
    OBVIOUS
  <2>1. TypeOK
    BY DEF IInv
  <2>2. ASSUME NEW t \in Tabs,
               \/ Load(t) \/ Submit(t) \/ Receive(t) \/ Lose(t) \/ ServePage(t)
               \/ Opens(t) \/ Breaks(t) \/ Refused(t) \/ Reload(t)
        PROVE  status' = status
    BY <2>2, Zenon DEF Load, Submit, Receive, Lose, ServePage, Opens, Breaks,
                       Refused, OnError, Reload
  <2>3. PICK t \in Tabs : ServePost(t)
    BY <2>2 DEF Next, vars
  <2>4. /\ net[t].kind = "post"
        /\ status' = FormStatus(page[t])
        /\ net' = [net EXCEPT ![t] = [kind |-> "redirect"]]
    BY <2>3 DEF ServePost
  <2>5. page[t] \in Pages
    BY <2>1, <2>4 DEF TypeOK
  <2>6. page[t].shown = "inactive"
    BY <2>4, <2>5 DEF FormStatus, Other, Pages, Statuses
  <2>7. net'[t].kind = "redirect"
    BY <2>1, <2>4 DEF TypeOK
  <2>8. QED
    BY <2>4, <2>6, <2>7
<1>2. QED
  BY <1>1, DashboardInv, PTL DEF Spec, OnlyReactivateActivates
=============================================================================
