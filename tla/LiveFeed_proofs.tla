-------------------------- MODULE LiveFeed_proofs ---------------------------
(***************************************************************************)
(* Proofs about the live feed, for every number of requests, clients and   *)
(* events, and every size of the ring and of the buffers.                  *)
(***************************************************************************)
EXTENDS LiveFeed, FiniteSetTheorems, SequenceTheorems, TLAPS

\* The uplink requests under way.
Handled == {q \in Requests : request[q] # "idle"}

\* Every uplink accepted is under way, was broadcast, or failed.
Counted ==
  /\ IsFiniteSet(Handled)
  /\ sent + Cardinality(Handled) <= accepted

\* Where a connection is in its life, and that its forwarder is not ahead of
\* the broadcasts.
Life(c) ==
  /\ client[c] = "new" => /\ task[c] = "none" /\ start[c] = 0 /\ cursor[c] = 0
                          /\ seen[c] = <<>> /\ buffer[c] = <<>>
  /\ task[c] = "none" <=> client[c] = "new"
  /\ task[c] = "send" <=> held[c] # 0
  /\ client[c] # "new" => start[c] < cursor[c] /\ cursor[c] <= sent + 1

Ascending(s) == \A i, j \in 1 .. Len(s) : i < j => s[i] < s[j]

\* What is on its way ascends, also across the places where it is.
InOrder(c) ==
  /\ Ascending(seen[c]) /\ Ascending(buffer[c])
  /\ \A i \in 1 .. Len(seen[c]) : start[c] < seen[c][i] /\ seen[c][i] < cursor[c]
  /\ \A i \in 1 .. Len(buffer[c]) : start[c] < buffer[c][i] /\ buffer[c][i] < cursor[c]
  /\ \A i \in 1 .. Len(seen[c]), j \in 1 .. Len(buffer[c]) : seen[c][i] < buffer[c][j]
  /\ held[c] # 0 =>
       /\ start[c] < held[c] /\ held[c] < cursor[c]
       /\ \A i \in 1 .. Len(seen[c]) : seen[c][i] < held[c]
       /\ \A i \in 1 .. Len(buffer[c]) : buffer[c][i] < held[c]

\* A buffer was never full, and a forwarder never a ring behind, unless the
\* client is known to be strained.
Strain(c) ==
  /\ Len(buffer[c]) <= CLIENT_BUFFER
  /\ Len(buffer[c]) = CLIENT_BUFFER => strained[c]
  /\ task[c] \in {"recv", "send"} /\ cursor[c] < Oldest(sent) => strained[c]

\* The events of a client that was never strained count on from its start.
NoGap(c) ==
  client[c] = "open" /\ ~ strained[c] =>
    /\ \A i \in 1 .. Len(seen[c]) : seen[c][i] = start[c] + i
    /\ \A i \in 1 .. Len(buffer[c]) : buffer[c][i] = start[c] + Len(seen[c]) + i
    /\ held[c] = 0 => cursor[c] = start[c] + Len(seen[c]) + Len(buffer[c]) + 1
    /\ held[c] # 0 => /\ held[c] = start[c] + Len(seen[c]) + Len(buffer[c]) + 1
                      /\ cursor[c] = held[c] + 1

Connection(c) == Life(c) /\ InOrder(c) /\ Strain(c) /\ NoGap(c)

IInv ==
  /\ TypeOK
  /\ Counted
  /\ \A c \in Conns : Connection(c)

-----------------------------------------------------------------------------
(***************************************************************************)
(* Sequences.                                                              *)
(***************************************************************************)

\* Appending and taking the head, element by element.
LEMMA AppendAt ==
  ASSUME NEW S, NEW s \in Seq(S), NEW e \in S
  PROVE  /\ Append(s, e) \in Seq(S)
         /\ Len(Append(s, e)) = Len(s) + 1
         /\ \A i \in 1 .. Len(s) : Append(s, e)[i] = s[i]
         /\ Append(s, e)[Len(s) + 1] = e
OBVIOUS

\* What Tail leaves of a sequence.
LEMMA TailAt ==
  ASSUME NEW S, NEW s \in Seq(S), s # <<>>
  PROVE  /\ Tail(s) \in Seq(S) /\ Head(s) \in S /\ Head(s) = s[1]
         /\ Len(s) \in Nat \ {0}
         /\ Len(Tail(s)) = Len(s) - 1
         /\ \A i \in 1 .. Len(s) - 1 : Tail(s)[i] = s[i + 1]
OBVIOUS

\* An ascending sequence stays so when it gets something larger at its end.
LEMMA AscendingAppend ==
  ASSUME NEW s \in Seq(Nat), NEW e \in Nat, Ascending(s),
         \A i \in 1 .. Len(s) : s[i] < e
  PROVE  Ascending(Append(s, e))
<1>1. Len(s) \in Nat
  OBVIOUS
<1>2. ASSUME NEW i \in 1 .. Len(s) + 1, NEW j \in 1 .. Len(s) + 1, i < j
      PROVE  Append(s, e)[i] < Append(s, e)[j]
  <2>1. i \in 1 .. Len(s) /\ Append(s, e)[i] = s[i]
    BY <1>1, <1>2, AppendAt
  <2>2. CASE j \in 1 .. Len(s)
    BY <1>2, <2>1, <2>2, AppendAt DEF Ascending
  <2>3. CASE j = Len(s) + 1
    BY <2>1, <2>3, AppendAt
  <2>4. QED
    BY <1>1, <1>2, <2>2, <2>3
<1>3. Len(Append(s, e)) = Len(s) + 1
  BY AppendAt
<1>4. QED
  BY <1>2, <1>3 DEF Ascending

\* What is left of an ascending sequence ascends, and is above its head.
LEMMA AscendingTail ==
  ASSUME NEW s \in Seq(Nat), s # <<>>, Ascending(s)
  PROVE  /\ Ascending(Tail(s))
         /\ \A i \in 1 .. Len(Tail(s)) : Head(s) < Tail(s)[i]
<1>1. /\ Len(s) \in Nat \ {0} /\ Len(Tail(s)) = Len(s) - 1 /\ Head(s) = s[1]
      /\ \A i \in 1 .. Len(s) - 1 : Tail(s)[i] = s[i + 1]
  BY TailAt
<1>2. ASSUME NEW i \in 1 .. Len(Tail(s)), NEW j \in 1 .. Len(Tail(s)), i < j
      PROVE  Tail(s)[i] < Tail(s)[j]
  <2>1. i + 1 \in 1 .. Len(s) /\ j + 1 \in 1 .. Len(s) /\ i + 1 < j + 1
    BY <1>1, <1>2
  <2>2. QED
    BY <1>1, <2>1 DEF Ascending
<1>3. ASSUME NEW i \in 1 .. Len(Tail(s)) PROVE Head(s) < Tail(s)[i]
  <2>1. 1 \in 1 .. Len(s) /\ i + 1 \in 1 .. Len(s) /\ 1 < i + 1
    BY <1>1
  <2>2. QED
    BY <1>1, <2>1 DEF Ascending
<1>4. Ascending(Tail(s))
  BY <1>2 DEF Ascending
<1>5. QED
  BY <1>3, <1>4

\* Counting on with one element moved from the second part to the first.
LEMMA CountingShift ==
  ASSUME NEW a \in Nat, NEW m \in Nat, NEW n \in Nat \ {0}
  PROVE  /\ a + m + n + 1 = a + (m + 1) + (n - 1) + 1
         /\ \A i \in 1 .. n - 1 : a + m + (i + 1) = a + (m + 1) + i
OBVIOUS

\* The elements of three sequences in a row.
LEMMA ThreeParts ==
  ASSUME NEW a \in Seq(Nat), NEW b \in Seq(Nat), NEW d \in Seq(Nat)
  PROVE  /\ a \o b \o d \in Seq(Nat)
         /\ Len(a \o b \o d) = Len(a) + Len(b) + Len(d)
         /\ \A i \in 1 .. Len(a) : (a \o b \o d)[i] = a[i]
         /\ \A i \in 1 .. Len(b) : (a \o b \o d)[Len(a) + i] = b[i]
         /\ \A i \in 1 .. Len(d) : (a \o b \o d)[Len(a) + Len(b) + i] = d[i]
<1>1. Len(a) \in Nat /\ Len(b) \in Nat /\ Len(d) \in Nat
  OBVIOUS
<1>2. /\ a \o b \in Seq(Nat) /\ Len(a \o b) = Len(a) + Len(b)
      /\ \A i \in 1 .. Len(a) + Len(b) :
           (a \o b)[i] = IF i <= Len(a) THEN a[i] ELSE b[i - Len(a)]
  BY ConcatProperties, Zenon
<1> DEFINE s == a \o b
<1>3. s \in Seq(Nat)
  BY <1>2
<1>4. /\ Len(s) = Len(a) + Len(b)
      /\ \A i \in 1 .. Len(a) : s[i] = a[i]
      /\ \A i \in 1 .. Len(b) : s[Len(a) + i] = b[i]
  BY <1>1, <1>2
<1> HIDE DEF s
<1>5. /\ s \o d \in Seq(Nat) /\ Len(s \o d) = Len(s) + Len(d)
      /\ \A i \in 1 .. Len(s) + Len(d) :
           (s \o d)[i] = IF i <= Len(s) THEN s[i] ELSE d[i - Len(s)]
  BY <1>3, ConcatProperties, Zenon
<1>6. \A i \in 1 .. Len(s) : (s \o d)[i] = s[i]
  BY <1>1, <1>4, <1>5
<1>7. \A i \in 1 .. Len(d) : (s \o d)[Len(s) + i] = d[i]
  BY <1>1, <1>4, <1>5
<1>8. \A i \in 1 .. Len(a) : (s \o d)[i] = a[i]
  BY <1>1, <1>4, <1>6
<1>9. \A i \in 1 .. Len(b) : (s \o d)[Len(a) + i] = b[i]
  BY <1>1, <1>4, <1>6
<1>10. QED
  BY <1>4, <1>5, <1>7, <1>8, <1>9 DEF s

\* How far counting on gets: the elements, and what is held besides.
LEMMA CountingRest ==
  ASSUME NEW a \in Nat, NEW m \in Nat, NEW n \in Nat, NEW k \in {0, 1}
  PROVE  /\ a + m + n + 0 + 1 = a + m + n + 1
         /\ (a + m + n + k + 1) - 1 - a = m + n + k
OBVIOUS

\* What is below something below something else; to be cited where the context
\* is too large to find it again.
LEMMA LessThrough ==
  ASSUME NEW a \in Nat, NEW b \in Nat, NEW d \in Nat, a < b, b < d
  PROVE  a < d
OBVIOUS

\* A sequence that counts on from k still does with the next number appended.
LEMMA CountingAppend ==
  ASSUME NEW s \in Seq(Nat), NEW k \in Nat, \A i \in 1 .. Len(s) : s[i] = k + i
  PROVE  \A i \in 1 .. Len(s) + 1 : Append(s, k + Len(s) + 1)[i] = k + i
<1>1. Len(s) \in Nat /\ k + Len(s) + 1 \in Nat
  OBVIOUS
<1>2. ASSUME NEW i \in 1 .. Len(s) + 1 PROVE Append(s, k + Len(s) + 1)[i] = k + i
  <2>1. CASE i \in 1 .. Len(s)
    BY <1>1, <2>1, AppendAt
  <2>2. CASE i = Len(s) + 1
    BY <1>1, <2>2, AppendAt
  <2>3. QED
    BY <1>1, <1>2, <2>1, <2>2
<1>3. QED
  BY <1>2

-----------------------------------------------------------------------------
(***************************************************************************)
(* Types, and the count of the events.                                     *)
(***************************************************************************)

\* No more events are broadcast than uplinks were accepted.
LEMMA CountStep == TypeOK /\ Counted /\ [Next]_vars => Counted'
<1> SUFFICES ASSUME TypeOK, Counted, [Next]_vars PROVE Counted'
  OBVIOUS
<1>0. /\ IsFiniteSet(Handled) /\ Cardinality(Handled) \in Nat
      /\ sent \in Nat /\ accepted \in Nat
  BY FS_CardinalityType, LiveFeedAssumption DEF Counted, TypeOK
<1>1. ASSUME NEW q \in Requests, Accept(q) PROVE Counted'
  <2>1. q \notin Handled /\ Handled' = Handled \cup {q}
    BY <1>1 DEF Accept, Handled, TypeOK
  <2>2. IsFiniteSet(Handled') /\ Cardinality(Handled') = Cardinality(Handled) + 1
    BY <1>0, <2>1, FS_AddElement
  <2>3. accepted' = accepted + 1 /\ sent' = sent
    BY <1>1 DEF Accept
  <2>4. QED
    BY <1>0, <2>2, <2>3 DEF Counted
<1>2. ASSUME NEW q \in Requests, q \in Handled, request' = [request EXCEPT ![q] = "idle"]
      PROVE  IsFiniteSet(Handled') /\ Cardinality(Handled') = Cardinality(Handled) - 1
  <2>1. Handled' = Handled \ {q}
    BY <1>2 DEF Handled, TypeOK
  <2>2. /\ IsFiniteSet(Handled \ {q})
        /\ Cardinality(Handled \ {q}) = Cardinality(Handled) - 1
    BY <1>0, <1>2, FS_RemoveElement, Zenon
  <2>3. QED
    BY <2>1, <2>2
<1>3. ASSUME NEW q \in Requests, HandleUplink(q) PROVE Counted'
  <2>1. q \in Handled /\ sent' = sent /\ accepted' = accepted
    BY <1>3 DEF HandleUplink, Handled
  <2>2. CASE request' = [request EXCEPT ![q] = "stored"]
    <3>1. Handled' = Handled
      BY <2>1, <2>2 DEF Handled, TypeOK
    <3>2. QED
      BY <2>1, <3>1 DEF Counted
  <2>3. CASE request' = [request EXCEPT ![q] = "idle"]
    <3>1. IsFiniteSet(Handled') /\ Cardinality(Handled') = Cardinality(Handled) - 1
      BY <1>2, <2>1, <2>3, Zenon
    <3>2. QED
      BY <1>0, <2>1, <3>1 DEF Counted
  <2>4. QED
    BY <1>3, <2>2, <2>3 DEF HandleUplink
<1>4. ASSUME NEW q \in Requests, Publish(q) PROVE Counted'
  <2>1. q \in Handled /\ sent' = sent + 1 /\ accepted' = accepted
           /\ request' = [request EXCEPT ![q] = "idle"]
    BY <1>4 DEF Publish, Handled
  <2>2. IsFiniteSet(Handled') /\ Cardinality(Handled') = Cardinality(Handled) - 1
    BY <1>2, <2>1, Zenon
  <2>3. QED
    BY <1>0, <2>1, <2>2 DEF Counted
<1>5. CASE UNCHANGED <<request, accepted, sent>>
  BY <1>5 DEF Counted, Handled
<1>6. QED
  BY <1>1, <1>3, <1>4, <1>5
     DEF Next, Handle, Forward, vars, server, Signal, Exit, Subscribe, Recv, Lagged,
         TrySend, Deliver, Disconnect

\* A request that is about to publish leaves room for its event.
LEMMA RoomToPublish ==
  ASSUME TypeOK, Counted, NEW q \in Requests, request[q] # "idle"
  PROVE  sent < MaxEvents
<1>1. IsFiniteSet(Handled) /\ q \in Handled
  BY DEF Counted, Handled
<1>2. Cardinality(Handled) \in Nat /\ Cardinality(Handled) # 0
  BY <1>1, FS_CardinalityType, FS_EmptySet
<1>3. QED
  BY <1>2, LiveFeedAssumption DEF Counted, TypeOK

\* Every step keeps the types.
LEMMA TypeStep == IInv /\ [Next]_vars => TypeOK'
<1> SUFFICES ASSUME IInv, [Next]_vars PROVE TypeOK'
  OBVIOUS
<1>0. TypeOK /\ Counted /\ \A c \in Conns : Life(c)
  BY DEF IInv, Connection
<1> USE LiveFeedAssumption
<1>1. ASSUME NEW q \in Requests, Accept(q) PROVE TypeOK'
  BY <1>0, <1>1 DEF Accept, feed, TypeOK
<1>2. ASSUME NEW q \in Requests, HandleUplink(q) PROVE TypeOK'
  BY <1>0, <1>2 DEF HandleUplink, feed, TypeOK
<1>3. ASSUME NEW q \in Requests, Publish(q) PROVE TypeOK'
  <2>1. sent' \in 0 .. MaxEvents
    BY <1>0, <1>3, RoomToPublish DEF Publish, TypeOK
  <2>2. request' \in [Requests -> {"idle", "handling", "stored"}]
    BY <1>0, <1>3 DEF Publish, TypeOK
  <2>3. strained' \in [Conns -> BOOLEAN]
    BY <1>0, <1>3, Zenon DEF Publish, TypeOK
  <2>4. QED
    BY <1>0, <1>3, <2>1, <2>2, <2>3 DEF Publish, TypeOK
<1>4. ASSUME NEW c \in Conns, Subscribe(c) PROVE TypeOK'
  BY <1>0, <1>4 DEF Subscribe, server, TypeOK
<1>5. ASSUME NEW c \in Conns, Recv(c) PROVE TypeOK'
  BY <1>0, <1>5 DEF Recv, server, TypeOK
<1>6. ASSUME NEW c \in Conns, Lagged(c) PROVE TypeOK'
  <2>1. Oldest(sent) \in 0 .. MaxEvents + 1
    BY <1>0 DEF Oldest, TypeOK
  <2>2. QED
    BY <1>0, <1>6, <2>1 DEF Lagged, server, TypeOK
<1>7. ASSUME NEW c \in Conns, TrySend(c) PROVE TypeOK'
  <2>1. held[c] \in Events
    BY <1>0, <1>7 DEF TrySend, Life, TypeOK, Events
  <2>2. buffer' \in [Conns -> Seq(Events)]
    <3>1. Append(buffer[c], held[c]) \in Seq(Events)
      BY <1>0, <2>1, AppendAt DEF TypeOK
    <3>2. QED
      BY <1>0, <1>7, <3>1 DEF TrySend, TypeOK
  <2>3. strained' \in [Conns -> BOOLEAN]
    BY <1>0, <1>7, Zenon DEF TrySend, TypeOK
  <2>4. held' \in [Conns -> 0 .. MaxEvents]
    BY <1>0, <1>7 DEF TrySend, TypeOK
  <2>5. task' \in [Conns -> {"none", "recv", "send", "ended"}]
    <3>1. task' \in {[task EXCEPT ![c] = "recv"], [task EXCEPT ![c] = "ended"]}
      BY <1>7, Zenon DEF TrySend
    <3>2. QED
      BY <1>0, <3>1 DEF TypeOK
  <2>6. QED
    BY <1>0, <1>7, <2>2, <2>3, <2>4, <2>5 DEF TrySend, server, TypeOK
<1>8. ASSUME NEW c \in Conns, Deliver(c) PROVE TypeOK'
  <2>1. /\ Tail(buffer[c]) \in Seq(Events) /\ Head(buffer[c]) \in Events
    BY <1>0, <1>8, TailAt DEF Deliver, TypeOK
  <2>2. Append(seen[c], Head(buffer[c])) \in Seq(Events)
    BY <1>0, <2>1, AppendAt DEF TypeOK
  <2>3. QED
    BY <1>0, <1>8, <2>1, <2>2 DEF Deliver, server, TypeOK
<1>9. ASSUME NEW c \in Conns, Disconnect(c) PROVE TypeOK'
  BY <1>0, <1>9 DEF Disconnect, server, TypeOK
<1>10. CASE Signal
  BY <1>0, <1>10 DEF Signal, feed, TypeOK
<1>11. CASE Exit
  BY <1>0, <1>11 DEF Exit, TypeOK
<1>12. CASE UNCHANGED vars
  BY <1>0, <1>12 DEF vars, server, feed, TypeOK
<1>13. QED
  BY <1>1, <1>2, <1>3, <1>4, <1>5, <1>6, <1>7, <1>8, <1>9, <1>10, <1>11, <1>12
     DEF Next, Handle, Forward

-----------------------------------------------------------------------------
(***************************************************************************)
(* Each connection, action by action.                                      *)
(***************************************************************************)

\* What a step says of one connection: all it depends on is as it was.
Same(c) ==
  /\ client'[c] = client[c] /\ task'[c] = task[c]
  /\ start'[c] = start[c] /\ cursor'[c] = cursor[c] /\ held'[c] = held[c]
  /\ buffer'[c] = buffer[c] /\ seen'[c] = seen[c]

\* A connection whose share of the state does not change keeps its invariant.
LEMMA SameConnection ==
  ASSUME NEW c \in Conns, Connection(c), Same(c), sent' = sent,
         strained'[c] = strained[c]
  PROVE  Connection(c)'
<1>1. Life(c)'
  BY DEF Connection, Life, Same
<1>2. InOrder(c)'
  BY DEF Connection, InOrder, Ascending, Same
<1>3. Strain(c)'
  BY DEF Connection, Strain, Oldest, Same
<1>4. NoGap(c)'
  BY DEF Connection, NoGap, Same
<1>5. QED
  BY <1>1, <1>2, <1>3, <1>4 DEF Connection

\* A broadcast may leave a forwarder a whole ring behind, and says so.
LEMMA PublishConnection ==
  ASSUME TypeOK, NEW q \in Requests, Publish(q), NEW c \in Conns, Connection(c)
  PROVE  Connection(c)'
<1>1. Same(c) /\ sent' = sent + 1
  BY DEF Publish, Same
<1>2. strained'[c] <=> \/ strained[c]
                       \/ task[c] \in {"recv", "send"} /\ cursor[c] < Oldest(sent + 1)
  BY Zenon DEF Publish
<1>3. sent \in Nat /\ cursor[c] \in Nat
  BY LiveFeedAssumption DEF TypeOK
<1>4. Life(c)'
  BY <1>1, <1>3 DEF Connection, Life, Same
<1>5. InOrder(c)'
  BY <1>1 DEF Connection, InOrder, Ascending, Same
<1>6. Strain(c)'
  BY <1>1, <1>2 DEF Connection, Strain, Same
<1>7. NoGap(c)'
  BY <1>1, <1>2 DEF Connection, NoGap, Same
<1>8. QED
  BY <1>4, <1>5, <1>6, <1>7 DEF Connection

\* A new client has everything before it.
LEMMA SubscribeConnection ==
  ASSUME TypeOK, NEW c \in Conns, Subscribe(c), Connection(c)
  PROVE  Connection(c)'
<1>1. /\ client'[c] = "open" /\ task'[c] = "recv"
      /\ start'[c] = sent /\ cursor'[c] = sent + 1
      /\ held'[c] = 0 /\ buffer'[c] = <<>> /\ seen'[c] = <<>>
      /\ sent' = sent /\ strained'[c] = strained[c] /\ sent \in Nat
  BY LiveFeedAssumption DEF Subscribe, server, TypeOK, Connection, Life
<1>2. Life(c)'
  BY <1>1 DEF Life
<1>3. InOrder(c)'
  BY <1>1 DEF InOrder, Ascending
<1>4. Strain(c)'
  BY <1>1, LiveFeedAssumption DEF Strain, Oldest
<1>5. NoGap(c)'
  BY <1>1 DEF NoGap
<1>6. QED
  BY <1>2, <1>3, <1>4, <1>5 DEF Connection

\* The event received is the next one after all that was.
LEMMA RecvConnection ==
  ASSUME TypeOK, NEW c \in Conns, Recv(c), Connection(c)
  PROVE  Connection(c)'
<1>1. /\ client'[c] = client[c] /\ task[c] = "recv" /\ task'[c] = "send"
      /\ start'[c] = start[c] /\ cursor'[c] = cursor[c] + 1
      /\ held'[c] = cursor[c] /\ buffer'[c] = buffer[c] /\ seen'[c] = seen[c]
      /\ sent' = sent /\ strained'[c] = strained[c]
      /\ Oldest(sent) <= cursor[c] /\ cursor[c] <= sent
  BY DEF Recv, server, TypeOK
<1>2. /\ sent \in Nat /\ cursor[c] \in Nat /\ start[c] \in Nat
      /\ held[c] = 0 /\ client[c] # "new" /\ start[c] < cursor[c]
      /\ Oldest(sent) \in Nat
      /\ seen[c] \in Seq(Nat) /\ buffer[c] \in Seq(Nat)
  BY <1>1, LiveFeedAssumption DEF TypeOK, Connection, Life, Oldest, Events
<1>3. Life(c)'
  BY <1>1, <1>2 DEF Connection, Life
<1>4. InOrder(c)'
  <2>1. InOrder(c)
    BY DEF Connection
  <2>2. Ascending(seen'[c]) /\ Ascending(buffer'[c])
    BY <1>1, <2>1 DEF InOrder
  <2>3. /\ cursor[c] \in Nat /\ cursor'[c] \in Nat /\ cursor[c] < cursor'[c]
        /\ seen[c] \in Seq(Nat) /\ buffer[c] \in Seq(Nat)
    BY <1>1, <1>2
  <2>4. \A i \in 1 .. Len(seen'[c]) : start'[c] < seen'[c][i] /\ seen'[c][i] < cursor'[c]
    <3>1. SUFFICES ASSUME NEW i \in 1 .. Len(seen[c])
                   PROVE  start[c] < seen[c][i] /\ seen[c][i] < cursor'[c]
      BY <1>1, Zenon
    <3>2. seen[c][i] \in Nat
      BY <2>3, ElementOfSeq, Zenon
    <3>3. start[c] < seen[c][i] /\ seen[c][i] < cursor[c]
      BY <2>1, Zenon DEF InOrder
    <3>4. QED
      BY <2>3, <3>2, <3>3, LessThrough, Zenon
  <2>5. \A i \in 1 .. Len(buffer'[c]) :
          start'[c] < buffer'[c][i] /\ buffer'[c][i] < cursor'[c]
    <3>1. SUFFICES ASSUME NEW i \in 1 .. Len(buffer[c])
                   PROVE  start[c] < buffer[c][i] /\ buffer[c][i] < cursor'[c]
      BY <1>1, Zenon
    <3>2. buffer[c][i] \in Nat
      BY <2>3, ElementOfSeq, Zenon
    <3>3. start[c] < buffer[c][i] /\ buffer[c][i] < cursor[c]
      BY <2>1, Zenon DEF InOrder
    <3>4. QED
      BY <2>3, <3>2, <3>3, LessThrough, Zenon
  <2>6. \A i \in 1 .. Len(seen'[c]), j \in 1 .. Len(buffer'[c]) :
          seen'[c][i] < buffer'[c][j]
    BY <1>1, <2>1 DEF InOrder
  <2>7. /\ start'[c] < held'[c] /\ held'[c] < cursor'[c]
        /\ \A i \in 1 .. Len(seen'[c]) : seen'[c][i] < held'[c]
        /\ \A i \in 1 .. Len(buffer'[c]) : buffer'[c][i] < held'[c]
    BY <1>1, <1>2, <2>1 DEF InOrder
  <2>8. QED
    BY <2>2, <2>4, <2>5, <2>6, <2>7 DEF InOrder
<1>5. Strain(c)'
  BY <1>1, <1>2, LiveFeedAssumption DEF Connection, Strain, Oldest
<1>6. NoGap(c)'
  <2>1. SUFFICES ASSUME client[c] = "open", ~ strained[c] PROVE NoGap(c)'
    BY <1>1, Zenon DEF NoGap
  <2>2. /\ \A i \in 1 .. Len(seen[c]) : seen[c][i] = start[c] + i
        /\ \A i \in 1 .. Len(buffer[c]) : buffer[c][i] = start[c] + Len(seen[c]) + i
        /\ cursor[c] = start[c] + Len(seen[c]) + Len(buffer[c]) + 1
    BY <1>2, <2>1, Zenon DEF Connection, NoGap
  <2>3. cursor[c] # 0
    BY <1>2
  <2>4. QED
    BY <1>1, <2>2, <2>3, Zenon DEF NoGap
<1>7. QED
  BY <1>3, <1>4, <1>5, <1>6 DEF Connection

\* Skipping ahead is only for a client that is known to be strained.
LEMMA LaggedConnection ==
  ASSUME TypeOK, NEW c \in Conns, Lagged(c), Connection(c)
  PROVE  Connection(c)'
<1>1. /\ client'[c] = client[c] /\ task[c] = "recv" /\ task'[c] = "recv"
      /\ start'[c] = start[c] /\ cursor'[c] = Oldest(sent)
      /\ held'[c] = held[c] /\ buffer'[c] = buffer[c] /\ seen'[c] = seen[c]
      /\ sent' = sent /\ strained'[c] = strained[c]
      /\ cursor[c] < Oldest(sent)
  BY DEF Lagged, server, TypeOK
<1>2. /\ sent \in Nat /\ cursor[c] \in Nat /\ start[c] \in Nat
      /\ held[c] = 0 /\ client[c] # "new" /\ start[c] < cursor[c]
      /\ Oldest(sent) \in Nat /\ Oldest(sent) <= sent + 1
      /\ seen[c] \in Seq(Nat) /\ buffer[c] \in Seq(Nat)
  BY <1>1, LiveFeedAssumption DEF TypeOK, Connection, Life, Oldest, Events
<1>3. strained[c]
  BY <1>1 DEF Connection, Strain
<1>4. Life(c)'
  BY <1>1, <1>2 DEF Connection, Life
<1>5. InOrder(c)'
  <2>1. InOrder(c)
    BY DEF Connection
  <2>2. Ascending(seen'[c]) /\ Ascending(buffer'[c])
    BY <1>1, <2>1 DEF InOrder
  <2>3. /\ cursor[c] \in Nat /\ cursor'[c] \in Nat /\ cursor[c] < cursor'[c]
        /\ seen[c] \in Seq(Nat) /\ buffer[c] \in Seq(Nat)
    BY <1>1, <1>2
  <2>4. \A i \in 1 .. Len(seen'[c]) : start'[c] < seen'[c][i] /\ seen'[c][i] < cursor'[c]
    <3>1. SUFFICES ASSUME NEW i \in 1 .. Len(seen[c])
                   PROVE  start[c] < seen[c][i] /\ seen[c][i] < cursor'[c]
      BY <1>1, Zenon
    <3>2. seen[c][i] \in Nat
      BY <2>3, ElementOfSeq, Zenon
    <3>3. start[c] < seen[c][i] /\ seen[c][i] < cursor[c]
      BY <2>1, Zenon DEF InOrder
    <3>4. QED
      BY <2>3, <3>2, <3>3, LessThrough, Zenon
  <2>5. \A i \in 1 .. Len(buffer'[c]) :
          start'[c] < buffer'[c][i] /\ buffer'[c][i] < cursor'[c]
    <3>1. SUFFICES ASSUME NEW i \in 1 .. Len(buffer[c])
                   PROVE  start[c] < buffer[c][i] /\ buffer[c][i] < cursor'[c]
      BY <1>1, Zenon
    <3>2. buffer[c][i] \in Nat
      BY <2>3, ElementOfSeq, Zenon
    <3>3. start[c] < buffer[c][i] /\ buffer[c][i] < cursor[c]
      BY <2>1, Zenon DEF InOrder
    <3>4. QED
      BY <2>3, <3>2, <3>3, LessThrough, Zenon
  <2>6. \A i \in 1 .. Len(seen'[c]), j \in 1 .. Len(buffer'[c]) :
          seen'[c][i] < buffer'[c][j]
    BY <1>1, <2>1 DEF InOrder
  <2>7. held'[c] = 0
    BY <1>1, <1>2
  <2>8. QED
    BY <2>2, <2>4, <2>5, <2>6, <2>7 DEF InOrder
<1>6. Strain(c)'
  BY <1>1, <1>3 DEF Connection, Strain
<1>7. NoGap(c)'
  BY <1>1, <1>3 DEF NoGap
<1>8. QED
  BY <1>4, <1>5, <1>6, <1>7 DEF Connection

\* The event the forwarder holds is passed on, or dropped for a client whose
\* buffer is full and hence known to be strained.
LEMMA TrySendConnection ==
  ASSUME TypeOK, NEW c \in Conns, TrySend(c), Connection(c)
  PROVE  Connection(c)'
<1>1. /\ client'[c] = client[c] /\ task[c] = "send" /\ start'[c] = start[c]
      /\ cursor'[c] = cursor[c] /\ held'[c] = 0 /\ seen'[c] = seen[c] /\ sent' = sent
  BY DEF TrySend, server, TypeOK
<1>2. /\ sent \in Nat /\ cursor[c] \in Nat /\ start[c] \in Nat
      /\ held[c] \in Nat /\ held[c] # 0 /\ client[c] # "new" /\ start[c] < cursor[c]
      /\ seen[c] \in Seq(Nat) /\ buffer[c] \in Seq(Nat)
      /\ CLIENT_BUFFER \in Nat
  BY <1>1, LiveFeedAssumption DEF TypeOK, Connection, Life, Events
<1>3. Life(c) /\ InOrder(c) /\ Strain(c) /\ NoGap(c)
  BY DEF Connection
<1>4. ASSUME task'[c] \in {"recv", "ended"} PROVE Life(c)'
  BY <1>1, <1>2, <1>3, <1>4 DEF Life
<1>5. ASSUME buffer'[c] = buffer[c] PROVE InOrder(c)'
  BY <1>1, <1>3, <1>5 DEF InOrder
<1>6. CASE /\ client[c] = "gone" /\ task' = [task EXCEPT ![c] = "ended"]
           /\ UNCHANGED <<buffer, strained>>
  <2>1. task'[c] = "ended" /\ buffer'[c] = buffer[c] /\ strained'[c] = strained[c]
    BY <1>6 DEF TypeOK
  <2>2. Strain(c)'
    BY <1>3, <2>1 DEF Strain
  <2>3. NoGap(c)'
    BY <1>1, <1>6 DEF NoGap
  <2>4. QED
    BY <1>4, <1>5, <2>1, <2>2, <2>3 DEF Connection
<1>7. CASE /\ client[c] = "open" /\ Len(buffer[c]) = CLIENT_BUFFER
           /\ task' = [task EXCEPT ![c] = "recv"]
           /\ UNCHANGED <<buffer, strained>>
  <2>1. task'[c] = "recv" /\ buffer'[c] = buffer[c] /\ strained'[c] = strained[c]
    BY <1>7 DEF TypeOK
  <2>2. strained[c]
    BY <1>3, <1>7 DEF Strain
  <2>3. Strain(c)'
    BY <1>3, <2>1, <2>2 DEF Strain
  <2>4. NoGap(c)'
    BY <2>1, <2>2 DEF NoGap
  <2>5. QED
    BY <1>4, <1>5, <2>1, <2>3, <2>4 DEF Connection
<1>8. CASE /\ client[c] = "open" /\ Len(buffer[c]) < CLIENT_BUFFER
           /\ buffer' = [buffer EXCEPT ![c] = Append(@, held[c])]
           /\ strained' = [strained EXCEPT
                             ![c] = @ \/ Len(buffer'[c]) = CLIENT_BUFFER]
           /\ task' = [task EXCEPT ![c] = "recv"]
  <2> DEFINE n == Len(buffer[c])
  <2>1. task'[c] = "recv" /\ buffer'[c] = Append(buffer[c], held[c])
    BY <1>8 DEF TypeOK
  <2>2. strained'[c] <=> strained[c] \/ Len(buffer'[c]) = CLIENT_BUFFER
    BY <1>8, Zenon DEF TypeOK
  <2>3. /\ n \in Nat /\ Len(buffer'[c]) = n + 1
        /\ \A i \in 1 .. n : buffer'[c][i] = buffer[c][i]
        /\ buffer'[c][n + 1] = held[c]
    BY <1>2, <2>1, AppendAt
  <2>4. \A i \in 1 .. n + 1 : i \in 1 .. n \/ i = n + 1
    BY <2>3
  <2>5. InOrder(c)'
    <3>1. Ascending(seen'[c])
      BY <1>1, <1>3 DEF InOrder
    <3>2. Ascending(buffer'[c])
      BY <1>2, <1>3, <2>1, AscendingAppend DEF InOrder
    <3>3. \A i \in 1 .. Len(seen'[c]) : start'[c] < seen'[c][i] /\ seen'[c][i] < cursor'[c]
      BY <1>1, <1>3 DEF InOrder
    <3>4. \A i \in 1 .. Len(buffer'[c]) :
            start'[c] < buffer'[c][i] /\ buffer'[c][i] < cursor'[c]
      BY <1>1, <1>2, <1>3, <2>3, <2>4 DEF InOrder
    <3>5. \A i \in 1 .. Len(seen'[c]), j \in 1 .. Len(buffer'[c]) :
            seen'[c][i] < buffer'[c][j]
      BY <1>1, <1>2, <1>3, <2>3, <2>4 DEF InOrder
    <3>6. QED
      BY <1>1, <3>1, <3>2, <3>3, <3>4, <3>5 DEF InOrder
  <2>6. Strain(c)'
    <3>1. Len(buffer'[c]) <= CLIENT_BUFFER
      BY <1>2, <1>8, <2>3
    <3>2. cursor'[c] < Oldest(sent') => strained'[c]
      BY <1>1, <1>3, <2>2 DEF Strain, Oldest
    <3>3. QED
      BY <2>2, <3>1, <3>2 DEF Strain
  <2>7. NoGap(c)'
    <3>1. SUFFICES ASSUME ~ strained[c] PROVE NoGap(c)'
      BY <2>2 DEF NoGap
    <3>2. /\ \A i \in 1 .. Len(seen[c]) : seen[c][i] = start[c] + i
          /\ \A i \in 1 .. n : buffer[c][i] = start[c] + Len(seen[c]) + i
          /\ held[c] = start[c] + Len(seen[c]) + n + 1
          /\ cursor[c] = held[c] + 1
      BY <1>2, <1>3, <1>8, <3>1 DEF NoGap
    <3>3. Len(seen[c]) \in Nat
      BY <1>2
    <3>4. \A i \in 1 .. n + 1 : buffer'[c][i] = start[c] + Len(seen[c]) + i
      <4> DEFINE k == start[c] + Len(seen[c])
      <4>1. k \in Nat /\ buffer[c] \in Seq(Nat)
        BY <1>2, <3>3
      <4>2. buffer'[c] = Append(buffer[c], k + Len(buffer[c]) + 1)
        BY <2>1, <3>2, Zenon
      <4>3. \A i \in 1 .. Len(buffer[c]) : buffer[c][i] = k + i
        BY <3>2, Zenon
      <4> HIDE DEF k
      <4>4. \A i \in 1 .. Len(buffer[c]) + 1 :
              Append(buffer[c], k + Len(buffer[c]) + 1)[i] = k + i
        BY <4>1, <4>3, CountingAppend, Zenon
      <4>5. QED
        BY <4>2, <4>4, Zenon DEF k
    <3>5. cursor[c] = start[c] + Len(seen[c]) + (n + 1) + 1
      <4>1. start[c] + Len(seen[c]) \in Nat
        BY <1>2, <3>3
      <4>2. QED
        BY <2>3, <3>2, <4>1
    <3>6. QED
      BY <1>1, <2>3, <3>2, <3>4, <3>5 DEF NoGap
  <2>8. QED
    BY <1>4, <2>1, <2>5, <2>6, <2>7 DEF Connection
<1>9. QED
  BY <1>6, <1>7, <1>8 DEF TrySend

\* The oldest buffered event becomes the newest the client has.
LEMMA DeliverConnection ==
  ASSUME TypeOK, NEW c \in Conns, Deliver(c), Connection(c)
  PROVE  Connection(c)'
<1> DEFINE m == Len(seen[c])
           n == Len(buffer[c])
           h == Head(buffer[c])
<1>1. /\ client'[c] = client[c] /\ task'[c] = task[c] /\ start'[c] = start[c]
      /\ cursor'[c] = cursor[c] /\ held'[c] = held[c] /\ sent' = sent
      /\ strained'[c] = strained[c] /\ client[c] = "open" /\ buffer[c] # <<>>
      /\ seen'[c] = Append(seen[c], h) /\ buffer'[c] = Tail(buffer[c])
  BY DEF Deliver, server, TypeOK
<1>2. /\ sent \in Nat /\ cursor[c] \in Nat /\ start[c] \in Nat /\ held[c] \in Nat
      /\ seen[c] \in Seq(Nat) /\ buffer[c] \in Seq(Nat) /\ CLIENT_BUFFER \in Nat
  BY LiveFeedAssumption DEF TypeOK, Events
<1>3. Life(c) /\ InOrder(c) /\ Strain(c) /\ NoGap(c)
  BY DEF Connection
<1>4. /\ n \in Nat \ {0} /\ Len(buffer'[c]) = n - 1 /\ h = buffer[c][1] /\ h \in Nat
      /\ \A i \in 1 .. n - 1 : buffer'[c][i] = buffer[c][i + 1]
  BY <1>1, <1>2, TailAt
<1>5. /\ m \in Nat /\ Len(seen'[c]) = m + 1 /\ seen'[c][m + 1] = h
      /\ \A i \in 1 .. m : seen'[c][i] = seen[c][i]
  BY <1>1, <1>2, <1>4, AppendAt
<1>6. /\ \A i \in 1 .. m + 1 : i \in 1 .. m \/ i = m + 1
      /\ \A i \in 1 .. n - 1 : i + 1 \in 1 .. n
      /\ 1 \in 1 .. n
  BY <1>4, <1>5
<1> HIDE DEF m, n, h
<1>7. Life(c)'
  BY <1>1, <1>3 DEF Life
<1>8. InOrder(c)'
  <2>1. Ascending(seen'[c])
    <3>1. \A i \in 1 .. Len(seen[c]) : seen[c][i] < h
      BY <1>3, <1>4, <1>6 DEF InOrder, n
    <3>2. QED
      BY <1>1, <1>2, <1>3, <1>4, <3>1, AscendingAppend DEF InOrder
  <2>2. Ascending(buffer'[c]) /\ \A i \in 1 .. n - 1 : h < buffer'[c][i]
    BY <1>1, <1>2, <1>3, <1>4, AscendingTail DEF InOrder, h
  <2>3. \A i \in 1 .. Len(seen'[c]) : start'[c] < seen'[c][i] /\ seen'[c][i] < cursor'[c]
    <3>1. start[c] < h /\ h < cursor[c]
      BY <1>3, <1>4, <1>6 DEF InOrder, n
    <3>2. QED
      BY <1>1, <1>3, <1>5, <1>6, <3>1 DEF InOrder, m
  <2>4. \A i \in 1 .. Len(buffer'[c]) :
          start'[c] < buffer'[c][i] /\ buffer'[c][i] < cursor'[c]
    BY <1>1, <1>3, <1>4, <1>6 DEF InOrder, n
  <2>5. \A i \in 1 .. Len(seen'[c]), j \in 1 .. Len(buffer'[c]) :
          seen'[c][i] < buffer'[c][j]
    BY <1>3, <1>4, <1>5, <1>6, <2>2 DEF InOrder, m, n
  <2>6. held'[c] # 0 =>
          /\ start'[c] < held'[c] /\ held'[c] < cursor'[c]
          /\ \A i \in 1 .. Len(seen'[c]) : seen'[c][i] < held'[c]
          /\ \A i \in 1 .. Len(buffer'[c]) : buffer'[c][i] < held'[c]
    BY <1>1, <1>3, <1>4, <1>5, <1>6 DEF InOrder, m, n
  <2>7. QED
    BY <2>1, <2>2, <2>3, <2>4, <2>5, <2>6 DEF InOrder
<1>9. Strain(c)'
  <2>1. Len(buffer'[c]) <= CLIENT_BUFFER /\ Len(buffer'[c]) # CLIENT_BUFFER
    BY <1>2, <1>3, <1>4 DEF Strain, n
  <2>2. QED
    BY <1>1, <1>3, <2>1 DEF Strain, Oldest
<1>10. NoGap(c)'
  <2>1. SUFFICES ASSUME ~ strained[c] PROVE NoGap(c)'
    BY <1>1 DEF NoGap
  <2>2. /\ \A i \in 1 .. m : seen[c][i] = start[c] + i
        /\ \A i \in 1 .. n : buffer[c][i] = start[c] + m + i
        /\ held[c] = 0 => cursor[c] = start[c] + m + n + 1
        /\ held[c] # 0 => /\ held[c] = start[c] + m + n + 1
                          /\ cursor[c] = held[c] + 1
    BY <1>1, <1>3, <2>1 DEF NoGap, m, n
  <2>3. h = start[c] + m + 1
    BY <1>4, <1>6, <2>2
  <2>4. \A i \in 1 .. m + 1 : seen'[c][i] = start[c] + i
    <3>1. \A i \in 1 .. m + 1 : Append(seen[c], start[c] + m + 1)[i] = start[c] + i
      <4>1. seen[c] \in Seq(Nat) /\ start[c] \in Nat
        BY <1>2
      <4>2. QED
        BY <2>2, <4>1, CountingAppend, Zenon DEF m
    <3>2. QED
      BY <1>1, <2>3, <3>1, Zenon
  <2>5. start[c] \in Nat /\ m \in Nat /\ n \in Nat \ {0}
    BY <1>2, <1>4, <1>5
  <2>6. \A i \in 1 .. n - 1 : buffer'[c][i] = start[c] + (m + 1) + i
    <3>1. \A i \in 1 .. n - 1 : start[c] + m + (i + 1) = start[c] + (m + 1) + i
      BY <2>5, CountingShift, Zenon
    <3>2. \A i \in 1 .. n - 1 : buffer'[c][i] = start[c] + m + (i + 1)
      BY <1>4, <1>6, <2>2
    <3>3. QED
      BY <3>1, <3>2, Zenon
  <2>7. start[c] + m + n + 1 = start[c] + (m + 1) + (n - 1) + 1
    BY <2>5, CountingShift, Zenon
  <2>8. QED
    BY <1>1, <1>4, <1>5, <2>2, <2>4, <2>6, <2>7 DEF NoGap
<1>11. QED
  BY <1>7, <1>8, <1>9, <1>10 DEF Connection

\* What was on its way to a client that leaves is lost with it.
LEMMA DisconnectConnection ==
  ASSUME TypeOK, NEW c \in Conns, Disconnect(c), Connection(c)
  PROVE  Connection(c)'
<1>1. /\ client[c] = "open" /\ client'[c] = "gone" /\ task'[c] = task[c]
      /\ start'[c] = start[c] /\ cursor'[c] = cursor[c] /\ held'[c] = held[c]
      /\ seen'[c] = seen[c] /\ buffer'[c] = <<>> /\ sent' = sent
      /\ strained'[c] = strained[c]
  BY DEF Disconnect, server, TypeOK
<1>2. Life(c) /\ InOrder(c) /\ Strain(c)
  BY DEF Connection
<1>3. Life(c)'
  BY <1>1, <1>2 DEF Life
<1>4. InOrder(c)'
  BY <1>1, <1>2 DEF InOrder, Ascending
<1>5. Strain(c)'
  BY <1>1, <1>2, LiveFeedAssumption DEF Strain, Oldest
<1>6. NoGap(c)'
  BY <1>1 DEF NoGap
<1>7. QED
  BY <1>3, <1>4, <1>5, <1>6 DEF Connection

\* The server exits with no client left.
LEMMA ExitConnection ==
  ASSUME TypeOK, Exit, NEW c \in Conns, Connection(c)
  PROVE  Connection(c)'
<1>1. /\ client[c] # "open" /\ client'[c] = client[c]
      /\ task'[c] = IF task[c] = "none" THEN "none" ELSE "ended"
      /\ start'[c] = start[c] /\ cursor'[c] = cursor[c] /\ held'[c] = 0
      /\ seen'[c] = seen[c] /\ buffer'[c] = buffer[c] /\ sent' = sent
      /\ strained'[c] = strained[c]
  BY DEF Exit, TypeOK
<1>2. Life(c) /\ InOrder(c) /\ Strain(c)
  BY DEF Connection
<1>3. Life(c)'
  BY <1>1, <1>2 DEF Life
<1>4. InOrder(c)'
  BY <1>1, <1>2 DEF InOrder, Ascending
<1>5. Strain(c)'
  BY <1>1, <1>2 DEF Strain
<1>6. NoGap(c)'
  BY <1>1 DEF NoGap
<1>7. QED
  BY <1>3, <1>4, <1>5, <1>6 DEF Connection

-----------------------------------------------------------------------------
(***************************************************************************)
(* The invariant, and what follows from it.                                *)
(***************************************************************************)

\* The invariant holds at the start.
LEMMA InitIInv == Init => IInv
<1> SUFFICES ASSUME Init PROVE IInv
  OBVIOUS
<1>1. TypeOK
  BY LiveFeedAssumption DEF Init, TypeOK
<1>2. Counted
  <2>1. Handled = {}
    BY DEF Init, Handled
  <2>2. QED
    BY <2>1, FS_EmptySet DEF Init, Counted
<1>3. ASSUME NEW c \in Conns PROVE Connection(c)
  <2>1. Life(c) /\ InOrder(c) /\ NoGap(c)
    BY DEF Init, Life, InOrder, Ascending, NoGap
  <2>2. Strain(c)
    BY LiveFeedAssumption DEF Init, Strain
  <2>3. QED
    BY <2>1, <2>2 DEF Connection
<1>4. QED
  BY <1>1, <1>2, <1>3 DEF IInv

\* Every step keeps the invariant of every connection.
LEMMA ConnectionStep ==
  ASSUME IInv, [Next]_vars, NEW c \in Conns
  PROVE  Connection(c)'
<1>0. TypeOK /\ Connection(c)
  BY DEF IInv
<1>1. ASSUME NEW q \in Requests, Accept(q) \/ HandleUplink(q) PROVE Connection(c)'
  <2>1. UNCHANGED <<sent, feed>>
    BY <1>1 DEF Accept, HandleUplink
  <2>2. QED
    BY <1>0, <2>1, SameConnection DEF feed, Same
<1>2. ASSUME NEW q \in Requests, Publish(q) PROVE Connection(c)'
  BY <1>0, <1>2, PublishConnection
<1>3. ASSUME NEW d \in Conns, d # c,
             \/ Subscribe(d) \/ Recv(d) \/ Lagged(d) \/ TrySend(d)
             \/ Deliver(d) \/ Disconnect(d)
      PROVE  Connection(c)'
  <2>1. Same(c) /\ sent' = sent
    BY <1>0, <1>3 DEF Subscribe, Recv, Lagged, TrySend, Deliver, Disconnect, TypeOK, Same
  <2>2. strained'[c] = strained[c]
    BY <1>0, <1>3, Zenon
       DEF Subscribe, Recv, Lagged, TrySend, Deliver, Disconnect, TypeOK
  <2>3. QED
    BY <1>0, <2>1, <2>2, SameConnection
<1>4. ASSUME \/ Subscribe(c) \/ Recv(c) \/ Lagged(c) \/ TrySend(c)
             \/ Deliver(c) \/ Disconnect(c)
      PROVE  Connection(c)'
  BY <1>0, <1>4, SubscribeConnection, RecvConnection, LaggedConnection,
     TrySendConnection, DeliverConnection, DisconnectConnection
<1>5. CASE Signal \/ UNCHANGED vars
  BY <1>0, <1>5, SameConnection DEF Signal, vars, feed, Same
<1>6. CASE Exit
  BY <1>0, <1>6, ExitConnection
<1>7. QED
  BY <1>1, <1>2, <1>3, <1>4, <1>5, <1>6 DEF Next, Handle, Forward

\* The invariant is inductive.
LEMMA IInvStep == IInv /\ [Next]_vars => IInv'
<1> SUFFICES ASSUME IInv, [Next]_vars PROVE IInv'
  OBVIOUS
<1>1. TypeOK'
  BY TypeStep
<1>2. Counted'
  BY CountStep DEF IInv
<1>3. \A c \in Conns : Connection(c)'
  BY ConnectionStep
<1>4. QED
  BY <1>1, <1>2, <1>3 DEF IInv

\* Every reachable state satisfies the invariant.
THEOREM LiveFeedInvariant == Spec => []IInv
<1>1. IInv /\ [Next]_vars => IInv'
  BY IInvStep
<1>2. QED
  BY InitIInv, <1>1, PTL DEF Spec

\* Every reachable state of the feed and the drain is well typed; above all no
\* more events are broadcast than uplinks were accepted.
THEOREM LiveFeedTypeOK == Spec => []TypeOK
<1>1. IInv => TypeOK
  BY DEF IInv
<1>2. QED
  BY LiveFeedInvariant, <1>1, PTL

\* Where the elements of the pipeline come from.
LEMMA PipelineAt ==
  ASSUME TypeOK, NEW c \in Conns
  PROVE  LET m == Len(seen[c])
             n == Len(buffer[c])
             k == IF held[c] = 0 THEN 0 ELSE 1
         IN /\ m \in Nat /\ n \in Nat /\ k \in {0, 1}
            /\ Pipeline(c) \in Seq(Nat)
            /\ Len(Pipeline(c)) = m + n + k
            /\ \A i \in 1 .. m : Pipeline(c)[i] = seen[c][i]
            /\ \A i \in 1 .. n : Pipeline(c)[m + i] = buffer[c][i]
            /\ k = 1 => Pipeline(c)[m + n + 1] = held[c]
<1> DEFINE k == IF held[c] = 0 THEN 0 ELSE 1
           e == IF held[c] = 0 THEN <<>> ELSE <<held[c]>>
<1>1. seen[c] \in Seq(Nat) /\ buffer[c] \in Seq(Nat) /\ held[c] \in Nat
  BY LiveFeedAssumption DEF TypeOK, Events
<1>2. Len(seen[c]) \in Nat /\ Len(buffer[c]) \in Nat /\ k \in {0, 1}
  BY <1>1
<1>3. e \in Seq(Nat)
  BY <1>1
<1>4. Len(e) = k /\ (k = 1 => e[1] = held[c] /\ 1 \in 1 .. Len(e))
  BY <1>1
<1>5. Pipeline(c) = seen[c] \o buffer[c] \o e
  BY DEF Pipeline
<1> HIDE DEF e, k
<1>6. /\ Pipeline(c) \in Seq(Nat)
      /\ Len(Pipeline(c)) = Len(seen[c]) + Len(buffer[c]) + k
      /\ \A i \in 1 .. Len(seen[c]) : Pipeline(c)[i] = seen[c][i]
      /\ \A i \in 1 .. Len(buffer[c]) : Pipeline(c)[Len(seen[c]) + i] = buffer[c][i]
      /\ \A i \in 1 .. Len(e) : Pipeline(c)[Len(seen[c]) + Len(buffer[c]) + i] = e[i]
  <2>1. seen[c] \in Seq(Nat) /\ buffer[c] \in Seq(Nat)
    BY <1>1
  <2>2. /\ seen[c] \o buffer[c] \o e \in Seq(Nat)
        /\ Len(seen[c] \o buffer[c] \o e) = Len(seen[c]) + Len(buffer[c]) + Len(e)
        /\ \A i \in 1 .. Len(seen[c]) : (seen[c] \o buffer[c] \o e)[i] = seen[c][i]
        /\ \A i \in 1 .. Len(buffer[c]) :
             (seen[c] \o buffer[c] \o e)[Len(seen[c]) + i] = buffer[c][i]
        /\ \A i \in 1 .. Len(e) :
             (seen[c] \o buffer[c] \o e)[Len(seen[c]) + Len(buffer[c]) + i] = e[i]
    BY <2>1, <1>3, ThreeParts, Zenon
  <2>3. QED
    BY <1>4, <1>5, <2>2, Zenon
<1>7. k = 1 => Pipeline(c)[Len(seen[c]) + Len(buffer[c]) + 1] = held[c]
  BY <1>4, <1>6, Zenon
<1>8. QED
  BY <1>2, <1>6, <1>7 DEF k

\* A place in the pipeline is in what was seen, in the buffer, or the last.
LEMMA Places ==
  ASSUME NEW m \in Nat, NEW n \in Nat, NEW k \in {0, 1}, NEW i \in 1 .. m + n + k
  PROVE  \/ i \in 1 .. m
         \/ i - m \in 1 .. n /\ i = m + (i - m)
         \/ k = 1 /\ i = m + n + 1
OBVIOUS

\* The pipeline of a connection ascends between its start and its cursor.
LEMMA PipelineAscends ==
  ASSUME TypeOK, NEW c \in Conns, Connection(c), NEW i \in 1 .. Len(Pipeline(c))
  PROVE  /\ start[c] < Pipeline(c)[i]
         /\ Pipeline(c)[i] < cursor[c]
         /\ i > 1 => Pipeline(c)[i - 1] < Pipeline(c)[i]
<1> DEFINE m == Len(seen[c])
           n == Len(buffer[c])
           k == IF held[c] = 0 THEN 0 ELSE 1
           p == Pipeline(c)
<1>1. /\ m \in Nat /\ n \in Nat /\ k \in {0, 1} /\ Len(p) = m + n + k
      /\ \A j \in 1 .. m : p[j] = seen[c][j]
      /\ \A j \in 1 .. n : p[m + j] = buffer[c][j]
      /\ k = 1 => p[m + n + 1] = held[c]
  BY PipelineAt
<1>2. k = 1 <=> held[c] # 0
  OBVIOUS
<1>3. InOrder(c)
  BY DEF Connection
<1>4. i \in Nat /\ i - 1 \in Int
  BY <1>1
<1> HIDE DEF m, n, k, p
<1>5. CASE i \in 1 .. m
  <2>1. p[i] = seen[c][i] /\ start[c] < seen[c][i] /\ seen[c][i] < cursor[c]
    BY <1>1, <1>3, <1>5 DEF InOrder, m
  <2>2. ASSUME i > 1 PROVE p[i - 1] < p[i]
    <3>1. i - 1 \in 1 .. m /\ i - 1 < i
      BY <1>1, <1>5, <2>2
    <3>2. QED
      BY <1>1, <1>3, <1>5, <2>1, <3>1 DEF InOrder, Ascending, m
  <2>3. QED
    BY <2>1, <2>2 DEF p
<1>6. CASE i - m \in 1 .. n /\ i = m + (i - m)
  <2> DEFINE j == i - m
  <2>1. j \in 1 .. n /\ i = m + j
    BY <1>6
  <2> HIDE DEF j
  <2>2. p[i] = buffer[c][j] /\ start[c] < buffer[c][j] /\ buffer[c][j] < cursor[c]
    BY <1>1, <1>3, <2>1 DEF InOrder, n
  <2>3. CASE j > 1
    <3>1. j - 1 \in 1 .. n /\ j - 1 < j /\ i - 1 = m + (j - 1)
      BY <1>1, <2>1, <2>3
    <3>2. buffer[c][j - 1] < buffer[c][j]
      BY <1>3, <2>1, <3>1 DEF InOrder, Ascending, n
    <3>3. p[i - 1] < p[i]
      BY <1>1, <2>2, <3>1, <3>2
    <3>4. QED
      BY <2>2, <3>3 DEF p
  <2>4. CASE j = 1 /\ m > 0
    <3>1. m \in 1 .. m /\ i - 1 = m
      BY <1>1, <2>1, <2>4
    <3>2. p[i - 1] < p[i]
      BY <1>1, <1>3, <2>1, <2>2, <3>1 DEF InOrder, m, n
    <3>3. QED
      BY <2>2, <3>2 DEF p
  <2>5. CASE j = 1 /\ m = 0
    BY <1>1, <2>1, <2>2, <2>5 DEF p
  <2>6. QED
    BY <1>1, <2>1, <2>3, <2>4, <2>5
<1>7. CASE k = 1 /\ i = m + n + 1
  <2>1. p[i] = held[c] /\ start[c] < held[c] /\ held[c] < cursor[c]
    BY <1>1, <1>2, <1>3, <1>7 DEF InOrder
  <2>2. CASE n > 0
    <3>1. n \in 1 .. n /\ i - 1 = m + n
      BY <1>1, <1>7, <2>2
    <3>2. p[i - 1] < p[i]
      BY <1>1, <1>2, <1>3, <1>7, <2>1, <3>1 DEF InOrder, n
    <3>3. QED
      BY <2>1, <3>2 DEF p
  <2>3. CASE n = 0 /\ m > 0
    <3>1. m \in 1 .. m /\ i - 1 = m
      BY <1>1, <1>7, <2>3
    <3>2. p[i - 1] < p[i]
      BY <1>1, <1>2, <1>3, <1>7, <2>1, <3>1 DEF InOrder, m
    <3>3. QED
      BY <2>1, <3>2 DEF p
  <2>4. CASE n = 0 /\ m = 0
    BY <1>1, <1>7, <2>1, <2>4 DEF p
  <2>5. QED
    BY <1>1, <2>2, <2>3, <2>4
<1>8. i \in 1 .. m + n + k
  BY <1>1 DEF p
<1>9. QED
  BY <1>1, <1>5, <1>6, <1>7, <1>8, Places

\* For any clients, ring and buffers: a client gets the events broadcast since
\* it subscribed, in broadcast order and none twice.
THEOREM LiveFeedSeenInOrder == Spec => []SeenInOrder
<1>1. IInv => SeenInOrder
  BY PipelineAscends DEF IInv, SeenInOrder
<1>2. QED
  BY LiveFeedInvariant, <1>1, PTL

\* The pipeline of a client that was never strained is complete.
LEMMA PipelineComplete ==
  ASSUME TypeOK, NEW c \in Conns, Connection(c), client[c] = "open", ~ strained[c]
  PROVE  Pipeline(c) = [i \in 1 .. cursor[c] - 1 - start[c] |-> start[c] + i]
<1> DEFINE m == Len(seen[c])
           n == Len(buffer[c])
           k == IF held[c] = 0 THEN 0 ELSE 1
           p == Pipeline(c)
<1>1. /\ m \in Nat /\ n \in Nat /\ k \in {0, 1} /\ Len(p) = m + n + k /\ p \in Seq(Nat)
      /\ \A j \in 1 .. m : p[j] = seen[c][j]
      /\ \A j \in 1 .. n : p[m + j] = buffer[c][j]
      /\ k = 1 => p[m + n + 1] = held[c]
  BY PipelineAt
<1>2. k = 1 <=> held[c] # 0
  OBVIOUS
<1>3. /\ \A i \in 1 .. m : seen[c][i] = start[c] + i
      /\ \A i \in 1 .. n : buffer[c][i] = start[c] + m + i
      /\ held[c] = 0 => cursor[c] = start[c] + m + n + 1
      /\ held[c] # 0 => /\ held[c] = start[c] + m + n + 1
                        /\ cursor[c] = held[c] + 1
  BY DEF Connection, NoGap
<1>4. start[c] \in Nat /\ cursor[c] \in Nat
  BY LiveFeedAssumption DEF TypeOK
<1> HIDE DEF m, n, k, p
<1>5. m \in Nat /\ n \in Nat /\ k \in {0, 1}
  BY <1>1, Zenon
<1>6. cursor[c] = start[c] + m + n + k + 1
  <2>1. start[c] + m + n + 0 + 1 = start[c] + m + n + 1
    BY <1>4, <1>5, CountingRest
  <2>2. k = 0 \/ k = 1
    BY <1>5
  <2>3. QED
    BY <1>2, <1>3, <2>1, <2>2, Zenon
<1>7. Len(p) = cursor[c] - 1 - start[c]
  <2>1. (start[c] + m + n + k + 1) - 1 - start[c] = m + n + k
    BY <1>4, <1>5, CountingRest
  <2>2. Len(p) = m + n + k
    BY <1>1, Zenon
  <2>3. QED
    BY <1>6, <2>1, <2>2, Zenon
<1>8. ASSUME NEW i \in 1 .. m + n + k PROVE p[i] = start[c] + i
  <2>1. CASE i \in 1 .. m
    BY <1>1, <1>3, <2>1
  <2>2. CASE i - m \in 1 .. n /\ i = m + (i - m)
    <3>1. p[i] = start[c] + m + (i - m)
      BY <1>1, <1>3, <2>2
    <3>2. i \in Nat
      BY <1>1
    <3>3. QED
      BY <1>1, <1>4, <3>1, <3>2
  <2>3. CASE k = 1 /\ i = m + n + 1
    <3>1. p[i] = start[c] + m + n + 1
      BY <1>1, <1>2, <1>3, <2>3
    <3>2. QED
      BY <1>1, <1>4, <2>3, <3>1
  <2>4. QED
    BY <1>1, <2>1, <2>2, <2>3, Places
<1>9. p = [i \in 1 .. Len(p) |-> p[i]]
  BY <1>1
<1>10. QED
  BY <1>1, <1>7, <1>8, <1>9, Zenon DEF p

\* For any clients, ring and buffers: no buffer outgrows its capacity, and an
\* event is missing only from a client known to be strained.
THEOREM LiveFeedNoGap == Spec => []NoUnexplainedGap
<1>1. ASSUME IInv PROVE NoUnexplainedGap
  <2>1. \A c \in Conns : Len(buffer[c]) <= CLIENT_BUFFER
    BY <1>1 DEF IInv, Connection, Strain
  <2>2. \A c \in Conns : client[c] = "open" /\ ~ strained[c] =>
          Pipeline(c) = [i \in 1 .. cursor[c] - 1 - start[c] |-> start[c] + i]
    BY <1>1, PipelineComplete, Zenon DEF IInv
  <2>3. QED
    BY <2>1, <2>2, Zenon DEF NoUnexplainedGap
<1>2. QED
  BY LiveFeedInvariant, <1>1, PTL
=============================================================================
