---------------------------- MODULE Edge_proofs -----------------------------
(***************************************************************************)
(* Proofs about the firmware's tasks, for every delay and cap and for      *)
(* answers of any number of pieces, about timestamps, for every instant,   *)
(* and about messages, of any length.                                      *)
(***************************************************************************)
EXTENDS EdgeDevice, Codecs, FiniteSetTheorems, SequenceTheorems,
        WellFoundedInduction, TLAPS

-----------------------------------------------------------------------------
(***************************************************************************)
(* The firmware's tasks.                                                   *)
(***************************************************************************)


\* The endpoint is at work on a POST only while the device waits for the
\* answer to the first one of the session.
BusyWithFirst == peer = "busy" => pc = "read" /\ posts = 1 /\ inbox = 0

\* The endpoint's end is open, before it has seen a POST.
OpenUntilFirst == peer = "open" => pc \in {"tls", "post"} /\ (pc = "post" => posts = 0)

\* What has not been read yet is from the answer to the first POST.
PiecesOfFirst ==
  inbox > 0 => /\ pc \in {"post", "read", "pause"}
               /\ posts >= 1
               /\ posts = 1 => outcome # "none"

\* The device waits for an answer after a POST.
ReadsAfterPost == pc \in {"read", "pause"} => posts >= 1

IInv ==
  /\ TypeOK
  /\ BusyWithFirst
  /\ OpenUntilFirst
  /\ PiecesOfFirst
  /\ ReadsAfterPost
  /\ OnlyFirstPostAnswered

-----------------------------------------------------------------------------
\* Doubling and capping stays between the first delay and the cap.
LEMMA BackoffBounds ==
  ASSUME NEW b \in BACKOFF_INITIAL .. BACKOFF_MAX
  PROVE  NextBackoff(b) \in BACKOFF_INITIAL .. BACKOFF_MAX
BY EdgeAssumption DEF NextBackoff

\* A device just booted.
LEMMA InitIInv == Init => IInv
<1> SUFFICES ASSUME Init PROVE IInv
  OBVIOUS
<1>1. /\ started \in BOOLEAN /\ linked \in BOOLEAN
      /\ address \in BOOLEAN
  BY Zenon DEF Init
<1>2. /\ wifi = "top" /\ pc = "link" /\ backoff = BACKOFF_INITIAL
      /\ peer = "none" /\ inbox = 0 /\ fails = 0 /\ posts = 0
      /\ outcome = "none"
  BY Zenon DEF Init
<1>3. QED
  BY <1>1, <1>2, EdgeAssumption
     DEF IInv, TypeOK, BusyWithFirst, OpenUntilFirst, PiecesOfFirst,
         ReadsAfterPost, OnlyFirstPostAnswered

\* The connection task leaves the session alone.
LEMMA WifiStep ==
  ASSUME IInv, Wifi \/ Dhcp
  PROVE  IInv'
<1>1. /\ wifi' \in {"top", "wait", "lost", "start", "connect", "retry"}
      /\ started' \in BOOLEAN /\ linked' \in BOOLEAN /\ address' \in BOOLEAN
  BY Zenon
     DEF Wifi, WifiTop, WifiLost, WifiLostDelay, WifiStart, WifiStartFails,
         WifiConnect, WifiConnectFails, WifiRetryDelay, Dhcp, IInv, TypeOK
<1>2. UNCHANGED app
  BY Zenon
     DEF Wifi, WifiTop, WifiLost, WifiLostDelay, WifiStart, WifiStartFails,
         WifiConnect, WifiConnectFails, WifiRetryDelay, Dhcp
<1>3. QED
  BY <1>1, <1>2
     DEF app, IInv, TypeOK, BusyWithFirst, OpenUntilFirst, PiecesOfFirst,
         ReadsAfterPost, OnlyFirstPostAnswered

\* A loss of the station or of the path leaves at most some of the pieces.
LEMMA LossStep ==
  ASSUME IInv, StaDisconnected \/ PathLost
  PROVE  IInv'
<1> USE DEF IInv, TypeOK, BusyWithFirst, OpenUntilFirst, PiecesOfFirst,
            ReadsAfterPost, OnlyFirstPostAnswered
<1>1. /\ peer' \in {"none", "lost"}
      /\ inbox' \in 0 .. inbox
      /\ linked' \in BOOLEAN /\ address' \in BOOLEAN
      /\ UNCHANGED <<wifi, started, pc, backoff, fails, posts, outcome>>
  BY DEF StaDisconnected, PathLost, radio
<1>2. inbox' \in 0 .. MaxPieces /\ inbox' <= inbox
  BY <1>1, EdgeAssumption
<1>3. QED
  BY <1>1, <1>2

\* The steps that get a session.
LEMMA SessionStep ==
  ASSUME IInv,
         \/ LinkUp \/ ConfigV4 \/ Resolve \/ Connect \/ Handshake
         \/ AttemptFails \/ BackoffDelay
  PROVE  IInv'
<1> USE DEF IInv, TypeOK, BusyWithFirst, OpenUntilFirst, PiecesOfFirst,
            ReadsAfterPost, OnlyFirstPostAnswered
<1>1. CASE LinkUp \/ ConfigV4 \/ Resolve \/ Connect \/ AttemptFails
  BY <1>1 DEF LinkUp, ConfigV4, Resolve, Connect, AttemptFails, radio
<1>2. CASE Handshake
  BY <1>2, EdgeAssumption DEF Handshake, radio
<1>3. CASE BackoffDelay
  <2>1. backoff' \in BACKOFF_INITIAL .. BACKOFF_MAX
    BY <1>3, BackoffBounds DEF BackoffDelay
  <2>2. fails' \in 0 .. MaxFails
    BY <1>3, EdgeAssumption DEF BackoffDelay
  <2>3. QED
    BY <1>3, <2>1, <2>2 DEF BackoffDelay, radio
<1>4. QED
  BY <1>1, <1>2, <1>3

\* The steps of the posting loop, and of the endpoint at the other end.
LEMMA PostStep ==
  ASSUME IInv,
         \/ WritePost \/ WriteFails \/ ReadPiece \/ ReadEof \/ ReadFails
         \/ MainLoopDelay \/ ServeSession \/ RefuseSession
  PROVE  IInv'
<1> USE EdgeAssumption
    DEF IInv, TypeOK, BusyWithFirst, OpenUntilFirst, PiecesOfFirst,
        ReadsAfterPost, OnlyFirstPostAnswered
<1>1. CASE WritePost
  <2>1. outcome' = "none"
    BY <1>1, Zenon DEF WritePost
  <2>2. /\ pc = "post" /\ pc' = "read"
        /\ peer' = IF peer = "open" THEN "busy" ELSE peer
        /\ posts' = IF posts = 0 THEN 1 ELSE 2
        /\ UNCHANGED <<radio, backoff, inbox, fails>>
    BY <1>1, Zenon DEF WritePost
  <2>3. QED
    BY <2>1, <2>2 DEF radio
<1>2. CASE WriteFails \/ ReadEof \/ ReadFails
  BY <1>2 DEF WriteFails, ReadEof, ReadFails, LeaveSession, radio
<1>3. CASE ReadPiece
  BY <1>3 DEF ReadPiece, radio
<1>4. CASE MainLoopDelay
  BY <1>4 DEF MainLoopDelay, radio
<1>5. CASE ServeSession \/ RefuseSession
  BY <1>5 DEF ServeSession, RefuseSession, AnswerPost, radio
<1>6. QED
  BY <1>1, <1>2, <1>3, <1>4, <1>5

\* Every step keeps the inductive invariant.
LEMMA NextIInv == IInv /\ [Next]_vars => IInv'
<1> SUFFICES ASSUME IInv, [Next]_vars PROVE IInv'
  OBVIOUS
<1>1. CASE UNCHANGED vars
  BY <1>1
     DEF vars, radio, app, IInv, TypeOK, BusyWithFirst, OpenUntilFirst,
         PiecesOfFirst, ReadsAfterPost, OnlyFirstPostAnswered
<1>2. QED
  BY <1>1, WifiStep, LossStep, SessionStep, PostStep DEF Next, App

-----------------------------------------------------------------------------
(***************************************************************************)
(* The schedule of the delay.                                              *)
(***************************************************************************)

\* One more element doubles the number of subsets, and that number is a power
\* of two: so the next power is the double.
LEMMA PowerDoubles ==
  ASSUME NEW n \in Nat
  PROVE  2 ^ n \in Nat \ {0} /\ 2 ^ (n + 1) = 2 * (2 ^ n)
<1> DEFINE S == 1 .. n
           old == SUBSET S
           new == {T \cup {n + 1} : T \in old}
           add == [T \in old |-> T \cup {n + 1}]
<1>1. IsFiniteSet(S) /\ Cardinality(S) = n
  BY FS_Interval
<1>2. IsFiniteSet(1 .. n + 1) /\ Cardinality(1 .. n + 1) = n + 1
  BY FS_Interval
<1>3. IsFiniteSet(old) /\ Cardinality(old) = 2 ^ n
  BY <1>1, FS_SUBSET
<1>4. Cardinality(SUBSET (1 .. n + 1)) = 2 ^ (n + 1)
  BY <1>2, FS_SUBSET
<1>5. n + 1 \notin S /\ 1 .. n + 1 = S \cup {n + 1}
  OBVIOUS
<1> HIDE DEF S
<1>6. SUBSET (1 .. n + 1) = old \cup new
  <2>1. ASSUME NEW U \in SUBSET (S \cup {n + 1}), n + 1 \in U PROVE U \in new
    <3>1. U \ {n + 1} \in old /\ U = (U \ {n + 1}) \cup {n + 1}
      BY <2>1
    <3>2. QED
      BY <3>1
  <2>2. QED
    BY <1>5, <2>1
<1>7. old \cap new = {}
  BY <1>5
<1>8. ExistsBijection(old, new)
  <2>1. add \in [old -> new]
    OBVIOUS
  <2>2. \A T, U \in old : add[T] = add[U] => T = U
    <3>1. \A T \in old : n + 1 \notin T /\ add[T] = T \cup {n + 1}
      BY <1>5
    <3>2. QED
      BY <3>1
  <2>3. \A U \in new : \E T \in old : add[T] = U
    OBVIOUS
  <2> HIDE DEF old, new, add
  <2>4. QED
    BY <2>1, <2>2, <2>3
       DEF ExistsBijection, Bijection, Injection, Surjection, IsInjective
<1> HIDE DEF old, new
<1>9. IsFiniteSet(new) /\ Cardinality(new) = Cardinality(old)
  BY <1>3, <1>8, FS_Bijection
<1>10. Cardinality(old \cup new) =
         Cardinality(old) + Cardinality(new) - Cardinality(old \cap new)
  BY <1>3, <1>9, FS_Union
<1>11. Cardinality(old \cap new) = 0
  BY <1>7, FS_EmptySet
<1>12. Cardinality(old) \in Nat /\ Cardinality(old) # 0
  <2>1. {} \in old
    BY DEF old
  <2>2. QED
    BY <1>3, <2>1, FS_EmptySet, FS_CardinalityType
<1>13. Cardinality(old \cup new) = 2 * Cardinality(old)
  BY <1>9, <1>10, <1>11, <1>12
<1>14. 2 ^ n = Cardinality(old) /\ 2 ^ (n + 1) = Cardinality(old \cup new)
  BY <1>3, <1>4, <1>6, Zenon
<1>15. 2 ^ n \in Nat \ {0}
  BY <1>12, <1>14, Zenon
<1>16. QED
  BY <1>13, <1>14, <1>15, Zenon

\* What BackoffSchedule says the delay is after n failures.
Scheduled(n) ==
  LET wanted == BACKOFF_INITIAL * 2 ^ n
  IN  IF wanted > BACKOFF_MAX THEN BACKOFF_MAX ELSE wanted

OnSchedule == backoff = Scheduled(fails)

\* The arithmetic of the schedule, for a power p of two.
LEMMA Doubling ==
  ASSUME NEW p \in Nat \ {0}, NEW first \in Nat \ {0}, NEW max \in Nat, first <= max
  PROVE  LET Capped(x) == IF x > max THEN max ELSE x IN
         /\ first * p \in Nat \ {0}
         /\ Capped(first * (2 * p)) =
              IF Capped(first * p) * 2 > max THEN max ELSE Capped(first * p) * 2
<1> DEFINE x == first * p
<1>1. x \in Nat \ {0} /\ first * (2 * p) = x * 2
  OBVIOUS
<1> HIDE DEF x
<1>2. QED
  BY <1>1 DEF x

\* At first, and after a handshake, the delay is the initial one; one more
\* failure takes it one place further; and when the failures counted reach
\* their bound it is the cap, which it stays at.
LEMMA ScheduleMoves ==
  /\ Scheduled(0) = BACKOFF_INITIAL
  /\ \A n \in Nat : Scheduled(n + 1) = NextBackoff(Scheduled(n))
  /\ Scheduled(MaxFails) = BACKOFF_MAX /\ NextBackoff(BACKOFF_MAX) = BACKOFF_MAX
<1>1. BACKOFF_INITIAL \in Nat \ {0} /\ BACKOFF_MAX \in Nat
      /\ BACKOFF_INITIAL <= BACKOFF_MAX /\ MaxFails \in Nat
  BY EdgeAssumption
<1>2. Scheduled(0) = BACKOFF_INITIAL
  <2>1. 2 ^ 0 = 1
    OBVIOUS
  <2>2. QED
    BY <1>1, <2>1 DEF Scheduled
<1>3. ASSUME NEW n \in Nat PROVE Scheduled(n + 1) = NextBackoff(Scheduled(n))
  <2>1. PICK p \in Nat \ {0} : 2 ^ n = p /\ 2 ^ (n + 1) = 2 * p
    BY PowerDoubles
  <2>2. QED
    BY <1>1, <2>1, Doubling DEF Scheduled, NextBackoff
<1>4. Scheduled(MaxFails) = BACKOFF_MAX
  <2>1. 2 ^ MaxFails \in Nat
    BY <1>1, PowerDoubles
  <2>2. QED
    BY <1>1, <2>1, MaxFailsAssumption DEF Scheduled
<1>5. NextBackoff(BACKOFF_MAX) = BACKOFF_MAX
  BY <1>1 DEF NextBackoff
<1>6. QED
  BY <1>2, <1>3, <1>4, <1>5

\* The delay leaves its schedule at no step: a failure moves both, a handshake
\* resets both, and nothing else touches either.
LEMMA ScheduleStep ==
  TypeOK /\ OnSchedule /\ [Next]_vars => OnSchedule'
<1> SUFFICES ASSUME TypeOK, backoff = Scheduled(fails), [Next]_vars
             PROVE  backoff' = Scheduled(fails')
  BY DEF OnSchedule
<1>1. CASE BackoffDelay
  <2>1. fails \in 0 .. MaxFails
    BY DEF TypeOK
  <2>2. CASE fails < MaxFails
    BY <1>1, <2>1, <2>2, ScheduleMoves, EdgeAssumption DEF BackoffDelay
  <2>3. CASE fails = MaxFails
    BY <1>1, <2>3, ScheduleMoves, EdgeAssumption DEF BackoffDelay
  <2>4. QED
    BY <2>1, <2>2, <2>3, EdgeAssumption
<1>2. CASE Handshake
  BY <1>2, ScheduleMoves DEF Handshake
<1>3. CASE ~ BackoffDelay /\ ~ Handshake
  <2>1. UNCHANGED <<backoff, fails>>
    BY <1>3, Zenon
       DEF Next, vars, app, Wifi, App, WifiTop, WifiLost, WifiLostDelay, WifiStart,
           WifiStartFails, WifiConnect, WifiConnectFails, WifiRetryDelay, Dhcp,
           StaDisconnected, PathLost, LinkUp, ConfigV4, Resolve, Connect, AttemptFails,
           WritePost, WriteFails, ReadPiece, ReadEof, ReadFails, LeaveSession,
           MainLoopDelay, ServeSession, RefuseSession, AnswerPost
  <2>2. QED
    BY <2>1
<1>4. QED
  BY <1>1, <1>2, <1>3

-----------------------------------------------------------------------------
(***************************************************************************)
(* Timestamps.  A year that begins on 1 March ends with its leap day, if   *)
(* it has one: a day is found from its place, which is the era, century,   *)
(* four years, year and day of such a year.                                *)
(***************************************************************************)

\* Day e of an era is day d of year r of four, q of a century, c of the era.
Place(e, c, q, r, d) ==
  /\ 0 <= c /\ c <= 3 /\ 0 <= q /\ q <= 24 /\ 0 <= r /\ r <= 3
  /\ 0 <= d /\ (d <= 364 \/ (d = 365 /\ r = 3 /\ (q # 24 \/ c = 3)))
  /\ e = 36524 * c + 1461 * q + 365 * r + d

\* Every day of an era has such a place.
LEMMA PlaceExists ==
  ASSUME NEW doe \in Int, 0 <= doe, doe <= 146096
  PROVE  \E c, q, r, d \in Int : Place(doe, c, q, r, d)
<1> DEFINE c == IF doe = 146096 THEN 3 ELSE doe \div 36524
           e == doe - 36524 * c
           q == IF e = 36524 THEN 24 ELSE e \div 1461
           s == e - 1461 * q
           r == IF s >= 1095 THEN 3 ELSE s \div 365
           d == s - 365 * r
<1>1. c \in Int /\ 0 <= c /\ c <= 3 /\ 0 <= e /\ e <= 36524 /\ (e = 36524 => c = 3)
  BY SMT
<1> HIDE DEF c
<1>2. e \in Int /\ doe = 36524 * c + e
  BY <1>1, SMT
<1> HIDE DEF e
<1>3. q \in Int /\ 0 <= q /\ q <= 24 /\ 0 <= s /\ s <= 1460 /\ (s = 1460 => q # 24 \/ c = 3)
  BY <1>1, <1>2, SMT
<1> HIDE DEF q
<1>4. s \in Int /\ e = 1461 * q + s
  BY <1>2, <1>3, SMT
<1> HIDE DEF s
<1>5. /\ r \in Int /\ 0 <= r /\ r <= 3 /\ 0 <= d
      /\ d <= 364 \/ (d = 365 /\ r = 3 /\ s = 1460)
  <2>1. CASE s >= 1095
    BY <1>3, <1>4, <2>1, SMT
  <2>2. CASE s < 1095
    <3>1. s \div 365 \in Int /\ 365 * (s \div 365) <= s /\ s <= 365 * (s \div 365) + 364
      BY <1>4, SMT
    <3>2. QED
      BY <1>3, <1>4, <2>2, <3>1, SMT
  <2>3. QED
    BY <1>4, <2>1, <2>2, SMT
<1> HIDE DEF r
<1>6. d \in Int /\ s = 365 * r + d
  BY <1>4, <1>5, SMT
<1> HIDE DEF d
<1>7. Place(doe, c, q, r, d)
  BY <1>1, <1>2, <1>3, <1>4, <1>5, <1>6, SMT DEF Place
<1>8. QED
  BY <1>1, <1>3, <1>5, <1>6, <1>7, SMT

\* What civil_from_days works out of the day of an era: its year and the day
\* of that year.
LEMMA YearOfEra ==
  ASSUME NEW e \in Int, NEW c \in Int, NEW q \in Int, NEW r \in Int, NEW d \in Int, Place(e, c, q, r, d)
  PROVE  LET yoe == (e - e \div 1460 + e \div 36524 - e \div 146096) \div 365
             doy == e - (365 * yoe + yoe \div 4 - yoe \div 100)
         IN  yoe = 100 * c + 4 * q + r /\ doy = d
<1>1. /\ 0 <= c /\ c <= 3 /\ 0 <= q /\ q <= 24 /\ 0 <= r /\ r <= 3
      /\ 0 <= d /\ (d <= 364 \/ (d = 365 /\ r = 3 /\ (q # 24 \/ c = 3)))
      /\ e = 36524 * c + 1461 * q + 365 * r + d
  BY SMT DEF Place
<1>2. e \div 36524 - e \div 146096 = c
  BY <1>1, SMT
<1> DEFINE k == IF 24 * c + q + 365 * r + d >= 1460 THEN 1 ELSE 0
<1>3. e \div 1460 = 25 * c + q + k
  BY <1>1, SMT
<1>4. 0 <= d - k /\ d - k <= 364 /\ k \in Int
  BY <1>1, SMT
<1> DEFINE y == 100 * c + 4 * q + r
<1>5. e - e \div 1460 + e \div 36524 - e \div 146096 = 365 * y + (d - k)
  BY <1>1, <1>2, <1>3, SMT
<1> HIDE DEF k
<1>6. (365 * y + (d - k)) \div 365 = y
  BY <1>1, <1>4, SMT
<1>7. y \div 4 = 25 * c + q /\ y \div 100 = c
  BY <1>1, SMT
<1>8. QED
  BY <1>1, <1>5, <1>6, <1>7, SMT


\* The month that day d of a March year is in, the day of that month, and
\* whether the civil year has begun by then.
Month(d) == LET mp == (5 * d + 2) \div 153 IN IF mp < 10 THEN mp + 3 ELSE mp - 9
DayOfMonth(d) == d - (153 * ((5 * d + 2) \div 153) + 2) \div 5 + 1
NewYear(d) == IF Month(d) <= 2 THEN 1 ELSE 0

\* Day d of a March year is in its month number mp.
InMonth(d, mp) ==
  /\ 0 <= mp /\ mp <= 11
  /\ Month(d) = IF mp < 10 THEN mp + 3 ELSE mp - 9
  /\ mp = (Month(d) + 9) % 12
  /\ NewYear(d) = IF mp < 10 THEN 0 ELSE 1
  /\ DayOfMonth(d) = d - (153 * mp + 2) \div 5 + 1
  /\ 1 <= DayOfMonth(d) /\ DayOfMonth(d) <= 31
  /\ (153 * mp + 2) \div 5 <= d /\ d < (153 * (mp + 1) + 2) \div 5

\* Every day of a March year is in one of twelve months.
LEMMA MonthIs ==
  ASSUME NEW d \in Int, 0 <= d, d <= 365
  PROVE  \E mp \in Int : InMonth(d, mp)
<1> DEFINE mp == (5 * d + 2) \div 153
<1>1. mp \in Int /\ 153 * mp <= 5 * d + 2 /\ 5 * d + 2 < 153 * mp + 153
  BY SMT
<1>2. /\ Month(d) = IF mp < 10 THEN mp + 3 ELSE mp - 9
      /\ DayOfMonth(d) = d - (153 * mp + 2) \div 5 + 1
      /\ NewYear(d) = IF Month(d) <= 2 THEN 1 ELSE 0
  BY SMT DEF Month, DayOfMonth, NewYear
<1> HIDE DEF mp
<1>4. 0 <= mp /\ mp <= 11
  BY <1>1, SMT
<1>5. mp = (Month(d) + 9) % 12 /\ NewYear(d) = IF mp < 10 THEN 0 ELSE 1
  BY <1>1, <1>2, <1>4, SMT
<1>6. (153 * mp + 2) \div 5 <= d /\ d < (153 * (mp + 1) + 2) \div 5
  BY <1>1, SMT
<1>7. d - (153 * mp + 2) \div 5 + 1 <= 31
  BY <1>1, SMT
<1>8. 1 <= DayOfMonth(d) /\ DayOfMonth(d) <= 31
  BY <1>1, <1>2, <1>6, <1>7, SMT
<1>9. InMonth(d, mp)
  BY <1>2, <1>4, <1>5, <1>6, <1>8, SMT DEF InMonth
<1>10. QED
  BY <1>1, <1>9, SMT

\* Era, century of the era, four years of the century, year of the four, and day
\* of the March year that a day since the epoch is in.
At(day, era, c, q, r, d) == Place(day + 719468 - era * 146097, c, q, r, d)

\* The civil year that a March year begins in.
MarchYear(era, c, q, r) == 100 * c + 4 * q + r + era * 400

\* Day d of the March year that begins in civil year y.
MarchDate(y, d) == [year |-> y + NewYear(d), month |-> Month(d), day |-> DayOfMonth(d)]

\* Civil, with the place of the day known.
LEMMA CivilIs ==
  ASSUME NEW day \in Int, NEW era \in Int, NEW c \in Int, NEW q \in Int, NEW r \in Int,
         NEW d \in Int, At(day, era, c, q, r, d)
  PROVE  Civil(day) = MarchDate(MarchYear(era, c, q, r), d)
<1> DEFINE e == day + 719468 - era * 146097
           z == day + 719468
           era1 == z \div 146097
           doe == z - era1 * 146097
           yoe  == (doe - doe \div 1460 + doe \div 36524 - doe \div 146096) \div 365
           doy  == doe - (365 * yoe + yoe \div 4 - yoe \div 100)
           mp   == (5 * doy + 2) \div 153
           mon  == IF mp < 10 THEN mp + 3 ELSE mp - 9
<1>1. Civil(day) = [year |-> yoe + era1 * 400 + (IF mon <= 2 THEN 1 ELSE 0), month |-> mon,
       day |-> doy - (153 * mp + 2) \div 5 + 1]
  BY SMT DEF Civil
<1>2. e \in Int /\ Place(e, c, q, r, d) /\ day + 719468 = era * 146097 + e
  BY SMT DEF At
<1> HIDE DEF e
<1>3. 0 <= e /\ e <= 146096
  BY <1>2, SMT DEF Place
<1>4. era1 = era
  BY <1>2, <1>3, SMT
<1>5. doe = e
  BY <1>2, <1>4, SMT
<1> HIDE DEF era1, doe
<1>6. yoe = 100 * c + 4 * q + r /\ doy = d
  BY <1>2, <1>5, YearOfEra, SMT
<1> HIDE DEF yoe, doy
<1>7. mon = Month(d) /\ doy - (153 * mp + 2) \div 5 + 1 = DayOfMonth(d)
  BY <1>6, SMT DEF Month, DayOfMonth
<1> HIDE DEF mp, mon
<1>8. QED
  BY <1>1, <1>4, <1>6, <1>7, SMT DEF NewYear, MarchDate, MarchYear

\* Every day since the epoch is at a place of an era.
LEMMA DayIs ==
  ASSUME NEW day \in Nat
  PROVE  \E era, c, q, r, d \in Int : At(day, era, c, q, r, d)
<1> DEFINE era == (day + 719468) \div 146097
           e == (day + 719468) % 146097
<1>1. /\ era \in Int /\ e \in Int /\ 0 <= e /\ e <= 146096 /\ era >= 0
      /\ e = day + 719468 - era * 146097
  BY SMT
<1> HIDE DEF era, e
<1>2. PICK c, q, r, d \in Int : Place(e, c, q, r, d)
  BY <1>1, PlaceExists, SMT
<1>3. At(day, era, c, q, r, d)
  BY <1>1, <1>2, SMT DEF At
<1>4. QED
  BY <1>1, <1>3, SMT

\* days_from_civil gives back the day.
LEMMA DayOfDate ==
  ASSUME NEW day \in Int, NEW era \in Int, NEW c \in Int, NEW q \in Int,
         NEW r \in Int, NEW d \in Int, At(day, era, c, q, r, d)
  PROVE  DayOf(MarchDate(MarchYear(era, c, q, r), d)) = day
<1>1. /\ 0 <= c /\ c <= 3 /\ 0 <= q /\ q <= 24 /\ 0 <= r /\ r <= 3
      /\ 0 <= d /\ d <= 365
      /\ day + 719468 = era * 146097 + 36524 * c + 1461 * q + 365 * r + d
  BY SMT DEF At, Place
<1>2. PICK mp \in Int : InMonth(d, mp)
  BY <1>1, MonthIs, SMT
<1> DEFINE yoe == 100 * c + 4 * q + r
           date == MarchDate(yoe + era * 400, d)
<1>3. /\ date.year = yoe + era * 400 + NewYear(d) /\ date.month = Month(d)
      /\ date.day = DayOfMonth(d)
  BY Zenon DEF MarchDate
<1> HIDE DEF date
<1> DEFINE y == date.year - (IF date.month <= 2 THEN 1 ELSE 0)
           into == NewYear(d)
           mon == Month(d)
<1>a. /\ 0 <= mp /\ mp <= 11 /\ mon = (IF mp < 10 THEN mp + 3 ELSE mp - 9)
      /\ into = (IF mp < 10 THEN 0 ELSE 1)
  BY <1>2, Zenon DEF InMonth
<1>b. date.year = yoe + era * 400 + into /\ date.month = mon
  BY <1>3, Zenon
<1> HIDE DEF into, mon, yoe
<1>4. (IF date.month <= 2 THEN 1 ELSE 0) = into
  BY <1>a, <1>b, SMT
<1>5. yoe \in Int /\ y = yoe + era * 400
  <2>1. yoe \in Int
    BY SMT DEF yoe
  <2>2. y = date.year - into
    BY <1>4, Zenon
  <2>3. QED
    BY <1>a, <1>b, <2>1, <2>2, SMT
<1> USE DEF yoe
<1>6. y \in Int /\ yoe \in Int /\ 0 <= yoe /\ yoe <= 399
  BY <1>1, <1>5, SMT
<1>7. yoe \div 4 = 25 * c + q /\ yoe \div 100 = c
  BY <1>1, SMT
<1>8. DayOf(date) =
        (y \div 400) * 146097 + (y - (y \div 400) * 400) * 365
          + (y - (y \div 400) * 400) \div 4 - (y - (y \div 400) * 400) \div 100
          + ((153 * ((date.month + 9) % 12) + 2) \div 5 + date.day - 1) - 719468
  BY SMT DEF DayOf
<1> HIDE DEF y, yoe
<1>9. y \div 400 = era
  BY <1>5, <1>6, SMT
<1>10. y - (y \div 400) * 400 = yoe
  BY <1>5, <1>6, <1>9, SMT
<1>11. (153 * ((date.month + 9) % 12) + 2) \div 5 + date.day - 1 = d
  <2>1. mp = (Month(d) + 9) % 12 /\ DayOfMonth(d) = d - (153 * mp + 2) \div 5 + 1
    BY <1>2, Zenon DEF InMonth
  <2>2. (date.month + 9) % 12 = mp
    BY <1>3, <2>1, Zenon
  <2>3. date.day = d - (153 * mp + 2) \div 5 + 1
    BY <1>3, <2>1, Zenon
  <2>4. (153 * mp + 2) \div 5 \in Int
    BY SMT
  <2>5. (153 * ((date.month + 9) % 12) + 2) \div 5 = (153 * mp + 2) \div 5
    BY <2>2, Zenon
  <2> HIDE DEF yoe
  <2>6. QED
    BY <2>3, <2>4, <2>5, SMT
<1>12. DayOf(date) = era * 146097 + yoe * 365 + yoe \div 4 - yoe \div 100 + d - 719468
  BY <1>8, <1>9, <1>10, <1>11, SMT
<1>13. DayOf(date) = day
  BY <1>1, <1>7, <1>12, SMT DEF yoe
<1>14. QED
  BY <1>13, SMT DEF date, yoe, MarchYear

\* The February that ends a March year has 29 days in the last year of four,
\* but that of a century, but that of the era.
LEMMA LeapIs ==
  ASSUME NEW era \in Int, NEW c \in Int, NEW q \in Int, NEW r \in Int,
         0 <= c, c <= 3, 0 <= q, q <= 24, 0 <= r, r <= 3
  PROVE  IsLeap(MarchYear(era, c, q, r) + 1) <=> (r = 3 /\ (q # 24 \/ c = 3))
<1> DEFINE y == 100 * c + 4 * q + r + era * 400 + 1
<1>1. y \in Int
  BY SMT
<1>2. y % 4 = 0 <=> r = 3
  BY SMT
<1>3. y % 100 = 0 <=> q = 24 /\ r = 3
  BY SMT
<1>4. y % 400 = 0 <=> c = 3 /\ q = 24 /\ r = 3
  BY SMT
<1> HIDE DEF y
<1>5. IsLeap(y) <=> y % 4 = 0 /\ (y % 100 # 0 \/ y % 400 = 0)
  BY SMT DEF IsLeap
<1>6. y = MarchYear(era, c, q, r) + 1
  BY SMT DEF y, MarchYear
<1>7. QED
  BY <1>2, <1>3, <1>4, <1>5, <1>6, SMT

\* The lengths of the months but February, by their number in the March year.
LEMMA MonthLengthIs ==
  ASSUME NEW mp \in Int, 0 <= mp, mp <= 10, NEW y, NEW m,
         m = IF mp < 10 THEN mp + 3 ELSE mp - 9
  PROVE  MonthLength(y, m) = (153 * (mp + 1) + 2) \div 5 - (153 * mp + 2) \div 5
<1>1. CASE mp \in {1, 3, 6, 8}
  <2>1. m \in {4, 6, 9, 11}
    BY <1>1, SMT
  <2>2. MonthLength(y, m) = 30
    BY <2>1, SMT DEF MonthLength
  <2>3. QED
    BY <1>1, <2>2, SMT
<1>2. CASE mp \in {0, 2, 4, 5, 7, 9, 10}
  <2>1. m \in {3, 5, 7, 8, 10, 12, 1}
    BY <1>2, SMT
  <2>2. MonthLength(y, m) = 31
    BY <2>1, SMT DEF MonthLength
  <2>3. QED
    BY <1>2, <2>2, SMT
<1>3. mp \in {0, 1, 2, 3, 4, 5, 6, 7, 8, 9, 10}
  BY SMT
<1>4. QED
  BY <1>1, <1>2, <1>3, SMT

\* NextDate of a date given by its parts.
LEMMA NextDateIs ==
  ASSUME NEW y, NEW m, NEW d
  PROVE  /\ d < MonthLength(y, m) =>
              NextDate([year |-> y, month |-> m, day |-> d]) = [year |-> y, month |-> m, day |-> d + 1]
         /\ ~ (d < MonthLength(y, m)) /\ m < 12 =>
              NextDate([year |-> y, month |-> m, day |-> d]) = [year |-> y, month |-> m + 1, day |-> 1]
         /\ ~ (d < MonthLength(y, m)) /\ ~ (m < 12) =>
              NextDate([year |-> y, month |-> m, day |-> d]) = [year |-> y + 1, month |-> 1, day |-> 1]
<1> DEFINE t == [year |-> y, month |-> m, day |-> d]
<1>1. t.year = y /\ t.month = m /\ t.day = d
  BY Zenon
<1>2. [t EXCEPT !.day = d + 1] = [year |-> y, month |-> m, day |-> d + 1]
  BY SMT
<1>3. NextDate(t) =
        IF t.day < MonthLength(t.year, t.month) THEN [t EXCEPT !.day = t.day + 1]
        ELSE IF t.month < 12 THEN [year |-> t.year, month |-> t.month + 1, day |-> 1]
        ELSE [year |-> t.year + 1, month |-> 1, day |-> 1]
  BY Zenon DEF NextDate
<1> HIDE DEF t
<1>4. QED
  BY <1>1, <1>2, <1>3, Zenon DEF t

\* The date after the last day of a month but December.
LEMMA NextMonth ==
  ASSUME NEW y, NEW d, ~ (DayOfMonth(d) < MonthLength(y + NewYear(d), Month(d))), Month(d) < 12
  PROVE  NextDate(MarchDate(y, d)) = [year |-> y + NewYear(d), month |-> Month(d) + 1, day |-> 1]
<1>1. NextDate([year |-> y + NewYear(d), month |-> Month(d), day |-> DayOfMonth(d)])
        = [year |-> y + NewYear(d), month |-> Month(d) + 1, day |-> 1]
  BY NextDateIs, Zenon
<1>2. QED
  BY <1>1, Zenon DEF MarchDate

\* The day after one within a March year is the next of its month, or the first
\* of the next month.
LEMMA NextInYear ==
  ASSUME NEW y \in Int, NEW d \in Int, 0 <= d, d <= 364, d = 364 => IsLeap(y + 1)
  PROVE  NextDate(MarchDate(y, d)) = MarchDate(y, d + 1)
<1>1. PICK mp \in Int : InMonth(d, mp)
  BY MonthIs, SMT
<1>2. PICK mq \in Int : InMonth(d + 1, mq)
  BY MonthIs, SMT
<1> DEFINE first(m) == (153 * m + 2) \div 5
           yr == y + NewYear(d)
           length == MonthLength(yr, Month(d))
<1>4. /\ 0 <= mp /\ mp <= 11 /\ 0 <= mq /\ mq <= 11
      /\ Month(d) = IF mp < 10 THEN mp + 3 ELSE mp - 9
      /\ Month(d + 1) = IF mq < 10 THEN mq + 3 ELSE mq - 9
      /\ NewYear(d) = IF mp < 10 THEN 0 ELSE 1
      /\ NewYear(d + 1) = IF mq < 10 THEN 0 ELSE 1
      /\ DayOfMonth(d) = d - first(mp) + 1
      /\ DayOfMonth(d + 1) = d + 1 - first(mq) + 1
      /\ first(mp) <= d /\ d < first(mp + 1)
      /\ first(mq) <= d + 1 /\ d + 1 < first(mq + 1)
  BY <1>1, <1>2, SMT DEF InMonth
<1>5. \/ mq = mp /\ d + 1 < first(mp + 1)
      \/ mq = mp + 1 /\ d + 1 = first(mp + 1)
  BY <1>4, SMT
<1>6. mp # 11 => length = first(mp + 1) - first(mp)
  BY <1>4, MonthLengthIs, SMT
<1>7. CASE mp = 11
  <2>1. first(11) = 337 /\ first(12) = 367
    BY SMT
  <2>2. Month(d) = 2 /\ yr = y + 1 /\ DayOfMonth(d) = d - 336
    BY <1>4, <1>7, <2>1, SMT
  <2>3. length = IF IsLeap(y + 1) THEN 29 ELSE 28
    BY <2>2, SMT DEF MonthLength
  <2> HIDE DEF length, first
  <2>4. DayOfMonth(d) < length
    BY <2>2, <2>3, SMT
  <2>6. mq = 11
    BY <1>4, <1>5, <1>7, SMT
  <2>7. yr = y + NewYear(d + 1) /\ Month(d + 1) = Month(d) /\ DayOfMonth(d + 1) = DayOfMonth(d) + 1
    BY <1>4, <1>7, <2>1, <2>2, <2>6, SMT
  <2>8. NextDate([year |-> yr, month |-> Month(d), day |-> DayOfMonth(d)])
           = [year |-> yr, month |-> Month(d), day |-> DayOfMonth(d) + 1]
    BY <2>4, NextDateIs, Zenon DEF length
  <2>9. QED
    BY <2>7, <2>8, Zenon DEF MarchDate
<1>8. CASE mp # 11 /\ mq = mp
  <2>1. DayOfMonth(d) < length
    BY <1>4, <1>5, <1>6, <1>8, SMT
  <2>2. yr = y + NewYear(d + 1) /\ Month(d + 1) = Month(d) /\ DayOfMonth(d + 1) = DayOfMonth(d) + 1
    BY <1>4, <1>8, SMT
  <2>3. NextDate([year |-> yr, month |-> Month(d), day |-> DayOfMonth(d)])
           = [year |-> yr, month |-> Month(d), day |-> DayOfMonth(d) + 1]
    BY <2>1, NextDateIs, Zenon
  <2>4. QED
    BY <2>2, <2>3, Zenon DEF MarchDate
<1>9. CASE mp # 11 /\ mq = mp + 1
  <2>1. ~ (DayOfMonth(d) < length)
    BY <1>4, <1>5, <1>6, <1>9, SMT
  <2>2. DayOfMonth(d + 1) = 1
    BY <1>4, <1>5, <1>9, SMT
  <2>3. CASE mp = 9
    <3>1. ~ (Month(d) < 12) /\ Month(d + 1) = 1 /\ y + NewYear(d + 1) = yr + 1
      BY <1>4, <1>9, <2>3, SMT
    <3>2. NextDate([year |-> yr, month |-> Month(d), day |-> DayOfMonth(d)])
             = [year |-> yr + 1, month |-> 1, day |-> 1]
      BY <2>1, <3>1, NextDateIs, Zenon
    <3>3. QED
      BY <2>2, <3>1, <3>2, Zenon DEF MarchDate
  <2>4. CASE mp # 9
    <3>1. Month(d) < 12 /\ Month(d + 1) = Month(d) + 1 /\ y + NewYear(d + 1) = yr
      BY <1>4, <1>9, <2>4, SMT
    <3>2. NextDate([year |-> yr, month |-> Month(d), day |-> DayOfMonth(d)])
             = [year |-> yr, month |-> Month(d) + 1, day |-> 1]
      BY <2>1, <3>1, NextDateIs, Zenon
    <3>3. QED
      BY <2>2, <3>1, <3>2, Zenon DEF MarchDate
  <2>5. QED
    BY <2>3, <2>4, Zenon
<1>10. QED
  BY <1>5, <1>7, <1>8, <1>9, Zenon

\* A March year begins with 1 March.
LEMMA FirstOfMarch ==
  ASSUME NEW y \in Int
  PROVE  MarchDate(y, 0) = [year |-> y, month |-> 3, day |-> 1]
<1>1. Month(0) = 3 /\ DayOfMonth(0) = 1
  BY SMT DEF Month, DayOfMonth
<1>2. NewYear(0) = 0
  BY <1>1, SMT DEF NewYear
<1>3. y + NewYear(0) = y
  BY <1>2, SMT
<1>4. QED
  BY <1>1, <1>3, Zenon DEF MarchDate

\* After the last day of February comes the next March year.
LEMMA FebruaryEnds ==
  ASSUME NEW y \in Int, NEW d \in Int,
         364 <= d, d <= 365, d <= 364 <=> ~ IsLeap(y + 1)
  PROVE  NextDate(MarchDate(y, d)) = MarchDate(y + 1, 0)
<1>1. Month(d) = 2 /\ DayOfMonth(d) = d - 336
  BY SMT DEF Month, DayOfMonth
<1>2. NewYear(d) = 1
  BY <1>1, SMT DEF NewYear
<1>3. MonthLength(y + 1, Month(d)) = IF IsLeap(y + 1) THEN 29 ELSE 28
  BY <1>1, SMT DEF MonthLength
<1>4. ~ (DayOfMonth(d) < MonthLength(y + NewYear(d), Month(d))) /\ Month(d) < 12 /\ Month(d) + 1 = 3
  BY <1>1, <1>2, <1>3, SMT
<1>5. NextDate(MarchDate(y, d)) = [year |-> y + 1, month |-> 3, day |-> 1]
  <2>1. NextDate(MarchDate(y, d)) = [year |-> y + NewYear(d), month |-> Month(d) + 1, day |-> 1]
    BY <1>4, NextMonth, Zenon
  <2>2. QED
    BY <1>2, <1>4, <2>1, Zenon
<1>6. QED
  BY <1>5, FirstOfMarch, SMT

\* A day is followed by the date that follows.
LEMMA DateFollows ==
  ASSUME NEW day \in Nat
  PROVE  Civil(day + 1) = NextDate(Civil(day))
<1>1. PICK era, c, q, r, d \in Int : At(day, era, c, q, r, d)
  BY DayIs, Zenon
<1> DEFINE leap == r = 3 /\ (q # 24 \/ c = 3)
           y == MarchYear(era, c, q, r)
<1>2. /\ 0 <= c /\ c <= 3 /\ 0 <= q /\ q <= 24 /\ 0 <= r /\ r <= 3
      /\ 0 <= d /\ d <= 365 /\ (d = 365 => leap)
      /\ day + 719468 = era * 146097 + 36524 * c + 1461 * q + 365 * r + d
  BY <1>1, SMT DEF At, Place
<1>3. y \in Int /\ (IsLeap(y + 1) <=> leap)
  <2>1. y \in Int
    BY SMT DEF MarchYear
  <2>2. 0 <= c /\ c <= 3 /\ 0 <= q /\ q <= 24 /\ 0 <= r /\ r <= 3
    BY <1>2, SMT
  <2>3. IsLeap(y + 1) <=> leap
    BY <2>2, LeapIs, SMT
  <2>4. QED
    BY <2>1, <2>3, Zenon
<1>4. Civil(day) = MarchDate(y, d)
  BY <1>1, CivilIs, SMT
<1>5. CASE d <= 363 \/ (d = 364 /\ leap)
  <2>1. At(day + 1, era, c, q, r, d + 1)
    BY <1>2, <1>5, SMT DEF At, Place
  <2>2. Civil(day + 1) = MarchDate(y, d + 1)
    BY <2>1, CivilIs, SMT
  <2> HIDE DEF y
  <2>3. d <= 364 /\ (d = 364 => IsLeap(y + 1))
    BY <1>3, <1>5, SMT
  <2> HIDE DEF leap
  <2>4. NextDate(MarchDate(y, d)) = MarchDate(y, d + 1)
    BY <1>2, <1>3, <2>3, NextInYear, SMT
  <2>5. QED
    BY <1>4, <2>2, <2>4, Zenon
<1>6. CASE (d = 364 /\ ~ leap) \/ d = 365
  <2>1. NextDate(Civil(day)) = MarchDate(y + 1, 0)
    <3>1. 364 <= d /\ d <= 365 /\ (d <= 364 <=> ~ IsLeap(y + 1))
      BY <1>2, <1>3, <1>6, SMT
    <3> HIDE DEF y
    <3>2. NextDate(MarchDate(y, d)) = MarchDate(y + 1, 0)
      BY <1>3, <3>1, FebruaryEnds, SMT
    <3>3. QED
      BY <1>4, <3>2, Zenon
  <2>2. \E era1, c1, q1, r1 \in Int :
           At(day + 1, era1, c1, q1, r1, 0) /\ MarchYear(era1, c1, q1, r1) = y + 1
    <3>1. CASE r < 3
      <4>1. At(day + 1, era, c, q, r + 1, 0)
        BY <1>2, <1>6, <3>1, SMT DEF At, Place
      <4>2. r + 1 \in Int /\ MarchYear(era, c, q, r + 1) = y + 1
        BY SMT DEF MarchYear
      <4>3. QED
        BY <4>1, <4>2, Zenon
    <3>2. CASE r = 3 /\ q < 24
      <4>1. At(day + 1, era, c, q + 1, 0, 0)
        BY <1>2, <1>6, <3>2, SMT DEF At, Place
      <4>2. q + 1 \in Int /\ 0 \in Int /\ MarchYear(era, c, q + 1, 0) = y + 1
        BY <3>2, SMT DEF MarchYear
      <4>3. QED
        BY <4>1, <4>2, Zenon
    <3>3. CASE r = 3 /\ q = 24 /\ c < 3
      <4>1. At(day + 1, era, c + 1, 0, 0, 0)
        BY <1>2, <1>6, <3>3, SMT DEF At, Place
      <4>2. c + 1 \in Int /\ 0 \in Int /\ MarchYear(era, c + 1, 0, 0) = y + 1
        BY <3>3, SMT DEF MarchYear
      <4>3. QED
        BY <4>1, <4>2, Zenon
    <3>4. CASE r = 3 /\ q = 24 /\ c = 3
      <4>1. At(day + 1, era + 1, 0, 0, 0, 0)
        BY <1>2, <1>6, <3>4, SMT DEF At, Place
      <4>2. era + 1 \in Int /\ 0 \in Int /\ MarchYear(era + 1, 0, 0, 0) = y + 1
        BY <3>4, SMT DEF MarchYear
      <4>3. QED
        BY <4>1, <4>2, Zenon
    <3>5. QED
      BY <1>2, <3>1, <3>2, <3>3, <3>4, SMT
  <2>3. PICK era1, c1, q1, r1 \in Int :
           At(day + 1, era1, c1, q1, r1, 0) /\ MarchYear(era1, c1, q1, r1) = y + 1
    BY <2>2, Zenon
  <2>4. day + 1 \in Int /\ 0 \in Int
    BY SMT
  <2>5. Civil(day + 1) = MarchDate(MarchYear(era1, c1, q1, r1), 0)
    <3>1. At(day + 1, era1, c1, q1, r1, 0)
      BY <2>3, Zenon
    <3>2. QED
      BY <2>4, <3>1, CivilIs, SMT
  <2>6. QED
    BY <2>1, <2>3, <2>5, Zenon
<1>7. QED
  BY <1>2, <1>5, <1>6, SMT

\* The epoch is 1 January 1970.
LEMMA Epoch == Civil(0) = [year |-> 1970, month |-> 1, day |-> 1]
<1>1. At(0, 4, 3, 17, 1, 306)
  BY SMT DEF At, Place
<1>2. Month(306) = 1 /\ DayOfMonth(306) = 1
  BY SMT DEF Month, DayOfMonth
<1>3. NewYear(306) = 1 /\ MarchYear(4, 3, 17, 1) = 1969
  BY <1>2, SMT DEF NewYear, MarchYear
<1>4. Civil(0) = MarchDate(MarchYear(4, 3, 17, 1), 306)
  BY <1>1, CivilIs, SMT
<1>5. QED
  <2>1. Civil(0) = MarchDate(1969, 306)
    BY <1>3, <1>4, SMT
  <2>2. MarchDate(1969, 306) = [year |-> 1970, month |-> 1, day |-> 1]
    BY <1>2, <1>3, SMT DEF MarchDate
  <2>3. QED
    BY <2>1, <2>2, SMT

\* The day of a date is the day it was made from.
LEMMA DayOfCivil ==
  ASSUME NEW day \in Nat
  PROVE  /\ DayOf(Civil(day)) = day
         /\ Civil(day).year \in Int
         /\ Civil(day).month \in 1 .. 12 /\ Civil(day).day \in 1 .. 31
<1>1. PICK era, c, q, r, d \in Int : At(day, era, c, q, r, d)
  BY DayIs, Zenon
<1> DEFINE y == MarchYear(era, c, q, r)
<1>2. Civil(day) = MarchDate(y, d)
  BY <1>1, CivilIs, SMT
<1>3. DayOf(MarchDate(y, d)) = day
  <2>1. day \in Int
    BY SMT
  <2>2. QED
    BY <1>1, <2>1, DayOfDate, SMT
<1>4. 0 <= d /\ d <= 365
  BY <1>1, SMT DEF At, Place
<1>5. PICK mp \in Int : InMonth(d, mp)
  BY <1>4, MonthIs, SMT
<1>6. Month(d) \in 1 .. 12 /\ DayOfMonth(d) \in 1 .. 31
  <2>1. /\ 0 <= mp /\ mp <= 11 /\ Month(d) = (IF mp < 10 THEN mp + 3 ELSE mp - 9)
        /\ DayOfMonth(d) = d - (153 * mp + 2) \div 5 + 1
        /\ 1 <= DayOfMonth(d) /\ DayOfMonth(d) <= 31
    BY <1>5, Zenon DEF InMonth
  <2>2. QED
    BY <2>1, SMT
<1> HIDE DEF y
<1>7. /\ MarchDate(y, d).year = y + NewYear(d)
      /\ MarchDate(y, d).month = Month(d) /\ MarchDate(y, d).day = DayOfMonth(d)
  BY Zenon DEF MarchDate
<1>8. y + NewYear(d) \in Int
  <2>1. y \in Int
    BY SMT DEF MarchYear, y
  <2>2. QED
    BY <2>1, SMT DEF NewYear
<1>9. QED
  BY <1>2, <1>3, <1>6, <1>7, <1>8, Zenon

\* Hour, minute and second of a second of the day.
IsClock(s, h, m, u) ==
  /\ h \in Nat /\ m \in Nat /\ u \in Nat /\ h <= 23 /\ m <= 59 /\ u <= 59
  /\ h * 3600 + m * 60 + u = s

\* Every second of a day is of some hour, minute and second.
LEMMA ClockIs ==
  ASSUME NEW s \in Nat, s < 86400
  PROVE  IsClock(s, s \div 3600, (s % 3600) \div 60, s % 60)
<1> DEFINE h == s \div 3600
           t == s % 3600
           m == t \div 60
<1>1. h \in Nat /\ t \in Nat /\ t <= 3599 /\ s = 3600 * h + t /\ h <= 23
  BY SMT
<1> HIDE DEF h, t
<1>2. m \in Nat /\ m <= 59 /\ 0 <= t - 60 * m /\ t - 60 * m <= 59
  BY <1>1, SMT
<1> HIDE DEF m
<1>3. s % 60 = t - 60 * m
  <2>1. s = 60 * (60 * h + m) + (t - 60 * m)
    BY <1>1, <1>2, SMT
  <2>2. QED
    BY <1>1, <1>2, <2>1, SMT
<1> DEFINE u == s % 60
<1>4. u = t - 60 * m
  BY <1>3, SMT
<1> HIDE DEF u
<1>5. u \in Nat /\ u <= 59 /\ h * 3600 + m * 60 + u = s
  BY <1>1, <1>2, <1>4, SMT
<1>6. IsClock(s, h, m, u)
  BY <1>1, <1>2, <1>5, SMT DEF IsClock
<1>7. QED
  BY <1>6, SMT DEF h, t, m, u

\* The fields of an instant.
LEMMA InstantIs ==
  ASSUME NEW i \in Instants
  PROVE  i.day \in Nat /\ i.sec \in Nat /\ i.nanos \in Nat /\ i.sec < 86400
BY SMT DEF Instants

\* parse_rfc3339_unix gives back what format_rfc3339 was given.
LEMMA ParseFormat ==
  ASSUME NEW i \in Instants
  PROVE  /\ Accepts(Format(i)) <=> FourDigits(i)
         /\ FourDigits(i) => Parse(Format(i)) = Secs(i)
<1>1. i.day \in Nat /\ i.sec \in Nat /\ i.sec < 86400
  BY InstantIs, SMT
<1> DEFINE f == Format(i)
           h == i.sec \div 3600
           m == (i.sec % 3600) \div 60
           s == i.sec % 60
<1>2. /\ f.date = Civil(i.day) /\ f.hour = h /\ f.min = m /\ f.sec = s
  BY SMT DEF Format
<1>3. /\ h \in Nat /\ m \in Nat /\ s \in Nat /\ h <= 23 /\ m <= 59 /\ s <= 59
      /\ h * 3600 + m * 60 + s = i.sec
  <2>1. IsClock(i.sec, h, m, s)
    BY <1>1, ClockIs, SMT
  <2> HIDE DEF h, m, s
  <2>2. QED
    BY <2>1, SMT DEF IsClock
<1> HIDE DEF f, h, m, s
<1>4. /\ DayOf(f.date) = i.day /\ f.date.month \in 1 .. 12 /\ f.date.day \in 1 .. 31
  BY <1>1, <1>2, DayOfCivil, SMT
<1>5. Accepts(f) <=> FourDigits(i)
  BY <1>1, <1>2, <1>3, <1>4, SMT DEF Accepts, FourDigits
<1>6. Parse(f) = <<i.day, i.sec>>
  <2>1. Parse(f) = <<DayOf(f.date) + (f.hour * 3600 + f.min * 60 + f.sec) \div 86400,
                     (f.hour * 3600 + f.min * 60 + f.sec) % 86400>>
    BY SMT DEF Parse
  <2>2. f.hour * 3600 + f.min * 60 + f.sec = i.sec
    BY <1>2, <1>3, SMT
  <2>3. Parse(f) = <<i.day + i.sec \div 86400, i.sec % 86400>>
    BY <1>4, <2>1, <2>2, SMT
  <2>4. i.sec \div 86400 = 0 /\ i.sec % 86400 = i.sec /\ i.day + 0 = i.day
    BY <1>1, SMT
  <2>5. QED
    BY <2>3, <2>4, SMT
<1>7. QED
  BY <1>5, <1>6, SMT DEF Secs, f

\* A date comes before another one.
Earlier(a, b) ==
  \/ a.year < b.year
  \/ a.year = b.year /\ a.month < b.month
  \/ a.year = b.year /\ a.month = b.month /\ a.day < b.day

\* Days before a March year, counted from the March year 0.
DaysBefore(y) == 365 * y + y \div 4 - y \div 100 + y \div 400

\* A day, from its March year.
LEMMA DayFromYear ==
  ASSUME NEW day \in Int, NEW era \in Int, NEW c \in Int, NEW q \in Int, NEW r \in Int,
         NEW d \in Int, At(day, era, c, q, r, d)
  PROVE  /\ MarchYear(era, c, q, r) \in Int
         /\ day + 719468 = DaysBefore(MarchYear(era, c, q, r)) + d
         /\ DaysBefore(MarchYear(era, c, q, r)) + d < DaysBefore(MarchYear(era, c, q, r) + 1)
<1> DEFINE y == 100 * c + 4 * q + r + era * 400
<1>1. /\ 0 <= c /\ c <= 3 /\ 0 <= q /\ q <= 24 /\ 0 <= r /\ r <= 3
      /\ 0 <= d /\ d <= 365 /\ (d = 365 => r = 3 /\ (q # 24 \/ c = 3))
      /\ day + 719468 = era * 146097 + 36524 * c + 1461 * q + 365 * r + d
  BY SMT DEF At, Place
<1>2. y \in Int /\ MarchYear(era, c, q, r) = y
  BY SMT DEF MarchYear
<1>3. y \div 4 = 25 * c + q + 100 * era /\ y \div 100 = c + 4 * era /\ y \div 400 = era
  BY <1>1, SMT
<1>4. DaysBefore(y) = 365 * y + (25 * c + q + 100 * era) - (c + 4 * era) + era
  BY <1>2, <1>3, SMT DEF DaysBefore
<1>5. day + 719468 = DaysBefore(y) + d
  BY <1>1, <1>4, SMT
<1> DEFINE leap == IF r = 3 THEN IF q = 24 THEN IF c = 3 THEN 1 ELSE 0 ELSE 1 ELSE 0
<1>6. (y + 1) \div 4 - (y + 1) \div 100 + (y + 1) \div 400 = (25 * c + q + 100 * era) - (c + 4 * era) + era + leap
  <2>1. (y + 1) \div 4 = 25 * c + q + 100 * era + (IF r = 3 THEN 1 ELSE 0)
    BY <1>1, SMT
  <2>2. (y + 1) \div 100 = c + 4 * era + (IF r = 3 /\ q = 24 THEN 1 ELSE 0)
    BY <1>1, SMT
  <2>3. (y + 1) \div 400 = era + (IF r = 3 /\ q = 24 /\ c = 3 THEN 1 ELSE 0)
    BY <1>1, SMT
  <2> HIDE DEF y
  <2>4. QED
    BY <1>1, <1>2, <2>1, <2>2, <2>3, SMT
<1>7. d < 365 + leap
  BY <1>1, SMT
<1>8. leap \in Int
  BY SMT
<1>9. DaysBefore(y + 1) = 365 * (y + 1) + ((y + 1) \div 4 - (y + 1) \div 100 + (y + 1) \div 400)
  BY <1>2, SMT DEF DaysBefore
<1> HIDE DEF y, leap
<1>10. DaysBefore(y) + d < DaysBefore(y + 1)
  BY <1>1, <1>2, <1>4, <1>6, <1>7, <1>8, <1>9, SMT
<1>11. QED
  BY <1>2, <1>5, <1>10, SMT

\* A later March year begins no earlier.
LEMMA YearsInOrder ==
  ASSUME NEW x \in Int, NEW y \in Int, x <= y
  PROVE  DaysBefore(x) \in Int /\ DaysBefore(y) \in Int /\ DaysBefore(x) <= DaysBefore(y)
<1>1. x \div 4 <= y \div 4 /\ x \div 400 <= y \div 400
  BY SMT
<1>2. y \div 100 - x \div 100 <= y - x
  BY SMT
<1>3. QED
  BY <1>1, <1>2, SMT DEF DaysBefore

\* Within a March year, the later day has the later date.
LEMMA DaysInOrder ==
  ASSUME NEW x \in Int, NEW y \in Int, NEW d \in Int, NEW e \in Int,
         0 <= d, d <= 365, 0 <= e, e <= 365, x < y \/ (x = y /\ d < e)
  PROVE  Earlier(MarchDate(x, d), MarchDate(y, e))
<1>1. PICK m \in Int : InMonth(d, m)
  BY MonthIs, SMT
<1>2. PICK n \in Int : InMonth(e, n)
  BY MonthIs, SMT
<1>3. /\ 0 <= m /\ m <= 11 /\ 0 <= n /\ n <= 11
      /\ Month(d) = (IF m < 10 THEN m + 3 ELSE m - 9)
      /\ Month(e) = (IF n < 10 THEN n + 3 ELSE n - 9)
      /\ NewYear(d) = (IF m < 10 THEN 0 ELSE 1)
      /\ NewYear(e) = (IF n < 10 THEN 0 ELSE 1)
      /\ DayOfMonth(d) = d - (153 * m + 2) \div 5 + 1
      /\ DayOfMonth(e) = e - (153 * n + 2) \div 5 + 1
      /\ (153 * m + 2) \div 5 <= d /\ d < (153 * (m + 1) + 2) \div 5
      /\ (153 * n + 2) \div 5 <= e /\ e < (153 * (n + 1) + 2) \div 5
  BY <1>1, <1>2, SMT DEF InMonth
<1> DEFINE a == x + NewYear(d)
           b == y + NewYear(e)
<1>4. \/ a < b
      \/ a = b /\ Month(d) < Month(e)
      \/ a = b /\ Month(d) = Month(e) /\ DayOfMonth(d) < DayOfMonth(e)
  <2>1. CASE x < y
    BY <1>3, <2>1, SMT
  <2>2. CASE x = y /\ d < e
    <3>1. m <= n
      BY <1>3, <2>2, SMT
    <3>2. CASE m < n
      BY <1>3, <2>2, <3>2, SMT
    <3>3. CASE m = n
      <4>1. Month(d) = Month(e) /\ a = b /\ DayOfMonth(d) < DayOfMonth(e)
        BY <1>3, <2>2, <3>3, SMT
      <4>2. QED
        BY <4>1, Zenon
    <3>4. QED
      BY <3>1, <3>2, <3>3, SMT
  <2>3. QED
    BY <2>1, <2>2, Zenon
<1>5. /\ MarchDate(x, d).year = a /\ MarchDate(x, d).month = Month(d)
      /\ MarchDate(x, d).day = DayOfMonth(d)
      /\ MarchDate(y, e).year = b /\ MarchDate(y, e).month = Month(e)
      /\ MarchDate(y, e).day = DayOfMonth(e)
  BY Zenon DEF MarchDate
<1> HIDE DEF a, b
<1>6. QED
  BY <1>4, <1>5, Zenon DEF Earlier

\* A later day has a later date.
LEMMA DatesInOrder ==
  ASSUME NEW i \in Nat, NEW j \in Nat, i < j
  PROVE  Earlier(Civil(i), Civil(j))
<1>1. PICK era, c, q, r, d \in Int : At(i, era, c, q, r, d)
  BY DayIs, Zenon
<1>2. PICK eraj, cj, qj, rj, e \in Int : At(j, eraj, cj, qj, rj, e)
  BY DayIs, Zenon
<1> DEFINE x == MarchYear(era, c, q, r)
           y == MarchYear(eraj, cj, qj, rj)
<1>3. Civil(i) = MarchDate(x, d) /\ Civil(j) = MarchDate(y, e)
  <2>1. i \in Int /\ j \in Int
    BY SMT
  <2>2. Civil(i) = MarchDate(x, d)
    BY <1>1, <2>1, CivilIs, SMT
  <2>3. Civil(j) = MarchDate(y, e)
    BY <1>2, <2>1, CivilIs, SMT
  <2>4. QED
    BY <2>2, <2>3
<1>4. 0 <= d /\ d <= 365 /\ 0 <= e /\ e <= 365
  <2>1. 0 <= d /\ d <= 365
    BY <1>1, SMT DEF At, Place
  <2>2. 0 <= e /\ e <= 365
    BY <1>2, SMT DEF At, Place
  <2>3. QED
    BY <2>1, <2>2
<1>5. /\ x \in Int /\ i + 719468 = DaysBefore(x) + d /\ DaysBefore(x) + d < DaysBefore(x + 1)
      /\ y \in Int /\ j + 719468 = DaysBefore(y) + e /\ DaysBefore(y) + e < DaysBefore(y + 1)
  <2>1. x \in Int /\ i + 719468 = DaysBefore(x) + d /\ DaysBefore(x) + d < DaysBefore(x + 1)
    BY <1>1, DayFromYear, SMT
  <2>2. y \in Int /\ j + 719468 = DaysBefore(y) + e /\ DaysBefore(y) + e < DaysBefore(y + 1)
    BY <1>2, DayFromYear, SMT
  <2> HIDE DEF x, y
  <2>3. QED
    BY <2>1, <2>2, SMT
<1> HIDE DEF x, y
<1>6. x <= y
  <2>1. SUFFICES ASSUME y + 1 <= x PROVE FALSE
    BY <1>5, SMT
  <2>2. DaysBefore(y + 1) \in Int /\ DaysBefore(x) \in Int /\ DaysBefore(y + 1) <= DaysBefore(x)
    BY <1>5, <2>1, YearsInOrder, SMT
  <2>3. DaysBefore(y) \in Int
    BY <1>5, YearsInOrder, SMT
  <2>4. QED
    BY <1>4, <1>5, <2>2, <2>3, SMT
<1>7. x < y \/ (x = y /\ d < e)
  <2>1. CASE x < y
    BY <2>1
  <2>2. CASE x = y
    <3>1. DaysBefore(x) \in Int /\ DaysBefore(x) = DaysBefore(y)
      BY <1>5, <2>2, YearsInOrder, SMT
    <3>2. d < e
      BY <1>5, <3>1, SMT
    <3>3. QED
      BY <2>2, <3>2
  <2>3. QED
    BY <1>5, <1>6, <2>1, <2>2, SMT
<1>8. Earlier(MarchDate(x, d), MarchDate(y, e))
  BY <1>4, <1>5, <1>7, DaysInOrder, SMT
<1>9. QED
  BY <1>3, <1>8, Zenon

\* The elements of two sequences put together.
LEMMA Concat ==
  ASSUME NEW s \in Seq(Int), NEW g \in Seq(Int)
  PROVE  /\ s \o g \in Seq(Int) /\ Len(s \o g) = Len(s) + Len(g)
         /\ \A i \in 1 .. Len(s) : (s \o g)[i] = s[i]
         /\ \A i \in 1 .. Len(g) : (s \o g)[Len(s) + i] = g[i]
<1> DEFINE u == s \o g
<1>1. /\ u \in Seq(Int) /\ Len(u) = Len(s) + Len(g)
      /\ \A i \in 1 .. Len(s) + Len(g) : u[i] = IF i <= Len(s) THEN s[i] ELSE g[i - Len(s)]
  BY ConcatProperties, Zenon
<1> HIDE DEF u
<1>2. Len(s) \in Nat /\ Len(g) \in Nat
  BY SMT
<1>3. \A i \in 1 .. Len(s) : u[i] = s[i]
  <2> TAKE i \in 1 .. Len(s)
  <2>1. i \in 1 .. Len(s) + Len(g) /\ i <= Len(s)
    BY <1>2, SMT
  <2>2. u[i] = IF i <= Len(s) THEN s[i] ELSE g[i - Len(s)]
    BY <1>1, <2>1, Zenon
  <2>3. QED
    BY <2>1, <2>2, SMT
<1>4. \A i \in 1 .. Len(g) : u[Len(s) + i] = g[i]
  <2> TAKE i \in 1 .. Len(g)
  <2> DEFINE k == Len(s) + i
  <2>1. k \in 1 .. Len(s) + Len(g)
    BY <1>2, SMT
  <2>2. ~ (k <= Len(s)) /\ k - Len(s) = i
    BY <1>2, SMT
  <2> HIDE DEF k
  <2>3. u[k] = IF k <= Len(s) THEN s[k] ELSE g[k - Len(s)]
    BY <1>1, <2>1, Zenon
  <2>4. u[k] = g[i]
    BY <2>2, <2>3, Zenon
  <2>5. QED
    BY <2>4, Zenon DEF k
<1>5. QED
  BY <1>1, <1>3, <1>4, Zenon DEF u

\* The elements of a sequence put together from two and a last element.
LEMMA Joined ==
  ASSUME NEW s \in Seq(Int), NEW g \in Seq(Int), NEW z \in Int
  PROVE  /\ s \o g \o <<z>> \in Seq(Int) /\ Len(s \o g \o <<z>>) = Len(s) + Len(g) + 1
         /\ \A i \in 1 .. Len(s) : (s \o g \o <<z>>)[i] = s[i]
         /\ \A i \in 1 .. Len(g) : (s \o g \o <<z>>)[Len(s) + i] = g[i]
         /\ (s \o g \o <<z>>)[Len(s) + Len(g) + 1] = z
<1> DEFINE u == s \o g
           v == <<z>>
           t == u \o v
<1>1. /\ u \in Seq(Int) /\ Len(u) = Len(s) + Len(g)
      /\ \A i \in 1 .. Len(s) : u[i] = s[i]
      /\ \A i \in 1 .. Len(g) : u[Len(s) + i] = g[i]
  BY Concat, Zenon
<1>2. v \in Seq(Int) /\ Len(v) = 1 /\ v[1] = z /\ 1 \in 1 .. 1
  BY SMT
<1> HIDE DEF u, v
<1>3. u \in Seq(Int) /\ v \in Seq(Int)
  BY <1>1, <1>2, Zenon
<1>4. /\ t \in Seq(Int) /\ Len(t) = Len(u) + Len(v)
      /\ \A i \in 1 .. Len(u) : t[i] = u[i]
      /\ \A i \in 1 .. Len(v) : t[Len(u) + i] = v[i]
  BY <1>3, Concat, Zenon
<1> HIDE DEF t
<1>5. Len(s) \in Nat /\ Len(g) \in Nat
  BY SMT
<1>6. \A i \in 1 .. Len(s) : t[i] = s[i]
  <2> TAKE i \in 1 .. Len(s)
  <2>1. i \in 1 .. Len(u)
    BY <1>1, <1>5, SMT
  <2>2. QED
    BY <1>1, <1>4, <2>1, Zenon
<1>7. \A i \in 1 .. Len(g) : t[Len(s) + i] = g[i]
  <2> TAKE i \in 1 .. Len(g)
  <2>1. Len(s) + i \in 1 .. Len(u)
    BY <1>1, <1>5, SMT
  <2>2. QED
    BY <1>1, <1>4, <2>1, Zenon
<1>8. t[Len(s) + Len(g) + 1] = z
  BY <1>1, <1>2, <1>4, Zenon
<1>9. Len(t) = Len(s) + Len(g) + 1
  BY <1>1, <1>2, <1>4, Zenon
<1>10. QED
  BY <1>4, <1>6, <1>7, <1>8, <1>9, Zenon DEF t, u, v

\* The groups of three digits of a fraction.
Groups(n, a, b, c) ==
  /\ a \in Nat /\ b \in Nat /\ c \in Nat /\ b <= 999 /\ c <= 999
  /\ n = 1000000 * a + 1000 * b + c

Milli(n) == n \div 1000000
Micro(n) == (n \div 1000) % 1000
Nano(n) == n % 1000

\* Milli, Micro and Nano are the groups of a fraction.
LEMMA GroupsAre ==
  ASSUME NEW n \in Nat
  PROVE  /\ Groups(n, Milli(n), Micro(n), Nano(n))
         /\ n % 1000000 = 1000 * Micro(n) + Nano(n)
<1> DEFINE k == n \div 1000
           c == n % 1000
           a == k \div 1000
           b == k % 1000
<1>1. k \in Nat /\ c \in Nat /\ c <= 999 /\ n = 1000 * k + c
  BY SMT
<1>2. n \div 1000000 = a
  <2> HIDE DEF k, c
  <2>1. a \in Nat /\ b \in Nat /\ b <= 999 /\ k = 1000 * a + b
    BY <1>1, SMT
  <2> HIDE DEF a, b
  <2>2. QED
    BY <1>1, <2>1, SMT
<1> HIDE DEF k, c
<1>3. a \in Nat /\ b \in Nat /\ b <= 999 /\ k = 1000 * a + b
  BY <1>1, SMT
<1> HIDE DEF a, b
<1>4. n % 1000000 = 1000 * b + c
  BY <1>1, <1>3, SMT
<1>5. Groups(n, a, b, c)
  BY <1>1, <1>3, SMT DEF Groups
<1>6. Groups(n, n \div 1000000, b, c)
  BY <1>2, <1>5, SMT
<1>7. b = Micro(n) /\ c = Nano(n) /\ n \div 1000000 = Milli(n)
  BY SMT DEF k, c, b, Milli, Micro, Nano
<1>8. QED
  BY <1>4, <1>6, <1>7, SMT

\* Of two years of four digits the earlier has the text that comes before.
LEMMA YearTextIs ==
  ASSUME NEW x \in Int, NEW y \in Int
  PROVE  YearText(x) \in Int /\ (x < y /\ y <= 9999 => YearText(x) < YearText(y))
BY SMT DEF YearText

\* The text of an instant, element by element.
IsText(t, i) ==
  /\ t \in Seq(Int) /\ Len(t) >= 7
  /\ t[1] = YearText(Civil(i.day).year) /\ t[2] = Civil(i.day).month /\ t[3] = Civil(i.day).day
  /\ t[4] = i.sec \div 3600 /\ t[5] = (i.sec % 3600) \div 60 /\ t[6] = i.sec % 60
  /\ IF i.nanos = 0 THEN t[7] = -1
     ELSE /\ t[7] = Milli(i.nanos) /\ Len(t) >= 8
          /\ IF Micro(i.nanos) = 0 /\ Nano(i.nanos) = 0 THEN t[8] = -1
             ELSE /\ t[8] = Micro(i.nanos) /\ Len(t) >= 9
                  /\ t[9] = (IF Nano(i.nanos) = 0 THEN -1 ELSE Nano(i.nanos))

\* The text of an instant has the elements its fields call for.
LEMMA TextIs ==
  ASSUME NEW i \in Instants
  PROVE  IsText(TextOf(Format(i)), i)
<1> DEFINE y == YearText(Civil(i.day).year)
           mon == Civil(i.day).month
           dom == Civil(i.day).day
           h == i.sec \div 3600
           m == (i.sec % 3600) \div 60
           u == i.sec % 60
           s == <<y, mon, dom, h, m, u>>
           g == Fraction(i.nanos)
           n == i.nanos
           a == Milli(n)
           b == Micro(n)
           c == Nano(n)
           t == s \o g \o <<-1>>
<1>1. TextOf(Format(i)) = t
  BY SMT DEF TextOf, Format
<1>2. h \in Int /\ m \in Int /\ u \in Int /\ n \in Nat
  BY SMT DEF Instants
<1>3. y \in Int /\ mon \in Int /\ dom \in Int
  <2>1. i.day \in Nat
    BY SMT DEF Instants
  <2>2. Civil(i.day).year \in Int /\ mon \in Int /\ dom \in Int
    BY <2>1, DayOfCivil, SMT
  <2>3. y \in Int
    BY <2>2, YearTextIs, SMT
  <2>4. QED
    BY <2>2, <2>3
<1>4. Groups(n, a, b, c) /\ n % 1000000 = 1000 * b + c
  <2>1. n \in Nat
    BY <1>2, SMT
  <2> HIDE DEF n
  <2>2. QED
    BY <2>1, GroupsAre, SMT
<1>5. n % 1000 = c /\ n \div 1000000 = a /\ (n \div 1000) % 1000 = b
  BY SMT DEF Milli, Micro, Nano
<1> HIDE DEF a, b, c
<1>6. /\ a \in Nat /\ b \in Nat /\ c \in Nat /\ b <= 999 /\ c <= 999
      /\ n = 1000000 * a + 1000 * b + c
  BY <1>4, SMT DEF Groups
<1>7. /\ n = 0 => g = <<>>
      /\ n # 0 /\ n % 1000000 = 0 => g = <<a>>
      /\ n % 1000000 # 0 /\ n % 1000 = 0 => g = <<a, b>>
      /\ n % 1000 # 0 => g = <<a, b, c>>
  <2>1. n = 0 => n % 1000000 = 0 /\ n % 1000 = 0
    BY SMT
  <2>2. n % 1000000 = 0 => n % 1000 = 0
    BY <1>4, <1>5, <1>6, SMT
  <2>3. Fraction(n) =
          CASE n = 0                                     -> <<>>
            [] n # 0 /\ n % 1000000 = 0              -> <<n \div 1000000>>
            [] n % 1000000 # 0 /\ n % 1000 = 0       -> <<n \div 1000000, (n \div 1000) % 1000>>
            [] n % 1000 # 0                              -> <<n \div 1000000, (n \div 1000) % 1000, n % 1000>>
    BY SMT DEF Fraction
  <2>4. QED
    BY <1>5, <2>1, <2>2, <2>3, SMT
<1>8. /\ s \in Seq(Int) /\ Len(s) = 6 /\ s[1] = y /\ s[2] = mon /\ s[3] = dom
      /\ s[4] = h /\ s[5] = m /\ s[6] = u
  <2> HIDE DEF y, mon, dom, h, m, u
  <2>1. QED
    BY <1>2, <1>3, SMT
<1>9. g \in Seq(Int)
  <2> HIDE DEF g, n
  <2>1. n # 0 \/ n = 0
    OBVIOUS
  <2>2. g = <<>> \/ g = <<a>> \/ g = <<a, b>> \/ g = <<a, b, c>>
    BY <1>7, SMT
  <2>3. <<>> \in Seq(Int) /\ <<a>> \in Seq(Int) /\ <<a, b>> \in Seq(Int) /\ <<a, b, c>> \in Seq(Int)
    BY <1>6, SMT
  <2>4. QED
    BY <2>2, <2>3, Zenon
<1> HIDE DEF s, g
<1>10. -1 \in Int
  BY SMT
<1>11. /\ t \in Seq(Int) /\ Len(t) = 6 + Len(g) + 1
       /\ \A k \in 1 .. 6 : t[k] = s[k]
       /\ \A k \in 1 .. Len(g) : t[6 + k] = g[k]
       /\ t[6 + Len(g) + 1] = -1
  <2> DEFINE z == -1
             j == s \o g \o <<z>>
  <2>1. j = t
    BY SMT
  <2> HIDE DEF z, t
  <2>2. /\ j \in Seq(Int) /\ Len(j) = Len(s) + Len(g) + 1
        /\ \A k \in 1 .. Len(s) : j[k] = s[k]
        /\ \A k \in 1 .. Len(g) : j[Len(s) + k] = g[k]
        /\ j[Len(s) + Len(g) + 1] = z
    <3>1. s \in Seq(Int) /\ g \in Seq(Int) /\ z \in Int
      BY <1>8, <1>9, <1>10, SMT DEF z
    <3>2. QED
      BY <3>1, Joined, Zenon
  <2> HIDE DEF j
  <2>3. z = -1 /\ Len(s) = 6
    BY <1>8, SMT DEF z
  <2>4. QED
    BY <2>1, <2>2, <2>3, SMT
<1> HIDE DEF t
<1>12. /\ t[1] = y /\ t[2] = mon /\ t[3] = dom /\ t[4] = h /\ t[5] = m /\ t[6] = u
  <2> HIDE DEF y, mon, dom, h, m, u
  <2>1. QED
    BY <1>8, <1>11, SMT
<1>13. /\ Len(t) >= 7
       /\ IF n = 0 THEN t[7] = -1
          ELSE /\ t[7] = a /\ Len(t) >= 8
               /\ IF b = 0 /\ c = 0 THEN t[8] = -1
                  ELSE /\ t[8] = b /\ Len(t) >= 9
                       /\ t[9] = (IF c = 0 THEN -1 ELSE c)
  <2> HIDE DEF n
  <2>1. CASE n = 0
    <3>1. g = <<>> /\ Len(g) = 0
      BY <1>7, <2>1, SMT
    <3>2. QED
      BY <1>11, <2>1, <3>1, SMT
  <2>2. CASE n # 0 /\ n % 1000000 = 0
    <3>1. g = <<a>> /\ Len(g) = 1 /\ g[1] = a
      BY <1>7, <2>2, SMT
    <3>2. b = 0 /\ c = 0
      BY <1>4, <1>6, <2>2, SMT
    <3>3. QED
      BY <1>11, <2>2, <3>1, <3>2, SMT
  <2>3. CASE n % 1000000 # 0 /\ n % 1000 = 0
    <3>1. g = <<a, b>> /\ Len(g) = 2 /\ g[1] = a /\ g[2] = b
      BY <1>7, <2>3, SMT
    <3>2. c = 0 /\ b # 0 /\ n # 0
      BY <1>4, <1>5, <1>6, <2>3, SMT
    <3>3. QED
      BY <1>11, <3>1, <3>2, SMT
  <2>4. CASE n % 1000 # 0
    <3>1. g = <<a, b, c>> /\ Len(g) = 3 /\ g[1] = a /\ g[2] = b /\ g[3] = c
      BY <1>7, <2>4, SMT
    <3>2. c # 0 /\ n # 0
      BY <1>5, <1>6, <2>4, SMT
    <3>3. QED
      BY <1>11, <3>1, <3>2, SMT
  <2>5. QED
    BY <2>1, <2>2, <2>3, <2>4, SMT
<1>14. IsText(t, i)
  <2> HIDE DEF t, s, g
  <2>1. QED
    BY <1>11, <1>12, <1>13, SMT DEF IsText, a, b, c
<1>15. QED
  BY <1>1, <1>14, SMT DEF t, s, g

\* Two texts as they are compared.
Compared(s, t) == s \in Seq(Int) /\ t \in Seq(Int)

\* They differ at k, and at no element before.
DifferAt(s, t, k) ==
  /\ Compared(s, t)
  /\ k \in Int /\ 1 <= k /\ k <= 9 /\ k <= Len(s) /\ k <= Len(t) /\ s[k] < t[k]
  /\ k > 1 => s[1] = t[1]
  /\ k > 2 => s[2] = t[2]
  /\ k > 3 => s[3] = t[3]
  /\ k > 4 => s[4] = t[4]
  /\ k > 5 => s[5] = t[5]
  /\ k > 6 => s[6] = t[6]
  /\ k > 7 => s[7] = t[7]
  /\ k > 8 => s[8] = t[8]

\* A text that is smaller where two first differ comes first.
LEMMA DifferBefore ==
  ASSUME NEW s, NEW t, NEW k, DifferAt(s, t, k)
  PROVE  Before(s, t)
<1>1. /\ k > 1 => s[1] = t[1]
      /\ k > 2 => s[2] = t[2]
      /\ k > 3 => s[3] = t[3]
      /\ k > 4 => s[4] = t[4]
      /\ k > 5 => s[5] = t[5]
      /\ k > 6 => s[6] = t[6]
      /\ k > 7 => s[7] = t[7]
      /\ k > 8 => s[8] = t[8]
      /\ s[k] < t[k]
  BY Zenon DEF DifferAt
<1>2. k \in Int /\ 1 <= k /\ k <= 9
  BY Zenon DEF DifferAt
<1>3. k \in DOMAIN s \cap DOMAIN t
  <2>1. /\ s \in Seq(Int) /\ t \in Seq(Int) /\ k \in Int /\ 1 <= k /\ k <= Len(s) /\ k <= Len(t)
    BY Zenon DEF DifferAt, Compared
  <2>2. QED
    BY <2>1, SMT
<1>4. ASSUME NEW m \in 1 .. k - 1 PROVE s[m] = t[m]
  <2>1. CASE m = 1
    <3>1. k > 1
      BY <1>2, <1>4, <2>1, SMT
    <3>2. s[1] = t[1]
      BY <1>1, <3>1, Zenon
    <3>3. QED
      BY <2>1, <3>2, Zenon
  <2>2. CASE m = 2
    <3>1. k > 2
      BY <1>2, <1>4, <2>2, SMT
    <3>2. s[2] = t[2]
      BY <1>1, <3>1, Zenon
    <3>3. QED
      BY <2>2, <3>2, Zenon
  <2>3. CASE m = 3
    <3>1. k > 3
      BY <1>2, <1>4, <2>3, SMT
    <3>2. s[3] = t[3]
      BY <1>1, <3>1, Zenon
    <3>3. QED
      BY <2>3, <3>2, Zenon
  <2>4. CASE m = 4
    <3>1. k > 4
      BY <1>2, <1>4, <2>4, SMT
    <3>2. s[4] = t[4]
      BY <1>1, <3>1, Zenon
    <3>3. QED
      BY <2>4, <3>2, Zenon
  <2>5. CASE m = 5
    <3>1. k > 5
      BY <1>2, <1>4, <2>5, SMT
    <3>2. s[5] = t[5]
      BY <1>1, <3>1, Zenon
    <3>3. QED
      BY <2>5, <3>2, Zenon
  <2>6. CASE m = 6
    <3>1. k > 6
      BY <1>2, <1>4, <2>6, SMT
    <3>2. s[6] = t[6]
      BY <1>1, <3>1, Zenon
    <3>3. QED
      BY <2>6, <3>2, Zenon
  <2>7. CASE m = 7
    <3>1. k > 7
      BY <1>2, <1>4, <2>7, SMT
    <3>2. s[7] = t[7]
      BY <1>1, <3>1, Zenon
    <3>3. QED
      BY <2>7, <3>2, Zenon
  <2>8. CASE m = 8
    <3>1. k > 8
      BY <1>2, <1>4, <2>8, SMT
    <3>2. s[8] = t[8]
      BY <1>1, <3>1, Zenon
    <3>3. QED
      BY <2>8, <3>2, Zenon
  <2>9. m = 1 \/ m = 2 \/ m = 3 \/ m = 4 \/ m = 5 \/ m = 6 \/ m = 7 \/ m = 8
    BY <1>2, <1>4, SMT
  <2>10. QED
    BY <2>1, <2>2, <2>3, <2>4, <2>5, <2>6, <2>7, <2>8, <2>9, Zenon
<1>5. QED
  BY <1>1, <1>3, <1>4, Zenon DEF Before

\* Of two instants up to the end of 9999 the earlier has the text that comes
\* before.
LEMMA TextsInOrder ==
  ASSUME NEW i \in Instants, NEW j \in Instants, FourDigits(j),
         \/ i.day < j.day
         \/ i.day = j.day /\ i.sec < j.sec
         \/ i.day = j.day /\ i.sec = j.sec /\ i.nanos < j.nanos
  PROVE  Before(TextOf(Format(i)), TextOf(Format(j)))
<1> DEFINE s == TextOf(Format(i))
           t == TextOf(Format(j))
<1> SUFFICES Before(s, t)
  OBVIOUS
<1>1. IsText(s, i) /\ IsText(t, j)
  BY TextIs, Zenon
<1> HIDE DEF s, t
<1>2. /\ i.day \in Nat /\ i.sec \in Nat /\ i.nanos \in Nat /\ i.sec < 86400
      /\ j.day \in Nat /\ j.sec \in Nat /\ j.nanos \in Nat /\ j.sec < 86400
  BY SMT DEF Instants
<1> DEFINE a == Civil(i.day)
           b == Civil(j.day)
           h1 == i.sec \div 3600
           m1 == (i.sec % 3600) \div 60
           u1 == i.sec % 60
           h2 == j.sec \div 3600
           m2 == (j.sec % 3600) \div 60
           u2 == j.sec % 60
<1>3. /\ s \in Seq(Int) /\ Len(s) >= 7 /\ s[1] = YearText(a.year) /\ s[2] = a.month /\ s[3] = a.day
      /\ s[4] = h1 /\ s[5] = m1 /\ s[6] = u1
      /\ t \in Seq(Int) /\ Len(t) >= 7 /\ t[1] = YearText(b.year) /\ t[2] = b.month /\ t[3] = b.day
      /\ t[4] = h2 /\ t[5] = m2 /\ t[6] = u2
  BY <1>1, SMT DEF IsText
<1>8. Compared(s, t) /\ Len(s) \in Nat /\ Len(t) \in Nat /\ Len(s) >= 7 /\ Len(t) >= 7
  <2>1. s \in Seq(Int) /\ Len(s) >= 7
    BY <1>1, SMT DEF IsText
  <2>2. t \in Seq(Int) /\ Len(t) >= 7
    BY <1>1, SMT DEF IsText
  <2>3. Len(s) \in Nat /\ Len(t) \in Nat
    BY <2>1, <2>2, SMT
  <2>4. QED
    BY <2>1, <2>2, <2>3, Zenon DEF Compared
<1>4. CASE i.day < j.day
  <2>1. Earlier(a, b)
    BY <1>2, <1>4, DatesInOrder, SMT
  <2>6. a.year \in Int /\ b.year \in Int
    BY <1>2, DayOfCivil, SMT
  <2>7. b.year <= 9999
    BY SMT DEF FourDigits
  <2> HIDE DEF a, b, h1, m1, u1, h2, m2, u2
  <2>2. CASE a.year < b.year
    <3>4. YearText(a.year) < YearText(b.year)
      BY <2>2, <2>6, <2>7, YearTextIs, SMT
    <3>1. s[1] < t[1]
      BY <1>3, <3>4, SMT
    <3>2. DifferAt(s, t, 1)
      BY <1>8, <3>1, SMT DEF DifferAt
    <3>3. QED
      BY <3>2, DifferBefore, Zenon
  <2>3. CASE a.year = b.year /\ a.month < b.month
    <3>1. s[2] < t[2] /\ s[1] = t[1]
      BY <1>3, <2>3, SMT
    <3>2. DifferAt(s, t, 2)
      BY <1>8, <3>1, SMT DEF DifferAt
    <3>3. QED
      BY <3>2, DifferBefore, Zenon
  <2>4. CASE a.year = b.year /\ a.month = b.month /\ a.day < b.day
    <3>1. s[3] < t[3] /\ s[1] = t[1] /\ s[2] = t[2]
      BY <1>3, <2>4, SMT
    <3>2. DifferAt(s, t, 3)
      BY <1>8, <3>1, SMT DEF DifferAt
    <3>3. QED
      BY <3>2, DifferBefore, Zenon
  <2>5. QED
    BY <2>1, <2>2, <2>3, <2>4, SMT DEF Earlier
<1>5. CASE i.day = j.day /\ i.sec < j.sec
  <2>1. IsClock(i.sec, h1, m1, u1) /\ IsClock(j.sec, h2, m2, u2)
    BY <1>2, ClockIs, SMT
  <2>2. a = b
    BY <1>5, Zenon
  <2> HIDE DEF a, b, h1, m1, u1, h2, m2, u2
  <2>3. \/ h1 < h2
        \/ h1 = h2 /\ m1 < m2
        \/ h1 = h2 /\ m1 = m2 /\ u1 < u2
    BY <1>2, <1>5, <2>1, SMT DEF IsClock
  <2>4. CASE h1 < h2
    <3>1. s[4] < t[4] /\ s[1] = t[1] /\ s[2] = t[2] /\ s[3] = t[3]
      BY <1>3, <2>2, <2>4, SMT
    <3>2. DifferAt(s, t, 4)
      BY <1>8, <3>1, SMT DEF DifferAt
    <3>3. QED
      BY <3>2, DifferBefore, Zenon
  <2>5. CASE h1 = h2 /\ m1 < m2
    <3>1. s[5] < t[5] /\ s[1] = t[1] /\ s[2] = t[2] /\ s[3] = t[3] /\ s[4] = t[4]
      BY <1>3, <2>2, <2>5, SMT
    <3>2. DifferAt(s, t, 5)
      BY <1>8, <3>1, SMT DEF DifferAt
    <3>3. QED
      BY <3>2, DifferBefore, Zenon
  <2>6. CASE h1 = h2 /\ m1 = m2 /\ u1 < u2
    <3>1. s[6] < t[6] /\ s[1] = t[1] /\ s[2] = t[2] /\ s[3] = t[3] /\ s[4] = t[4] /\ s[5] = t[5]
      BY <1>3, <2>2, <2>6, SMT
    <3>2. DifferAt(s, t, 6)
      BY <1>8, <3>1, SMT DEF DifferAt
    <3>3. QED
      BY <3>2, DifferBefore, Zenon
  <2>7. QED
    BY <2>3, <2>4, <2>5, <2>6, Zenon
<1>6. CASE i.day = j.day /\ i.sec = j.sec /\ i.nanos < j.nanos
  <2>1. /\ s[1] = t[1] /\ s[2] = t[2] /\ s[3] = t[3] /\ s[4] = t[4] /\ s[5] = t[5] /\ s[6] = t[6]
    <3>1. a = b /\ h1 = h2 /\ m1 = m2 /\ u1 = u2
      BY <1>6, SMT
    <3> HIDE DEF a, b, h1, m1, u1, h2, m2, u2
    <3>2. QED
      BY <1>3, <3>1, SMT
  <2> HIDE DEF a, b, h1, m1, u1, h2, m2, u2
  <2> DEFINE p == i.nanos
             q == j.nanos
             x1 == Milli(p)
             y1 == Micro(p)
             z1 == Nano(p)
             x2 == Milli(q)
             y2 == Micro(q)
             z2 == Nano(q)
  <2>2. /\ IF p = 0 THEN s[7] = -1
           ELSE /\ s[7] = x1 /\ Len(s) >= 8
                /\ IF y1 = 0 /\ z1 = 0 THEN s[8] = -1
                   ELSE /\ s[8] = y1 /\ Len(s) >= 9
                        /\ s[9] = (IF z1 = 0 THEN -1 ELSE z1)
        /\ IF q = 0 THEN t[7] = -1
           ELSE /\ t[7] = x2 /\ Len(t) >= 8
                /\ IF y2 = 0 /\ z2 = 0 THEN t[8] = -1
                   ELSE /\ t[8] = y2 /\ Len(t) >= 9
                        /\ t[9] = (IF z2 = 0 THEN -1 ELSE z2)
    BY <1>1, SMT DEF IsText
  <2>3. Groups(p, x1, y1, z1) /\ Groups(q, x2, y2, z2)
    BY <1>2, GroupsAre, SMT
  <2>4. p < q
    BY <1>6, Zenon
  <2> HIDE DEF p, q, x1, y1, z1, x2, y2, z2
  <2>5. /\ x1 \in Nat /\ y1 \in Nat /\ z1 \in Nat /\ x2 \in Nat /\ y2 \in Nat /\ z2 \in Nat
        /\ (p = 0 <=> x1 = 0 /\ y1 = 0 /\ z1 = 0)
        /\ q # 0
        /\ \/ x1 < x2
           \/ x1 = x2 /\ y1 < y2
           \/ x1 = x2 /\ y1 = y2 /\ z1 < z2
    BY <2>3, <2>4, SMT DEF Groups
  <2>6. CASE p = 0 \/ x1 < x2
    <3>1. s[7] < t[7]
      BY <2>1, <2>2, <2>5, <2>6, SMT
    <3>2. DifferAt(s, t, 7)
      BY <1>8, <2>1, <3>1, SMT DEF DifferAt
    <3>3. QED
      BY <3>2, DifferBefore, Zenon
  <2>7. CASE p # 0 /\ x1 = x2 /\ (y1 < y2 \/ (y1 = y2 /\ z1 < z2 /\ y1 = 0 /\ z1 = 0))
    <3>1. s[7] = t[7] /\ s[8] < t[8] /\ Len(s) >= 8 /\ Len(t) >= 8
      BY <2>2, <2>5, <2>7, SMT
    <3>2. DifferAt(s, t, 8)
      BY <1>8, <2>1, <3>1, SMT DEF DifferAt
    <3>3. QED
      BY <3>2, DifferBefore, Zenon
  <2>8. CASE p # 0 /\ x1 = x2 /\ y1 = y2 /\ z1 < z2 /\ ~ (y1 = 0 /\ z1 = 0)
    <3>1. /\ s[7] = t[7] /\ s[8] = t[8] /\ s[9] < t[9] /\ Len(s) >= 9 /\ Len(t) >= 9
      BY <2>2, <2>5, <2>8, SMT
    <3>2. DifferAt(s, t, 9)
      BY <1>8, <2>1, <3>1, SMT DEF DifferAt
    <3>3. QED
      BY <3>2, DifferBefore, Zenon
  <2>9. QED
    BY <2>5, <2>6, <2>7, <2>8, SMT
<1>7. QED
  BY <1>4, <1>5, <1>6, Zenon

\* The order of instants, field by field.
LEMMA LaterIs ==
  ASSUME NEW i \in Instants, NEW j \in Instants, Later(i, j)
  PROVE  \/ i.day < j.day
         \/ i.day = j.day /\ i.sec < j.sec
         \/ i.day = j.day /\ i.sec = j.sec /\ i.nanos < j.nanos
<1> DEFINE s == <<i.day, i.sec, i.nanos>>
           t == <<j.day, j.sec, j.nanos>>
<1>1. /\ s[1] = i.day /\ s[2] = i.sec /\ s[3] = i.nanos
      /\ t[1] = j.day /\ t[2] = j.sec /\ t[3] = j.nanos
  BY Zenon
<1>2. DOMAIN s \cap DOMAIN t = {1, 2, 3} /\ ~ (Len(s) < Len(t))
  BY SMT
<1>3. PICK k \in DOMAIN s \cap DOMAIN t : s[k] < t[k] /\ \A m \in 1 .. k - 1 : s[m] = t[m]
  BY <1>2, Zenon DEF Later, Before
<1> HIDE DEF s, t
<1>4. k = 1 \/ k = 2 \/ k = 3
  BY <1>2, <1>3, SMT
<1>5. k = 1 => s[1] < t[1]
  BY <1>3, SMT
<1>6. k = 2 => s[2] < t[2] /\ s[1] = t[1]
  BY <1>3, SMT
<1>7. k = 3 => s[3] < t[3] /\ s[1] = t[1] /\ s[2] = t[2]
  BY <1>3, SMT
<1>8. QED
  BY <1>1, <1>4, <1>5, <1>6, <1>7, Zenon


\* The clock stands at an instant.
LEMMA ClockAtInstant == CodecSpec => [](now \in Instants)
<1>1. \A day \in Nat : Midnight(day) \in Instants
  BY SMT DEF Midnight, Instants
<1>2. CodecInit => now \in Instants
  <2> SUFFICES ASSUME CodecInit PROVE now \in Instants
    OBVIOUS
  <2>1. CASE now \in Samples
    BY <2>1, CodecsAssumption
  <2>2. CASE \E s \in Spans : now = Midnight(s[1])
    <3>1. PICK s \in Spans : now = Midnight(s[1])
      BY <2>2
    <3>2. s[1] \in Nat
      BY CodecsAssumption
    <3>3. QED
      BY <1>1, <3>1, <3>2, Zenon
  <2>3. QED
    BY <2>1, <2>2, Zenon DEF CodecInit
<1>3. now \in Instants /\ [CodecNext]_codecVars => (now \in Instants)'
  <2> SUFFICES ASSUME now \in Instants, [CodecNext]_codecVars PROVE now' \in Instants
    OBVIOUS
  <2>1. CASE NextDay
    <3>1. now.day + 1 \in Nat
      BY InstantIs, SMT
    <3>2. now' = Midnight(now.day + 1)
      BY <2>1, Zenon DEF NextDay
    <3>3. QED
      BY <1>1, <3>1, <3>2, Zenon
  <2>2. CASE Wait
    <3>1. now' \in Samples
      BY <2>2, Zenon DEF Wait
    <3>2. QED
      BY <3>1, CodecsAssumption, Zenon
  <2>3. CASE Handle
    BY <2>3, Zenon DEF Handle
  <2>4. CASE UNCHANGED codecVars
    BY <2>4, Zenon DEF codecVars
  <2>5. QED
    BY <2>1, <2>2, <2>3, <2>4, Zenon DEF CodecNext
<1>4. QED
  BY <1>2, <1>3, PTL DEF CodecSpec

-----------------------------------------------------------------------------
(***************************************************************************)
(* Messages.  A text is built, measured and read by a fold, which is a     *)
(* recursive function over the places of a sequence: that it exists, and   *)
(* what it is, follows from the smallest place at which it were otherwise. *)
(***************************************************************************)

\* What holds of the first number, and of each number after one it holds of,
\* holds of all of them.
LEMMA UpTo ==
  ASSUME NEW N \in Nat, NEW T, 0 \in T, \A n \in 1 .. N : n - 1 \in T => n \in T
  PROVE  \A n \in 0 .. N : n \in T
<1> SUFFICES ASSUME NEW n \in 0 .. N, n \notin T PROVE FALSE
  OBVIOUS
<1> DEFINE missing == {m \in 0 .. N : m \notin T}
           less == OpToRel(<, Nat)
<1>1. missing \subseteq Nat /\ missing # {}
  OBVIOUS
<1>2. IsWellFoundedOn(less, Nat)
  BY NatLessThanWellFounded
<1> HIDE DEF less, missing
<1>3. PICK m \in missing : \A k \in missing : ~ (<<k, m>> \in less)
  BY <1>1, <1>2, WFMin
<1>4. \A k \in missing : ~ (k < m)
  BY <1>1, <1>3 DEF less, OpToRel
<1>5. m \in 1 .. N
  BY <1>3 DEF missing
<1>6. m - 1 \in missing
  BY <1>3, <1>5 DEF missing
<1>7. QED
  BY <1>4, <1>5, <1>6

\* f has the results of a fold over N inputs, G[n] being what input n does to one.
Unrolls(f, N, base, G) == f[0] = base /\ \A n \in 1 .. N : f[n] = G[n][f[n - 1]]

\* There is such a function: the equation that defines a fold has a solution.
LEMMA FoldExists ==
  ASSUME NEW S, NEW N \in Nat, NEW base \in S, NEW G \in [1 .. N -> [S -> S]]
  PROVE  \E f \in [0 .. N -> S] : Unrolls(f, N, base, G)
<1> DEFINE T == {m \in 0 .. N : \E f \in [0 .. m -> S] : Unrolls(f, m, base, G)}
<1>1. 0 \in T
  <2> DEFINE f == [n \in 0 .. 0 |-> base]
  <2>1. f \in [0 .. 0 -> S] /\ Unrolls(f, 0, base, G)
    BY DEF Unrolls
  <2>2. 0 \in 0 .. N
    OBVIOUS
  <2> HIDE DEF f
  <2>3. QED
    BY <2>1, <2>2
<1>2. ASSUME NEW m \in 1 .. N, m - 1 \in T PROVE m \in T
  <2>1. PICK f \in [0 .. m - 1 -> S] : Unrolls(f, m - 1, base, G)
    BY <1>2
  <2> DEFINE g == [n \in 0 .. m |-> IF n = m THEN G[m][f[m - 1]] ELSE f[n]]
  <2>2. f[m - 1] \in S /\ G[m][f[m - 1]] \in S
    OBVIOUS
  <2>3. g \in [0 .. m -> S]
    BY <2>2
  <2>4. g[0] = base
    BY <2>1 DEF Unrolls
  <2>5. ASSUME NEW n \in 1 .. m PROVE g[n] = G[n][g[n - 1]]
    BY <2>1 DEF Unrolls
  <2>6. Unrolls(g, m, base, G)
    BY <2>4, <2>5 DEF Unrolls
  <2> HIDE DEF g
  <2>7. QED
    BY <2>3, <2>6
<1>3. \A n \in 0 .. N : n \in T
  <2> HIDE DEF T
  <2>1. QED
    BY <1>1, <1>2, UpTo
<1>4. QED
  BY <1>3

Pieces(K) == [what : K, len : Nat]

\* Length counts the bytes from the first piece to the last.
LEMMA LengthIs ==
  ASSUME NEW K, NEW text \in Seq(Pieces(K))
  PROVE  \E sum \in [0 .. Len(text) -> Nat] :
           /\ sum[0] = 0
           /\ \A n \in 1 .. Len(text) : sum[n] = sum[n - 1] + text[n].len
           /\ Length(text) = sum[Len(text)]
<1> DEFINE N == Len(text)
           G == [n \in 1 .. N |-> [s \in Nat |-> s + text[n].len]]
           Counts(f) == f = [n \in 0 .. N |-> IF n = 0 THEN 0 ELSE f[n - 1] + text[n].len]
<1>1. N \in Nat
  OBVIOUS
<1>2. ASSUME NEW n \in 1 .. N PROVE text[n].len \in Nat
  <2>1. text[n] \in Pieces(K)
    OBVIOUS
  <2>2. QED
    BY <2>1 DEF Pieces
<1> HIDE DEF N
<1>3. PICK g : Counts(g)
  <2>1. G \in [1 .. N -> [Nat -> Nat]]
    BY <1>2
  <2> HIDE DEF G
  <2>2. PICK g \in [0 .. N -> Nat] : Unrolls(g, N, 0, G)
    BY <1>1, <2>1, FoldExists
  <2>3. ASSUME NEW n \in 1 .. N PROVE G[n][g[n - 1]] = g[n - 1] + text[n].len
    <3>1. g[n - 1] \in Nat
      BY <1>1
    <3>2. QED
      BY <3>1 DEF G
  <2>4. ASSUME NEW n \in 0 .. N
        PROVE  g[n] = IF n = 0 THEN 0 ELSE g[n - 1] + text[n].len
    BY <1>1, <2>2, <2>3 DEF Unrolls
  <2>5. QED
    BY <2>4
<1>4. \E f : Counts(f) /\ Length(text) = f[N]
  BY <1>3, Zenon DEF Length, N
<1>5. PICK f : Counts(f) /\ Length(text) = f[N]
  BY <1>4
<1>6. f[0] = 0 /\ \A n \in 1 .. N : f[n] = f[n - 1] + text[n].len
  BY <1>1, <1>5
<1>7. \A n \in 0 .. N : f[n] \in Nat
  <2> DEFINE T == {m \in 0 .. N : f[m] \in Nat}
  <2>1. 0 \in T
    BY <1>1, <1>6
  <2>2. ASSUME NEW n \in 1 .. N, n - 1 \in T PROVE n \in T
    <3>1. f[n] = f[n - 1] + text[n].len /\ f[n - 1] \in Nat
      BY <1>6, <2>2
    <3>2. f[n] \in Nat
      BY <1>2, <3>1
    <3>3. QED
      BY <1>1, <3>2
  <2> HIDE DEF T
  <2>3. \A n \in 0 .. N : n \in T
    BY <1>1, <2>1, <2>2, UpTo
  <2>4. QED
    BY <2>3 DEF T
<1>8. f \in [0 .. N -> Nat]
  BY <1>5, <1>7
<1>9. QED
  BY <1>5, <1>6, <1>8 DEF N

\* Nothing has no bytes.
LEMMA LengthNone == Length(<<>>) = 0
<1>1. <<>> \in Seq(Pieces({})) /\ Len(<<>>) = 0
  OBVIOUS
<1>2. QED
  BY <1>1, LengthIs

\* The bytes of a text are a number.
LEMMA LengthNat ==
  ASSUME NEW K, NEW text \in Seq(Pieces(K))
  PROVE  Length(text) \in Nat
<1>1. Len(text) \in 0 .. Len(text)
  OBVIOUS
<1>2. QED
  BY <1>1, LengthIs

\* One piece more is its bytes more.
LEMMA LengthAppend ==
  ASSUME NEW K, NEW text \in Seq(Pieces(K)), NEW p \in Pieces(K)
  PROVE  /\ Length(text) \in Nat
         /\ Length(Append(text, p)) = Length(text) + p.len
<1> DEFINE more == Append(text, p)
<1>1. more \in Seq(Pieces(K)) /\ Len(more) = Len(text) + 1 /\ more[Len(text) + 1] = p
      /\ \A n \in 1 .. Len(text) : more[n] = text[n]
  OBVIOUS
<1> HIDE DEF more
<1>2. PICK f \in [0 .. Len(text) -> Nat] :
             /\ f[0] = 0
             /\ \A n \in 1 .. Len(text) : f[n] = f[n - 1] + text[n].len
             /\ Length(text) = f[Len(text)]
  BY LengthIs
<1>3. PICK g \in [0 .. Len(more) -> Nat] :
             /\ g[0] = 0
             /\ \A n \in 1 .. Len(more) : g[n] = g[n - 1] + more[n].len
             /\ Length(more) = g[Len(more)]
  BY <1>1, LengthIs
<1>4. Len(text) \in Nat
  OBVIOUS
<1>5. \A n \in 0 .. Len(text) : n \in {m \in 0 .. Len(text) : f[m] = g[m]}
  <2> DEFINE T == {m \in 0 .. Len(text) : f[m] = g[m]}
  <2>1. 0 \in T
    BY <1>2, <1>3, <1>4
  <2>2. ASSUME NEW n \in 1 .. Len(text), n - 1 \in T PROVE n \in T
    <3>1. f[n] = f[n - 1] + text[n].len /\ g[n] = g[n - 1] + more[n].len
      BY <1>1, <1>2, <1>3
    <3>2. QED
      BY <1>1, <2>2, <3>1
  <2> HIDE DEF T
  <2>3. \A n \in 0 .. Len(text) : n \in T
    BY <1>4, <2>1, <2>2, UpTo
  <2>4. QED
    BY <2>3 DEF T
<1>6. f[Len(text)] = g[Len(text)]
  BY <1>4, <1>5
<1>7. g[Len(text) + 1] = g[Len(text)] + p.len
  BY <1>1, <1>3, <1>4
<1>8. QED
  BY <1>1, <1>2, <1>3, <1>6, <1>7 DEF more

\* The pieces up to the n-th are those before it and the n-th.
LEMMA Prefixes ==
  ASSUME NEW K, NEW text \in Seq(Pieces(K))
  PROVE  /\ SubSeq(text, 1, 0) = <<>>
         /\ SubSeq(text, 1, Len(text)) = text
         /\ \A n \in 1 .. Len(text) :
              /\ text[n] \in Pieces(K)
              /\ SubSeq(text, 1, n - 1) \in Seq(Pieces(K))
              /\ SubSeq(text, 1, n) = Append(SubSeq(text, 1, n - 1), text[n])
              /\ Length(SubSeq(text, 1, n - 1)) \in Nat
              /\ Length(SubSeq(text, 1, n)) = Length(SubSeq(text, 1, n - 1)) + text[n].len
<1>1. SubSeq(text, 1, 0) = <<>> /\ SubSeq(text, 1, Len(text)) = text
  OBVIOUS
<1>2. ASSUME NEW n \in 1 .. Len(text)
      PROVE  /\ text[n] \in Pieces(K)
             /\ SubSeq(text, 1, n - 1) \in Seq(Pieces(K))
             /\ SubSeq(text, 1, n) = Append(SubSeq(text, 1, n - 1), text[n])
  OBVIOUS
<1>3. ASSUME NEW n \in 1 .. Len(text)
      PROVE  /\ Length(SubSeq(text, 1, n - 1)) \in Nat
             /\ Length(SubSeq(text, 1, n)) = Length(SubSeq(text, 1, n - 1)) + text[n].len
  BY <1>2, LengthAppend
<1>4. QED
  BY <1>1, <1>2, <1>3

\* One push, onto what has been built so far or onto an error.
LEMMA PushIs ==
  ASSUME NEW capacity, NEW text, NEW p
  PROVE  /\ Push(capacity, [ok |-> TRUE, text |-> text], p) =
              IF Length(text) + p.len <= capacity
              THEN [ok |-> TRUE, text |-> Append(text, p)] ELSE Failed
         /\ Push(capacity, Failed, p) = Failed
BY DEF Push, Failed

\* A request is what was to be pushed if all of it fits, and an error if not.
LEMMA BuiltIs ==
  ASSUME NEW K, NEW capacity \in Nat, NEW pieces \in Seq(Pieces(K))
  PROVE  Built(capacity, pieces) =
           IF Length(pieces) <= capacity THEN [ok |-> TRUE, text |-> pieces] ELSE Failed
<1> DEFINE N == Len(pieces)
           S == [ok : BOOLEAN, text : Seq(Pieces(K))]
           none == [ok |-> TRUE, text |-> <<>>]
           push(n, s) == Push(capacity, s, pieces[n])
           G == [n \in 1 .. N |-> [s \in S |-> push(n, s)]]
           Builds(f) == f = [n \in 0 .. N |-> IF n = 0 THEN none ELSE push(n, f[n - 1])]
<1>1. N \in Nat /\ none \in S
  OBVIOUS
<1>2. ASSUME NEW n \in 1 .. N, NEW s \in S PROVE push(n, s) \in S
  <2>1. pieces[n] \in Pieces(K)
    OBVIOUS
  <2>2. QED
    BY <2>1 DEF Push, Failed
<1> HIDE DEF N, none, push, S
<1>3. PICK g : Builds(g)
  <2>1. G \in [1 .. N -> [S -> S]]
    BY <1>2
  <2> HIDE DEF G
  <2>2. PICK g \in [0 .. N -> S] : Unrolls(g, N, none, G)
    BY <1>1, <2>1, FoldExists
  <2>3. ASSUME NEW n \in 1 .. N PROVE G[n][g[n - 1]] = push(n, g[n - 1])
    <3>1. g[n - 1] \in S
      BY <1>1
    <3>2. QED
      BY <3>1 DEF G
  <2>4. ASSUME NEW n \in 0 .. N
        PROVE  g[n] = IF n = 0 THEN none ELSE push(n, g[n - 1])
    BY <1>1, <2>2, <2>3 DEF Unrolls
  <2>5. QED
    BY <2>4
<1>4. \E f : Builds(f) /\ Built(capacity, pieces) = f[N]
  BY <1>3, Zenon DEF Built, N, none, push
<1>5. PICK f : Builds(f) /\ Built(capacity, pieces) = f[N]
  BY <1>4
<1>6. f[0] = none /\ \A n \in 1 .. N : f[n] = push(n, f[n - 1])
  BY <1>1, <1>5
<1> DEFINE upto(n) == SubSeq(pieces, 1, n)
           Sofar(n) == IF Length(upto(n)) <= capacity
                       THEN [ok |-> TRUE, text |-> upto(n)] ELSE Failed
           T == {n \in 0 .. N : f[n] = Sofar(n)}
<1>7. 0 \in T
  <2>1. upto(0) = <<>> /\ Length(upto(0)) = 0
    BY Prefixes, LengthNone
  <2>2. Sofar(0) = none
    <3>1. Length(upto(0)) <= capacity
      BY <2>1
    <3>2. QED
      BY <2>1, <3>1 DEF none
  <2> HIDE DEF Sofar
  <2>3. QED
    BY <1>1, <1>6, <2>2
<1>8. ASSUME NEW n \in 1 .. N, n - 1 \in T PROVE n \in T
  <2>1. /\ pieces[n] \in Pieces(K)
        /\ upto(n) = Append(upto(n - 1), pieces[n])
        /\ Length(upto(n - 1)) \in Nat
        /\ Length(upto(n)) = Length(upto(n - 1)) + pieces[n].len
    BY Prefixes DEF N
  <2>2. pieces[n].len \in Nat
    BY <2>1 DEF Pieces
  <2>3. f[n] = Push(capacity, f[n - 1], pieces[n]) /\ f[n - 1] = Sofar(n - 1)
    BY <1>6, <1>8 DEF push
  <2>4. f[n] = Sofar(n)
    <3> HIDE DEF upto
    <3>1. CASE Length(upto(n - 1)) <= capacity
      <4>1. f[n] = Push(capacity, [ok |-> TRUE, text |-> upto(n - 1)], pieces[n])
        BY <2>3, <3>1
      <4>2. QED
        BY <2>1, <4>1, PushIs
    <3>2. CASE ~ (Length(upto(n - 1)) <= capacity)
      <4>1. f[n] = Push(capacity, Failed, pieces[n])
        BY <2>3, <3>2
      <4>2. ~ (Length(upto(n)) <= capacity)
        BY <2>1, <2>2, <3>2
      <4>3. QED
        BY <4>1, <4>2, PushIs
    <3>3. QED
      BY <3>1, <3>2
  <2>5. QED
    BY <1>1, <2>4
<1> HIDE DEF T
<1>9. \A n \in 0 .. N : n \in T
  BY <1>1, <1>7, <1>8, UpTo
<1>10. f[N] = Sofar(N)
  BY <1>1, <1>9 DEF T
<1>11. upto(N) = pieces
  BY Prefixes DEF N
<1>12. QED
  BY <1>5, <1>10, <1>11

\* One push whose result is ignored: what is there stays, and it still fits.
LEMMA PushOkIs ==
  ASSUME NEW K, NEW capacity \in Nat, NEW text \in Seq(Pieces(K)), Length(text) <= capacity,
         NEW p \in Pieces(K)
  PROVE  \E q \in Pieces(K) :
           /\ PushOk(capacity, text, p) = Append(text, q)
           /\ Length(text) + q.len <= capacity
           /\ Length(text) + p.len <= capacity => q = p
<1> DEFINE room == capacity - Length(text)
           len == IF p.len <= room THEN p.len
                  ELSE IF p.what \in {"digits", "value"} THEN room ELSE 0
<1>1. Length(text) \in Nat
  BY LengthAppend
<1>2. p.len \in Nat /\ p.what \in K /\ p = Piece(p.what, p.len)
  BY DEF Pieces, Piece
<1>3. room \in Nat
  BY <1>1
<1>4. len \in Nat /\ len <= room
  BY <1>2, <1>3
<1>5. PushOk(capacity, text, p) = Append(text, Piece(p.what, len))
  BY DEF PushOk
<1>6. Piece(p.what, len) \in Pieces(K) /\ Piece(p.what, len).len = len
  BY <1>2, <1>4 DEF Piece, Pieces
<1>7. Length(text) + len <= capacity
  BY <1>1, <1>4
<1>8. Length(text) + p.len <= capacity => len = p.len
  BY <1>1, <1>2
<1> HIDE DEF len, room
<1>9. QED
  BY <1>2, <1>5, <1>6, <1>7, <1>8

\* What is pushed never exceeds the buffer, and is complete if it fits.
LEMMA PushedIs ==
  ASSUME NEW K, NEW capacity \in Nat, NEW pieces \in Seq(Pieces(K))
  PROVE  /\ Pushed(capacity, pieces) \in Seq(Pieces(K))
         /\ Len(Pushed(capacity, pieces)) = Len(pieces)
         /\ Length(Pushed(capacity, pieces)) <= capacity
         /\ Length(pieces) <= capacity => Pushed(capacity, pieces) = pieces
<1> DEFINE N == Len(pieces)
           Fits == {t \in Seq(Pieces(K)) : Length(t) <= capacity}
           push(n, t) == PushOk(capacity, t, pieces[n])
           G == [n \in 1 .. N |-> [t \in Fits |-> push(n, t)]]
           Pushes(f) == f = [n \in 0 .. N |-> IF n = 0 THEN <<>> ELSE push(n, f[n - 1])]
<1>1. N \in Nat /\ <<>> \in Fits
  BY LengthNone
<1>2. ASSUME NEW n \in 1 .. N, NEW t \in Fits
      PROVE  \E q \in Pieces(K) :
               /\ push(n, t) = Append(t, q)
               /\ push(n, t) \in Fits
               /\ Length(push(n, t)) = Length(t) + q.len
               /\ Length(t) + pieces[n].len <= capacity => q = pieces[n]
  <2>1. pieces[n] \in Pieces(K)
    OBVIOUS
  <2>2. PICK q \in Pieces(K) :
          /\ PushOk(capacity, t, pieces[n]) = Append(t, q)
          /\ Length(t) + q.len <= capacity
          /\ Length(t) + pieces[n].len <= capacity => q = pieces[n]
    BY <2>1, PushOkIs
  <2>3. Length(Append(t, q)) = Length(t) + q.len
    BY LengthAppend
  <2>4. Append(t, q) \in Seq(Pieces(K))
    OBVIOUS
  <2>5. QED
    BY <2>2, <2>3, <2>4
<1> HIDE DEF N, push, Fits
<1>3. PICK g : Pushes(g)
  <2>1. G \in [1 .. N -> [Fits -> Fits]]
    BY <1>2
  <2> HIDE DEF G
  <2>2. PICK g \in [0 .. N -> Fits] : Unrolls(g, N, <<>>, G)
    BY <1>1, <2>1, FoldExists
  <2>3. ASSUME NEW n \in 1 .. N PROVE G[n][g[n - 1]] = push(n, g[n - 1])
    <3>1. g[n - 1] \in Fits
      BY <1>1
    <3>2. QED
      BY <3>1 DEF G
  <2>4. ASSUME NEW n \in 0 .. N
        PROVE  g[n] = IF n = 0 THEN <<>> ELSE push(n, g[n - 1])
    BY <1>1, <2>2, <2>3 DEF Unrolls
  <2>5. QED
    BY <2>4
<1>4. \E f : Pushes(f) /\ Pushed(capacity, pieces) = f[N]
  BY <1>3, Zenon DEF Pushed, N, push
<1>5. PICK f : Pushes(f) /\ Pushed(capacity, pieces) = f[N]
  BY <1>4
<1>6. f[0] = <<>> /\ \A n \in 1 .. N : f[n] = push(n, f[n - 1])
  BY <1>1, <1>5
<1> DEFINE upto(n) == SubSeq(pieces, 1, n)
           Sofar(n) == /\ f[n] \in Fits
                       /\ Len(f[n]) = n
                       /\ Length(upto(n)) <= capacity => f[n] = upto(n)
           T == {n \in 0 .. N : Sofar(n)}
<1>7. 0 \in T
  <2>1. upto(0) = <<>>
    BY Prefixes
  <2>2. Sofar(0)
    BY <1>1, <1>6, <2>1
  <2> HIDE DEF Sofar
  <2>3. QED
    BY <1>1, <2>2
<1>8. ASSUME NEW n \in 1 .. N, n - 1 \in T PROVE n \in T
  <2>1. /\ pieces[n] \in Pieces(K)
        /\ upto(n) = Append(upto(n - 1), pieces[n])
        /\ Length(upto(n - 1)) \in Nat
        /\ Length(upto(n)) = Length(upto(n - 1)) + pieces[n].len
    BY Prefixes DEF N
  <2>2. pieces[n].len \in Nat
    BY <2>1 DEF Pieces
  <2>3. f[n] = push(n, f[n - 1]) /\ Sofar(n - 1)
    BY <1>6, <1>8
  <2> HIDE DEF upto
  <2>4. PICK q \in Pieces(K) :
          /\ f[n] = Append(f[n - 1], q)
          /\ f[n] \in Fits
          /\ Length(f[n - 1]) + pieces[n].len <= capacity => q = pieces[n]
    BY <1>2, <2>3
  <2>5. Len(f[n]) = n
    BY <2>3, <2>4 DEF Fits
  <2>6. Length(upto(n)) <= capacity => f[n] = upto(n)
    BY <2>1, <2>2, <2>3, <2>4
  <2>7. Sofar(n) /\ n \in 0 .. N
    BY <1>1, <2>4, <2>5, <2>6
  <2> HIDE DEF Sofar
  <2>8. QED
    BY <2>7
<1> HIDE DEF T
<1>9. \A n \in 0 .. N : n \in T
  BY <1>1, <1>7, <1>8, UpTo
<1>10. Sofar(N)
  BY <1>1, <1>9 DEF T
<1>11. upto(N) = pieces
  BY Prefixes DEF N
<1>12. QED
  BY <1>5, <1>10, <1>11 DEF Fits, N

\* The bytes of the i-th piece, if there is one.
BytesAt(text, i) == IF i <= Len(text) THEN text[i].len ELSE 0

\* The bytes of a text of few pieces.
LEMMA LengthOfFew ==
  ASSUME NEW K, NEW text \in Seq(Pieces(K)), Len(text) <= 11
  PROVE  Length(text) =
           BytesAt(text, 1) + BytesAt(text, 2) + BytesAt(text, 3) + BytesAt(text, 4)
             + BytesAt(text, 5) + BytesAt(text, 6) + BytesAt(text, 7) + BytesAt(text, 8)
             + BytesAt(text, 9) + BytesAt(text, 10) + BytesAt(text, 11)
<1> DEFINE N == Len(text)
           at(i) == BytesAt(text, i)
<1>1. PICK sum \in [0 .. N -> Nat] :
           /\ sum[0] = 0
           /\ \A n \in 1 .. N : sum[n] = sum[n - 1] + text[n].len
           /\ Length(text) = sum[N]
  BY LengthIs
<1>2. N \in 0 .. 11
  OBVIOUS
<1>3. \A n \in 1 .. N : text[n].len \in Nat
  <2>1. ASSUME NEW n \in 1 .. N PROVE text[n] \in Pieces(K)
    OBVIOUS
  <2>2. QED
    BY <2>1 DEF Pieces
<1> HIDE DEF N
<1> DEFINE to(i) == IF i <= N THEN sum[i] ELSE sum[N]
<1>4. ASSUME NEW i \in 1 .. 11 PROVE to(i) = to(i - 1) + at(i) /\ at(i) \in Nat /\ to(i) \in Nat
  <2>1. CASE i <= N
    <3>1. i \in 1 .. N /\ i - 1 \in 0 .. N /\ i \in 0 .. N
      BY <1>2, <2>1
    <3>2. sum[i] = sum[i - 1] + text[i].len /\ sum[i] \in Nat /\ text[i].len \in Nat
      BY <1>1, <1>3, <3>1
    <3>3. to(i) = sum[i] /\ to(i - 1) = sum[i - 1] /\ at(i) = text[i].len
      BY <3>1 DEF BytesAt, N
    <3>4. QED
      BY <3>2, <3>3
  <2>2. CASE ~ (i <= N)
    <3>1. at(i) = 0 /\ to(i) = sum[N] /\ sum[N] \in Nat
      BY <1>2, <2>2 DEF BytesAt, N
    <3>2. to(i - 1) = sum[N]
      BY <1>2, <2>2
    <3>3. QED
      BY <3>1, <3>2
  <2>3. QED
    BY <2>1, <2>2
<1>5. to(0) = 0 /\ to(11) = sum[N]
  BY <1>1, <1>2
<1> HIDE DEF to, at
<1>6. to(11) = at(1) + at(2) + at(3) + at(4) + at(5) + at(6) + at(7) + at(8)
                 + at(9) + at(10) + at(11)
  <2>1. to(4) = at(1) + at(2) + at(3) + at(4)
    BY <1>4, <1>5
  <2>2. to(8) = to(4) + at(5) + at(6) + at(7) + at(8)
    BY <1>4
  <2>3. to(11) = to(8) + at(9) + at(10) + at(11)
    BY <1>4
  <2>4. to(4) \in Nat /\ to(8) \in Nat /\ \A i \in 1 .. 11 : at(i) \in Nat
    BY <1>4
  <2>5. QED
    BY <2>1, <2>2, <2>3, <2>4
<1>7. Length(text) = to(11)
  BY <1>1, <1>5
<1>8. QED
  BY <1>6, <1>7 DEF at

-----------------------------------------------------------------------------
(***************************************************************************)
(* The requests and the uplink.                                            *)
(***************************************************************************)

\* A number below 10 ^ 7 has one to seven digits.
LEMMA DigitsIs ==
  ASSUME NEW n \in Sizes
  PROVE  Digits(n) \in 1 .. 7
<1> DEFINE ten == <<10, 100, 1000, 10000, 100000, 1000000, 10000000>>
           Has(d) == n < ten[d] /\ (d = 1 \/ ten[d - 1] <= n)
<1>1. \E d \in 1 .. 7 : Has(d)
  <2>1. /\ ten[1] = 10 /\ ten[2] = 100 /\ ten[3] = 1000 /\ ten[4] = 10000
        /\ ten[5] = 100000 /\ ten[6] = 1000000 /\ ten[7] = 10000000
    BY SMT
  <2> HIDE DEF ten
  <2>2. \/ Has(1) \/ Has(2) \/ Has(3) \/ Has(4) \/ Has(5) \/ Has(6) \/ Has(7)
    BY <2>1, SMT DEF Sizes
  <2> HIDE DEF Has
  <2>3. QED
    BY <2>2, SMT
<1>2. Digits(n) = CHOOSE d \in 1 .. 7 : Has(d)
  BY SMT DEF Digits
<1> HIDE DEF Has
<1>3. QED
  BY <1>1, <1>2, SMT

\* What a reader makes of digits is a fold over them.
LEMMA NumberIs ==
  ASSUME NEW ds \in Seq(Nat)
  PROVE  \E f :
           /\ f[0] = 0
           /\ \A n \in 1 .. Len(ds) : f[n] = 10 * f[n - 1] + ds[n]
           /\ Number(ds) = f[Len(ds)]
<1> DEFINE N == Len(ds)
           G == [n \in 1 .. N |-> [s \in Nat |-> 10 * s + ds[n]]]
           Reads(f) == f = [n \in 0 .. N |-> IF n = 0 THEN 0 ELSE 10 * f[n - 1] + ds[n]]
<1>1. N \in Nat /\ \A n \in 1 .. N : ds[n] \in Nat
  OBVIOUS
<1> HIDE DEF N
<1>2. PICK g : Reads(g)
  <2>1. G \in [1 .. N -> [Nat -> Nat]]
    BY <1>1
  <2> HIDE DEF G
  <2>2. PICK g \in [0 .. N -> Nat] : Unrolls(g, N, 0, G)
    BY <1>1, <2>1, FoldExists
  <2>3. ASSUME NEW n \in 1 .. N PROVE G[n][g[n - 1]] = 10 * g[n - 1] + ds[n]
    <3>1. g[n - 1] \in Nat
      BY <1>1
    <3>2. QED
      BY <3>1 DEF G
  <2>4. ASSUME NEW n \in 0 .. N
        PROVE  g[n] = IF n = 0 THEN 0 ELSE 10 * g[n - 1] + ds[n]
    <3>1. CASE n = 0
      BY <2>2, <3>1, Zenon DEF Unrolls
    <3>2. CASE n # 0
      <4>1. n \in 1 .. N
        BY <1>1, <3>2
      <4>2. g[n] = G[n][g[n - 1]]
        BY <2>2, <4>1, Zenon DEF Unrolls
      <4>3. QED
        BY <2>3, <3>2, <4>1, <4>2, Zenon
    <3>3. QED
      BY <3>1, <3>2, Zenon
  <2>5. QED
    BY <2>4
<1>3. \E f : Reads(f) /\ Number(ds) = f[N]
  BY <1>2, Zenon DEF Number, N
<1>4. PICK f : Reads(f) /\ Number(ds) = f[N]
  BY <1>3
<1>5. f[0] = 0 /\ \A n \in 1 .. N : f[n] = 10 * f[n - 1] + ds[n]
  BY <1>1, <1>4
<1>6. QED
  BY <1>4, <1>5 DEF N

\* Ten times what is left of a number without its last digit, and the digit.
LEMMA TensIs ==
  ASSUME NEW n \in Nat, n <= 256
  PROVE  /\ n \div 10 \in Nat /\ n % 10 \in Nat
         /\ n = 10 * (n \div 10) + (n % 10) /\ n \div 10 <= 25 /\ (n <= 25 => n \div 10 <= 2)
<1> DEFINE t == n \div 10
           u == n % 10
<1>1. t \in Nat /\ u \in Nat /\ n = 10 * t + u
  BY SMT
<1> HIDE DEF t, u
<1>2. t <= 25 /\ (n <= 25 => t <= 2)
  BY <1>1, SMT
<1>3. QED
  BY <1>1, <1>2 DEF t, u

\* A reader of the digits of a body's length gets the length back.
LEMMA DecimalRead ==
  ASSUME NEW n \in Nat, n <= 256
  PROVE  Number(Decimal(n)) = n
<1> DEFINE ten == <<10, 100, 1000, 10000, 100000, 1000000, 10000000>>
           of == <<1, 10, 100, 1000, 10000, 100000, 1000000>>
           Has(d) == n < ten[d] /\ (d = 1 \/ ten[d - 1] <= n)
           d == Digits(n)
           ds == Decimal(n)
<1>1. ten[1] = 10 /\ ten[2] = 100 /\ ten[3] = 1000 /\ of[1] = 1 /\ of[2] = 10 /\ of[3] = 100
  BY SMT
<1>2. d \in 1 .. 3 /\ Has(d)
  <2>1. Digits(n) = CHOOSE k \in 1 .. 7 : Has(k)
    BY SMT DEF Digits
  <2>2. Has(1) \/ Has(2) \/ Has(3)
    <3> HIDE DEF ten
    <3>1. QED
      BY <1>1, SMT
  <2>3. \A k \in 4 .. 7 : ~ Has(k)
    <3>1. ten[3] = 1000 /\ ten[4] = 10000 /\ ten[5] = 100000 /\ ten[6] = 1000000
      BY SMT
    <3> HIDE DEF ten
    <3>2. QED
      BY <3>1, SMT
  <2> HIDE DEF Has
  <2>4. QED
    BY <2>1, <2>2, <2>3, SMT
<1>3. ds = [i \in 1 .. d |-> (n \div of[d - i + 1]) % 10]
  BY SMT DEF Decimal
<1> HIDE DEF ten, of, ds
<1>4. /\ d = 1 => n < 10
      /\ d = 2 => n < 100
  BY <1>1, <1>2, SMT
<1> HIDE DEF d
<1>5. ASSUME NEW i \in 1 .. d PROVE ds[i] = (n \div of[d - i + 1]) % 10
  BY <1>3
<1>6. /\ d = 1 => ds[1] = (n \div 1) % 10
      /\ d = 2 => ds[1] = (n \div 10) % 10 /\ ds[2] = (n \div 1) % 10
      /\ d = 3 => /\ ds[1] = (n \div 100) % 10 /\ ds[2] = (n \div 10) % 10
                  /\ ds[3] = (n \div 1) % 10
  <2>1. CASE d = 1
    BY <1>1, <1>5, <2>1, SMT
  <2>2. CASE d = 2
    BY <1>1, <1>5, <2>2, SMT
  <2>3. CASE d = 3
    BY <1>1, <1>5, <2>3, SMT
  <2>4. QED
    BY <1>2, <2>1, <2>2, <2>3
<1>7. ds \in Seq(Nat) /\ Len(ds) = d
  <2>1. ASSUME NEW i \in 1 .. d PROVE (n \div of[d - i + 1]) % 10 \in Nat
    <3>1. d - i + 1 = 1 \/ d - i + 1 = 2 \/ d - i + 1 = 3
      BY <1>2, SMT
    <3>2. of[d - i + 1] = 1 \/ of[d - i + 1] = 10 \/ of[d - i + 1] = 100
      BY <1>1, <3>1
    <3> DEFINE o == of[d - i + 1]
    <3> HIDE DEF o
    <3>3. (n \div o) % 10 \in Nat
      BY <3>2, SMT DEF o
    <3>4. QED
      BY <3>3 DEF o
  <2>2. ds \in [1 .. d -> Nat]
    BY <1>3, <2>1
  <2>3. QED
    BY <1>2, <2>2
<1>8. PICK f : /\ f[0] = 0
               /\ \A i \in 1 .. d : f[i] = 10 * f[i - 1] + ds[i]
               /\ Number(ds) = f[d]
  <2>1. PICK f : /\ f[0] = 0
                 /\ \A i \in 1 .. Len(ds) : f[i] = 10 * f[i - 1] + ds[i]
                 /\ Number(ds) = f[Len(ds)]
    BY <1>7, NumberIs
  <2>2. QED
    BY <1>7, <2>1, Zenon
<1>9. ASSUME NEW i \in 1 .. d PROVE f[i] = 10 * f[i - 1] + ds[i]
  BY <1>8, Zenon
<1> DEFINE a == f[1]
           b == f[2]
           c == f[3]
<1>10. /\ 1 <= d => a = 10 * 0 + ds[1]
       /\ 2 <= d => b = 10 * a + ds[2]
       /\ 3 <= d => c = 10 * b + ds[3]
  <2>1. 1 - 1 = 0 /\ 2 - 1 = 1 /\ 3 - 1 = 2
    OBVIOUS
  <2>2. /\ 1 <= d => 1 \in 1 .. d
        /\ 2 <= d => 2 \in 1 .. d
        /\ 3 <= d => 3 \in 1 .. d
    BY <1>2
  <2>3. 1 <= d => f[1] = 10 * f[0] + ds[1]
    <3> SUFFICES ASSUME 1 \in 1 .. d PROVE f[1] = 10 * f[0] + ds[1]
      BY <2>2
    <3>1. f[1] = 10 * f[1 - 1] + ds[1]
      BY <1>9, Zenon
    <3>2. QED
      BY <2>1, <3>1, Zenon
  <2>4. 2 <= d => f[2] = 10 * f[1] + ds[2]
    <3> SUFFICES ASSUME 2 \in 1 .. d PROVE f[2] = 10 * f[1] + ds[2]
      BY <2>2
    <3>1. f[2] = 10 * f[2 - 1] + ds[2]
      BY <1>9, Zenon
    <3>2. QED
      BY <2>1, <3>1, Zenon
  <2>5. 3 <= d => f[3] = 10 * f[2] + ds[3]
    <3> SUFFICES ASSUME 3 \in 1 .. d PROVE f[3] = 10 * f[2] + ds[3]
      BY <2>2
    <3>1. f[3] = 10 * f[3 - 1] + ds[3]
      BY <1>9, Zenon
    <3>2. QED
      BY <2>1, <3>1, Zenon
  <2>6. QED
    BY <1>8, <2>3, <2>4, <2>5, Zenon
<1>11. Number(ds) = IF d = 1 THEN a ELSE IF d = 2 THEN b ELSE c
  <2>1. Number(ds) = f[d]
    BY <1>8, Zenon
  <2>2. d = 1 \/ d = 2 \/ d = 3
    BY <1>2
  <2>3. QED
    BY <2>1, <2>2
<1> HIDE DEF a, b, c
<1> DEFINE q == n \div 10
           h == n \div 100
<1>12. /\ q \in Nat /\ h \in Nat /\ n \div 1 = n
       /\ n % 10 \in Nat /\ n = 10 * q + (n % 10)
       /\ q % 10 \in Nat /\ q = 10 * h + (q % 10)
       /\ h % 10 = h
  <2>1. q \in Nat /\ n % 10 \in Nat /\ n = 10 * q + (n % 10) /\ q <= 25
    BY TensIs DEF q
  <2>2. n \div 1 = n
    BY SMT
  <2>3. h = q \div 10
    BY SMT
  <2> HIDE DEF q, h
  <2>4. h \in Nat /\ q % 10 \in Nat /\ q = 10 * h + (q % 10) /\ h <= 2
    BY <2>1, <2>3, TensIs
  <2>5. h % 10 = h
    BY <2>4, SMT
  <2>6. QED
    BY <2>1, <2>2, <2>4, <2>5, Zenon
<1> DEFINE x == n % 10
           y == q % 10
<1>13. /\ x \in Nat /\ y \in Nat /\ h \in Nat /\ n = 10 * q + x /\ q = 10 * h + y
  BY <1>12
<1>14. /\ d = 1 => ds[1] = x
       /\ d = 2 => ds[1] = y /\ ds[2] = x
       /\ d = 3 => ds[1] = h /\ ds[2] = y /\ ds[3] = x
  BY <1>6, <1>12, Zenon DEF q, h, x, y
<1> HIDE DEF x, y, q, h
<1>15. CASE d = 1
  <2>1. Number(ds) = 10 * 0 + x
    BY <1>10, <1>11, <1>15, <1>14
  <2>2. q = 0
    BY <1>4, <1>15, <1>13
  <2>3. QED
    BY <1>13, <2>1, <2>2 DEF ds
<1>16. CASE d = 2
  <2>1. a = 10 * 0 + y /\ Number(ds) = 10 * a + x
    BY <1>10, <1>11, <1>16, <1>14
  <2>2. h = 0
    BY <1>4, <1>16, <1>13
  <2>3. QED
    BY <1>13, <2>1, <2>2 DEF ds
<1>17. CASE d = 3
  <2>1. a = 10 * 0 + h /\ b = 10 * a + y /\ Number(ds) = 10 * b + x
    BY <1>10, <1>11, <1>17, <1>14
  <2>2. QED
    BY <1>13, <2>1 DEF ds
<1>18. QED
  BY <1>2, <1>15, <1>16, <1>17

GetKinds == {"GET", "path", "version", "Host", "host", "end of line", "User-Agent",
             "Connection", "Accept"}

\* The pieces of a GET request are pieces.
LEMMA GetIs ==
  ASSUME NEW path \in Nat, NEW host \in Nat
  PROVE  GetPieces(path, host) \in Seq(Pieces(GetKinds))
BY DEF GetPieces, Piece, Pieces, GetKinds

PostKinds(json) ==
  {"POST", "path", "version", "Host", "host", "Content-Type", "Connection",
   "Content-Length", Decimal(json), "blank line", "json"}

\* The pieces of a POST request, and how many bytes they have.
LEMMA PostIs ==
  ASSUME NEW path \in Nat, NEW host \in Nat, NEW json \in Nat, json <= 256
  PROVE  /\ PostPieces(path, host, json) \in Seq(Pieces(PostKinds(json)))
         /\ PostPieces(path, host, json)[9].what = Decimal(json)
         /\ PostPieces(path, host, json)[11].len = json
         /\ Length(PostPieces(path, host, json)) <= 102 + path + host + json
<1> DEFINE p == PostPieces(path, host, json)
           d == Digits(json)
<1>1. d \in 1 .. 7
  <2>1. json \in Sizes
    BY SMT DEF Sizes
  <2>2. QED
    BY <2>1, DigitsIs
<1> HIDE DEF d
<1>2. /\ p \in Seq(Pieces(PostKinds(json))) /\ Len(p) = 11
  BY <1>1 DEF PostPieces, d, Piece, Pieces, PostKinds
<1>3. /\ p[1].len = 5 /\ p[2].len = path /\ p[3].len = 11 /\ p[4].len = 6
      /\ p[5].len = host /\ p[6].len = 34 /\ p[7].len = 19 /\ p[8].len = 16
      /\ p[9].len = d /\ p[10].len = 4 /\ p[11].len = json
      /\ p[9].what = Decimal(json)
  BY DEF PostPieces, Piece, d
<1> HIDE DEF p
<1>4. Length(p) = 5 + path + 11 + 6 + host + 34 + 19 + 16 + d + 4 + json
  <2>1. Len(p) <= 11
    BY <1>2
  <2>2. Length(p) = BytesAt(p, 1) + BytesAt(p, 2) + BytesAt(p, 3) + BytesAt(p, 4)
                      + BytesAt(p, 5) + BytesAt(p, 6) + BytesAt(p, 7) + BytesAt(p, 8)
                      + BytesAt(p, 9) + BytesAt(p, 10) + BytesAt(p, 11)
    BY <1>2, <2>1, LengthOfFew
  <2>3. QED
    BY <1>2, <1>3, <2>2 DEF BytesAt
<1>5. QED
  BY <1>1, <1>2, <1>3, <1>4 DEF p

UplinkKinds == {"{id", "id", "current", "i32", "fw", "version", "}"}

\* The JSON of an uplink has 55 bytes and those of the id.
LEMMA UplinkJsonIs ==
  ASSUME NEW id \in Nat
  PROVE  UplinkJson(id) = 55 + id
<1> DEFINE p == << Piece("{id", 7), Piece("id", id), Piece("current", 12),
                   Piece("i32", 11), Piece("fw", 7), Piece("version", 16),
                   Piece("}", 2) >>
<1>1. p \in Seq(Pieces(UplinkKinds)) /\ Len(p) = 7
  BY DEF Piece, Pieces, UplinkKinds
<1>2. /\ p[1].len = 7 /\ p[2].len = id /\ p[3].len = 12 /\ p[4].len = 11
      /\ p[5].len = 7 /\ p[6].len = 16 /\ p[7].len = 2
  BY DEF Piece
<1>3. UplinkJson(id) = Length(p)
  BY DEF UplinkJson
<1> HIDE DEF p
<1>4. Length(p) = 7 + id + 12 + 11 + 7 + 16 + 2 + 0 + 0 + 0 + 0
  <2>1. Len(p) <= 11
    BY <1>1
  <2>2. Length(p) = BytesAt(p, 1) + BytesAt(p, 2) + BytesAt(p, 3) + BytesAt(p, 4)
                      + BytesAt(p, 5) + BytesAt(p, 6) + BytesAt(p, 7) + BytesAt(p, 8)
                      + BytesAt(p, 9) + BytesAt(p, 10) + BytesAt(p, 11)
    BY <1>1, <2>1, LengthOfFew
  <2>3. QED
    BY <1>1, <1>2, <2>2 DEF BytesAt
<1>5. QED
  BY <1>3, <1>4

\* What came in is a message, and what came out is the answer to it.
Answered == in # None => in \in Messages /\ out = Answer(in)

\* It always is.
LEMMA AnsweredAlways == CodecSpec => []Answered
<1>1. CodecInit => Answered
  BY DEF CodecInit, Answered
<1>2. Answered /\ [CodecNext]_codecVars => Answered'
  BY DEF Answered, CodecNext, NextDay, Wait, Handle, codecVars
<1>3. QED
  BY <1>1, <1>2, PTL DEF CodecSpec

\* A message of each kind, and what becomes of it.
LEMMA MessageIs ==
  ASSUME Answered, in # None
  PROVE  /\ in.op = "get" => in.path \in Nat /\ in.host \in Nat
         /\ in.op = "post" => in.path \in Nat /\ in.host \in Nat /\ in.json \in Nat
         /\ in.op = "uplink" => /\ in.id \in Nat /\ in.id <= 128
                                /\ in.host \in Nat /\ in.host <= 200
         /\ in.op = "parse" => in.lines \in Seq(Pieces(STRING))
         /\ in.op = "portal" => in \in PortalMessages
         /\ in.op = "error" => in.chars \in Nat /\ in.escapes \in Nat
         /\ in.op = "dns" => in.len \in Nat /\ in.bytes \in Seq(Byte)
<1>1. in \in Requests \cup Responses \cup PortalMessages \cup Queries
  BY CodecsAssumption DEF Answered
<1>2. CASE in \in Requests
  <2>1. CASE in \in [op : {"get"}, path : Nat, host : Nat]
    BY <2>1
  <2>2. CASE in \in [op : {"post"}, path : Nat, host : Nat, json : Nat]
    BY <2>2
  <2>3. CASE in \in [op : {"uplink"}, id : 0 .. 128, host : 0 .. 200]
    <3>1. in.op = "uplink" /\ in.id \in 0 .. 128 /\ in.host \in 0 .. 200
      BY <2>3
    <3>2. QED
      BY <3>1
  <2>4. QED
    BY <1>2, <2>1, <2>2, <2>3 DEF Requests
<1>3. CASE in \in Responses
  BY <1>3 DEF Responses, Pieces
<1>4. CASE in \in PortalMessages
  BY <1>4 DEF PortalMessages
<1>5. CASE in \in Queries
  BY <1>5 DEF Queries
<1>6. QED
  BY <1>1, <1>2, <1>3, <1>4, <1>5

\* The answer, by the kind of the message.
LEMMA OutIs ==
  ASSUME Answered, in # None
  PROVE  /\ in.op = "get" => out = GetRequest(in.path, in.host)
         /\ in.op = "post" => out = PostRequest(in.path, in.host, in.json)
         /\ in.op = "uplink" => out = PostRequest(1, in.host, UplinkJson(in.id))
         /\ in.op = "parse" => out = ParseResponse(in.lines)
         /\ in.op = "portal" => out = Serve(in)
         /\ in.op = "error" => out = ErrorResponse(in.chars, in.escapes)
         /\ in.op = "dns" => out = DnsResponse(in)
BY DEF Answered, Answer

\* A request that is built is the one asked for, and fits.
LEMMA RequestIs ==
  ASSUME NEW K, NEW capacity \in Nat, NEW pieces \in Seq(Pieces(K)),
         NEW r, r = Built(capacity, pieces)
  PROVE  /\ r.ok => r.text = pieces /\ Length(r.text) <= capacity
         /\ Length(pieces) <= capacity => r.ok
<1>1. CASE Length(pieces) <= capacity
  <2>1. r = [ok |-> TRUE, text |-> pieces]
    BY <1>1, BuiltIs
  <2>2. QED
    BY <1>1, <2>1
<1>2. CASE ~ (Length(pieces) <= capacity)
  <2>1. r = Failed
    BY <1>2, BuiltIs
  <2>2. QED
    BY <1>2, <2>1 DEF Failed
<1>3. QED
  BY <1>1, <1>2

\* The answer to a request to build holds every piece, or is an error.
LEMMA RequestsHold == Answered => RequestsWhole
<1> SUFFICES ASSUME Answered, in # None PROVE RequestsWhole
  BY DEF RequestsWhole, Is
<1>1. ASSUME in.op = "get"
      PROVE  ~ out.ok \/ (out.text = GetPieces(in.path, in.host) /\ Length(out.text) <= 192)
  <2>1. GetPieces(in.path, in.host) \in Seq(Pieces(GetKinds))
    BY <1>1, MessageIs, GetIs
  <2>2. out = Built(192, GetPieces(in.path, in.host))
    BY <1>1, OutIs DEF GetRequest
  <2>3. QED
    BY <2>1, <2>2, RequestIs
<1>2. ASSUME in.op = "post"
      PROVE  ~ out.ok \/ (/\ out.text = PostPieces(in.path, in.host, in.json)
                          /\ Length(out.text) <= 512
                          /\ Number(out.text[9].what) = out.text[11].len)
  <2>1. in.path \in Nat /\ in.host \in Nat /\ in.json \in Nat
    BY <1>2, MessageIs
  <2>2. out = PostRequest(in.path, in.host, in.json)
    BY <1>2, OutIs
  <2>3. CASE in.json <= 256
    <3> DEFINE p == PostPieces(in.path, in.host, in.json)
    <3>1. /\ p \in Seq(Pieces(PostKinds(in.json)))
          /\ p[9].what = Decimal(in.json)
          /\ p[11].len = in.json
      <4>1. ASSUME NEW path \in Nat, NEW host \in Nat, NEW json \in Nat, json <= 256
            PROVE  /\ PostPieces(path, host, json) \in Seq(Pieces(PostKinds(json)))
                   /\ PostPieces(path, host, json)[9].what = Decimal(json)
                   /\ PostPieces(path, host, json)[11].len = json
        BY <4>1, PostIs
      <4>2. QED
        BY <2>1, <2>3, <4>1, Zenon
    <3>2. out = Built(512, PostPieces(in.path, in.host, in.json))
      BY <2>2, <2>3 DEF PostRequest
    <3>3. Number(p[9].what) = p[11].len
      BY <2>1, <2>3, <3>1, DecimalRead
    <3> HIDE DEF p
    <3>4. out.ok => out.text = p /\ Length(out.text) <= 512
      BY <3>1, <3>2, RequestIs DEF p
    <3>5. QED
      BY <3>3, <3>4 DEF p
  <2>4. CASE ~ (in.json <= 256)
    BY <2>2, <2>4 DEF PostRequest, Failed
  <2>5. QED
    BY <2>3, <2>4
<1>3. QED
  BY <1>1, <1>2 DEF RequestsWhole, Is

\* 102 + 1 + 200 + 55 + 128 bytes at most.
LEMMA UplinkHolds == Answered => UplinkFits
<1> SUFFICES ASSUME Answered, in # None, in.op = "uplink" PROVE out.ok
  BY DEF UplinkFits, Is
<1> DEFINE json == UplinkJson(in.id)
           p == PostPieces(1, in.host, json)
<1>1. /\ in.id \in Nat /\ in.id <= 128
      /\ in.host \in Nat /\ in.host <= 200
  BY MessageIs
<1>2. json = 55 + in.id
  BY <1>1, UplinkJsonIs
<1>3. json \in Nat /\ json <= 256
  BY <1>1, <1>2
<1>4. out = PostRequest(1, in.host, json)
  BY OutIs
<1> HIDE DEF json
<1>5. out = Built(512, p)
  BY <1>3, <1>4 DEF PostRequest
<1>6. p \in Seq(Pieces(PostKinds(json))) /\ Length(p) <= 102 + 1 + in.host + json
  BY <1>1, <1>3, PostIs
<1>7. Length(p) \in Nat
  BY <1>6, LengthNat
<1> DEFINE len == Length(p)
<1>8. len <= 512
  <2>1. len \in Nat /\ len <= 102 + 1 + in.host + json
    BY <1>6, <1>7
  <2> HIDE DEF p, len
  <2>2. QED
    BY <1>1, <1>2, <2>1
<1> HIDE DEF p
<1>9. Built(512, p) = IF Length(p) <= 512 THEN [ok |-> TRUE, text |-> p] ELSE Failed
  <2>1. 512 \in Nat
    OBVIOUS
  <2>2. ASSUME NEW capacity \in Nat
        PROVE  Built(capacity, p)
                 = IF Length(p) <= capacity THEN [ok |-> TRUE, text |-> p] ELSE Failed
    BY <1>6, BuiltIs
  <2>3. QED
    BY <2>1, <2>2
<1>10. QED
  BY <1>5, <1>8, <1>9

-----------------------------------------------------------------------------
(***************************************************************************)
(* The portal.                                                             *)
(***************************************************************************)

\* The length of a head or a body in range.
Ends(head) == \A i \in DOMAIN head : head[i].what \in {"end", "digits"} => head[i].len > 0

\* An answer that announces what it sends.
Announces(r) == r.announced = Length(r.body) /\ Length(r.head) <= 256 /\ Ends(r.head)

HeaderKinds == {"HTTP/1.0 200 OK", "type", "Content-Length", "digits", "Connection",
                "extra", "end"}

\* The header of an answer is complete.
LEMMA HeaderIs ==
  ASSUME NEW type \in Nat, type <= 22, NEW length \in Sizes,
         NEW extra \in Nat, extra <= 24
  PROVE  /\ Length(ResponseHeader(type, length, extra)) <= 256
         /\ Ends(ResponseHeader(type, length, extra))
<1> DEFINE d == Digits(length)
           p == << Piece("HTTP/1.0 200 OK", 31), Piece("type", type),
                   Piece("Content-Length", 18), Piece("digits", d),
                   Piece("Connection", 21), Piece("extra", extra), Piece("end", 2) >>
<1>1. d \in 1 .. 7
  BY DigitsIs
<1>2. ResponseHeader(type, length, extra) = Pushed(256, p)
  BY DEF ResponseHeader
<1> HIDE DEF d
<1>3. p \in Seq(Pieces(HeaderKinds)) /\ Len(p) = 7
  BY <1>1 DEF Piece, Pieces, HeaderKinds
<1>4. /\ p[1].len = 31 /\ p[2].len = type /\ p[3].len = 18 /\ p[4].len = d
      /\ p[5].len = 21 /\ p[6].len = extra /\ p[7].len = 2
  BY DEF Piece
<1>5. Ends(p)
  <2>1. /\ p[1].what \notin {"end", "digits"} /\ p[2].what \notin {"end", "digits"}
        /\ p[3].what \notin {"end", "digits"} /\ p[5].what \notin {"end", "digits"}
        /\ p[6].what \notin {"end", "digits"}
    BY DEF Piece
  <2> HIDE DEF p
  <2>2. DOMAIN p = 1 .. 7
    BY <1>3
  <2>3. ASSUME NEW i \in 1 .. 7, p[i].what \in {"end", "digits"} PROVE p[i].len > 0
    <3>1. i = 4 \/ i = 7
      BY <2>1, <2>3
    <3>2. QED
      BY <1>1, <1>4, <3>1
  <2>4. QED
    BY <2>2, <2>3 DEF Ends
<1> HIDE DEF p
<1>6. Length(p) <= 256
  <2>1. Len(p) <= 11
    BY <1>3
  <2>2. Length(p) = BytesAt(p, 1) + BytesAt(p, 2) + BytesAt(p, 3) + BytesAt(p, 4)
                      + BytesAt(p, 5) + BytesAt(p, 6) + BytesAt(p, 7) + BytesAt(p, 8)
                      + BytesAt(p, 9) + BytesAt(p, 10) + BytesAt(p, 11)
    BY <1>3, <2>1, LengthOfFew
  <2>3. Length(p) = 31 + type + 18 + d + 21 + extra + 2
    BY <1>1, <1>3, <1>4, <2>2 DEF BytesAt
  <2>4. QED
    BY <1>1, <2>3
<1>7. Pushed(256, p) = p
  <2>1. 256 \in Nat
    OBVIOUS
  <2>2. QED
    BY <1>3, <1>6, <2>1, PushedIs
<1>8. QED
  BY <1>2, <1>5, <1>6, <1>7

\* An answer with a body of fewer than 10 ^ 7 bytes announces them.
LEMMA Ok200Is ==
  ASSUME NEW type \in Nat, type <= 22, NEW extra \in Nat, extra <= 24,
         NEW body, Length(body) \in Sizes
  PROVE  Announces(Ok200(type, body, extra))
<1>1. /\ Length(ResponseHeader(type, Length(body), extra)) <= 256
      /\ Ends(ResponseHeader(type, Length(body), extra))
  BY HeaderIs
<1>2. QED
  BY <1>1 DEF Ok200, Announces

\* A text of one piece has its bytes.
LEMMA LengthOfOne ==
  ASSUME NEW what, NEW n \in Nat
  PROVE  Length(<<Piece(what, n)>>) = n
<1>1. <<>> \in Seq(Pieces({what})) /\ Piece(what, n) \in Pieces({what})
  BY DEF Piece, Pieces
<1>2. <<Piece(what, n)>> = Append(<<>>, Piece(what, n))
  OBVIOUS
<1>3. Length(Append(<<>>, Piece(what, n))) = Length(<<>>) + Piece(what, n).len
  BY <1>1, LengthAppend
<1>4. Piece(what, n).len = n
  BY DEF Piece
<1>5. QED
  BY <1>2, <1>3, <1>4, LengthNone

StatusKinds == {"{device_id", "fw_version", "ip", "state", "value", "}"}

\* The JSON of the status is as long as its buffer at most.
LEMMA StatusIs ==
  ASSUME NEW id \in Nat
  PROVE  Length(StatusJson(id, 5)) \in Nat /\ Length(StatusJson(id, 5)) <= 256
<1> DEFINE p == << Piece("{device_id", 14), Value(id, 0), Piece("fw_version", 16),
                   Value(5, 0), Piece("ip", 8), Value(11, 0), Piece("state", 11),
                   Value(7, 0), Piece("}", 2) >>
<1>1. p \in Seq(Pieces(StatusKinds))
  BY DEF Piece, Value, Pieces, StatusKinds
<1>2. StatusJson(id, 5) = Pushed(256, p) /\ 256 \in Nat
  BY DEF StatusJson
<1> HIDE DEF p
<1>3. Pushed(256, p) \in Seq(Pieces(StatusKinds)) /\ Length(Pushed(256, p)) <= 256
  BY <1>1, <1>2, PushedIs
<1>4. QED
  BY <1>2, <1>3, LengthNat

ConfigureKinds == {"{ok", "ok", "message", "value", "}"}

\* So is the answer to a new configuration.
LEMMA ConfigureIs ==
  Length(ConfigureJson(33)) \in Nat /\ Length(ConfigureJson(33)) <= 256
<1> DEFINE p == << Piece("{ok", 6), Piece("ok", 4), Piece("message", 12), Value(33, 0),
                   Piece("}", 2)>>
<1>1. p \in Seq(Pieces(ConfigureKinds))
  BY DEF Piece, Value, Pieces, ConfigureKinds
<1>2. ConfigureJson(33) = Pushed(256, p) /\ 256 \in Nat
  BY DEF ConfigureJson
<1> HIDE DEF p
<1>3. Pushed(256, p) \in Seq(Pieces(ConfigureKinds)) /\ Length(Pushed(256, p)) <= 256
  BY <1>1, <1>2, PushedIs
<1>4. QED
  BY <1>2, <1>3, LengthNat

ErrorBodyKinds == {"{error", "value", "}"}

\* The body of an error is as long as its buffer at most.
LEMMA ErrorBodyIs ==
  ASSUME NEW n \in Nat, NEW e \in Nat
  PROVE  Length(ErrorBody(n, e)) \in Nat /\ Length(ErrorBody(n, e)) <= 128
<1> DEFINE p == <<Piece("{error", 10), Value(n, e), Piece("}", 2)>>
<1>1. p \in Seq(Pieces(ErrorBodyKinds))
  BY DEF Piece, Value, Pieces, ErrorBodyKinds
<1>2. ErrorBody(n, e) = Pushed(128, p) /\ 128 \in Nat
  BY DEF ErrorBody
<1> HIDE DEF p
<1>3. /\ Pushed(128, p) \in Seq(Pieces(ErrorBodyKinds))
      /\ Length(Pushed(128, p)) <= 128
  BY <1>1, <1>2, PushedIs
<1>4. QED
  BY <1>2, <1>3, LengthNat

ErrorKinds == {"HTTP/1.0", "digits", "headers", "end", "body"}

\* Behind a complete header there is room for all of an error's body.
LEMMA ErrorTextIs ==
  ASSUME NEW body, NEW length, length = Length(body), length \in Nat, length <= 128
  PROVE  Announces(ErrorText(length, body))
<1> DEFINE d == Digits(length)
           p == << Piece("HTTP/1.0", 9), Piece("digits", 3),
                   Piece("headers", 75), Piece("digits", d),
                   Piece("end", 4), Piece("body", length) >>
           head == SubSeq(p, 1, 5)
<1>1. d \in 1 .. 7
  <2>1. length \in Sizes
    BY SMT DEF Sizes
  <2>2. QED
    BY <2>1, DigitsIs
<1>2. ErrorText(length, body) =
        [head |-> SubSeq(Pushed(256, p), 1, 5), announced |-> length,
         body |-> <<Pushed(256, p)[6]>>]
  BY DEF ErrorText
<1> HIDE DEF d
<1>3. p \in Seq(Pieces(ErrorKinds)) /\ Len(p) = 6
  BY <1>1 DEF Piece, Pieces, ErrorKinds
<1>4. /\ p[1].len = 9 /\ p[2].len = 3 /\ p[3].len = 75 /\ p[4].len = d
      /\ p[5].len = 4 /\ p[6] = Piece("body", length) /\ p[6].len = length
  BY DEF Piece
<1>5. /\ p[1].what \notin {"end", "digits"} /\ p[3].what \notin {"end", "digits"}
  BY DEF Piece
<1> HIDE DEF p
<1>6. Length(p) = 9 + 3 + 75 + d + 4 + length
  <2>1. Len(p) <= 11
    BY <1>3
  <2>2. Length(p) = BytesAt(p, 1) + BytesAt(p, 2) + BytesAt(p, 3) + BytesAt(p, 4)
                      + BytesAt(p, 5) + BytesAt(p, 6) + BytesAt(p, 7) + BytesAt(p, 8)
                      + BytesAt(p, 9) + BytesAt(p, 10) + BytesAt(p, 11)
    BY <1>3, <2>1, LengthOfFew
  <2>3. QED
    BY <1>1, <1>3, <1>4, <2>2 DEF BytesAt
<1>7. Pushed(256, p) = p
  <2>1. 256 \in Nat /\ Length(p) <= 256
    BY <1>1, <1>6
  <2>2. QED
    BY <1>3, <2>1, PushedIs
<1>8. Length(head) <= 256
  <2>1. 6 \in 1 .. Len(p) /\ 6 = Len(p)
    BY <1>3
  <2>2. /\ Length(SubSeq(p, 1, 6 - 1)) \in Nat
        /\ Length(SubSeq(p, 1, 6)) = Length(SubSeq(p, 1, 6 - 1)) + p[6].len
        /\ SubSeq(p, 1, 6) = p
    BY <1>3, <2>1, Prefixes
  <2>3. 6 - 1 = 5
    OBVIOUS
  <2>4. Length(p) = Length(head) + length /\ Length(head) \in Nat
    BY <1>4, <2>2, <2>3
  <2>5. QED
    BY <1>1, <1>6, <2>4
<1>9. Ends(head)
  <2>1. /\ DOMAIN head = 1 .. 5
        /\ \A i \in 1 .. 5 : head[i] = p[i]
    BY <1>3
  <2> HIDE DEF head
  <2>2. ASSUME NEW i \in 1 .. 5, p[i].what \in {"end", "digits"} PROVE p[i].len > 0
    <3>1. i = 2 \/ i = 4 \/ i = 5
      BY <1>5, <2>2
    <3>2. QED
      BY <1>1, <1>4, <3>1
  <2>3. QED
    BY <2>1, <2>2 DEF Ends
<1>10. Length(<<p[6]>>) = length
  BY <1>4, LengthOfOne
<1> HIDE DEF head
<1>11. ErrorText(length, body) = [head |-> head, announced |-> length, body |-> <<p[6]>>]
  BY <1>2, <1>7 DEF head
<1>12. QED
  BY <1>8, <1>9, <1>10, <1>11 DEF Announces

RedirectKinds == {"HTTP/1.0 302", "location", "headers"}

\* The redirect has no body and says so.
LEMMA RedirectIs == Announces(Redirect)
<1> DEFINE p == <<Piece("HTTP/1.0 302", 30), Piece("location", 19), Piece("headers", 42)>>
<1>1. p \in Seq(Pieces(RedirectKinds)) /\ Len(p) = 3
  BY DEF Piece, Pieces, RedirectKinds
<1>2. p[1].len = 30 /\ p[2].len = 19 /\ p[3].len = 42
  BY DEF Piece
<1>3. /\ p[1].what \notin {"end", "digits"} /\ p[2].what \notin {"end", "digits"}
      /\ p[3].what \notin {"end", "digits"}
  BY DEF Piece
<1>4. Redirect = [head |-> Pushed(256, p), announced |-> 0, body |-> <<>>]
  BY DEF Redirect
<1> HIDE DEF p
<1>5. Length(p) = 30 + 19 + 42
  <2>1. Len(p) <= 11
    BY <1>1
  <2>2. Length(p) = BytesAt(p, 1) + BytesAt(p, 2) + BytesAt(p, 3) + BytesAt(p, 4)
                      + BytesAt(p, 5) + BytesAt(p, 6) + BytesAt(p, 7) + BytesAt(p, 8)
                      + BytesAt(p, 9) + BytesAt(p, 10) + BytesAt(p, 11)
    BY <1>1, <2>1, LengthOfFew
  <2>3. QED
    BY <1>1, <1>2, <2>2 DEF BytesAt
<1>6. Pushed(256, p) = p /\ Length(p) <= 256
  <2>1. 256 \in Nat /\ Length(p) <= 256
    BY <1>5
  <2>2. QED
    BY <1>1, <2>1, PushedIs
<1>7. Ends(p)
  <2>1. DOMAIN p = 1 .. 3
    BY <1>1
  <2>2. \A i \in 1 .. 3 : p[i].what \notin {"end", "digits"}
    <3>1. \A i \in 1 .. 3 : i = 1 \/ i = 2 \/ i = 3
      OBVIOUS
    <3>2. QED
      BY <1>3, <3>1
  <2>3. QED
    BY <2>1, <2>2 DEF Ends
<1>8. QED
  BY <1>4, <1>6, <1>7, LengthNone DEF Announces

\* Whatever it is asked for, the portal announces what it sends.
LEMMA ServeIs ==
  ASSUME NEW m \in PortalMessages, m.op = "portal"
  PROVE  Announces(Serve(m))
<1>1. CASE m \in [op : {"portal"}, path : {"index", "js", "wasm"}, file : Sizes]
  <2> DEFINE body == <<Piece("file", m.file)>>
  <2>1. m.file \in Sizes /\ m.path \in {"index", "js", "wasm"}
    BY <1>1
  <2>2. Length(body) = m.file
    <3>1. m.file \in Nat
      BY <2>1, SMT DEF Sizes
    <3>2. QED
      BY <3>1, LengthOfOne
  <2>3. Length(body) \in Sizes
    BY <2>1, <2>2
  <2> HIDE DEF body
  <2>4. /\ Announces(Ok200(9, body, 0))
        /\ Announces(Ok200(22, body, 0))
        /\ Announces(Ok200(16, body, 24))
    <3>1. Announces(Ok200(9, body, 0))
      BY <2>3, Ok200Is
    <3>2. Announces(Ok200(22, body, 0))
      BY <2>3, Ok200Is
    <3>3. Announces(Ok200(16, body, 24))
      BY <2>3, Ok200Is
    <3>4. QED
      BY <3>1, <3>2, <3>3
  <2>5. \/ Serve(m) = Ok200(9, body, 0) \/ Serve(m) = Ok200(22, body, 0)
        \/ Serve(m) = Ok200(16, body, 24)
    BY <2>1 DEF Serve, body
  <2>6. QED
    BY <2>4, <2>5
<1>2. CASE m \in [op : {"portal"}, path : {"status"}, id : Nat]
  <2> DEFINE body == StatusJson(m.id, 5)
  <2>1. m.id \in Nat /\ m.path = "status"
    BY <1>2
  <2>2. Length(body) \in Sizes
    <3>1. Length(body) \in Nat /\ Length(body) <= 256
      BY <2>1, StatusIs
    <3>2. QED
      BY <3>1, SMT DEF Sizes
  <2>3. Serve(m) = Ok200(16, body, 0)
    BY <2>1 DEF Serve
  <2> HIDE DEF body
  <2>4. QED
    BY <2>2, <2>3, Ok200Is
<1>3. CASE m \in [op : {"portal"}, path : {"configure"}, parses : BOOLEAN]
  <2>1. m.path = "configure"
    BY <1>3
  <2>2. CASE m.parses
    <3> DEFINE body == ConfigureJson(33)
    <3>1. Length(body) \in Sizes
      <4>1. Length(body) \in Nat /\ Length(body) <= 256
        BY ConfigureIs
      <4>2. QED
        BY <4>1, SMT DEF Sizes
    <3>2. Serve(m) = Ok200(16, body, 0)
      BY <2>1, <2>2 DEF Serve
    <3> HIDE DEF body
    <3>3. QED
      BY <3>1, <3>2, Ok200Is
  <2>3. CASE ~ m.parses
    <3>1. Serve(m) = ErrorResponse(12, 0)
      BY <2>1, <2>3 DEF Serve
    <3>2. Announces(ErrorResponse(12, 0))
      BY ErrorBodyIs, ErrorTextIs DEF ErrorResponse
    <3>3. QED
      BY <3>1, <3>2
  <2>4. QED
    BY <2>2, <2>3
<1>4. CASE m \in [op : {"portal"}, path : {"other"}]
  BY <1>4, RedirectIs DEF Serve
<1>5. m \notin [op : {"error"}, chars : Nat, escapes : Nat]
  OBVIOUS
<1>6. QED
  BY <1>1, <1>2, <1>3, <1>4, <1>5 DEF PortalMessages

\* The answer of the portal and the error it refuses with.
LEMMA PortalHolds == Answered => PortalAnnouncesWhatItSends
<1> SUFFICES ASSUME Answered, in # None, in.op = "portal" \/ in.op = "error"
             PROVE  Announces(out)
  BY DEF PortalAnnouncesWhatItSends, Is, Announces, Ends
<1>1. CASE in.op = "portal"
  BY <1>1, MessageIs, OutIs, ServeIs
<1>2. CASE in.op = "error"
  <2> DEFINE body == ErrorBody(in.chars, in.escapes)
  <2>1. Length(body) \in Nat /\ Length(body) <= 128
    BY <1>2, MessageIs, ErrorBodyIs
  <2>2. out = ErrorText(Length(body), body)
    BY <1>2, OutIs DEF ErrorResponse
  <2> HIDE DEF body
  <2>3. QED
    BY <2>1, <2>2, ErrorTextIs
<1>3. QED
  BY <1>1, <1>2

-----------------------------------------------------------------------------
(***************************************************************************)
(* The DNS responder.  A walk over the labels stands where the labels      *)
(* before it end.                                                          *)
(***************************************************************************)

\* A byte of a query.
LEMMA ByteIs ==
  ASSUME NEW bytes \in Seq(Byte), NEW i \in 1 .. Len(bytes)
  PROVE  bytes[i] \in Nat
<1>1. bytes[i] \in Byte
  OBVIOUS
<1>2. Byte \subseteq Nat
  BY DEF Byte
<1>3. QED
  BY <1>1, <1>2

\* One label more is its bytes more.
LEMMA LabelsIs ==
  ASSUME NEW bytes \in Seq(Byte)
  PROVE  /\ Length(Labels(bytes, 0)) = 0
         /\ \A n \in 1 .. Len(bytes) :
              /\ Length(Labels(bytes, n - 1)) \in Nat
              /\ Length(Labels(bytes, n)) = Length(Labels(bytes, n - 1)) + 1 + bytes[n]
<1>1. Labels(bytes, 0) = <<>>
  BY DEF Labels
<1>2. ASSUME NEW n \in 1 .. Len(bytes)
      PROVE  /\ Length(Labels(bytes, n - 1)) \in Nat
             /\ Length(Labels(bytes, n)) = Length(Labels(bytes, n - 1)) + 1 + bytes[n]
  <2> DEFINE p == Piece("label", 1 + bytes[n])
  <2>1. \A i \in 1 .. Len(bytes) : bytes[i] \in Nat
    BY ByteIs
  <2>2. Labels(bytes, n - 1) \in Seq(Pieces({"label"})) /\ p \in Pieces({"label"})
    BY <2>1 DEF Labels, Piece, Pieces
  <2>3. Labels(bytes, n) = Append(Labels(bytes, n - 1), p)
    BY DEF Labels
  <2>4. p.len = 1 + bytes[n]
    BY DEF Piece
  <2> HIDE DEF p
  <2>5. /\ Length(Labels(bytes, n - 1)) \in Nat
        /\ Length(Append(Labels(bytes, n - 1), p)) = Length(Labels(bytes, n - 1)) + p.len
    BY <2>2, LengthAppend
  <2>6. Length(Labels(bytes, n)) = Length(Labels(bytes, n - 1)) + (1 + bytes[n])
    BY <2>3, <2>4, <2>5
  <2>7. bytes[n] \in Nat
    BY <2>1
  <2>8. QED
    BY <2>5, <2>6, <2>7
<1>3. QED
  BY <1>1, <1>2, LengthNone

\* The name of a query ends at byte m, which is behind the m - 1 labels before it.
NameEnds(bytes, m, end) ==
  /\ bytes[m] = 0 \/ bytes[m] >= 192
  /\ \A i \in 1 .. m - 1 : bytes[i] \in 1 .. 191
  /\ end = 12 + Length(Labels(bytes, m - 1)) + (IF bytes[m] = 0 THEN 1 ELSE 2)

\* Where the walk over the labels is after n of them.
WalkedTo(bytes, n, s) ==
  IF s.done THEN s.offset = NoEnd \/ \E m \in 1 .. n : NameEnds(bytes, m, s.offset)
  ELSE /\ s.offset = 12 + Length(Labels(bytes, n))
       /\ \A i \in 1 .. n : bytes[i] \in 1 .. 191

\* One step of the walk.
LEMMA WalkStep ==
  ASSUME NEW len \in Nat, NEW bytes \in Seq(Byte), NEW n \in 1 .. Len(bytes),
         NEW s \in [offset : Int, done : BOOLEAN], WalkedTo(bytes, n - 1, s)
  PROVE  /\ NextLabel(len, s, bytes[n]) \in [offset : Int, done : BOOLEAN]
         /\ WalkedTo(bytes, n, NextLabel(len, s, bytes[n]))
<1> DEFINE t == NextLabel(len, s, bytes[n])
           byte == bytes[n]
<1>1. byte \in Nat /\ n \in Nat /\ n >= 1
  BY ByteIs
<1>2. CASE s.done
  <2>1. t = s
    BY <1>2 DEF NextLabel
  <2>2. \A m \in 1 .. n - 1 : m \in 1 .. n
    BY <1>1
  <2>3. WalkedTo(bytes, n, s)
    BY <1>2, <2>2 DEF WalkedTo
  <2>4. QED
    BY <2>1, <2>3
<1>3. CASE ~ s.done /\ s.offset >= len
  <2>1. t = [offset |-> NoEnd, done |-> TRUE]
    BY <1>3 DEF NextLabel
  <2>2. QED
    BY <2>1 DEF WalkedTo, NoEnd
<1>4. CASE ~ s.done /\ ~ (s.offset >= len) /\ (byte = 0 \/ byte >= 192)
  <2>1. /\ t.done /\ t.offset = s.offset + (IF byte = 0 THEN 1 ELSE 2)
        /\ t \in [offset : Int, done : BOOLEAN]
    BY <1>1, <1>4 DEF NextLabel
  <2>2. /\ s.offset = 12 + Length(Labels(bytes, n - 1))
        /\ \A i \in 1 .. n - 1 : bytes[i] \in 1 .. 191
    BY <1>4 DEF WalkedTo
  <2>3. NameEnds(bytes, n, t.offset)
    BY <1>4, <2>1, <2>2 DEF NameEnds
  <2>4. n \in 1 .. n
    BY <1>1
  <2>5. QED
    BY <2>1, <2>3, <2>4 DEF WalkedTo
<1>5. CASE ~ s.done /\ ~ (s.offset >= len) /\ ~ (byte = 0 \/ byte >= 192)
  <2>1. t = [offset |-> s.offset + 1 + byte, done |-> FALSE]
    BY <1>5 DEF NextLabel
  <2>2. /\ s.offset = 12 + Length(Labels(bytes, n - 1))
        /\ \A i \in 1 .. n - 1 : bytes[i] \in 1 .. 191
    BY <1>5 DEF WalkedTo
  <2>3. /\ Length(Labels(bytes, n - 1)) \in Nat
        /\ Length(Labels(bytes, n)) = Length(Labels(bytes, n - 1)) + 1 + byte
    BY LabelsIs
  <2>4. byte \in 1 .. 191
    <3> HIDE DEF byte
    <3>1. QED
      BY <1>1, <1>5
  <2>5. \A i \in 1 .. n : bytes[i] \in 1 .. 191
    <3>1. \A i \in 1 .. n : i \in 1 .. n - 1 \/ i = n
      BY <1>1
    <3>2. QED
      BY <2>2, <2>4, <3>1
  <2> HIDE DEF byte
  <2>6. t.done = FALSE /\ t.offset = 12 + Length(Labels(bytes, n))
    BY <1>1, <2>1, <2>2, <2>3
  <2>7. t \in [offset : Int, done : BOOLEAN]
    BY <1>1, <2>1
  <2> HIDE DEF t
  <2>8. QED
    BY <2>5, <2>6, <2>7 DEF WalkedTo, t
<1>6. QED
  BY <1>2, <1>3, <1>4, <1>5

\* A step of the walk is at an offset.
LEMMA NextLabelIs ==
  ASSUME NEW len, NEW s \in [offset : Int, done : BOOLEAN], NEW byte \in Nat
  PROVE  NextLabel(len, s, byte) \in [offset : Int, done : BOOLEAN]
BY DEF NextLabel, NoEnd

\* What find_qname_end finds is the end of the name.
LEMMA QnameEndIs ==
  ASSUME NEW q, q.len \in Nat, q.bytes \in Seq(Byte), QnameEnd(q) # NoEnd
  PROVE  \E m \in 1 .. Len(q.bytes) : NameEnds(q.bytes, m, QnameEnd(q))
<1> DEFINE N == Len(q.bytes)
           S == [offset : Int, done : BOOLEAN]
           none == [offset |-> 12, done |-> FALSE]
           move(n, s) == NextLabel(q.len, s, q.bytes[n])
           G == [n \in 1 .. N |-> [s \in S |-> move(n, s)]]
           Walks(f) == f = [n \in 0 .. N |-> IF n = 0 THEN none ELSE move(n, f[n - 1])]
<1>1. N \in Nat /\ none \in S
  OBVIOUS
<1>2. ASSUME NEW n \in 1 .. N, NEW s \in S PROVE move(n, s) \in S
  <2>1. q.bytes[n] \in Nat
    BY ByteIs
  <2>2. QED
    BY <2>1, NextLabelIs
<1> HIDE DEF N, none, move, S
<1>3. PICK g : Walks(g)
  <2>1. G \in [1 .. N -> [S -> S]]
    BY <1>2
  <2> HIDE DEF G
  <2>2. PICK g \in [0 .. N -> S] : Unrolls(g, N, none, G)
    BY <1>1, <2>1, FoldExists
  <2>3. ASSUME NEW n \in 1 .. N PROVE G[n][g[n - 1]] = move(n, g[n - 1])
    <3>1. g[n - 1] \in S
      BY <1>1
    <3>2. QED
      BY <3>1 DEF G
  <2>4. ASSUME NEW n \in 0 .. N
        PROVE  g[n] = IF n = 0 THEN none ELSE move(n, g[n - 1])
    BY <1>1, <2>2, <2>3 DEF Unrolls
  <2>5. QED
    BY <2>4
<1>4. \E f : Walks(f) /\ QnameEnd(q) = IF f[N].done THEN f[N].offset ELSE NoEnd
  BY <1>3, Zenon DEF QnameEnd, N, none, move
<1>5. PICK f : Walks(f) /\ QnameEnd(q) = IF f[N].done THEN f[N].offset ELSE NoEnd
  BY <1>4
<1>6. f[0] = none /\ \A n \in 1 .. N : f[n] = move(n, f[n - 1])
  BY <1>1, <1>5
<1> DEFINE T == {n \in 0 .. N : f[n] \in S /\ WalkedTo(q.bytes, n, f[n])}
<1>7. 0 \in T
  <2>1. none.done = FALSE /\ none.offset = 12 + Length(Labels(q.bytes, 0))
    BY LabelsIs DEF none
  <2>2. WalkedTo(q.bytes, 0, none)
    BY <2>1 DEF WalkedTo
  <2>3. QED
    BY <1>1, <1>6, <2>2
<1>8. ASSUME NEW n \in 1 .. N, n - 1 \in T PROVE n \in T
  <2>1. f[n - 1] \in S /\ WalkedTo(q.bytes, n - 1, f[n - 1])
    BY <1>8
  <2>2. /\ move(n, f[n - 1]) \in S
        /\ WalkedTo(q.bytes, n, move(n, f[n - 1]))
    BY <2>1, WalkStep DEF move, S, N
  <2>3. QED
    BY <1>1, <1>6, <2>2
<1> HIDE DEF T
<1>9. \A n \in 0 .. N : n \in T
  BY <1>1, <1>7, <1>8, UpTo
<1>10. WalkedTo(q.bytes, N, f[N])
  BY <1>1, <1>9 DEF T
<1>11. f[N].done /\ QnameEnd(q) = f[N].offset /\ f[N].offset # NoEnd
  BY <1>5
<1>12. QED
  BY <1>10, <1>11 DEF WalkedTo, N

\* The answer to a query keeps its question.
LEMMA DnsHolds == Answered => DnsQuestionInside
<1> SUFFICES ASSUME Answered, in # None, in.op = "dns", out.sent
             PROVE  /\ out.question_end <= in.len
                    /\ out.len <= 512
                    /\ \E n \in DOMAIN in.bytes :
                         /\ in.bytes[n] = 0 \/ in.bytes[n] >= 192
                         /\ \A i \in 1 .. n - 1 : in.bytes[i] \in 1 .. 191
                         /\ out.question_end = 12 + Length(Labels(in.bytes, n - 1))
                                                 + (IF in.bytes[n] = 0 THEN 1 ELSE 2) + 4
  BY DEF DnsQuestionInside, Is
<1>1. in.len \in Nat /\ in.bytes \in Seq(Byte)
  BY MessageIs
<1> DEFINE name == QnameEnd(in)
<1>2. out = DnsResponse(in)
  BY OutIs
<1> HIDE DEF name
<1>3. /\ name # NoEnd
      /\ ~ (name + 4 > in.len) /\ ~ (name + 4 + 16 > 512)
      /\ out.question_end = name + 4 /\ out.len = name + 4 + 16
  BY <1>2 DEF DnsResponse, NoAnswer, name
<1>4. PICK m \in 1 .. Len(in.bytes) : NameEnds(in.bytes, m, name)
  BY <1>1, <1>3, QnameEndIs DEF name
<1>5. /\ in.bytes[m] \in Nat /\ Length(Labels(in.bytes, m - 1)) \in Nat
  BY <1>1, LabelsIs, ByteIs
<1>6. name \in Nat
  BY <1>4, <1>5 DEF NameEnds
<1>7. m \in DOMAIN in.bytes
  BY <1>1
<1>8. /\ in.bytes[m] = 0 \/ in.bytes[m] >= 192
      /\ \A i \in 1 .. m - 1 : in.bytes[i] \in 1 .. 191
      /\ out.question_end = 12 + Length(Labels(in.bytes, m - 1))
                              + (IF in.bytes[m] = 0 THEN 1 ELSE 2) + 4
  BY <1>3, <1>4 DEF NameEnds
<1>9. out.question_end <= in.len /\ out.len <= 512
  BY <1>1, <1>3, <1>6
<1>10. QED
  BY <1>7, <1>8, <1>9

-----------------------------------------------------------------------------
(***************************************************************************)
(* The parsed response.  After each line, the headers kept are the last    *)
(* ones of their names and the body is the lines behind the blank one,     *)
(* joined.                                                                 *)
(***************************************************************************)

\* The headers that are kept.
Kept == DOMAIN Capacity

\* What parse_response has of the lines read so far.
Readings ==
  [ok : BOOLEAN, in_body : BOOLEAN, body : Nat, lines : Nat, fields : [Kept -> Seq(Nat)]]

\* No header that is kept is a blank line.
LEMMA BlankNotKept == "blank" \notin Kept
BY DEF Kept, Capacity

\* What a line of the body makes of s.
BodyRead(s, line, t) ==
  /\ t \in Readings
  /\ t.in_body
  /\ t.ok => /\ s.ok
             /\ t.lines = s.lines + 1
             /\ t.body = s.body + line.len + (IF s.lines = 0 THEN 0 ELSE 1)
             /\ t.fields = s.fields

\* What line i, a header that is kept, makes of s.
HeaderRead(s, i, line, t) ==
  /\ t \in Readings
  /\ ~ t.in_body
  /\ t.ok => /\ s.ok /\ t.lines = s.lines /\ t.body = s.body
             /\ t.fields = [s.fields EXCEPT ![line.what] = <<i>>]

\* Behind the blank line: one more line of the body, if it fits.
LEMMA BodyLine ==
  ASSUME NEW s \in Readings, s.in_body, NEW i \in Nat, NEW line \in Pieces(STRING),
         NEW t, t = ParseLine(s, i, line)
  PROVE  BodyRead(s, line, t)
<1> DEFINE len == s.body + line.len + (IF s.lines = 0 THEN 0 ELSE 1)
<1>1. line.len \in Nat
  BY DEF Pieces
<1>2. len \in Nat
  BY <1>1 DEF Readings
<1>3. t = IF s.ok /\ len <= 1024 THEN [ok |-> TRUE, in_body |-> TRUE, body |-> len,
                lines |-> s.lines + 1, fields |-> s.fields]
          ELSE [s EXCEPT !.ok = FALSE]
  BY DEF ParseLine
<1> HIDE DEF len
<1>4. CASE s.ok /\ len <= 1024
  <2>1. t = [ok |-> TRUE, in_body |-> TRUE, body |-> len,
             lines |-> s.lines + 1, fields |-> s.fields]
    BY <1>3, <1>4
  <2>2. QED
    BY <1>2, <1>4, <2>1 DEF Readings, BodyRead, len
<1>5. CASE ~ (s.ok /\ len <= 1024)
  <2>1. t = [s EXCEPT !.ok = FALSE]
    BY <1>3, <1>5
  <2>2. QED
    BY <2>1 DEF Readings, BodyRead
<1>6. QED
  BY <1>4, <1>5

\* The blank line.
LEMMA BlankLine ==
  ASSUME NEW s \in Readings, ~ s.in_body, NEW i \in Nat, NEW line \in Pieces(STRING),
         line.what = "blank", NEW t, t = ParseLine(s, i, line)
  PROVE  /\ t \in Readings
         /\ t.in_body /\ t.ok = s.ok /\ t.lines = s.lines /\ t.body = s.body
         /\ t.fields = s.fields
<1>1. t = [s EXCEPT !.in_body = TRUE]
  BY BlankNotKept DEF ParseLine, Kept
<1>2. QED
  BY <1>1 DEF Readings

\* A header that is kept, if it fits.
LEMMA KeptLine ==
  ASSUME NEW s \in Readings, ~ s.in_body, NEW i \in Nat, NEW line \in Pieces(STRING),
         line.what \in Kept, NEW t, t = ParseLine(s, i, line)
  PROVE  HeaderRead(s, i, line, t)
<1>1. line.what # "blank"
  BY BlankNotKept
<1>2. t = PushField(s, line.what, i, line.len)
  BY <1>1 DEF ParseLine, Kept
<1>3. <<i>> \in Seq(Nat)
  OBVIOUS
<1>4. CASE s.ok /\ line.len <= Capacity[line.what]
  <2>1. t = [s EXCEPT !.fields[line.what] = <<i>>]
    BY <1>2, <1>4 DEF PushField
  <2>2. QED
    BY <1>3, <1>4, <2>1 DEF Readings, HeaderRead
<1>5. CASE ~ (s.ok /\ line.len <= Capacity[line.what])
  <2>1. t = [s EXCEPT !.ok = FALSE]
    BY <1>2, <1>5 DEF PushField
  <2>2. QED
    BY <2>1 DEF Readings, HeaderRead
<1>6. QED
  BY <1>4, <1>5

\* Any other line before the blank one is passed over.
LEMMA OtherLine ==
  ASSUME NEW s, ~ s.in_body, NEW i, NEW line,
         line.what # "blank", line.what \notin Kept
  PROVE  ParseLine(s, i, line) = s
BY DEF ParseLine, Kept

\* Whatever the line is, reading it goes on.
LEMMA LineRead ==
  ASSUME NEW s \in Readings, NEW i \in Nat, NEW line \in Pieces(STRING)
  PROVE  ParseLine(s, i, line) \in Readings
<1>1. CASE s.in_body
  BY <1>1, BodyLine DEF BodyRead
<1>2. CASE ~ s.in_body /\ line.what = "blank"
  BY <1>2, BlankLine
<1>3. CASE ~ s.in_body /\ line.what \in Kept
  BY <1>3, KeptLine DEF HeaderRead
<1>4. CASE ~ s.in_body /\ line.what # "blank" /\ line.what \notin Kept
  BY <1>4, OtherLine
<1>5. QED
  BY <1>1, <1>2, <1>3, <1>4

\* The value kept of a header is the last line up to there that has its name.
LastOf(lines, last, name, value) ==
  \/ value = <<>> /\ \A j \in 2 .. last : lines[j].what # name
  \/ \E j \in 2 .. last :
       /\ value = <<j>> /\ lines[j].what = name
       /\ \A k \in 2 .. last : lines[k].what = name => k <= j

\* The headers end at line last, the first blank one, or have not ended yet.
HeadersEnd(lines, i, s, last) ==
  /\ \A b \in 2 .. last : lines[b].what = "blank" => b = last /\ s.in_body
  /\ s.in_body => last >= 2 /\ lines[last].what = "blank"
  /\ ~ s.in_body => last = i

\* The lines from one after last to i, with the newlines between them.
Joins(lines, i, s, last) ==
  /\ s.lines = i - last
  /\ s.body = Length(SubSeq(lines, last + 1, i)) + (IF last < i THEN s.lines - 1 ELSE 0)

\* What has been made of the lines up to line i.
ReadTo(lines, i, s) ==
  s.ok => \E last \in 1 .. i :
            /\ HeadersEnd(lines, i, s, last)
            /\ \A n \in Kept : LastOf(lines, last, n, s.fields[n])
            /\ Joins(lines, i, s, last)

\* A body that is one line longer.
LEMMA LinesJoined ==
  ASSUME NEW lines \in Seq(Pieces(STRING)), NEW last \in Nat, NEW i \in Nat,
         1 <= last, last <= i, i <= Len(lines)
  PROVE  /\ Length(SubSeq(lines, last + 1, i)) \in Nat
         /\ last = i => Length(SubSeq(lines, last + 1, i)) = 0
         /\ i < Len(lines) => Length(SubSeq(lines, last + 1, i + 1)) =
                                Length(SubSeq(lines, last + 1, i)) + lines[i + 1].len
<1> DEFINE part == SubSeq(lines, last + 1, i)
<1>1. part \in Seq(Pieces(STRING))
  OBVIOUS
<1>2. last = i => part = <<>>
  OBVIOUS
<1>3. ASSUME i < Len(lines)
      PROVE  /\ SubSeq(lines, last + 1, i + 1) = Append(part, lines[i + 1])
             /\ lines[i + 1] \in Pieces(STRING)
  BY <1>3
<1> HIDE DEF part
<1>4. Length(part) \in Nat
  BY <1>1, LengthNat
<1>5. i < Len(lines) => Length(SubSeq(lines, last + 1, i + 1)) = Length(part) + lines[i + 1].len
  BY <1>1, <1>3, LengthAppend
<1>6. QED
  BY <1>2, <1>4, <1>5, LengthNone DEF part

\* One line more, in the headers or behind them.
LEMMA ReadStep ==
  ASSUME NEW lines \in Seq(Pieces(STRING)), NEW i \in Nat, 1 <= i, i < Len(lines),
         NEW s \in Readings, ReadTo(lines, i, s),
         NEW t, t = ParseLine(s, i + 1, lines[i + 1])
  PROVE  t \in Readings /\ ReadTo(lines, i + 1, t)
<1> DEFINE line == lines[i + 1]
           k == i + 1
<1>1. line \in Pieces(STRING) /\ k \in Nat /\ t = ParseLine(s, k, line)
  OBVIOUS
<1>2. CASE s.in_body
  <2>1. /\ t \in Readings
        /\ t.in_body
        /\ t.ok => /\ s.ok
                   /\ t.lines = s.lines + 1
                   /\ t.body = s.body + line.len + (IF s.lines = 0 THEN 0 ELSE 1)
                   /\ t.fields = s.fields
    <3> HIDE DEF k, line
    <3>1. BodyRead(s, line, t)
      BY <1>1, <1>2, BodyLine
    <3>2. QED
      BY <3>1 DEF BodyRead
  <2>2. ASSUME t.ok PROVE ReadTo(lines, k, t)
    <3>1. PICK last \in 1 .. i :
            /\ HeadersEnd(lines, i, s, last)
            /\ \A n \in Kept : LastOf(lines, last, n, s.fields[n])
            /\ Joins(lines, i, s, last)
      BY <2>1, <2>2 DEF ReadTo
    <3>2. last \in 1 .. k /\ last \in Nat /\ 1 <= last /\ last <= i /\ i <= Len(lines)
      OBVIOUS
    <3>3. HeadersEnd(lines, k, t, last)
      BY <1>2, <2>1, <3>1 DEF HeadersEnd
    <3>4. \A n \in Kept : LastOf(lines, last, n, t.fields[n])
      BY <2>1, <2>2, <3>1
    <3>5. Joins(lines, k, t, last)
      <4>1. /\ Length(SubSeq(lines, last + 1, i)) \in Nat
            /\ last = i => Length(SubSeq(lines, last + 1, i)) = 0
            /\ Length(SubSeq(lines, last + 1, k)) =
                 Length(SubSeq(lines, last + 1, i)) + line.len
        BY <3>2, LinesJoined
      <4>2. line.len \in Nat
        BY <1>1 DEF Pieces
      <4>3. s.lines = i - last
            /\ s.body = Length(SubSeq(lines, last + 1, i))
                          + (IF last < i THEN s.lines - 1 ELSE 0)
        BY <3>1 DEF Joins
      <4>4. /\ t.lines = s.lines + 1
            /\ t.body = s.body + line.len + (IF s.lines = 0 THEN 0 ELSE 1)
        BY <2>1, <2>2
      <4> DEFINE before == Length(SubSeq(lines, last + 1, i))
                 after == Length(SubSeq(lines, last + 1, k))
      <4>5. /\ before \in Nat /\ (last = i => before = 0) /\ after = before + line.len
            /\ s.body = before + (IF last < i THEN s.lines - 1 ELSE 0)
        BY <4>1, <4>3
      <4> HIDE DEF before, after, line
      <4>6. t.lines = k - last
        BY <3>2, <4>3, <4>4
      <4>7. t.body = after + (t.lines - 1)
        <5>1. CASE last = i
          BY <3>2, <4>2, <4>3, <4>4, <4>5, <5>1
        <5>2. CASE last < i
          <6>1. s.lines \in Nat /\ s.lines # 0
            BY <3>2, <4>3, <5>2
          <6>2. /\ s.body = before + (s.lines - 1) /\ t.body = s.body + line.len + 1
                /\ t.lines = s.lines + 1
            BY <4>4, <4>5, <5>2, <6>1
          <6>3. t.body = before + (s.lines - 1) + line.len + 1
            BY <6>2
          <6>4. t.lines - 1 = s.lines
            BY <6>1, <6>2
          <6>5. ASSUME NEW b \in Nat, NEW l \in Nat, NEW m \in Nat
                PROVE  b + (m - 1) + l + 1 = (b + l) + m
            OBVIOUS
          <6>6. before \in Nat /\ after = before + line.len
            BY <4>5, Zenon
          <6>7. t.body = (before + line.len) + s.lines
            BY <4>2, <6>1, <6>3, <6>5, <6>6, Zenon
          <6>8. QED
            BY <6>4, <6>6, <6>7, Zenon
        <5>3. last = i \/ last < i
          BY <3>2
        <5>4. QED
          BY <5>1, <5>2, <5>3
      <4>8. last < k
        BY <3>2
      <4>9. QED
        BY <4>6, <4>7, <4>8 DEF Joins, after
    <3>6. QED
      BY <3>2, <3>3, <3>4, <3>5 DEF ReadTo
  <2>3. QED
    BY <2>1, <2>2 DEF ReadTo
<1>3. ASSUME ~ s.in_body, s.ok
      PROVE  /\ \A b \in 2 .. i : lines[b].what # "blank"
             /\ \A n \in Kept : LastOf(lines, i, n, s.fields[n])
             /\ s.lines = 0 /\ s.body = 0
  <2>1. PICK last \in 1 .. i :
          /\ HeadersEnd(lines, i, s, last)
          /\ \A n \in Kept : LastOf(lines, last, n, s.fields[n])
          /\ Joins(lines, i, s, last)
    BY <1>3 DEF ReadTo
  <2>2. last = i /\ \A b \in 2 .. i : lines[b].what # "blank"
    BY <1>3, <2>1 DEF HeadersEnd
  <2>3. Length(SubSeq(lines, i + 1, i)) = 0
    BY LinesJoined
  <2>4. s.lines = 0 /\ s.body = 0
    BY <2>1, <2>2, <2>3 DEF Joins
  <2>5. QED
    BY <2>1, <2>2, <2>4
<1>4. /\ k \in 1 .. k
      /\ \A b \in 2 .. k : b \in 2 .. i \/ b = k
      /\ \A b \in 2 .. i : b \in 2 .. k /\ b < k
      /\ k >= 2 /\ k \in 2 .. k
  OBVIOUS
<1>5. Length(SubSeq(lines, k + 1, k)) = 0
  <2>1. 1 <= k /\ k <= Len(lines)
    OBVIOUS
  <2>2. QED
    BY <1>1, <2>1, LinesJoined
<1> HIDE DEF k, line
<1>6. ASSUME NEW n \in Kept, NEW v, LastOf(lines, i, n, v), line.what # n
      PROVE  LastOf(lines, k, n, v)
  <2>1. lines[k].what # n
    BY <1>6 DEF k, line
  <2>2. QED
    BY <1>4, <1>6, <2>1 DEF LastOf
<1>7. CASE ~ s.in_body /\ line.what = "blank"
  <2>1. /\ t \in Readings
        /\ t.in_body /\ t.ok = s.ok /\ t.lines = s.lines /\ t.body = s.body
        /\ t.fields = s.fields
    BY <1>1, <1>7, BlankLine
  <2>2. ASSUME t.ok PROVE ReadTo(lines, k, t)
    <3>1. HeadersEnd(lines, k, t, k)
      BY <1>3, <1>4, <1>7, <2>1, <2>2 DEF HeadersEnd, line, k
    <3>2. \A n \in Kept : LastOf(lines, k, n, t.fields[n])
      BY <1>3, <1>6, <1>7, <2>1, <2>2, BlankNotKept
    <3>3. Joins(lines, k, t, k)
      BY <1>1, <1>3, <1>5, <1>7, <2>1, <2>2 DEF Joins
    <3>4. QED
      BY <1>4, <3>1, <3>2, <3>3 DEF ReadTo
  <2>3. QED
    BY <2>1, <2>2 DEF ReadTo, k
<1>8. CASE ~ s.in_body /\ line.what \in Kept
  <2>1. /\ t \in Readings
        /\ ~ t.in_body
        /\ t.ok => /\ s.ok /\ t.lines = s.lines /\ t.body = s.body
                   /\ t.fields = [s.fields EXCEPT ![line.what] = <<k>>]
    <3>1. HeaderRead(s, k, line, t)
      BY <1>1, <1>8, KeptLine
    <3>2. QED
      BY <3>1 DEF HeaderRead
  <2>2. ASSUME t.ok PROVE ReadTo(lines, k, t)
    <3>1. HeadersEnd(lines, k, t, k)
      <4>1. lines[k].what # "blank"
        BY <1>8, BlankNotKept DEF line, k
      <4>2. QED
        BY <1>3, <1>4, <1>8, <2>1, <2>2, <4>1 DEF HeadersEnd
    <3>2. ASSUME NEW n \in Kept PROVE LastOf(lines, k, n, t.fields[n])
      <4>1. s.fields \in [Kept -> Seq(Nat)]
        BY DEF Readings
      <4>2. CASE n = line.what
        <5>1. t.fields[n] = <<k>> /\ lines[k].what = n
          BY <2>1, <2>2, <4>1, <4>2 DEF line, k
        <5>2. \A b \in 2 .. k : b <= k
          BY <1>4
        <5>3. QED
          BY <1>4, <5>1, <5>2 DEF LastOf
      <4>3. CASE n # line.what
        <5>1. t.fields[n] = s.fields[n]
          BY <2>1, <2>2, <4>1, <4>3
        <5>2. LastOf(lines, i, n, s.fields[n])
          BY <1>3, <1>8, <2>1, <2>2
        <5>3. QED
          BY <1>6, <4>3, <5>1, <5>2
      <4>4. QED
        BY <4>2, <4>3
    <3>3. Joins(lines, k, t, k)
      BY <1>1, <1>3, <1>5, <1>8, <2>1, <2>2 DEF Joins
    <3>4. QED
      BY <1>4, <3>1, <3>2, <3>3 DEF ReadTo
  <2>3. QED
    BY <2>1, <2>2 DEF ReadTo, k
<1>9. CASE ~ s.in_body /\ line.what # "blank" /\ line.what \notin Kept
  <2>1. t = s
    BY <1>1, <1>9, OtherLine
  <2>2. ASSUME s.ok PROVE ReadTo(lines, k, s)
    <3>1. HeadersEnd(lines, k, s, k)
      <4>1. lines[k].what # "blank"
        BY <1>9 DEF line, k
      <4>2. QED
        BY <1>3, <1>4, <1>9, <2>2, <4>1 DEF HeadersEnd
    <3>2. \A n \in Kept : LastOf(lines, k, n, s.fields[n])
      BY <1>3, <1>6, <1>9, <2>2
    <3>3. Joins(lines, k, s, k)
      BY <1>1, <1>3, <1>5, <1>9, <2>2 DEF Joins
    <3>4. QED
      BY <1>4, <3>1, <3>2, <3>3 DEF ReadTo
  <2>3. QED
    BY <2>1, <2>2 DEF ReadTo, k
<1>10. QED
  BY <1>2, <1>7, <1>8, <1>9 DEF k

\* What parse_response returns is what it has made of all the lines.
LEMMA ParseIs ==
  ASSUME NEW lines \in Seq(Pieces(STRING)), ParseResponse(lines).ok
  PROVE  ReadTo(lines, Len(lines), ParseResponse(lines))
<1> DEFINE N == Len(lines)
           none == [ok |-> lines # <<>>, in_body |-> FALSE, body |-> 0, lines |-> 0,
                    fields |-> [n \in Kept |-> <<>>]]
           move(i, s) == IF i <= 1 THEN none ELSE ParseLine(s, i, lines[i])
           G == [i \in 1 .. N |-> [s \in Readings |-> move(i, s)]]
           Reads(f) == f = [i \in 0 .. N |-> IF i <= 1 THEN none
                                             ELSE ParseLine(f[i - 1], i, lines[i])]
<1>1. N \in Nat
  OBVIOUS
<1>2. none \in Readings
  <2>1. [n \in Kept |-> <<>>] \in [Kept -> Seq(Nat)]
    OBVIOUS
  <2>2. (lines # <<>>) \in BOOLEAN
    OBVIOUS
  <2>3. QED
    BY <2>1, <2>2 DEF Readings
<1>3. none.ok = (lines # <<>>) /\ ~ none.in_body /\ none.body = 0 /\ none.lines = 0
      /\ \A n \in Kept : none.fields[n] = <<>>
  OBVIOUS
<1> HIDE DEF none, N
<1>4. ASSUME NEW i \in 1 .. N, NEW s \in Readings PROVE move(i, s) \in Readings
  <2>1. CASE i <= 1
    BY <1>2, <2>1
  <2>2. CASE ~ (i <= 1)
    <3>1. lines[i] \in Pieces(STRING) /\ i \in Nat
      BY DEF N
    <3>2. ParseLine(s, i, lines[i]) \in Readings
      BY <3>1, LineRead
    <3>3. QED
      BY <2>2, <3>2
  <2>3. QED
    BY <2>1, <2>2
<1>5. PICK g : Reads(g)
  <2>1. G \in [1 .. N -> [Readings -> Readings]]
    <3> HIDE DEF move
    <3>1. QED
      BY <1>4
  <2> HIDE DEF G
  <2>2. PICK g \in [0 .. N -> Readings] : Unrolls(g, N, none, G)
    BY <1>1, <1>2, <2>1, FoldExists
  <2>3. ASSUME NEW i \in 1 .. N PROVE G[i][g[i - 1]] = move(i, g[i - 1])
    <3>1. g[i - 1] \in Readings
      BY <1>1
    <3>2. QED
      BY <3>1 DEF G
  <2>4. ASSUME NEW i \in 0 .. N
        PROVE  g[i] = IF i <= 1 THEN none ELSE ParseLine(g[i - 1], i, lines[i])
    BY <1>1, <2>2, <2>3 DEF Unrolls
  <2>5. QED
    BY <2>4
<1>6. \E f : Reads(f) /\ ParseResponse(lines) = f[N]
  BY <1>5, Zenon DEF ParseResponse, N, none, Kept
<1>7. PICK f : Reads(f) /\ ParseResponse(lines) = f[N]
  BY <1>6
<1>8. /\ N >= 1 => f[1] = none
      /\ N = 0 => f[0] = none
      /\ \A i \in 2 .. N : f[i] = ParseLine(f[i - 1], i, lines[i])
  BY <1>1, <1>7
<1>9. N >= 1
  <2>1. CASE N = 0
    <3>1. ~ none.ok
      <4>1. lines = <<>>
        BY <2>1 DEF N
      <4>2. QED
        BY <4>1 DEF none
    <3>2. f[N] = none
      BY <1>8, <2>1
    <3>3. QED
      BY <1>7, <3>1, <3>2
  <2>2. QED
    BY <1>1, <2>1
<1> DEFINE T == {i \in 0 .. N : i >= 1 => f[i] \in Readings /\ ReadTo(lines, i, f[i])}
<1>10. 0 \in T
  BY <1>1
<1>11. ReadTo(lines, 1, none)
  <2>1. 1 \in 1 .. 1 /\ 1 \in Nat /\ 1 <= 1 /\ 1 <= Len(lines)
    BY <1>9 DEF N
  <2>2. HeadersEnd(lines, 1, none, 1)
    BY <1>3 DEF HeadersEnd
  <2>3. \A n \in Kept : LastOf(lines, 1, n, none.fields[n])
    BY <1>3 DEF LastOf
  <2>4. Length(SubSeq(lines, 1 + 1, 1)) = 0
    BY <2>1, LinesJoined
  <2>5. Joins(lines, 1, none, 1)
    BY <1>3, <2>4 DEF Joins
  <2>6. QED
    BY <2>1, <2>2, <2>3, <2>5 DEF ReadTo
<1>12. ASSUME NEW i \in 1 .. N, i - 1 \in T PROVE i \in T
  <2>1. CASE i = 1
    BY <1>1, <1>2, <1>8, <1>11, <2>1
  <2>2. CASE i # 1
    <3> DEFINE j == i - 1
    <3>1. j \in Nat /\ 1 <= j /\ j < Len(lines) /\ j + 1 = i /\ i \in 2 .. N
      BY <1>1, <2>2 DEF N
    <3>2. f[j] \in Readings /\ ReadTo(lines, j, f[j])
      BY <1>12, <3>1
    <3>3. f[j + 1] = ParseLine(f[j], j + 1, lines[j + 1])
      BY <1>8, <3>1
    <3> HIDE DEF j
    <3>4. f[j + 1] \in Readings /\ ReadTo(lines, j + 1, f[j + 1])
      BY <3>1, <3>2, <3>3, ReadStep
    <3>5. QED
      BY <1>1, <3>1, <3>4
  <2>3. QED
    BY <2>1, <2>2
<1> HIDE DEF T
<1>13. \A i \in 0 .. N : i \in T
  BY <1>1, <1>10, <1>12, UpTo
<1>14. ReadTo(lines, N, f[N])
  BY <1>1, <1>9, <1>13 DEF T
<1>15. QED
  BY <1>7, <1>14 DEF N

\* What was read to the last line is what the response says.
LEMMA ParsedHolds == Answered => ParsedWhole
<1> SUFFICES ASSUME Answered, in # None, in.op = "parse", out.ok
             PROVE  ParsedWhole
  BY DEF ParsedWhole, Is
<1> DEFINE lines == in.lines
           N == Len(lines)
           blanks == {i \in 2 .. N : lines[i].what = "blank"}
           end == IF blanks = {} THEN N
                  ELSE CHOOSE b \in blanks : \A c \in blanks : b <= c
           Named(n) == {i \in 2 .. end : lines[i].what = n}
<1>1. lines \in Seq(Pieces(STRING)) /\ out = ParseResponse(lines) /\ N \in Nat
  BY MessageIs, OutIs
<1>2. PICK last \in 1 .. N :
        /\ HeadersEnd(lines, N, out, last)
        /\ \A n \in Kept : LastOf(lines, last, n, out.fields[n])
        /\ Joins(lines, N, out, last)
  BY <1>1, ParseIs DEF ReadTo
<1> HIDE DEF lines, N
<1>3. end = last
  <2>1. CASE out.in_body
    <3>1. last \in blanks
      BY <1>1, <1>2, <2>1 DEF HeadersEnd
    <3>2. \A c \in blanks : ~ (c < last)
      BY <1>1, <1>2 DEF HeadersEnd
    <3>3. blanks \subseteq Int
      OBVIOUS
    <3> HIDE DEF blanks
    <3>4. \A b \in blanks : (\A c \in blanks : b <= c) <=> b = last
      BY <3>1, <3>2, <3>3
    <3>5. blanks # {}
      BY <3>1
    <3>6. (CHOOSE b \in blanks : \A c \in blanks : b <= c) = last
      BY <3>1, <3>4
    <3>7. QED
      BY <3>5, <3>6
  <2>2. CASE ~ out.in_body
    <3>1. last = N /\ blanks = {}
      BY <1>2, <2>2 DEF HeadersEnd
    <3> HIDE DEF blanks
    <3>2. QED
      BY <3>1
  <2>3. QED
    BY <2>1, <2>2
<1> HIDE DEF end
<1>4. ASSUME NEW n \in Kept
      PROVE  out.fields[n] = IF Named(n) = {} THEN <<>>
                             ELSE <<CHOOSE i \in Named(n) : \A j \in Named(n) : j <= i>>
  <2> DEFINE mine == Named(n)
  <2>1. LastOf(lines, end, n, out.fields[n])
    BY <1>2, <1>3
  <2>2. CASE out.fields[n] = <<>> /\ \A j \in 2 .. end : lines[j].what # n
    <3>1. mine = {}
      BY <2>2
    <3> HIDE DEF Named
    <3>2. QED
      BY <2>2, <3>1
  <2>3. ASSUME NEW j \in 2 .. end, out.fields[n] = <<j>>, lines[j].what = n,
               \A k \in 2 .. end : lines[k].what = n => k <= j
        PROVE  out.fields[n] = IF mine = {} THEN <<>>
                               ELSE <<CHOOSE i \in mine : \A k \in mine : k <= i>>
    <3>1. j \in mine /\ (\A k \in mine : k <= j) /\ mine \subseteq Int
      BY <2>3
    <3> HIDE DEF Named
    <3>2. \A i \in mine : (\A k \in mine : k <= i) <=> i = j
      BY <3>1
    <3>3. (CHOOSE i \in mine : \A k \in mine : k <= i) = j
      BY <3>1, <3>2
    <3>4. QED
      BY <2>3, <3>1, <3>3
  <2>4. QED
    BY <2>1, <2>2, <2>3 DEF LastOf
<1>5. /\ out.lines = N - end
      /\ out.body = Length(SubSeq(lines, end + 1, N)) + (IF end < N THEN out.lines - 1 ELSE 0)
  BY <1>2, <1>3 DEF Joins
<1>6. QED
  BY <1>4, <1>5, Zenon DEF ParsedWhole, Is, end, N, lines, Kept

-----------------------------------------------------------------------------
(***************************************************************************)
(* The theorems.                                                           *)
(***************************************************************************)

\* The inductive invariant of the firmware tasks (tasks.rs).
THEOREM EdgeInv == Spec => []IInv
BY InitIInv, NextIInv, PTL DEF Spec

\* The types of the state of the two tasks; the delay stays between
\* BACKOFF_INITIAL and BACKOFF_MAX.
THEOREM EdgeTypeOK == Spec => []TypeOK
BY EdgeInv, PTL DEF IInv

\* Bytes read after the first POST of a session answer that POST, stored or
\* refused; no later POST of the session is stored (tasks.rs, the loop over one
\* session).
THEOREM EdgeOnlyFirstPost == Spec => []OnlyFirstPostAnswered
BY EdgeInv, PTL DEF IInv

\* The delay before the next attempt is BACKOFF_INITIAL doubled once for each
\* failure since the last handshake, and BACKOFF_MAX at most (tasks.rs
\* backoff_delay, and the reset after session.connect).
THEOREM EdgeBackoffSchedule == Spec => []BackoffSchedule
<1>1. Init => OnSchedule
  BY ScheduleMoves DEF Init, OnSchedule
<1>2. TypeOK /\ OnSchedule /\ [Next]_vars => OnSchedule'
  BY ScheduleStep
<1>3. OnSchedule => BackoffSchedule
  BY DEF OnSchedule, BackoffSchedule, Scheduled
<1>4. QED
  BY EdgeTypeOK, <1>1, <1>2, <1>3, PTL DEF Spec

\* For every instant up to the end of 9999, parse_rfc3339_unix takes the text
\* format_rfc3339 made of it and gives back its seconds; it refuses the text of
\* every instant after that (time.rs).
THEOREM CodecRoundTrip == CodecSpec => []RoundTrip
<1>1. now \in Instants => RoundTrip
  BY ParseFormat, Zenon DEF RoundTrip
<1>2. QED
  BY ClockAtInstant, <1>1, PTL

\* Day 0 is 1 January 1970, and each day's date is followed by the next day's,
\* over every leap day, century and era (time.rs civil_from_days).
THEOREM CodecCalendarFollows == CodecSpec => CalendarFollows
<1> DEFINE Follows ==
             /\ now.day = 0 => Civil(0) = [year |-> 1970, month |-> 1, day |-> 1]
             /\ now'.day = now.day + 1 => Civil(now'.day) = NextDate(Civil(now.day))
<1>1. now \in Instants => Follows
  <2> SUFFICES ASSUME now \in Instants PROVE Follows
    OBVIOUS
  <2>1. now.day \in Nat
    BY InstantIs, SMT
  <2>2. Civil(now.day + 1) = NextDate(Civil(now.day))
    BY <2>1, DateFollows, Zenon
  <2>3. now.day = 0 => Civil(0) = [year |-> 1970, month |-> 1, day |-> 1]
    BY Epoch, SMT
  <2>4. now'.day = now.day + 1 => Civil(now'.day) = NextDate(Civil(now.day))
    BY <2>2, Zenon
  <2>5. QED
    BY <2>3, <2>4, SMT
<1>2. QED
  BY ClockAtInstant, <1>1, PTL DEF CalendarFollows

\* Of two instants up to the end of 9999 the later one has the text that sorts
\* later, whichever of them have a fraction and however many digits it has
\* (time.rs format_rfc3339; the stores sort received_at as text).
THEOREM CodecTextInOrder == CodecSpec => TextInOrder
<1> DEFINE InOrder == Before(TextOf(Format(now)), TextOf(Format(now')))
                        \/ ~ Later(now, now') \/ ~ FourDigits(now')
<1>1. now \in Instants /\ (now \in Instants)' => InOrder
  <2> SUFFICES ASSUME now \in Instants, now' \in Instants, Later(now, now'),
                      FourDigits(now')
               PROVE  Before(TextOf(Format(now)), TextOf(Format(now')))
    OBVIOUS
  <2>1. QED
    BY TextsInOrder, LaterIs, Zenon
<1>2. QED
  BY ClockAtInstant, <1>1, PTL DEF TextInOrder

\* A request that get_request or post_request returns has every piece it was
\* built from and fits its buffer; anything else is an error, never a request
\* cut short (http.rs push).
THEOREM CodecRequestsWhole == CodecSpec => []RequestsWhole
BY AnsweredAlways, RequestsHold, PTL

\* The uplink of the firmware is always built, whatever its id escapes to
\* (tasks.rs post_request("/"), with the 256 and 512 bytes of http.rs).
THEOREM CodecUplinkFits == CodecSpec => []UplinkFits
BY AnsweredAlways, UplinkHolds, PTL

\* Content-Length is the number of bytes the portal sends after its header, and
\* the header ends with its blank line, though every push onto these buffers
\* ignores its result (server.rs).
THEOREM CodecPortalAnnounces == CodecSpec => []PortalAnnouncesWhatItSends
BY AnsweredAlways, PortalHolds, PTL

\* The question that a DNS answer copies ends inside the query, behind its last
\* label (dns.rs find_qname_end and build_response).
THEOREM CodecDnsQuestionInside == CodecSpec => []DnsQuestionInside
BY AnsweredAlways, DnsHolds, PTL

\* A response that parses has the last value of each header that comes before the
\* blank line, and all of the body behind it (http.rs parse_response).
THEOREM CodecParsedWhole == CodecSpec => []ParsedWhole
BY AnsweredAlways, ParsedHolds, PTL
=============================================================================
