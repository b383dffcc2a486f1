-------------------------- MODULE Watchdog_proofs ---------------------------
(***************************************************************************)
(* Proofs about the watchdog, for every set of devices, every threshold,   *)
(* interval and slack.                                                     *)
(***************************************************************************)
EXTENDS Watchdog, TLAPS

\* What the task knows at the end of each snapshot about the devices it has
\* warned about.  The invariant a single tick preserves:
\*  - a device with warnings is registered and has been silent for DARK_SECS,
\*    measured by the clock and by the reading the current snapshot uses;
\*  - so a snapshot that succeeds lists it as dark again, and
\*  - while the loop runs, a device that used up its warnings is in known_dark.
WarnedSilent ==
  \A d \in DeviceIds : warns[d] > 0 =>
    /\ status[d] \in Statuses
    /\ last[d] \in Nat
    /\ last[d] + DARK_SECS <= now

WarnedSeen ==
  \A d \in DeviceIds : warns[d] > 0 =>
    /\ pc \in {"list", "latest"} => last[d] + DARK_SECS <= at
    /\ pc = "latest" => devs[d] \in Statuses

ReadingPast ==
  /\ pc \in {"list", "latest"} => at <= now
  /\ pc = "latest" =>
       \A d \in DeviceIds : devs[d] \in Statuses => status[d] \in Statuses

WarnsCounted ==
  \A d \in DeviceIds :
    /\ warns[d] <= 1 + badBoots
    /\ pc # "off" /\ ~ seeding => d \in knownDark \/ warns[d] <= badBoots

IInv == TypeOK /\ WarnedSilent /\ WarnedSeen /\ ReadingPast /\ WarnsCounted

-----------------------------------------------------------------------------
\* The dark devices of a snapshot: registered, and at least DARK_SECS older
\* than the clock reading (fleet.rs staleness_of, with its saturation).
LEMMA DarkCharacterised ==
  ASSUME NEW dv \in [DeviceIds -> Statuses \cup {"unregistered"}],
         NEW l \in [DeviceIds -> Instants],
         NEW n \in Nat
  PROVE  \A d \in DeviceIds :
           d \in DarkIn(Snapshot(dv, l, n)) <=>
             /\ dv[d] \in Statuses
             /\ l[d] \in Nat
             /\ l[d] + DARK_SECS <= n
<1>1. SUFFICES ASSUME NEW d \in DeviceIds
               PROVE  d \in DarkIn(Snapshot(dv, l, n)) <=>
                        /\ dv[d] \in Statuses
                        /\ l[d] \in Nat
                        /\ l[d] + DARK_SECS <= n
  OBVIOUS
<1>2. StalenessOf(l[d], n) = "dark" <=> l[d] \in Nat /\ l[d] + DARK_SECS <= n
  BY FleetAssumption DEF StalenessOf, Age, Instants
<1>3. d \in DarkIn(Snapshot(dv, l, n)) <=>
        dv[d] \in Statuses /\ StalenessOf(l[d], n) = "dark"
  <2> DEFINE Entry(e) == [device_id |-> e, status |-> dv[e], last_uplink |-> l[e],
                          staleness |-> StalenessOf(l[e], n)]
  <2>1. Snapshot(dv, l, n) =
          {Entry(e) : e \in {x \in DeviceIds : dv[x] \in Statuses}}
    BY DEF Snapshot
  <2>2. \A e : Entry(e).device_id = e /\ Entry(e).staleness = StalenessOf(l[e], n)
    OBVIOUS
  <2> HIDE DEF Entry
  <2>3. d \in DarkIn(Snapshot(dv, l, n)) <=>
          \E e \in DeviceIds : /\ dv[e] \in Statuses
                              /\ Entry(e).staleness = "dark"
                              /\ d = Entry(e).device_id
    BY <2>1, Zenon DEF DarkIn
  <2>4. QED
    BY <2>2, <2>3
<1>4. QED
  BY <1>2, <1>3

\* A snapshot only ever names device identifiers.
LEMMA DarkInDevices ==
  ASSUME NEW dv, NEW l, NEW n
  PROVE  DarkIn(Snapshot(dv, l, n)) \subseteq DeviceIds
BY DEF DarkIn, Snapshot

\* Types are right in every state of the watchdog and of the tables it reads.
LEMMA TypeStep == TypeOK /\ [Next]_vars => TypeOK'
<1> SUFFICES ASSUME TypeOK, [Next]_vars PROVE TypeOK'
  OBVIOUS
<1> USE FleetAssumption, WatchdogAssumption DEF TypeOK, Instants, Statuses
<1>1. CASE Advance
  BY <1>1 DEF Advance, store, task
<1>2. ASSUME NEW d \in DeviceIds, Register(d) PROVE TypeOK'
  BY <1>2 DEF Register, task
<1>3. ASSUME NEW d \in DeviceIds, StampUplink(d) PROVE TypeOK'
  BY <1>3 DEF StampUplink, task
<1>4. ASSUME NEW d \in DeviceIds, NEW s \in Statuses, SetStatus(d, s)
      PROVE  TypeOK'
  BY <1>4 DEF SetStatus, task
<1>5. ASSUME NEW d \in DeviceIds, NEW stamp \in inflight[d],
             StoreUplink(d, stamp)
      PROVE  TypeOK'
  BY <1>5 DEF StoreUplink, task
<1>6. CASE Boot
  BY <1>6, DarkInDevices DEF Boot, store
<1>7. CASE Wake
  BY <1>7 DEF Wake, store
<1>8. CASE ReadDevices
  BY <1>8 DEF ReadDevices, store
<1>9. CASE Seed
  BY <1>9, DarkInDevices DEF Seed, EndSnapshot, NoDevs, DarkNow, store
<1>10. CASE Report
  BY <1>10, DarkInDevices DEF Report, EndSnapshot, NoDevs, DarkNow, store
<1>11. CASE SeedFails
  <2>1. badBoots' \in Nat /\ steadySince' \in Nat /\ knownDark' \subseteq DeviceIds
    BY <1>11 DEF SeedFails
  <2>2. pc' = "sleep" /\ at' = 0 /\ devs' = NoDevs /\ seeding' = FALSE
    BY <1>11 DEF SeedFails, EndSnapshot
  <2>3. UNCHANGED <<now, store, deadline, warns>>
    BY <1>11 DEF SeedFails
  <2>4. QED
    BY <2>1, <2>2, <2>3 DEF NoDevs, store
<1>12. CASE ReportFails
  BY <1>12 DEF ReportFails, EndSnapshot, NoDevs, store
<1>13. CASE Crash
  BY <1>13 DEF Crash, NoDevs
<1>14. CASE UNCHANGED vars
  BY <1>14 DEF vars, store, task
<1>15. QED
  BY <1>1, <1>2, <1>3, <1>4, <1>5, <1>6, <1>7, <1>8, <1>9, <1>10, <1>11,
     <1>12, <1>13, <1>14 DEF Next

-----------------------------------------------------------------------------
\* The invariant holds before the watchdog is spawned.
LEMMA InitInv == Init => IInv
<1> SUFFICES ASSUME Init PROVE IInv
  OBVIOUS
<1> USE FleetAssumption, WatchdogAssumption
<1>1. TypeOK
  BY DEF Init, TypeOK, Instants, Statuses, NoDevs
<1>2. \A d \in DeviceIds : warns[d] = 0
  BY DEF Init
<1>3. pc = "off" /\ badBoots = 0
  BY DEF Init
<1>4. QED
  BY <1>1, <1>2, <1>3
     DEF IInv, WarnedSilent, WarnedSeen, ReadingPast, WarnsCounted

\* Every step preserves it: one case per action.
LEMMA NextInv == IInv /\ [Next]_vars => IInv'
<1> SUFFICES ASSUME IInv, [Next]_vars PROVE IInv'
  OBVIOUS
<1> USE FleetAssumption, WatchdogAssumption
<1>0. TypeOK /\ TypeOK'
  BY TypeStep DEF IInv
<1> DEFINE Rest == WarnedSilent /\ WarnedSeen /\ ReadingPast /\ WarnsCounted
<1> SUFFICES Rest'
  BY <1>0 DEF IInv
<1>a. Rest
  BY DEF IInv
<1> USE <1>0, <1>a DEF TypeOK, WarnedSilent, WarnedSeen, ReadingPast, WarnsCounted
<1>1. CASE Advance
  BY <1>1 DEF Advance, store, task
<1>2. ASSUME NEW d \in DeviceIds, Register(d) PROVE Rest'
  BY <1>2 DEF Register, task, Statuses
<1>3. ASSUME NEW d \in DeviceIds, StampUplink(d) PROVE Rest'
  BY <1>3 DEF StampUplink, task
<1>4. ASSUME NEW d \in DeviceIds, NEW s \in Statuses, SetStatus(d, s)
      PROVE  Rest'
  BY <1>4 DEF SetStatus, task
<1>5. ASSUME NEW d \in DeviceIds, NEW stamp \in inflight[d],
             StoreUplink(d, stamp)
      PROVE  Rest'
  BY <1>5 DEF StoreUplink, task
<1>6. CASE Boot
  BY <1>6 DEF Boot, store
<1>7. CASE Wake
  BY <1>7 DEF Wake, store
<1>8. CASE ReadDevices
  BY <1>8 DEF ReadDevices, store
<1>9. CASE Seed
  <2>1. \A d \in DeviceIds : warns[d] > 0 => d \in DarkNow
    BY <1>9, DarkCharacterised DEF Seed, DarkNow
  <2>2. QED
    BY <1>9, <2>1 DEF Seed, EndSnapshot, store
<1>10. CASE Report
  <2>1. \A d \in DeviceIds :
          d \in DarkNow <=> /\ devs[d] \in Statuses
                           /\ last[d] \in Nat
                           /\ last[d] + DARK_SECS <= at
    BY DarkCharacterised DEF DarkNow
  <2>2. \A d \in DeviceIds : warns[d] > 0 => d \in DarkNow
    BY <1>10, <2>1 DEF Report
  <2>3. \A d \in DeviceIds : d \in DarkNow =>
          /\ status[d] \in Statuses
          /\ last[d] \in Nat
          /\ last[d] + DARK_SECS <= now
    BY <1>10, <2>1 DEF Report, Instants
  <2>4. WarnedSilent'
    BY <1>10, <2>2, <2>3 DEF Report, store
  <2>5. WarnedSeen' /\ ReadingPast'
    BY <1>10 DEF Report, EndSnapshot
  <2>6. WarnsCounted'
    BY <1>10, <2>2 DEF Report, EndSnapshot, store
  <2>7. QED
    BY <2>4, <2>5, <2>6
<1>11. CASE SeedFails
  BY <1>11 DEF SeedFails, EndSnapshot, store
<1>12. CASE ReportFails
  BY <1>12 DEF ReportFails, EndSnapshot, store
<1>13. CASE Crash
  BY <1>13 DEF Crash
<1>14. CASE UNCHANGED vars
  BY <1>14 DEF vars, store, task
<1>15. QED
  BY <1>1, <1>2, <1>3, <1>4, <1>5, <1>6, <1>7, <1>8, <1>9, <1>10, <1>11,
     <1>12, <1>13, <1>14 DEF Next

\* The inductive invariant holds in every reachable state.
LEMMA InvHolds == Spec => []IInv
BY InitInv, NextInv, PTL DEF Spec

\* Every variable of the watchdog and of the tables it reads keeps its type.
THEOREM WatchdogTypeOK == Spec => []TypeOK
<1>1. IInv => TypeOK
  BY DEF IInv
<1>2. QED
  BY <1>1, InvHolds, PTL

\* A silence is reported once, plus once for each boot whose seeding snapshot
\* failed, for any number of devices, restarts and failed snapshots.
THEOREM WatchdogOneWarn == Spec => []OneWarnPerOutage
<1>1. IInv => OneWarnPerOutage
  BY DEF IInv, WarnsCounted, OneWarnPerOutage
<1>2. QED
  BY <1>1, InvHolds, PTL

\* A step of run() that warns about a device finds it registered and silent for
\* DARK_SECS at that moment.
THEOREM WatchdogTruthful == Spec => OnlySilentDevicesWarned
<1> DEFINE Truthful == \A d \in DeviceIds : warns'[d] > warns[d] =>
                         status[d] \in Statuses /\ IsDark(d)
<1>1. ASSUME IInv, [Next]_vars PROVE [Truthful]_vars
  <2> SUFFICES ASSUME NEW d \in DeviceIds, warns'[d] > warns[d]
               PROVE  status[d] \in Statuses /\ IsDark(d)
    OBVIOUS
  <2>1. TypeOK /\ ReadingPast
    BY <1>1 DEF IInv
  <2>2. Report
    BY <1>1, <2>1
       DEF Next, TypeOK, vars, store, task, Advance, Register, SetStatus,
           StampUplink, StoreUplink, Boot, Wake, ReadDevices, Seed, SeedFails,
           ReportFails, Crash
  <2>3. d \in DarkNow
    BY <2>1, <2>2 DEF Report, TypeOK
  <2>4. devs[d] \in Statuses /\ last[d] \in Nat /\ last[d] + DARK_SECS <= at
    BY <2>1, <2>3, DarkCharacterised DEF DarkNow, TypeOK
  <2>5. QED
    BY <2>1, <2>2, <2>4, FleetAssumption
       DEF ReadingPast, Report, IsDark, TypeOK
<1>2. QED
  BY <1>1, InvHolds, PTL DEF Spec, OnlySilentDevicesWarned

-----------------------------------------------------------------------------
(***************************************************************************)
(* Detection is timely.                                                    *)
(***************************************************************************)

\* Where the clock is between two deadlines: the last tick was no earlier than
\* an interval before the next one, which is at most Slack seconds overdue.
ClockNearDeadline ==
  pc # "off" =>
    /\ deadline <= now + INTERVAL
    /\ now <= deadline + Slack
    /\ pc \in {"list", "latest"} => deadline <= at + INTERVAL

\* A snapshot has seen each device that was registered before it began.
ListComplete ==
  pc = "latest" =>
    \A d \in DeviceIds : status[d] \in Statuses /\ touched[d] < at => devs[d] \in Statuses

\* known_dark is right about d at some reading of the clock less than back
\* seconds before the deadline, unless the tables changed for d, or a snapshot
\* failed or the watchdog booted, within that time.
KnownRight(d, back) ==
  /\ status[d] \in Statuses
  /\ touched[d] + back < deadline
  /\ steadySince + back < deadline
  => \E a \in Nat :
       /\ a <= now
       /\ deadline <= a + back
       /\ d \in knownDark <=> last[d] \in Nat /\ last[d] + DARK_SECS <= a

\* Between two ticks known_dark is the result of the last one; while a snapshot
\* is being taken, of the one before.
KnownTimely ==
  \A d \in DeviceIds :
    /\ pc = "sleep" => KnownRight(d, INTERVAL)
    /\ pc \in {"list", "latest"} => KnownRight(d, INTERVAL + INTERVAL)

TimelyInv == ClockNearDeadline /\ ListComplete /\ KnownTimely

\* Nothing is known at the start, when the watchdog is not running.
LEMMA InitTimely == Init => TimelyInv
BY DEF Init, TimelyInv, ClockNearDeadline, ListComplete, KnownTimely

\* The clock stays near the deadline.
LEMMA ClockStep == IInv /\ ClockNearDeadline /\ [Next]_vars => ClockNearDeadline'
<1> SUFFICES ASSUME IInv, ClockNearDeadline, [Next]_vars PROVE ClockNearDeadline'
  OBVIOUS
<1> USE WatchdogAssumption DEF IInv, TypeOK, ReadingPast, ClockNearDeadline
<1>1. CASE Advance
  BY <1>1 DEF Advance, task
<1>2. CASE Boot
  BY <1>2 DEF Boot
<1>3. CASE Wake
  BY <1>3 DEF Wake
<1>4. CASE ReadDevices
  BY <1>4 DEF ReadDevices
<1>5. CASE Seed \/ Report \/ SeedFails \/ ReportFails
  BY <1>5 DEF Seed, Report, SeedFails, ReportFails, EndSnapshot
<1>6. CASE Crash
  BY <1>6 DEF Crash
<1>7. CASE UNCHANGED <<now, task>>
  BY <1>7 DEF task
<1>8. QED
  BY <1>1, <1>2, <1>3, <1>4, <1>5, <1>6, <1>7
     DEF Next, vars, Register, StampUplink, SetStatus, StoreUplink

\* The list of a snapshot stays complete: a device registered meanwhile was
\* touched after it began.
LEMMA ListStep == IInv /\ ListComplete /\ [Next]_vars => ListComplete'
<1> SUFFICES ASSUME IInv, ListComplete, [Next]_vars PROVE ListComplete'
  OBVIOUS
<1> USE DEF IInv, TypeOK, ReadingPast, ListComplete
<1>1. ASSUME NEW d \in DeviceIds, Register(d) PROVE ListComplete'
  BY <1>1 DEF Register, task
<1>2. ASSUME NEW d \in DeviceIds, NEW s \in Statuses, SetStatus(d, s)
      PROVE  ListComplete'
  BY <1>2 DEF SetStatus, task
<1>3. ASSUME NEW d \in DeviceIds, NEW stamp \in inflight[d], StoreUplink(d, stamp)
      PROVE  ListComplete'
  BY <1>3 DEF StoreUplink, task
<1>4. ASSUME NEW d \in DeviceIds, StampUplink(d) PROVE ListComplete'
  BY <1>4 DEF StampUplink, task
<1>5. CASE ReadDevices
  BY <1>5 DEF ReadDevices, store
<1>6. CASE Advance \/ UNCHANGED vars
  BY <1>6 DEF Advance, vars, store, task
<1>7. CASE Boot \/ Wake \/ Seed \/ Report \/ SeedFails \/ ReportFails \/ Crash
  BY <1>7 DEF Boot, Wake, Seed, Report, SeedFails, ReportFails, EndSnapshot, Crash
<1>8. QED
  BY <1>1, <1>2, <1>3, <1>4, <1>5, <1>6, <1>7 DEF Next

\* known_dark stays right.
LEMMA KnownStep ==
  IInv /\ IInv' /\ TimelyInv /\ [Next]_vars => KnownTimely'
<1> SUFFICES ASSUME IInv, IInv', TimelyInv, [Next]_vars, NEW d \in DeviceIds
             PROVE  /\ pc' = "sleep" => KnownRight(d, INTERVAL)'
                    /\ pc' \in {"list", "latest"} => KnownRight(d, INTERVAL + INTERVAL)'
  BY DEF KnownTimely
<1> DEFINE Goal == /\ pc = "sleep" => KnownRight(d, INTERVAL)
                   /\ pc \in {"list", "latest"} => KnownRight(d, INTERVAL + INTERVAL)
<1>a. /\ Goal /\ ClockNearDeadline /\ ListComplete /\ ReadingPast
      /\ now \in Nat /\ deadline \in Nat /\ at \in Nat /\ INTERVAL \in Nat /\ DARK_SECS \in Nat
      /\ steadySince \in Nat /\ touched \in [DeviceIds -> Nat]
      /\ status \in [DeviceIds -> Statuses \cup {"unregistered"}]
      /\ last \in [DeviceIds -> Instants]
      /\ now' \in Nat /\ deadline' \in Nat /\ steadySince' \in Nat
      /\ touched' \in [DeviceIds -> Nat]
  BY WatchdogAssumption, FleetAssumption DEF TimelyInv, KnownTimely, IInv, TypeOK
<1> SUFFICES Goal'
  OBVIOUS
<1>1. CASE Advance
  BY <1>a, <1>1 DEF Advance, task, store, KnownRight
<1>2. ASSUME NEW e \in DeviceIds, Register(e) PROVE Goal'
  BY <1>a, <1>2 DEF Register, task, KnownRight, ClockNearDeadline
<1>3. ASSUME NEW e \in DeviceIds, StampUplink(e) PROVE Goal'
  BY <1>a, <1>3 DEF StampUplink, task, KnownRight
<1>4. ASSUME NEW e \in DeviceIds, NEW s \in Statuses, SetStatus(e, s) PROVE Goal'
  BY <1>a, <1>4 DEF SetStatus, task, KnownRight
<1>5. ASSUME NEW e \in DeviceIds, NEW stamp \in inflight[e], StoreUplink(e, stamp)
      PROVE  Goal'
  BY <1>a, <1>5 DEF StoreUplink, task, KnownRight, ClockNearDeadline
<1>6. CASE Boot
  BY <1>a, <1>6 DEF Boot, KnownRight
<1>7. CASE Wake
  BY <1>a, <1>7 DEF Wake, store, KnownRight
<1>8. CASE ReadDevices
  BY <1>a, <1>8 DEF ReadDevices, store, KnownRight
<1>9. CASE Seed \/ Report
  <2>1. /\ pc = "latest" /\ pc' = "sleep" /\ knownDark' = DarkNow
        /\ UNCHANGED <<now, store, deadline, steadySince>>
    BY <1>9 DEF Seed, Report, EndSnapshot
  <2>2. d \in DarkNow <=> /\ devs[d] \in Statuses
                          /\ last[d] \in Nat
                          /\ last[d] + DARK_SECS <= at
    BY DarkCharacterised DEF DarkNow, IInv, TypeOK
  <2>3. SUFFICES ASSUME status[d] \in Statuses, touched[d] + INTERVAL < deadline
                 PROVE  \E a \in Nat :
                          /\ a <= now
                          /\ deadline <= a + INTERVAL
                          /\ d \in DarkNow <=> last[d] \in Nat /\ last[d] + DARK_SECS <= a
    BY <2>1 DEF KnownRight, store
  <2>4. at <= now /\ deadline <= at + INTERVAL
    BY <1>a, <2>1 DEF ReadingPast, ClockNearDeadline
  <2>5. touched[d] < at
    BY <1>a, <2>3, <2>4
  <2>6. devs[d] \in Statuses
    BY <1>a, <2>1, <2>3, <2>5 DEF ListComplete
  <2>7. QED
    BY <1>a, <2>2, <2>4, <2>6
<1>10. CASE SeedFails \/ ReportFails
  <2>1. pc # "off" /\ pc' = "sleep" /\ steadySince' = now /\ deadline' = deadline
    BY <1>10 DEF SeedFails, ReportFails, EndSnapshot
  <2>2. ~ (steadySince' + INTERVAL < deadline')
    BY <1>a, <2>1 DEF ClockNearDeadline
  <2>3. QED
    BY <2>1, <2>2 DEF KnownRight
<1>11. CASE Crash
  BY <1>11 DEF Crash
<1>12. CASE UNCHANGED vars
  BY <1>a, <1>12 DEF vars, store, task, KnownRight
<1>13. QED
  BY <1>1, <1>2, <1>3, <1>4, <1>5, <1>6, <1>7, <1>8, <1>9, <1>10, <1>11, <1>12
     DEF Next

\* SettledSince is no earlier than any of the instants it is the latest of.
LEMMA SettledLatest ==
  ASSUME TypeOK, NEW d \in DeviceIds
  PROVE  /\ SettledSince(d) \in Nat
         /\ touched[d] <= SettledSince(d)
         /\ steadySince <= SettledSince(d)
         /\ IsDark(d) => last[d] + DARK_SECS <= SettledSince(d)
<1> DEFINE crossed == IF IsDark(d) THEN last[d] + DARK_SECS ELSE 0
           times == {crossed, touched[d], steadySince}
<1>1. crossed \in Nat /\ touched[d] \in Nat /\ steadySince \in Nat
  BY FleetAssumption DEF TypeOK, Instants, IsDark
<1>2. SettledSince(d) = CHOOSE m \in times : \A x \in times : x <= m
  BY DEF SettledSince
<1>3. IsDark(d) => crossed = last[d] + DARK_SECS
  OBVIOUS
<1> HIDE DEF crossed
<1>4. \E m \in times : \A x \in times : x <= m
  BY <1>1
<1> HIDE DEF times
<1>5. SettledSince(d) \in times /\ \A x \in times : x <= SettledSince(d)
  BY <1>2, <1>4, Zenon
<1> USE DEF times
<1>6. QED
  BY <1>1, <1>3, <1>5

\* A device that has been dark, or not, for two intervals and the slack is in
\* known_dark, or not, if no snapshot failed meanwhile: for every interval and
\* threshold, and however late ticks and slow snapshots are within the slack.
THEOREM WatchdogDetects == Spec => []DetectionBound
<1>1. IInv /\ TimelyInv /\ [Next]_vars => TimelyInv'
  BY ClockStep, ListStep, KnownStep, NextInv DEF TimelyInv
<1>2. IInv /\ TimelyInv => DetectionBound
  <2> SUFFICES ASSUME IInv, TimelyInv, pc # "off", NEW d \in DeviceIds,
                      status[d] \in Statuses,
                      now - SettledSince(d) > 2 * INTERVAL + Slack
               PROVE  d \in knownDark <=> IsDark(d)
    BY DEF DetectionBound
  <2>1. TypeOK
    BY DEF IInv
  <2>2. /\ SettledSince(d) \in Nat
        /\ touched[d] <= SettledSince(d) /\ steadySince <= SettledSince(d)
        /\ IsDark(d) => last[d] + DARK_SECS <= SettledSince(d)
    BY <2>1, SettledLatest
  <2>3. /\ now \in Nat /\ deadline \in Nat /\ touched[d] \in Nat /\ steadySince \in Nat
        /\ INTERVAL \in Nat /\ Slack \in Nat /\ DARK_SECS \in Nat
        /\ last[d] \in Nat \cup {Never} /\ Never \notin Nat
        /\ now <= deadline + Slack
    BY <2>1, WatchdogAssumption, FleetAssumption
       DEF TypeOK, TimelyInv, ClockNearDeadline, Instants
  <2>4. \E a \in Nat :
          /\ a <= now
          /\ deadline <= a + INTERVAL + INTERVAL
          /\ d \in knownDark <=> last[d] \in Nat /\ last[d] + DARK_SECS <= a
    <3>1. /\ touched[d] + INTERVAL + INTERVAL < deadline
          /\ steadySince + INTERVAL + INTERVAL < deadline
      BY <2>2, <2>3
    <3>2. KnownRight(d, INTERVAL) \/ KnownRight(d, INTERVAL + INTERVAL)
      BY <2>1 DEF TimelyInv, KnownTimely, TypeOK
    <3>3. QED
      BY <2>3, <3>1, <3>2 DEF KnownRight
  <2>5. QED
    BY <2>2, <2>3, <2>4 DEF IsDark
<1>3. QED
  BY <1>1, <1>2, InitTimely, InvHolds, PTL DEF Spec
=============================================================================
