------------------------------- MODULE Fleet --------------------------------
(***************************************************************************)
(* Fleet health (endpoint/src/fleet.rs): how stale a device is, and the    *)
(* snapshot that joins the device list with the latest uplinks.  An        *)
(* instant is a number of seconds.  received_at always comes from          *)
(* now_rfc3339, so it parses and "unknown" means no uplink.                *)
(***************************************************************************)
EXTENDS Naturals, FiniteSets

CONSTANTS
  DeviceIds,    \* device identifiers
  FRESH_SECS,   \* below this age a device is fresh
  DARK_SECS,    \* below this age it is stale, from this age on dark
  Never         \* last_uplink of a device that has not uplinked

ASSUME FleetAssumption ==
  /\ FRESH_SECS \in Nat
  /\ DARK_SECS \in Nat
  /\ 0 < FRESH_SECS
  /\ FRESH_SECS < DARK_SECS
  /\ Never \notin Nat

Instants == Nat \cup {Never}

Statuses == {"active", "inactive"}

Staleness == {"fresh", "stale", "dark", "unknown"}

\* Mutant: now_unix.wrapping_sub(at), which is huge for a later at.
AgeWrapping(at, now) == IF at <= now THEN now - at ELSE 2 ^ 30 - (at - now)

\* now_unix.saturating_sub(at): an uplink stored after the clock was read has
\* age 0.
Age(at, now) == IF at <= now THEN now - at ELSE 0

StalenessOf(last, now) ==
  CASE last = Never                                      -> "unknown"
    [] last # Never /\ Age(last, now) < FRESH_SECS       -> "fresh"
    [] last # Never /\ Age(last, now) >= FRESH_SECS
                    /\ Age(last, now) < DARK_SECS        -> "stale"
    [] last # Never /\ Age(last, now) >= DARK_SECS       -> "dark"

\* devs gives the status of every registered device, latest the instant of the
\* newest uplink of every device: uplinks of unregistered ones are left out.
Snapshot(devs, latest, now) ==
  {[device_id |-> d, status |-> devs[d], last_uplink |-> latest[d],
    staleness |-> StalenessOf(latest[d], now)] :
      d \in {e \in DeviceIds : devs[e] \in Statuses}}

DarkIn(fleet) == {f.device_id : f \in {g \in fleet : g.staleness = "dark"}}

=============================================================================
