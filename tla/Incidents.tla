------------------------------ MODULE Incidents ------------------------------
(***************************************************************************)
(* What the monitor worker promises about each monitor, with no workers,   *)
(* locks, retries or database in sight: a streak of consecutive failures   *)
(* is counted, the monitor is DOWN exactly from the failure that completes *)
(* a streak of FailureThreshold until the next success, and one check at a *)
(* time moves it.  MonitorCheck is shown to implement this specification.  *)
(***************************************************************************)
EXTENDS Naturals

CONSTANTS Monitors,          \* the monitors that exist at the start
          FailureThreshold   \* failures in a row that confirm an incident

VARIABLE health              \* health[m]: the state of a monitor, see below

Health == [status : {"PENDING", "UP", "DOWN", "REMOVED"},
           streak : Nat, sinceKnown : BOOLEAN]

State(status, streak, sinceKnown) ==
  [status |-> status, streak |-> streak, sinceKnown |-> sinceKnown]

New == State("PENDING", 0, FALSE)

Removed == State("REMOVED", 0, FALSE)

TypeOK == health \in [Monitors -> Health]

Init == health = [m \in Monitors |-> New]

Watched(m) == health[m].status # "REMOVED"

\* A successful check ends any streak and any incident.
Succeed(m) ==
  /\ Watched(m)
  /\ health' = [health EXCEPT ![m] = State("UP", 0, FALSE)]

\* A failure that does not complete a streak of FailureThreshold.
Tolerate(m) ==
  /\ Watched(m)
  /\ health[m].streak + 1 < FailureThreshold
  /\ health' = [health EXCEPT ![m] = State(@.status, @.streak + 1, @.sinceKnown)]

\* The failure that completes the streak opens the incident.
Confirm(m) ==
  /\ Watched(m)
  /\ health[m].streak + 1 = FailureThreshold
  /\ health[m].status # "DOWN"
  /\ health' = [health EXCEPT ![m] = State("DOWN", FailureThreshold, TRUE)]

\* Further failures of an open incident only lengthen the streak.
Persist(m) ==
  /\ Watched(m)
  /\ health[m].status = "DOWN"
  /\ health[m].streak >= FailureThreshold
  /\ health' = [health EXCEPT ![m] = State(@.status, @.streak + 1, @.sinceKnown)]

\* The owner deletes the monitor; it never comes back.
Remove(m) ==
  /\ Watched(m)
  /\ health' = [health EXCEPT ![m] = Removed]

Next == \E m \in Monitors :
          Succeed(m) \/ Tolerate(m) \/ Confirm(m) \/ Persist(m) \/ Remove(m)

Spec == Init /\ [][Next]_health
==============================================================================
