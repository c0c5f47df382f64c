---------------------------- MODULE MonitorState ----------------------------
(***************************************************************************)
(* The pure decision at the heart of the monitor worker: how the result    *)
(* of one check moves a monitor between PENDING, UP and DOWN, and when the *)
(* owner is told (src/backend/workers/monitorWorker.js).                   *)
(***************************************************************************)
EXTENDS Naturals

CONSTANT FailureThreshold   \* FAILURE_THRESHOLD, 3 in the source

ASSUME ThresholdAssumption == FailureThreshold \in Nat \ {0}

Statuses == {"PENDING", "UP", "DOWN"}

\* Mutant: a success takes one failure off instead of clearing them.
CountDown(monitor, isSuccess) ==
  [nextFailureCount |-> IF isSuccess THEN monitor.failureCount - 1
                        ELSE monitor.failureCount + 1,
   nextStatus |-> IF isSuccess THEN "UP"
                  ELSE IF monitor.failureCount + 1 >= FailureThreshold THEN "DOWN"
                  ELSE monitor.status]

\* Mutant: one failure more than the threshold is needed.
ConfirmLate(monitor, isSuccess) ==
  [nextFailureCount |-> IF isSuccess THEN 0 ELSE monitor.failureCount + 1,
   nextStatus |-> IF isSuccess THEN "UP"
                  ELSE IF monitor.failureCount >= FailureThreshold THEN "DOWN"
                  ELSE monitor.status]

\* Mutant: a monitor that was confirmed DOWN never recovers.
StayDown(monitor, isSuccess) ==
  [nextFailureCount |-> IF isSuccess THEN 0 ELSE monitor.failureCount + 1,
   nextStatus |-> IF monitor.status = "DOWN" THEN "DOWN"
                  ELSE IF isSuccess THEN "UP"
                  ELSE IF monitor.failureCount + 1 >= FailureThreshold THEN "DOWN"
                  ELSE monitor.status]

\* The next failure count and status of a monitor after a check.
calculateMonitorState(monitor, isSuccess) ==
  LET nextFailureCount == IF isSuccess THEN 0 ELSE monitor.failureCount + 1
  IN [nextFailureCount |-> nextFailureCount,
      nextStatus |-> IF isSuccess THEN "UP"
                     ELSE IF nextFailureCount >= FailureThreshold THEN "DOWN"
                     ELSE monitor.status]

\* Mutant: recoveries are not told.
OnlyOutages(previousStatus, nextStatus) == nextStatus = "DOWN"

\* Whether a change of status is one the owner hears about.
shouldSendStatusAlert(previousStatus, nextStatus) ==
  \/ nextStatus = "DOWN"
  \/ previousStatus = "DOWN" /\ nextStatus = "UP"

\* Mutant: the statusChanged test is gone, every DOWN check alerts again.
EveryDownIsTold(previousStatus, nextStatus) ==
  shouldSendStatusAlert(previousStatus, nextStatus)

\* Whether the step from previousStatus to nextStatus produces an alert.
ChangeIsTold(previousStatus, nextStatus) ==
  /\ previousStatus # nextStatus
  /\ shouldSendStatusAlert(previousStatus, nextStatus)
=============================================================================
