------------------------- MODULE MCMonitorSchedules -------------------------
(* Small instances of MonitorSchedules for TLC. *)
EXTENDS MonitorSchedules, TLC

CONSTANTS r1, r2, w1, w2, m1, m2, m3, i1, i2

NoOne == {}
OneReq == {r1}
TwoReqs == {r1, r2}
OneWorker == {w1}
TwoWorkers == {w1, w2}
TwoMonitors == {m1, m2}
ThreeMonitors == {m1, m2, m3}
OneMonitor == {m1}
TwoIntervals == {i1, i2}
OneInterval == {i1}
NoFaults == {}
RedisOnly == {"redis"}
AnyFault == {"redis", "mongo", "crash"}

Symmetry ==
  Permutations(TwoReqs) \cup Permutations(ThreeMonitors) \cup Permutations(TwoIntervals)
=============================================================================
