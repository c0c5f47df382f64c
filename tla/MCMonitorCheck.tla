--------------------------- MODULE MCMonitorCheck ---------------------------
(* Small instances of MonitorCheck for TLC. *)
EXTENDS MonitorCheck, TLC

CONSTANTS s1, s2, m1, c1, c2

TwoSlots == {s1, s2}
OneMonitor == {m1}
TwoCodes == {c1, c2}
OneCode == {c1}

AllButLease == {"crash", "mongo", "redis", "telegram"}
LeaseOnly == {"lease"}

SlotSymmetry == Permutations(TwoSlots)
=============================================================================
