--------------------------- MODULE MCCheckHistory ---------------------------
(* Small instances of CheckHistory for TLC. *)
EXTENDS CheckHistory

CONSTANTS m1, r1, r2

OneMonitor == {m1}
TwoReqs == {r1, r2}
=============================================================================
