------------------------- MODULE MCTelegramPolling --------------------------
(* Small instances of TelegramPolling for TLC. *)
EXTENDS TelegramPolling, TLC

CONSTANTS p1, p2, u1, u2, c1, t1, t2

TwoProcs == {p1, p2}
OneUser == {u1}
TwoUsers == {u1, u2}
OneChat == {c1}
OneToken == {t1}
TwoTokens == {t1, t2}
LeaseCrashMongo == {"lease", "crash", "mongo"}
AnyButLease == {"mongo", "redis", "telegram", "crash", "stop"}

Symmetry ==
  Permutations(TwoProcs) \cup Permutations(TwoTokens)
    \cup Permutations(TwoUsers)
=============================================================================
