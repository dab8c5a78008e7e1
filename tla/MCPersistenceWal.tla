------------------------- MODULE MCPersistenceWal --------------------------
(* Small instances of the write-ahead log for TLC. *)
EXTENDS PersistenceWal, TLC

CONSTANTS t1, t2

OneTask == {t1}
TwoTasks == {t1, t2}
TaskSymmetry == Permutations(TwoTasks)

NoFailures == {}
Recoverable == {"append", "marker", "compact", "boot"}
AllFailures == FaultKinds
Lost == {"vanish"}
MarkerRemoved == {"reset"}
GuardedFailures == {"append", "fatal", "compact", "boot"}
CutToNothing == {"empty"}
=============================================================================
