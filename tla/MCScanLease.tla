----------------------------- MODULE MCScanLease -----------------------------
(* Small instances of ScanLease: two claim-loop slots, two attempts. *)
EXTENDS ScanLease, TLC

CONSTANTS w1, w2

MCWorkers == {w1, w2}
Symmetric == Permutations(MCWorkers)

\* A process may freeze anywhere, or anywhere but before it has its token.
AnyPhase   == Phases
AfterFence == Phases \ {"idle", "claimed", "loaded", "started"}

\* While the tools run, while a callback holds a copy, before the last write.
WhileRunning == {"scanning", "updating", "completing"}
NoPhase    == {}
=============================================================================
