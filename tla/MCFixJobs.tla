----------------------------- MODULE MCFixJobs ----------------------------
(***************************************************************************)
(* A small repository for TLC: two root scans whose fixes were asked for   *)
(* on one branch, two fixers and one request at a time.                    *)
(***************************************************************************)
EXTENDS FixJobs, TLC

CONSTANTS o1, o2, w1, w2, c1

MCOrigins == {o1, o2}
MCWorkers == {w1, w2}
MCClients == {c1}
Symmetric == Permutations(MCWorkers)
SharedBranch == [o \in MCOrigins |-> "branch"]
TwoEnds == {[status |-> "awaiting_push", pushed |-> FALSE],
            [status |-> "push_failed", pushed |-> TRUE]}
=============================================================================
