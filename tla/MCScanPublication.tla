------------------------- MODULE MCScanPublication -------------------------
(* Instance of ScanPublication with three members, in the order of their   *)
(* severity: the ignore policy matches the first and the rule the second,  *)
(* so that a change of the rule can move the primary to the third and      *)
(* back, and the first two can be hidden for a reason each.                *)
EXTENDS ScanPublication

CONSTANTS vendored, severe, minor

MCMembers == {vendored, severe, minor}
MCSeverity == [m \in MCMembers |-> IF m = vendored THEN 3 ELSE IF m = severe THEN 2 ELSE 1]
MCCovered == {severe}
MCIgnored == {vendored}

(* Revisions only grow and are only compared for equality: the number      *)
(* itself, and what an earlier one was evaluated to, have no effect on     *)
(* what follows, so states that differ in them are one.                    *)
Stale(snap) == snap.rev # row.rev
Live(snap) == IF Stale(snap) THEN NoSnapshot ELSE [snap EXCEPT !.rev = 1]

(* Nor has the memory of an executor whose remaining steps are refused: a  *)
(* lease that is lost never comes back, nor does a revision.               *)
Refused(n) ==
  \/ exec[n].pc \in Working /\ ~Owned(n) /\ ~(Import /\ At(n, "insert"))
  \/ At(n, "upsert") /\ Stale(exec[n].snap)

MCView ==
  <<kind, [row EXCEPT !.rev = 0], cluster, Live(gate), rule, ruleTx, missed, reopened,
    [n \in Attempts |-> IF Refused(n) THEN Off ELSE [exec[n] EXCEPT !.snap = Live(@)]],
    Live(reader), changes, faults>>

=============================================================================
