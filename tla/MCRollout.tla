------------------------------ MODULE MCRollout ----------------------------
(* Small instances of Rollout: a canary and the stable cohort, two controllers. *)
EXTENDS Rollout

CONSTANTS w1, w2

MCControllers == {w1, w2}

Shape(prior, automatic, valid, override) ==
  [prior |-> prior, automatic |-> automatic, valid |-> valid, override |-> override]

\* PromoteRelease stores the policy's row instead of its rules, which the
\* controller refuses; the others are snapshots the controller reads: one with
\* a release to go back to, and the first rollout of a target, until a date.
Promoted  == {Shape(TRUE, FALSE, FALSE, FALSE), Shape(FALSE, FALSE, FALSE, FALSE)}
Automatic == Shape(TRUE, TRUE, TRUE, FALSE)
FirstOne  == Shape(FALSE, TRUE, TRUE, TRUE)
MCSnapshots == Promoted \cup {Automatic, FirstOne}
JustAutomatic == {Automatic}
=============================================================================
