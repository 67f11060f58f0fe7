-------------------------- MODULE MCReleaseBuild ---------------------------
(***************************************************************************)
(* A plan of two steps for TLC: an image is built, then judged.            *)
(***************************************************************************)
EXTENDS ReleaseBuild, TLC

CONSTANTS w1, w2, image, policy

MCWorkers == {w1, w2}
MCSteps == {image, policy}
Chain == [s \in MCSteps |-> IF s = policy THEN {image} ELSE {}]
Symmetric == Permutations(MCWorkers)

(* Tokens and versions only grow, and are compared with the present ones   *)
(* alone: one that a worker holds and that is behind stays behind, so only *)
(* whether they are equal has an effect on what follows.  Nor have the     *)
(* lease of an ended build, the steps of one that failed and that nobody    *)
(* holds, and what a worker remembers of a stage that is over.  Workers    *)
(* are told apart by what they hold.                                       *)
BuildView(b) ==
  IF builds[b].state \in Terminal THEN builds[b].state
  ELSE <<builds[b].state, builds[b].cancel, b \in fresh>>

Abandoned(b) ==
  builds[b].state \in {"failed", "cancelled"} /\ \A w \in Workers : held[w].b # b
StepsView(b) ==
  IF Abandoned(b) THEN <<>> ELSE [s \in Steps |-> [steps[b][s] EXCEPT !.ver = 0]]

InStep == {"step", "begin", "exec", "result", "evidence", "finish", "cancelstep"}
RecView(h) ==
  IF h.pc \notin InStep THEN <<>>
  ELSE <<h.step, [h.rec EXCEPT !.ver = 0], h.rec.att = steps[h.b][h.step].att,
         h.rec.ver = steps[h.b][h.step].ver>>

HeldView(h) ==
  IF h.pc = "idle" THEN <<>>
  ELSE <<h.pc, h.b, h.cause, h.end,
         h.token = builds[h.b].token,
         h.pc \in {"start", "write"} => h.ver = builds[h.b].ver,
         IF h.pc \in {"lease", "start", "mark"} THEN <<h.seen, h.cver = cand.ver>> ELSE <<>>,
         h.pc \in {"failing", "blocking", "refusing"} => h.cver = cand.ver,
         RecView(h),
         IF h.pc \in {"result", "evidence", "finish", "record"} THEN h.out ELSE "none">>

MCView ==
  <<[cand EXCEPT !.ver = 0],
    IF retry = 0 THEN "none" ELSE IF retry = cand.ver THEN "current" ELSE "overtaken",
    [b \in DOMAIN builds |-> <<BuildView(b), StepsView(b)>>],
    [v \in {HeldView(held[w]) : w \in Workers} |->
       Cardinality({w \in Workers : HeldView(held[w]) = v})],
    cancels, faults>>
=============================================================================
