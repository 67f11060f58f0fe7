---------------------------- MODULE ReleaseBuild ---------------------------
(***************************************************************************)
(* A scanner release candidate, its build attempts and the workers that    *)
(* run them.                                                               *)
(*                                                                         *)
(* src/internal/db/scannerrelease_repository.go holds the rows: every      *)
(* state change is a transaction that compares the version that was read   *)
(* and refuses a command key already used with another outcome.  The       *)
(* worker (src/internal/scannerreleaseworker/worker.go) takes many such    *)
(* transactions under a lease it renews before most of them; one action    *)
(* here is one transaction, or the last check before it.  The requests of  *)
(* the operator are in src/internal/api/routes/scanner_supply_chain.go.    *)
(*                                                                         *)
(* The plan is run one step at a time (max-parallel-steps 1), and what an  *)
(* executor does inside a step is its outcome.  A write of the candidate,  *)
(* and the read right before it that gives it its version, is one action.  *)
(***************************************************************************)
EXTENDS Naturals, Sequences, FiniteSets

CONSTANTS
  Workers,
  Steps,           \* the steps of the build plan
  Needs,           \* Needs[s]: the steps s depends on
  PolicyStep,      \* the step that evaluates the release policy
  Decisions,       \* the decisions the evaluation may reach in this instance
  None,            \* no step
  MaxStepAttempts,
  MaxBuilds,       \* bound on the build attempts of the candidate
  MaxCancels,      \* bound on the cancellations an operator asks for
  MaxFaults        \* bound on crashes, suspensions and failing local calls

Outcomes == {"blocked", "awaiting_approval", "auto_approved"}

ASSUME ReleaseAssumption ==
  /\ PolicyStep \in Steps /\ None \notin Steps
  /\ Needs \in [Steps -> SUBSET Steps]
  /\ Decisions \subseteq Outcomes
  /\ MaxStepAttempts \in Nat \ {0} /\ MaxBuilds \in Nat \ {0}
  /\ MaxCancels \in Nat /\ MaxFaults \in Nat

VARIABLES
  cand,      \* the candidate row and the command keys of its events
  builds,    \* the build attempts of the candidate, in order
  steps,     \* steps[b][s]: the latest attempt of step s of build b
  fresh,     \* the builds whose lease has not expired
  claims,    \* number of claims made: the value of the newest lease token
  held,      \* what each worker believes it is doing
  retry,     \* a retry request between its two transactions
  cancels, faults

vars == <<cand, builds, steps, fresh, claims, held, retry, cancels, faults>>

Active == {"claimed", "running"}
Terminal == {"completed", "failed", "cancelled"}
CandidateTerminal == {"rejected", "failed", "published"}

NewBuild == [state |-> "queued", ver |-> 1, token |-> 0, cancel |-> FALSE]
NewStep == [state |-> "queued", att |-> 1, ver |-> 1, out |-> "none"]
NewPlan == [s \in Steps |-> NewStep]
Idle == [pc |-> "idle", b |-> 0, token |-> 0, ver |-> 0, seen |-> "none", cver |-> 0,
         step |-> None, rec |-> NewStep, out |-> "none", cause |-> "none", end |-> "none"]

-----------------------------------------------------------------------------
(* Transactions on the rows                                                *)

CandidateMoves ==
  [queued |-> {"building", "blocked", "rejected", "failed"},
   building |-> {"testing", "blocked", "failed"},
   testing |-> {"security_review", "blocked", "failed"},
   security_review |-> {"awaiting_approval", "blocked", "rejected", "failed"},
   awaiting_approval |-> {"approved", "rejected", "blocked", "failed"},
   approved |-> {"failed"},
   blocked |-> {"queued", "rejected", "failed"},
   rejected |-> {}, failed |-> {}]

BuildMoves ==
  [queued |-> {"cancelled", "failed"},
   claimed |-> {"running", "cancelled", "failed"},
   running |-> {"completed", "failed", "cancelled"},
   completed |-> {}, failed |-> {}, cancelled |-> {}]

StepMoves == [BuildMoves EXCEPT !.queued = @ \cup {"running"}]

(* TransitionCandidate under a fresh key.                                  *)
MoveCandidate(to, keys) ==
  cand' = [cand EXCEPT !.state = to, !.ver = @ + 1, !.keys = @ \cup keys]
MayMoveCandidate(to) == to \in CandidateMoves[cand.state]

MayMoveBuild_NoVersion(b, ver, to) ==   \* mutant: the version is not compared
  to \in BuildMoves[builds[b].state] /\ (builds[b].cancel => to = "cancelled")

(* TransitionBuildRun: a cancelled build can only become cancelled.        *)
MayMoveBuild(b, ver, to) ==
  /\ builds[b].ver = ver
  /\ to \in BuildMoves[builds[b].state]
  /\ builds[b].cancel => to = "cancelled"

MovedBuild(row, to) ==
  [row EXCEPT !.state = to, !.ver = @ + 1, !.token = IF to \in Terminal THEN 0 ELSE @]
MoveBuild(b, to) == builds' = [builds EXCEPT ![b] = MovedBuild(@, to)]

MayMoveStep(b, s, rec, to) ==
  /\ steps[b][s].att = rec.att /\ steps[b][s].ver = rec.ver
  /\ to \in StepMoves[steps[b][s].state]

SetStep(b, s, step) == steps' = [steps EXCEPT ![b][s] = step]

(* HeartbeatBuildRun: the lease is the worker's and has not expired.       *)
Current(w) ==
  /\ builds[held[w].b].state \in Active
  /\ builds[held[w].b].token = held[w].token
  /\ held[w].b \in fresh

-----------------------------------------------------------------------------
Init ==
  /\ cand = [state |-> "queued", ver |-> 1, policy |-> "none", keys |-> {}]
  /\ builds = <<NewBuild>>
  /\ steps = <<NewPlan>>
  /\ fresh = {} /\ claims = 0
  /\ held = [w \in Workers |-> Idle]
  /\ retry = 0 /\ cancels = 0 /\ faults = 0

Fault == faults < MaxFaults /\ faults' = faults + 1

Step(w, pc) == held[w].pc = pc
Go(w, pc) == held' = [held EXCEPT ![w].pc = pc]
Leave(w) == held' = [held EXCEPT ![w] = Idle]
End(w, end) == held' = [held EXCEPT ![w].pc = "final", ![w].end = end]

(* checkLease: it goes on, the build is to be cancelled, or the lease is   *)
(* lost.  Once the monitor has cancelled the work every call fails.        *)
CheckLease(w, next) ==
  IF ~Current(w) \/ held[w].cause # "none" THEN Leave(w)
  ELSE IF builds[held[w].b].cancel THEN End(w, "cancelled")
  ELSE held' = [held EXCEPT ![w].pc = next, ![w].ver = builds[held[w].b].ver]

-----------------------------------------------------------------------------
(* Leases                                                                  *)

(* ReclaimStaleBuildRuns, the first thing a poll does.                     *)
Stale == {b \in DOMAIN builds : builds[b].state \in Active /\ b \notin fresh}

Reclaim(w) ==
  /\ Step(w, "idle") /\ Stale # {}
  /\ builds' = [b \in DOMAIN builds |->
                  IF b \notin Stale THEN builds[b]
                  ELSE [builds[b] EXCEPT !.state = IF builds[b].cancel THEN "cancelled" ELSE "queued",
                                         !.token = 0, !.ver = @ + 1]]
  /\ UNCHANGED <<cand, steps, fresh, claims, held, retry, cancels, faults>>

(* ClaimNextBuildRun.                                                      *)
Claimable(b) == builds[b].state = "queued" /\ ~builds[b].cancel

Claim(w) ==
  \E b \in DOMAIN builds :
    /\ Step(w, "idle")
    /\ Claimable(b) /\ \A a \in 1..(b - 1) : ~Claimable(a)
    /\ claims' = claims + 1
    /\ builds' = [builds EXCEPT ![b].state = "claimed", ![b].token = claims + 1, ![b].ver = @ + 1]
    /\ fresh' = fresh \cup {b}
    /\ held' = [held EXCEPT ![w] = [Idle EXCEPT !.pc = "load", !.b = b, !.token = claims + 1]]
    /\ UNCHANGED <<cand, steps, retry, cancels, faults>>

(* A lease runs out: its worker is gone, or was suspended.                 *)
Holder(b) == {w \in Workers : held[w].b = b /\ held[w].token = builds[b].token}

RunOut(b) ==
  /\ b \in fresh /\ builds[b].state \in Active
  /\ fresh' = fresh \ {b}
  /\ UNCHANGED <<cand, builds, steps, claims, held, retry, cancels>>

Expire(b) == Holder(b) = {} /\ RunOut(b) /\ UNCHANGED faults
Suspend(b) == Holder(b) # {} /\ RunOut(b) /\ Fault

(* A worker stops, at once or at the end of its drain time.                *)
Crash(w) ==
  /\ held[w].pc # "idle"
  /\ Fault /\ Leave(w)
  /\ UNCHANGED <<cand, builds, steps, fresh, claims, retry, cancels>>

-----------------------------------------------------------------------------
(* processClaim up to the plan                                             *)

(* validateCandidateSnapshot: the snapshot stands, or it does not and the  *)
(* build fails.                                                            *)
Load(w) ==
  /\ Step(w, "load")
  /\ \/ /\ held' = [held EXCEPT ![w].pc = "lease", ![w].seen = cand.state, ![w].cver = cand.ver]
        /\ UNCHANGED faults
     \/ Fault /\ End(w, "failed")
  /\ UNCHANGED <<cand, builds, steps, fresh, claims, retry, cancels>>

Lease(w) ==
  /\ Step(w, "lease")
  /\ CheckLease(w, "start")
  /\ UNCHANGED <<cand, builds, steps, fresh, claims, retry, cancels, faults>>

Start(w) ==
  LET b == held[w].b IN
  /\ Step(w, "start")
  /\ IF MayMoveBuild(b, held[w].ver, "running")
     THEN MoveBuild(b, "running") /\ Go(w, "mark")
     ELSE Leave(w) /\ UNCHANGED builds
  /\ UNCHANGED <<cand, steps, fresh, claims, retry, cancels, faults>>

(* markCandidateStarted compares the state the snapshot had.  A repeated   *)
(* command is accepted and changes nothing.                                *)
MarkStarted(w) ==
  /\ Step(w, "mark")
  /\ IF held[w].seen = "building" \/ (held[w].seen = "queued" /\ "build-started" \in cand.keys)
     THEN Go(w, "plan") /\ UNCHANGED cand
     ELSE IF held[w].seen = "queued" /\ cand.ver = held[w].cver /\ MayMoveCandidate("building")
     THEN Go(w, "plan") /\ MoveCandidate("building", {"build-started"})
     ELSE End(w, "refused") /\ UNCHANGED cand
  /\ UNCHANGED <<builds, steps, fresh, claims, retry, cancels, faults>>

-----------------------------------------------------------------------------
(* executePlan                                                             *)

Working == {"plan", "recover", "decide", "step", "begin", "exec", "result",
            "evidence", "finish", "record", "cancelstep"}

(* monitorLease runs beside the plan and cancels it with a cause.          *)
Monitor(w) ==
  /\ held[w].pc \in Working /\ held[w].cause = "none"
  /\ \/ ~Current(w) /\ held' = [held EXCEPT ![w].cause = "lost"]
     \/ /\ Current(w) /\ builds[held[w].b].cancel
        /\ held' = [held EXCEPT ![w].cause = "cancelled"]
  /\ UNCHANGED <<cand, builds, steps, fresh, claims, retry, cancels, faults>>

Plan(w) ==
  /\ Step(w, "plan")
  /\ CheckLease(w, "recover")
  /\ UNCHANGED <<cand, builds, steps, fresh, claims, retry, cancels, faults>>

(* A call of the worker that fails here fails the build: its workspace, a  *)
(* list of the steps, the evidence of a finished one.                      *)
LocalError(w) ==
  /\ held[w].pc \in {"recover", "record"}
  /\ Fault /\ End(w, "failed")
  /\ UNCHANGED <<cand, builds, steps, fresh, claims, retry, cancels>>

(* recoverOrRetrySteps: a running step keeps its attempt, a failed one     *)
(* that may be retried gets a new one.                                     *)
Retryable(step) ==
  step.state = "failed" /\ step.out # "unreconciled" /\ step.att < MaxStepAttempts

Recover(w) ==
  LET b == held[w].b IN
  /\ Step(w, "recover")
  /\ IF held[w].cause # "none" THEN Leave(w) /\ UNCHANGED steps
     ELSE /\ Go(w, "decide")
          /\ steps' = [steps EXCEPT ![b] = [s \in Steps |->
                         IF Retryable(@[s]) THEN [NewStep EXCEPT !.att = steps[b][s].att + 1]
                                            ELSE @[s]]]
  /\ UNCHANGED <<cand, builds, fresh, claims, retry, cancels, faults>>

Done(b) == {s \in Steps : steps[b][s].state = "completed"}

Ready_Any(b) ==   \* mutant: a step need not wait for its dependencies
  Steps \ Done(b)

(* Plan.Ready.                                                             *)
Ready(b) == {s \in Steps \ Done(b) : Needs[s] \subseteq Done(b)}

Exhausted(b) == {s \in Steps : steps[b][s].state \in {"failed", "cancelled"}}

AllDone_Settled(b) ==   \* mutant: no step is left to run
  \A s \in Steps : steps[b][s].state \in Terminal

AllDone(b) == Done(b) = Steps

(* The rest of the iteration: the plan is complete, cannot complete, or a  *)
(* ready step is next.  A cause found by the monitor outlives the plan.    *)
Decide(w) ==
  LET b == held[w].b IN
  /\ Step(w, "decide")
  /\ IF AllDone(b)
     THEN IF held[w].cause = "none" THEN End(w, "completed")
          ELSE IF held[w].cause = "cancelled" THEN End(w, "cancelled") ELSE Leave(w)
     ELSE IF held[w].cause # "none" THEN Leave(w)
     ELSE IF Exhausted(b) # {} \/ Ready(b) = {} THEN End(w, "failed")
     ELSE \E s \in Ready(b) :
            held' = [held EXCEPT ![w].pc = "step", ![w].step = s, ![w].rec = steps[b][s]]
  /\ UNCHANGED <<cand, builds, steps, fresh, claims, retry, cancels, faults>>

-----------------------------------------------------------------------------
(* executeStep                                                             *)

CheckStep(w) ==
  /\ Step(w, "step")
  /\ CheckLease(w, "begin")
  /\ UNCHANGED <<cand, builds, steps, fresh, claims, retry, cancels, faults>>

(* A write of a step under the version the worker has read.  One that      *)
(* conflicts ends the plan with an error.                                  *)
WriteStep(w, allowed, step, next) ==
  IF held[w].cause # "none" THEN Leave(w) /\ UNCHANGED steps
  ELSE IF ~allowed THEN End(w, "failed") /\ UNCHANGED steps
  ELSE /\ SetStep(held[w].b, held[w].step, step)
       /\ held' = [held EXCEPT ![w].pc = next, ![w].rec = step]

(* A step found running is executed again to reconcile it.                 *)
Begin(w) ==
  LET rec == held[w].rec IN
  /\ Step(w, "begin")
  /\ IF rec.state = "running" THEN Go(w, "exec") /\ UNCHANGED steps
     ELSE WriteStep(w, MayMoveStep(held[w].b, held[w].step, rec, "running"),
                    [rec EXCEPT !.state = "running", !.ver = @ + 1], "exec")
  /\ UNCHANGED <<cand, builds, fresh, claims, retry, cancels, faults>>

(* The executor returns.                                                   *)
Results(s) == {"failed", "unreconciled"} \cup (IF s = PolicyStep THEN Decisions ELSE {"ok"})

Exec(w) ==
  /\ Step(w, "exec")
  /\ \/ /\ held[w].cause = "none"
        /\ \E r \in Results(held[w].step) :
             held' = [held EXCEPT ![w].pc = "result", ![w].out = r]
     \/ held[w].cause = "cancelled" /\ Current(w) /\ Go(w, "cancelstep")
     \/ held[w].cause = "cancelled" /\ ~Current(w) /\ Leave(w)
     \/ held[w].cause = "lost" /\ Leave(w)
  /\ UNCHANGED <<cand, builds, steps, fresh, claims, retry, cancels, faults>>

CancelStep(w) ==
  LET b == held[w].b
      s == held[w].step
  IN /\ Step(w, "cancelstep")
     /\ IF MayMoveStep(b, s, held[w].rec, "cancelled")
        THEN SetStep(b, s, [steps[b][s] EXCEPT !.state = "cancelled", !.ver = @ + 1])
        ELSE UNCHANGED steps
     /\ End(w, "cancelled")
     /\ UNCHANGED <<cand, builds, fresh, claims, retry, cancels, faults>>

CheckResult(w) ==
  /\ Step(w, "result")
  /\ CheckLease(w, "evidence")
  /\ UNCHANGED <<cand, builds, steps, fresh, claims, retry, cancels, faults>>

(* UpdateBuildStepEvidence.                                                *)
Evidence(w) ==
  LET b == held[w].b
      s == held[w].step
      rec == held[w].rec
  IN /\ Step(w, "evidence")
     /\ WriteStep(w, steps[b][s].att = rec.att /\ steps[b][s].ver = rec.ver,
                  [rec EXCEPT !.out = held[w].out, !.ver = @ + 1], "finish")
     /\ UNCHANGED <<cand, builds, fresh, claims, retry, cancels, faults>>

Bad(out) == out \in {"failed", "unreconciled"}

Finish(w) ==
  LET rec == held[w].rec
      to == IF Bad(held[w].out) THEN "failed" ELSE "completed"
      next == IF to = "completed" /\ held[w].step = PolicyStep THEN "record" ELSE "plan"
  IN /\ Step(w, "finish")
     /\ WriteStep(w, MayMoveStep(held[w].b, held[w].step, rec, to),
                  [rec EXCEPT !.state = to, !.ver = @ + 1], next)
     /\ UNCHANGED <<cand, builds, fresh, claims, retry, cancels, faults>>

(* recordPolicyDecision.  UpdateCandidateProposal does not look for its    *)
(* key first, so a second use of it fails on the unique index.             *)
Record(w) ==
  /\ Step(w, "record")
  /\ IF held[w].cause # "none" THEN Leave(w) /\ UNCHANGED cand
     ELSE IF cand.policy = held[w].out THEN Go(w, "plan") /\ UNCHANGED cand
     ELSE IF "policy-decision" \in cand.keys THEN End(w, "failed") /\ UNCHANGED cand
     ELSE /\ Go(w, "plan")
          /\ cand' = [cand EXCEPT !.policy = held[w].out, !.ver = @ + 1,
                                  !.keys = @ \cup {"policy-decision"}]
  /\ UNCHANGED <<builds, steps, fresh, claims, retry, cancels, faults>>

-----------------------------------------------------------------------------
(* finalizeBuild and what follows for the candidate                        *)

Target(end) == IF end = "refused" THEN "failed" ELSE end

(* What a worker does once the final write landed or failed: a completed   *)
(* build that could not be written is left to its lease, a failed or       *)
(* cancelled one still ends the candidate.                                 *)
After(end, written) ==
  IF end = "completed" /\ written THEN "outcome"
  ELSE IF end = "cancelled" THEN "block"
  ELSE IF end = "failed" THEN "fail" ELSE "idle"

Continue(w, written) ==
  LET next == After(held[w].end, written) IN
  IF next = "idle" THEN Leave(w) ELSE Go(w, next)

(* checkLeaseAllowCancellation.                                            *)
FinalCheck(w) ==
  /\ Step(w, "final")
  /\ IF Current(w)
     THEN held' = [held EXCEPT ![w].pc = "write", ![w].ver = builds[held[w].b].ver]
     ELSE Continue(w, FALSE)
  /\ UNCHANGED <<cand, builds, steps, fresh, claims, retry, cancels, faults>>

FinalWrite(w) ==
  LET b == held[w].b
      to == Target(held[w].end)
      ok == MayMoveBuild(b, held[w].ver, to)
  IN /\ Step(w, "write")
     /\ IF ok THEN MoveBuild(b, to) ELSE UNCHANGED builds
     /\ Continue(w, ok)
     /\ UNCHANGED <<cand, steps, fresh, claims, retry, cancels, faults>>

(* The end of a candidate is two transactions, each under a key that only  *)
(* the candidate scopes: the evidence, unless the candidate is closed to   *)
(* this end, and the transition.                                           *)
RecordEnd(w, closed, key, next) ==
  /\ IF cand.state \in closed \/ key \in cand.keys
     THEN Leave(w) /\ UNCHANGED cand
     ELSE /\ cand' = [cand EXCEPT !.ver = @ + 1, !.keys = @ \cup {key}]
          /\ held' = [held EXCEPT ![w].pc = next, ![w].cver = cand.ver + 1]
  /\ UNCHANGED <<builds, steps, fresh, claims, retry, cancels, faults>>

(* The row is read again before the transition.  Once another has written  *)
(* it, the worker may have read it before that, and the transition fails,  *)
(* or after it.                                                            *)
EndCandidate(w, to, key) ==
  /\ \/ key \notin cand.keys /\ MayMoveCandidate(to) /\ MoveCandidate(to, {key})
     \/ /\ key \in cand.keys \/ ~MayMoveCandidate(to) \/ cand.ver # held[w].cver
        /\ UNCHANGED cand
  /\ Leave(w)
  /\ UNCHANGED <<builds, steps, fresh, claims, retry, cancels, faults>>

(* markCandidateFailed.                                                    *)
FailEvidence(w) ==
  Step(w, "fail") /\ RecordEnd(w, CandidateTerminal, "failure-evidence", "failing")
FailCandidate(w) == Step(w, "failing") /\ EndCandidate(w, "failed", "failed")

(* markCandidateBlocked.                                                   *)
BlockEvidence(w) ==
  /\ Step(w, "block")
  /\ RecordEnd(w, CandidateTerminal \cup {"blocked", "approved"}, "cancellation-evidence", "blocking")
BlockCandidate(w) == Step(w, "blocking") /\ EndCandidate(w, "blocked", "blocked")

(* loadPolicyDecision of the completed build.                              *)
Decision(w) == steps[held[w].b][PolicyStep].out

(* markCandidatePolicyBlocked.                                             *)
PolicyEvidence(w) ==
  /\ Step(w, "outcome") /\ Decision(w) = "blocked"
  /\ RecordEnd(w, CandidateTerminal \cup {"blocked"}, "policy-block-evidence", "refusing")
PolicyBlock(w) == Step(w, "refusing") /\ EndCandidate(w, "blocked", "policy-blocked")

(* markCandidateAwaitingApproval, one round of its loop.                   *)
Advances == [queued |-> "building", building |-> "testing", testing |-> "security_review",
             security_review |-> "awaiting_approval"]

MayAdvance_Unchecked == TRUE   \* mutant: the policy decision is not looked for
MayAdvance == cand.state = "security_review" => cand.policy # "none"

Advance(w) ==
  /\ Step(w, "outcome") /\ Decision(w) # "blocked"
  /\ IF cand.state \in DOMAIN Advances /\ MayAdvance
     THEN MoveCandidate(Advances[cand.state], {}) /\ UNCHANGED held
     ELSE /\ UNCHANGED cand
          /\ IF cand.state = "awaiting_approval" /\ Decision(w) = "auto_approved"
             THEN Go(w, "approve") ELSE Leave(w)
  /\ UNCHANGED <<builds, steps, fresh, claims, retry, cancels, faults>>

(* markCandidateAutoApproved, one read and one transition.                 *)
AutoApprove(w) ==
  /\ Step(w, "approve")
  /\ IF cand.state = "awaiting_approval" /\ "auto-approved" \notin cand.keys
     THEN MoveCandidate("approved", {"auto-approved"})
     ELSE UNCHANGED cand
  /\ Leave(w)
  /\ UNCHANGED <<builds, steps, fresh, claims, retry, cancels, faults>>

-----------------------------------------------------------------------------
(* The operator                                                            *)

(* CancelCandidate: request the cancellation of every unfinished build; if *)
(* there was none to request, reject the candidate.                        *)
Unfinished == {b \in DOMAIN builds : builds[b].state \notin Terminal /\ ~builds[b].cancel}

Cancel ==
  /\ cancels < MaxCancels /\ cancels' = cancels + 1
  /\ cand.state \notin CandidateTerminal
  /\ IF Unfinished # {}
     THEN /\ builds' = [b \in DOMAIN builds |->
                          IF b \in Unfinished
                          THEN [builds[b] EXCEPT !.cancel = TRUE, !.ver = @ + 1] ELSE builds[b]]
          /\ UNCHANGED cand
     ELSE /\ MayMoveCandidate("rejected") /\ MoveCandidate("rejected", {})
          /\ UNCHANGED builds
  /\ UNCHANGED <<steps, fresh, claims, held, retry, faults>>

(* RetryCandidate: a blocked candidate is queued again, then its next      *)
(* build attempt is inserted.  "retry" is the version the request wrote.   *)
MayRetry_Any == cand.state \notin CandidateTerminal   \* mutant: any open candidate
MayRetry == cand.state = "blocked"

Retry ==
  /\ retry = 0 /\ MayRetry /\ Len(builds) < MaxBuilds
  /\ MoveCandidate("queued", {})
  /\ retry' = cand.ver + 1
  /\ UNCHANGED <<builds, steps, fresh, claims, held, cancels, faults>>

Enqueue ==
  /\ retry # 0 /\ retry' = 0
  /\ builds' = Append(builds, NewBuild)
  /\ steps' = Append(steps, NewPlan)
  /\ UNCHANGED <<cand, fresh, claims, held, cancels, faults>>

(* The insertion fails and the candidate is blocked again, or the server   *)
(* stops and nothing compensates.                                          *)
EnqueueFails ==
  /\ retry # 0 /\ retry' = 0
  /\ Fault
  /\ IF cand.ver = retry /\ MayMoveCandidate("blocked")
     THEN MoveCandidate("blocked", {}) \/ UNCHANGED cand ELSE UNCHANGED cand
  /\ UNCHANGED <<builds, steps, fresh, claims, held, cancels>>

-----------------------------------------------------------------------------
WorkerStep(w) ==
  \/ Load(w) \/ Lease(w) \/ Start(w) \/ MarkStarted(w)
  \/ Plan(w) \/ Recover(w) \/ Decide(w)
  \/ CheckStep(w) \/ Begin(w) \/ Exec(w) \/ CancelStep(w)
  \/ CheckResult(w) \/ Evidence(w) \/ Finish(w) \/ Record(w)
  \/ FinalCheck(w) \/ FinalWrite(w)
  \/ FailEvidence(w) \/ FailCandidate(w) \/ BlockEvidence(w) \/ BlockCandidate(w)
  \/ PolicyEvidence(w) \/ PolicyBlock(w) \/ Advance(w) \/ AutoApprove(w)

Next ==
  \/ \E w \in Workers : \/ Reclaim(w) \/ Claim(w) \/ WorkerStep(w)
                        \/ Monitor(w) \/ LocalError(w) \/ Crash(w)
  \/ \E b \in DOMAIN builds : Expire(b) \/ Suspend(b)
  \/ Cancel \/ Retry \/ Enqueue \/ EnqueueFails

Spec == Init /\ [][Next]_vars

-----------------------------------------------------------------------------
(* Properties                                                              *)

(* Every variable keeps its type; the rows name only states of state.go.   *)
TypeOK ==
  /\ cand \in [state : DOMAIN CandidateMoves, ver : Nat, policy : Outcomes \cup {"none"},
               keys : SUBSET {"build-started", "policy-decision", "failure-evidence", "failed",
                              "cancellation-evidence", "blocked", "policy-block-evidence",
                              "policy-blocked", "auto-approved"}]
  /\ Len(builds) = Len(steps)
  /\ \A b \in DOMAIN builds :
       /\ builds[b] \in [state : DOMAIN BuildMoves, ver : Nat, token : 0..claims, cancel : BOOLEAN]
       /\ \A s \in Steps : steps[b][s].att \in 1..MaxStepAttempts
  /\ fresh \subseteq DOMAIN builds
  /\ \A w \in Workers : held[w].b \in 0..Len(builds) /\ held[w].token \in 0..claims

(* A build is completed only when every step of its plan is: whoever ran   *)
(* or reconciled them, under whichever lease (executePlan, finalizeBuild). *)
CompletedHasPlan ==
  \A b \in DOMAIN builds : builds[b].state = "completed" =>
    \A s \in Steps : steps[b][s].state = "completed"

(* No step is started before the ones it depends on have completed, also   *)
(* when a second worker resumes the plan (Plan.Ready, executeStep).        *)
DependenciesFirst ==
  \A b \in DOMAIN builds : \A s \in Steps : steps[b][s].state \in {"running", "completed"} =>
    \A d \in Needs[s] : steps[b][d].state = "completed"

(* Two build attempts of a candidate never run under live leases at once:  *)
(* an operator's retry cannot overtake the attempt it replaces             *)
(* (RetryCandidate, markCandidateBlocked).                                 *)
OneLiveBuild ==
  \A a, b \in DOMAIN builds :
    {a, b} \subseteq fresh /\ {builds[a].state, builds[b].state} \subseteq Active => a = b

(* A candidate that may be approved has a completed build whose policy     *)
(* decision did not block it, and it carries a decision                    *)
(* (markCandidateAwaitingApproval, markCandidatePolicyBlocked).            *)
ApprovableIsEvident ==
  cand.state \in {"awaiting_approval", "approved"} =>
    /\ cand.policy # "none"
    /\ \E b \in DOMAIN builds :
         builds[b].state = "completed" /\ steps[b][PolicyStep].out # "blocked"

(* While a lease is live, only the worker it was given to ends its build:  *)
(* a worker that lost the lease and comes back cannot (finalizeBuild,      *)
(* ReclaimStaleBuildRuns, docs/scanner-release-worker.md:251).             *)
EndedByOwner ==
  [][\A b \in DOMAIN builds :
       /\ builds[b].state \in Active /\ b \in fresh
       /\ builds'[b].state # builds[b].state
       => \E w \in Workers : /\ held[w].b = b /\ held[w].token = builds[b].token
                            /\ held'[w] # held[w]]_vars

(* A candidate is not failed while its build goes on and completes: a      *)
(* worker that lost its lease ends nothing (processClaim,                  *)
(* docs/scanner-release-worker.md:253 "Stops publishing immediately if the *)
(* lease expires or transfers").                                           *)
CompletedIsNotFailed ==
  cand.state = "failed" => \A b \in DOMAIN builds : builds[b].state # "completed"

(* A build fails only if one of its steps did, or a call of its worker:    *)
(* the retry of a blocked candidate brings its new policy decision with it *)
(* (docs/scanner-release-management.md:115-118).                           *)
FailureHasCause ==
  \A b \in DOMAIN builds : builds[b].state = "failed" /\ faults = 0 =>
    \E s \in Steps : steps[b][s].state = "failed"

=============================================================================
