------------------------------ MODULE Rollout ------------------------------
(***************************************************************************)
(* One scanner rollout: its cohorts, the controllers that reconcile it and *)
(* the deployment they drive.                                              *)
(*                                                                         *)
(* A controller (src/internal/scannerrollout/controller.go) claims the     *)
(* rollout, runs one reconciliation pass and releases the claim.  Every    *)
(* row has a version that a write compares; the lease is checked in a      *)
(* transaction of its own before each write and before each call to the    *)
(* runtime, and the call itself is fenced by nothing.  One action here is  *)
(* one transaction or one call.  A version is modelled by what a reader    *)
(* can tell: held[w].cur says that the rollout has not been written since  *)
(* w read it, held[w].known of which cohorts that is true.                 *)
(*                                                                         *)
(* The runtime is CohortDeploymentRuntime over ComposeControl, whose state *)
(* is a few files per cohort.  Health evidence is a verdict.               *)
(***************************************************************************)
EXTENDS Naturals

CONSTANTS
  Controllers,
  N,              \* number of cohorts; PromoteRelease creates a canary and the stable one
  Snapshots,      \* what the immutable part of the rollout row may hold
  None,           \* no controller
  MaxRequests,    \* bound on the requests of operators
  MaxFaults       \* bound on crashes, suspensions and failing calls

Cohorts == 1 .. N

\* prior: there is a release to go back to; automatic: unhealthy cohorts go
\* back to it by themselves; valid: the controller can read the policy in the
\* snapshot; override: the maintenance gate is open only until a date.
Snapshot == [prior : BOOLEAN, automatic : BOOLEAN, valid : BOOLEAN, override : BOOLEAN]

ASSUME RolloutAssumption ==
  /\ N \in Nat \ {0}
  /\ Snapshots \subseteq Snapshot
  /\ None \notin Controllers
  /\ MaxRequests \in Nat /\ MaxFaults \in Nat

VARIABLES
  plan,       \* the immutable part of the rollout row
  roll,       \* scanner_rollouts.state
  boundary,   \* prior state in the latest event whose new state is "paused"
  asked,      \* state a resume request has decided on and not written yet
  rows,       \* scanner_rollout_cohorts: the state of each cohort
  due,        \* the cohorts whose deadline has passed
  owner,      \* worker of the active claim
  fresh,      \* its lease has not expired
  held,       \* the pass of each controller
  dep,        \* per cohort: operation in observed.json, word in the control file
  assigned,   \* per cohort: release its workers are told to verify
  good,       \* releases that may still be deployed or restored
  open,       \* the maintenance gate
  late,       \* history: a controller made a call or a transition for a claim that
              \* another one had replaced
  budget

rollVars == <<plan, roll, boundary, asked, good, open>>
deployVars == <<dep, assigned, late>>
vars == <<rollVars, rows, due, owner, fresh, held, deployVars, budget>>

Forward  == {"preparing", "canary", "verifying", "rolling_out"}
Resumable == {"pending"} \cup Forward
Claimable == Resumable \cup {"paused", "rolling_back"}
RolloutStates == Claimable \cup {"completed", "rolled_back", "failed"}

rolloutTransitions ==
  {<<"pending", "preparing">>, <<"preparing", "canary">>, <<"canary", "verifying">>,
   <<"verifying", "rolling_out">>, <<"rolling_out", "completed">>,
   <<"failed", "rolling_back">>, <<"rolling_back", "rolled_back">>, <<"rolling_back", "failed">>}
  \cup Resumable \X {"paused", "failed", "rolling_back"}
  \cup {"paused"} \X (Forward \cup {"failed", "rolling_back"})

\* The desired release of a cohort goes with its state.
Restoring == {"rollback_assigning", "rollback_observing", "rolled_back", "reconciliation_failed"}
CohortStates == {"pending", "assigning", "observing", "healthy", "completed"} \cup Restoring
Desired(s) == IF s \in Restoring THEN "from" ELSE "to"
HasDeployment(s) == s \notin {"pending", "reconciliation_failed"}

\* Where a lease check of its own comes before the write or call.  The check
\* before the reads (load, health) is one step with them: what was read is used
\* after another check.
Guarded == {"assign", "deploy", "accept", "record", "settle", "move"}
Working == Guarded \cup {"load", "lifecycle", "readback", "status", "health"}

Idle == [pc |-> "idle", ok |-> FALSE, st |-> "pending", cur |-> FALSE,
         copy |-> [c \in Cohorts |-> "pending"], known |-> {}, c |-> 1,
         act |-> "none", todo |-> {}, to |-> "none", seen |-> "none"]
Ended == [Idle EXCEPT !.pc = "end"]

Current(w) == owner = w /\ fresh
Holds(w)   == Current(w) /\ held[w].cur
Write(w, h) == held' = [held EXCEPT ![w] = h]

Init ==
  /\ plan \in Snapshots
  /\ roll = "pending" /\ boundary = "none" /\ asked = "none"
  /\ rows = [c \in Cohorts |-> "pending"] /\ due = {}
  /\ owner = None /\ fresh = FALSE
  /\ held = [w \in Controllers |-> Idle]
  /\ dep = [c \in Cohorts |-> [op |-> "none", ctl |-> "none"]]
  /\ assigned = [c \in Cohorts |-> "none"] /\ late = FALSE
  /\ good = {"from", "to"} /\ open = TRUE
  /\ budget = [requests |-> MaxRequests, faults |-> MaxFaults]

-----------------------------------------------------------------------------
(* What a pass does next *)

\* Mutant: a cohort whose assignment is under way is reached by no action.
OnlyAccepted(act, copy) ==
  {c \in Cohorts :
     /\ act # "none" /\ HasDeployment(copy[c])
     /\ copy[c] \notin {"assigning", "rollback_assigning"}
     /\ act = "cancel" => copy[c] \notin Restoring}

\* The cohorts a lifecycle action reaches.
Reached(act, copy) ==
  {c \in Cohorts :
     /\ act # "none" /\ HasDeployment(copy[c])
     /\ act = "resume" => copy[c] \notin {"assigning", "rollback_assigning"}
     /\ act = "cancel" => copy[c] \notin Restoring}

First(S) == CHOOSE c \in S : \A d \in S : c <= d
Last(S)  == CHOOSE c \in S : \A d \in S : d <= c

Back(h)      == h.st = "rolling_back"
Assigning(h) == IF Back(h) THEN "rollback_assigning" ELSE "assigning"
Observing(h) == IF Back(h) THEN "rollback_observing" ELSE "observing"
Accepted(h)  == IF Back(h) THEN {"rollback_observing", "rolled_back"}
                           ELSE {"observing", "healthy", "completed"}

\* The cohorts the pass has still to bring to their end.
Left(h) ==
  CASE h.st = "rolling_back" -> {c \in Cohorts : h.copy[c] # "rolled_back"}
    [] h.st = "rolling_out"  -> {c \in Cohorts : h.copy[c] # "completed"}
    [] OTHER                 -> {1}

AfterAssign(h) ==
  IF h.st = "preparing" THEN [h EXCEPT !.pc = "move", !.to = "canary"]
                        ELSE [h EXCEPT !.pc = "health"]

OnCohort(h, c) ==
  LET g == [h EXCEPT !.c = c] IN
  IF h.copy[c] \in Accepted(h) THEN AfterAssign(g)
  ELSE [g EXCEPT !.pc = IF h.copy[c] = Assigning(h) THEN "deploy" ELSE "assign"]

Onward(h) ==
  IF h.todo # {} THEN [h EXCEPT !.pc = "lifecycle"]
  ELSE IF h.to # "none" THEN [h EXCEPT !.pc = "move"]
  ELSE IF h.st = "paused" THEN Ended
  ELSE IF Left(h) # {} THEN OnCohort(h, IF Back(h) THEN Last(Left(h)) ELSE First(Left(h)))
  ELSE [h EXCEPT !.pc = "move", !.to = IF Back(h) THEN "rolled_back" ELSE "completed"]

-----------------------------------------------------------------------------
(* Claim, lease and rows *)

\* The event a claim or its release appends repeats the state of the rollout
\* as prior and as new state.
ClaimEvent == boundary' = IF roll = "paused" THEN "paused" ELSE boundary

\* A pass remembers nothing of the one before, so which of the idle
\* controllers claims makes no difference: one of them is taken.
Free(w) == held[w].pc = "idle" /\ w = CHOOSE v \in Controllers : held[v].pc = "idle"

ClaimNextRollout(w) ==
  /\ Free(w)
  /\ roll \in Claimable
  /\ owner = None \/ ~fresh
  /\ owner' = w /\ fresh' = TRUE
  /\ ClaimEvent
  /\ Write(w, [Idle EXCEPT !.pc = "load"])
  /\ UNCHANGED <<plan, roll, asked, good, open, rows, due, deployVars, budget>>

\* checkLease before the write or call w is about to make.
CheckLease(w) ==
  /\ held[w].pc \in Guarded /\ ~held[w].ok
  /\ Holds(w)
  /\ Write(w, [held[w] EXCEPT !.ok = TRUE])
  /\ UNCHANGED <<rollVars, rows, due, owner, fresh, deployVars, budget>>

\* checkLease, of the pass or of its monitor, finds the claim lost or the
\* rollout changed: the pass ends, and releases the claim if it still has it.
Stop(w) ==
  /\ held[w].pc \in Working
  /\ IF held[w].pc = "load" THEN ~Current(w) ELSE ~Holds(w)
  /\ Write(w, IF Current(w) THEN Ended ELSE Idle)
  /\ UNCHANGED <<rollVars, rows, due, owner, fresh, deployVars, budget>>

ReleaseRolloutClaim(w) ==
  /\ held[w].pc = "end"
  /\ Write(w, Idle)
  /\ IF Current(w) THEN /\ owner' = None /\ fresh' = FALSE
                        /\ ClaimEvent
     ELSE UNCHANGED <<owner, fresh, boundary>>
  /\ UNCHANGED <<plan, roll, asked, good, open, rows, due, deployVars, budget>>

\* w may make the write or call at pc: its lease check has passed.
At(w, pc) == held[w].pc = pc /\ held[w].ok

\* Mutant: the version of the cohort is not compared.
WithoutVersion(w, s, h) ==
  /\ rows' = [rows EXCEPT ![held[w].c] = s]
  /\ held' = [v \in Controllers |->
                IF v = w THEN [h EXCEPT !.ok = FALSE]
                         ELSE [held[v] EXCEPT !.known = @ \ {held[w].c}]]

\* UpdateRolloutCohort by w, which goes on with h; a stale version ends the pass.
UpdateRolloutCohort(w, s, h) ==
  LET c == held[w].c IN
  IF c \in held[w].known
  THEN /\ rows' = [rows EXCEPT ![c] = s]
       /\ held' = [v \in Controllers |->
                     IF v = w THEN [h EXCEPT !.ok = FALSE]
                              ELSE [held[v] EXCEPT !.known = @ \ {c}]]
  ELSE /\ Write(w, Ended)
       /\ UNCHANGED rows

\* TransitionRollout: the event records the state that is left.
TransitionRollout(to) ==
  /\ <<roll, to>> \in rolloutTransitions
  /\ roll' = to
  /\ boundary' = IF to = "paused" THEN roll ELSE boundary
  /\ asked' = "none"

-----------------------------------------------------------------------------
(* A reconciliation pass *)

\* A call or transition by a controller whose claim another one has taken over.
Called(w) == late' = (late \/ owner # w)

\* GetRollout, ListRolloutCohorts and what follows from the rows, the releases
\* and the gate: lifecycle calls, then a transition or the work on a cohort.
Plan(w, act, to) ==
  Write(w, Onward([Idle EXCEPT !.st = roll, !.cur = TRUE, !.copy = rows, !.known = Cohorts,
                               !.act = act, !.todo = Reached(act, rows), !.to = to]))

PriorLost == plan.prior /\ "from" \notin good
Unusable  == PriorLost \/ "to" \notin good

ReconcileBack(w) ==
  IF PriorLost \/ (~plan.prior /\ ~plan.valid) THEN Plan(w, "none", "failed")
  ELSE Plan(w, "cancel", IF plan.prior THEN "none" ELSE "failed")

ReconcileForward(w) ==
  IF ~plan.valid THEN Plan(w, "none", "failed")
  ELSE IF Unusable
       THEN Plan(w, "none", IF plan.prior /\ ~PriorLost /\ plan.automatic
                            THEN "rolling_back" ELSE "failed")
  ELSE IF ~open THEN Plan(w, "pause", "paused")
  ELSE IF roll = "pending" THEN Plan(w, "none", "preparing")
  ELSE Plan(w, "resume", "none")

Reconcile(w) ==
  /\ held[w].pc = "load" /\ Current(w)
  /\ CASE roll = "paused"       -> Plan(w, "pause", "none")
       [] roll = "rolling_back" -> ReconcileBack(w)
       [] roll \in Resumable    -> ReconcileForward(w)
       [] OTHER                 -> Write(w, Ended)
  /\ UNCHANGED <<rollVars, rows, due, owner, fresh, deployVars, budget>>

Word(act) == CASE act = "pause" -> "paused" [] act = "resume" -> "resumed" [] OTHER -> "cancelled"

\* One call of applyLifecycle, in the order of the cohorts.
ApplyLifecycle(w) ==
  /\ held[w].pc = "lifecycle"
  /\ LET h == held[w]
         c == First(h.todo) IN
     /\ dep' = [dep EXCEPT ![c].ctl = Word(h.act)]
     /\ Write(w, Onward([h EXCEPT !.todo = @ \ {c}]))
  /\ Called(w)
  /\ UNCHANGED <<rollVars, rows, due, owner, fresh, assigned, budget>>

StartAssignment(w) ==
  /\ At(w, "assign")
  /\ UpdateRolloutCohort(w, Assigning(held[w]), 
       [held[w] EXCEPT !.pc = "deploy", !.copy[held[w].c] = Assigning(held[w])])
  /\ due' = IF held[w].c \in held[w].known THEN due \ {held[w].c} ELSE due
  /\ UNCHANGED <<rollVars, owner, fresh, deployVars, budget>>

Target(w)  == Desired(held[w].copy[held[w].c])
Matches(w) == dep[held[w].c] = [op |-> Target(w), ctl |-> "resumed"]

\* Assign up to Apply.  A deployment that matches already needs no more than
\* its status rows.  Apply returns without a word if observed.json has the
\* operation, whatever the control file says, and the readback then fails.
Deploy(w) ==
  /\ At(w, "deploy")
  /\ LET c == held[w].c
         next(pc) == Write(w, [held[w] EXCEPT !.pc = pc, !.ok = FALSE]) IN
     \/ Matches(w) /\ next("status") /\ UNCHANGED dep
     \/ ~Matches(w) /\ dep[c].op = Target(w) /\ Write(w, Ended) /\ UNCHANGED dep
     \/ /\ dep[c].op # Target(w)
        /\ dep' = [dep EXCEPT ![c] = [op |-> Target(w), ctl |-> "resumed"]]
        /\ next("readback")
  /\ Called(w)
  /\ UNCHANGED <<rollVars, rows, due, owner, fresh, assigned, budget>>

Readback(w) ==
  /\ held[w].pc = "readback"
  /\ Write(w, IF Matches(w) THEN [held[w] EXCEPT !.pc = "status"] ELSE Ended)
  /\ UNCHANGED <<rollVars, rows, due, owner, fresh, deployVars, budget>>

\* Status.Assign: the status rows of the cohort's workers.
AssignWorkers(w) ==
  /\ held[w].pc = "status"
  /\ assigned' = [assigned EXCEPT ![held[w].c] = Target(w)]
  /\ Write(w, [held[w] EXCEPT !.pc = "accept"])
  /\ Called(w)
  /\ UNCHANGED <<rollVars, rows, due, owner, fresh, dep, budget>>

AcceptAssignment(w) ==
  /\ At(w, "accept")
  /\ UpdateRolloutCohort(w, Observing(held[w]),
       AfterAssign([held[w] EXCEPT !.copy[held[w].c] = Observing(held[w])]))
  /\ UNCHANGED <<rollVars, due, owner, fresh, deployVars, budget>>

\* Health of the cohort.  A deployment that does not match is one failed
\* worker more, which is an error when that makes more failed than there are.
Verdicts(w) ==
  IF ~Matches(w) THEN {"bad", "invalid"}
  ELSE IF assigned[held[w].c] = Target(w) THEN {"bad", "pending", "converged"}
  ELSE {"bad", "pending"}

Health(w) ==
  /\ held[w].pc = "health" /\ Holds(w)
  /\ \E v \in Verdicts(w) :
       Write(w, IF v = "invalid" THEN Ended
                ELSE [held[w] EXCEPT !.pc = "record", !.seen = v])
  /\ UNCHANGED <<rollVars, rows, due, owner, fresh, deployVars, budget>>

\* reconcileCanary, reconcileStable and reconcileRollback on a snapshot.
Moving(h, to)  == [h EXCEPT !.pc = "move", !.to = to]
Settling(h, s) == [h EXCEPT !.pc = "settle", !.seen = s]

JudgeForward(h, overdue) ==
  CASE h.seen = "converged" ->
         Settling(h, IF h.st = "canary" THEN "healthy" ELSE "completed")
    [] h.seen = "bad" \/ (h.seen = "pending" /\ overdue) ->
         Moving(h, IF plan.automatic /\ plan.prior THEN "rolling_back" ELSE "paused")
    [] OTHER -> Ended

\* Mutant: a cohort that does not converge is waited for.
NoDeadline(h, overdue) ==
  IF h.seen = "converged" THEN Settling(h, "rolled_back") ELSE Ended

JudgeBack(h, overdue) ==
  CASE h.seen = "converged" -> Settling(h, "rolled_back")
    [] h.seen # "converged" /\ overdue -> Settling(h, "reconciliation_failed")
    [] OTHER -> Ended

RecordHealth(w) ==
  /\ At(w, "record")
  /\ LET h == held[w] IN
     UpdateRolloutCohort(w, h.copy[h.c],
       IF Back(h) THEN JudgeBack(h, h.c \in due) ELSE JudgeForward(h, h.c \in due))
  /\ UNCHANGED <<rollVars, due, owner, fresh, deployVars, budget>>

\* The state a judged cohort gets, and the boundary that follows it.
Settled(h) ==
  CASE h.seen = "healthy" -> Moving(h, "verifying")
    [] h.seen = "completed" /\ h.st = "verifying" -> Moving(h, "rolling_out")
    [] h.seen = "reconciliation_failed" -> Moving(h, "failed")
    [] OTHER -> Ended

SettleCohort(w) ==
  /\ At(w, "settle")
  /\ LET h == held[w] IN
     IF h.seen = "reconciliation_failed" /\ h.c \notin h.known
     THEN /\ Write(w, [Moving(h, "failed") EXCEPT !.ok = FALSE])
          /\ UNCHANGED rows
     ELSE UpdateRolloutCohort(w, h.seen, Settled(h))
  /\ UNCHANGED <<rollVars, due, owner, fresh, deployVars, budget>>

\* The pass's one transition; it is compared with the version it read.
Move(w) ==
  /\ At(w, "move")
  /\ IF held[w].cur
     THEN /\ TransitionRollout(held[w].to)
          /\ Called(w)
          /\ held' = [v \in Controllers |->
                        IF v = w THEN Ended ELSE [held[v] EXCEPT !.cur = FALSE]]
     ELSE /\ Write(w, Ended)
          /\ UNCHANGED <<roll, boundary, asked, late>>
  /\ UNCHANGED <<plan, good, open, rows, due, owner, fresh, dep, assigned, budget>>

-----------------------------------------------------------------------------
(* Faults, time and operators *)

Fault == budget.faults > 0 /\ budget' = [budget EXCEPT !.faults = @ - 1]

\* The process ends, or a lease check fails (Idle, the claim is left to
\* expire), or another statement or call of the pass fails (Ended).
Fail(w) ==
  /\ held[w].pc \in Working \cup {"end"} /\ Fault
  /\ \E h \in {Idle, Ended} : Write(w, h)
  /\ UNCHANGED <<rollVars, rows, due, owner, fresh, deployVars>>

\* The process ends inside Apply, after the control file was written.
CrashInApply(w) ==
  /\ At(w, "deploy") /\ dep[held[w].c].op # Target(w) /\ Fault
  /\ dep' = [dep EXCEPT ![held[w].c].ctl = "resumed"]
  /\ Write(w, Idle)
  /\ Called(w)
  /\ UNCHANGED <<rollVars, rows, due, owner, fresh, assigned>>

Unlease ==
  /\ fresh /\ owner # None
  /\ fresh' = FALSE
  /\ UNCHANGED <<rollVars, rows, due, owner, held, deployVars>>

\* The lease of a controller that is gone runs out; that of one suspended too.
Expire  == Unlease /\ held[owner].pc = "idle" /\ UNCHANGED budget
Suspend == Unlease /\ held[owner].pc # "idle" /\ Fault

\* Deadlines, the gate and the releases change at any time; a step of theirs
\* is offered only when a controller is about to read what changes.
Reads(pc) == \E w \in Controllers : held[w].pc = pc

PassDeadline(c) ==
  /\ c \notin due
  /\ \E w \in Controllers : held[w].pc = "record" /\ held[w].c = c
  /\ due' = due \cup {c}
  /\ UNCHANGED <<rollVars, rows, owner, fresh, held, deployVars, budget>>

CloseGate ==
  /\ plan.override /\ open /\ Reads("load")
  /\ open' = FALSE
  /\ UNCHANGED <<plan, roll, boundary, asked, good, rows, due, owner, fresh, held, deployVars, budget>>

Request == budget.requests > 0 /\ budget' = [budget EXCEPT !.requests = @ - 1]

RevokeRelease ==
  /\ Reads("load") /\ Request
  /\ \E r \in good : good' = good \ {r}
  /\ UNCHANGED <<plan, roll, boundary, asked, open, rows, due, owner, fresh, held, deployVars>>

Outdate == held' = [v \in Controllers |-> [held[v] EXCEPT !.cur = FALSE]]

\* scannerTransitionRollout: pause and roll back are decided by the request.
Operate(to) ==
  /\ Request
  /\ TransitionRollout(to) /\ Outdate
  /\ UNCHANGED <<plan, good, open, rows, due, owner, fresh, deployVars>>

\* scannerResumeState reads the events; the transition is written later, under
\* the version of the rollout that the request has read.
AskResume ==
  /\ roll = "paused" /\ asked = "none" /\ boundary \in Resumable
  /\ Request
  /\ asked' = IF boundary = "pending" THEN "preparing" ELSE boundary
  /\ UNCHANGED <<plan, roll, boundary, good, open, rows, due, owner, fresh, held, deployVars>>

Resume ==
  /\ asked # "none"
  /\ TransitionRollout(asked) /\ Outdate
  /\ UNCHANGED <<plan, good, open, rows, due, owner, fresh, deployVars, budget>>

-----------------------------------------------------------------------------
Pass(w) ==
  \/ ClaimNextRollout(w) \/ CheckLease(w) \/ Stop(w) \/ Reconcile(w)
  \/ ApplyLifecycle(w) \/ StartAssignment(w) \/ Deploy(w)
  \/ Readback(w) \/ AssignWorkers(w)
  \/ AcceptAssignment(w) \/ Health(w) \/ RecordHealth(w) \/ SettleCohort(w)
  \/ Move(w) \/ ReleaseRolloutClaim(w)

Next ==
  \/ \E w \in Controllers : Pass(w) \/ Fail(w) \/ CrashInApply(w)
  \/ Expire \/ Suspend \/ CloseGate \/ RevokeRelease
  \/ \E c \in Cohorts : PassDeadline(c)
  \/ \E to \in {"paused", "rolling_back"} : Operate(to)
  \/ AskResume \/ Resume

Spec == Init /\ [][Next]_vars

\* Controllers poll for ever, and leases and deadlines run out.  PassDeadline is
\* offered now and then, so its fairness is strong: the clock does not stop.
Fairness ==
  /\ \A w \in Controllers : WF_vars(Pass(w))
  /\ WF_vars(Expire)
  /\ \A c \in Cohorts : SF_vars(PassDeadline(c))

FairSpec == Spec /\ Fairness

-----------------------------------------------------------------------------
(* Properties *)

\* "Promote cohorts sequentially only after the canary verifies" and "restore
\* cohorts in reverse order to the prior ... release" (scanner-release-worker.md):
\* the new release is deployed to a cohort only when all before it have
\* completed, and the prior one restored only when all after it have it, with
\* controllers that take over from each other and late calls of the replaced.
DeployedInOrder ==
  \A c, d \in Cohorts : c < d =>
    /\ dep[d].op = "to" => rows[c] \in {"completed"} \cup Restoring
    /\ dep[c].op = "from" => rows[d] = "rolled_back"

\* A rollout that ended completed or rolled back has brought every cohort
\* there: its row says so whatever replaced controllers write late.
EndsInRows == roll \in {"completed", "rolled_back"} => \A c \in Cohorts : rows[c] = roll

\* Unless one of them made a late call, the deployment and the workers of
\* each cohort are there too.
EndsAsDeployed ==
  /\ EndsInRows
  /\ roll \in {"completed", "rolled_back"} /\ ~late =>
       LET r == IF roll = "completed" THEN "to" ELSE "from" IN
       \A c \in Cohorts : dep[c] = [op |-> r, ctl |-> "resumed"] /\ assigned[c] = r

\* "Paused rollouts remain eligible for lifecycle-only reconciliation, allowing
\* a failed deployment pause to retry durably": a rollout that stays paused has
\* its deployments paused in the end, late calls and failures included.
PauseHolds ==
  <>[](roll = "paused") =>
  <>[](roll = "paused" /\ \A c \in Cohorts : HasDeployment(rows[c]) => dep[c].ctl = "paused")

\* A rollback ends, restored or failed, though calls fail, controllers die and
\* cohorts never converge.  A late call of a replaced controller can leave a
\* deployment that Apply does not repair, and is excepted.
RollbackEnds == roll = "rolling_back" ~> (roll \in {"rolled_back", "failed"} \/ late)

\* "Resume rollout at its persisted boundary" (openapi/spec.go).
PausedIsResumable == roll = "paused" => boundary \in Resumable

RolloutTypeOK ==
  /\ plan \in Snapshots /\ roll \in RolloutStates
  /\ boundary \in {"none", "paused"} \cup Resumable
  /\ asked \in {"none"} \cup Forward
  /\ rows \in [Cohorts -> CohortStates] /\ due \subseteq Cohorts
  /\ owner \in Controllers \cup {None} /\ fresh \in BOOLEAN
  /\ \A w \in Controllers :
       /\ held[w].pc \in Working \cup {"idle", "end"}
       /\ held[w].copy \in [Cohorts -> CohortStates] /\ held[w].known \subseteq Cohorts
       /\ held[w].c \in Cohorts /\ held[w].todo \subseteq Cohorts
  /\ dep \in [Cohorts -> [op : {"none", "to", "from"},
                         ctl : {"none", "resumed", "paused", "cancelled"}]]
  /\ assigned \in [Cohorts -> {"none", "to", "from"}] /\ late \in BOOLEAN
  /\ good \subseteq {"from", "to"} /\ open \in BOOLEAN
  /\ budget.requests \in 0 .. MaxRequests /\ budget.faults \in 0 .. MaxFaults
=============================================================================
