----------------------------- MODULE LeasedJobs ----------------------------
(***************************************************************************)
(* The four queues around the release factory: discovery runs, candidate   *)
(* proposals, registry jobs and notifications.                             *)
(*                                                                         *)
(* All are rows of src/internal/db that a worker claims under a token and  *)
(* a lease, and that any poll takes back once the lease ran out.  They     *)
(* differ in what a claim, a final write and a reclamation require, and in *)
(* what their workers do about a lost lease: each difference has an        *)
(* operator of its own, and the row's kind chooses.  One job is modelled;  *)
(* nothing relates two of them.  A transaction is an action.               *)
(***************************************************************************)
EXTENDS Naturals

CONSTANTS
  Workers,
  MaxAttempts,     \* max_attempts of the job
  MaxRetries,      \* bound on the dead letters an operator sends again
  MaxFaults        \* bound on crashes and suspensions

ASSUME JobAssumption ==
  MaxAttempts \in Nat \ {0} /\ MaxRetries \in Nat /\ MaxFaults \in Nat

VARIABLES
  kind,     \* which queue the job is in
  job,      \* its row
  fresh,    \* its lease has not expired
  claims,   \* number of claims made: the value of the newest lease token
  held,     \* what each worker believes it is doing
  retries, faults

vars == <<kind, job, fresh, claims, held, retries, faults>>

Kinds == {"discovery", "proposal", "registry", "notification"}
Outbox == {"registry", "notification"}
(* "ready" is queued, retry, pending or awaiting_definition; "done" is     *)
(* completed, delivered or, for a candidate, queued for its build; "dead"  *)
(* is failed or dead_letter; a proposal without changes is "noop".         *)
Settled == {"done", "dead", "cancelled", "noop"}
States == {"ready", "leased"} \cup Settled

NewJob == [state |-> "ready", att |-> 0, token |-> 0, ver |-> 1, cancel |-> FALSE, plan |-> FALSE]
Idle == [pc |-> "idle", token |-> 0, att |-> 0, ver |-> 0, out |-> "none", tries |-> 0, lost |-> FALSE]

Init ==
  /\ kind \in Kinds
  /\ job = NewJob
  /\ fresh = FALSE /\ claims = 0
  /\ held = [w \in Workers |-> Idle]
  /\ retries = 0 /\ faults = 0

Fault == faults < MaxFaults /\ faults' = faults + 1

Step(w, pc) == held[w].pc = pc
Go(w, pc) == held' = [held EXCEPT ![w].pc = pc]
Leave(w) == held' = [held EXCEPT ![w] = Idle]

(* The row is leased under the worker's token; a lease may also have to be *)
(* live.                                                                   *)
Holds(w) == job.state = "leased" /\ job.token = held[w].token
HoldsLive(w) == Holds(w) /\ fresh

(* The job goes back or ends; either way the lease is cleared.             *)
Release(to) ==
  /\ job' = [job EXCEPT !.state = to, !.token = 0, !.ver = @ + 1]
  /\ fresh' = FALSE

-----------------------------------------------------------------------------
(* Claims                                                                  *)

(* ClaimNextDiscoveryRun does not look at the attempts.                    *)
ClaimsDiscovery == job.state = "ready" /\ ~job.cancel
ClaimsProposal == job.state = "ready" /\ job.att < MaxAttempts
ClaimsRegistry == job.state = "ready" /\ job.att < MaxAttempts
ClaimsNotification == job.state = "ready" /\ job.att < MaxAttempts

Claimable ==
  \/ kind = "discovery" /\ ClaimsDiscovery
  \/ kind = "proposal" /\ ClaimsProposal
  \/ kind = "registry" /\ ClaimsRegistry
  \/ kind = "notification" /\ ClaimsNotification

Claim(w) ==
  /\ Step(w, "idle") /\ Claimable
  /\ claims' = claims + 1
  /\ job' = [job EXCEPT !.state = "leased", !.token = claims + 1, !.att = @ + 1, !.ver = @ + 1]
  /\ fresh' = TRUE
  /\ held' = [held EXCEPT ![w] = [Idle EXCEPT !.pc = "work", !.token = claims + 1,
                                              !.att = job.att + 1]]
  /\ UNCHANGED <<kind, retries, faults>>

(* What becomes of a job whose worker was lost.                            *)
ReclaimedDiscovery_Forgets ==   \* mutant: a requested cancellation is not looked at
  IF job.att >= MaxAttempts THEN "dead" ELSE "ready"
ReclaimedDiscovery ==
  IF job.cancel THEN "cancelled" ELSE IF job.att >= MaxAttempts THEN "dead" ELSE "ready"
ReclaimedProposal == IF job.att >= MaxAttempts THEN "dead" ELSE "ready"
ReclaimedRegistry == IF job.att >= MaxAttempts THEN "dead" ELSE "ready"
ReclaimedNotification == IF job.att >= MaxAttempts THEN "dead" ELSE "ready"

Reclaimed ==
  [discovery |-> ReclaimedDiscovery, proposal |-> ReclaimedProposal,
   registry |-> ReclaimedRegistry, notification |-> ReclaimedNotification][kind]

Stale_Claimable ==   \* mutant: a job out of attempts is not looked for
  job.state = "leased" /\ ~fresh /\ job.att < MaxAttempts
Stale == job.state = "leased" /\ ~fresh

Reclaim(w) ==
  /\ Step(w, "idle") /\ Stale
  /\ Release(Reclaimed)
  /\ UNCHANGED <<kind, claims, held, retries, faults>>

(* A lease runs out: its worker is gone, or was suspended.                 *)
Holder == {w \in Workers : held[w].pc # "idle" /\ held[w].token = job.token}

RunOut ==
  /\ job.state = "leased" /\ fresh
  /\ fresh' = FALSE
  /\ UNCHANGED <<kind, job, claims, held, retries>>

Expire == Holder = {} /\ RunOut /\ UNCHANGED faults
Suspend == Holder # {} /\ RunOut /\ Fault

(* The process dies, or its drain time is over.                            *)
Crash(w) ==
  /\ held[w].pc # "idle"
  /\ Fault /\ Leave(w)
  /\ UNCHANGED <<kind, job, fresh, claims, retries>>

-----------------------------------------------------------------------------
(* A worker                                                                *)

(* The lease monitor: a heartbeat renews a live lease and is refused       *)
(* otherwise.  The registry worker only remembers that, the others stop.   *)
Refused(w) ==
  /\ Step(w, "work") /\ ~HoldsLive(w)
  /\ IF kind = "registry"
     THEN ~held[w].lost /\ held' = [held EXCEPT ![w].lost = TRUE]
     ELSE Leave(w)
  /\ UNCHANGED <<kind, job, fresh, claims, retries, faults>>

(* A discovery is stopped by the cancellation its heartbeat reports.       *)
SeeCancel(w) ==
  /\ Step(w, "work") /\ kind = "discovery" /\ HoldsLive(w) /\ job.cancel
  /\ held' = [held EXCEPT ![w].pc = "beat", ![w].out = "cancelled"]
  /\ UNCHANGED <<kind, job, fresh, claims, retries, faults>>

(* The work returns and the worker chooses what to write.                  *)
Result(w, out, next) == held' = [held EXCEPT ![w].out = out, ![w].pc = next]

Discovered(w) ==
  kind = "discovery" /\ (Result(w, "done", "beat") \/ Result(w, "dead", "beat"))

Proposed(w) ==
  kind = "proposal" /\ (Result(w, "done", "beat") \/ Result(w, "ready", "release")
                        \/ Result(w, "noop", "noop"))

GivesUp(w) == held[w].att >= MaxAttempts

Reconciled(w) ==
  /\ kind = "registry"
  /\ \/ ~held[w].lost /\ Result(w, "done", "settle")
     \/ Result(w, IF GivesUp(w) THEN "dead" ELSE "ready", "settle")

(* A delivery error may not be retryable.                                  *)
Delivered(w) ==
  /\ kind = "notification"
  /\ \/ Result(w, "done", "settle") \/ Result(w, "dead", "settle")
     \/ ~GivesUp(w) /\ Result(w, "ready", "settle")

Work(w) ==
  /\ Step(w, "work")
  /\ Discovered(w) \/ Proposed(w) \/ Reconciled(w) \/ Delivered(w)
  /\ UNCHANGED <<kind, job, fresh, claims, retries, faults>>

(* Discovery and proposal workers renew once more before they write.       *)
FinalHeartbeat(w) ==
  /\ Step(w, "beat")
  /\ IF HoldsLive(w)
     THEN held' = [held EXCEPT ![w].pc = "write", ![w].ver = job.ver,
                               ![w].out = IF job.cancel THEN "cancelled" ELSE @]
     ELSE Leave(w)
  /\ UNCHANGED <<kind, job, fresh, claims, retries, faults>>

(* FinalizeDiscoveryRun: a requested cancellation outweighs the result.    *)
FinalizedDiscovery(w) == IF job.cancel THEN "cancelled" ELSE held[w].out

FinalizeDiscovery_Unfenced(w) ==   \* mutant: any lease of the row will do
  /\ Step(w, "write") /\ kind = "discovery"
  /\ job.state = "leased"
  /\ Release(FinalizedDiscovery(w)) /\ Leave(w)
  /\ UNCHANGED <<kind, claims, retries, faults>>

(* A conflict on the version is tried once more.                           *)
FinalizeDiscovery(w) ==
  /\ Step(w, "write") /\ kind = "discovery"
  /\ IF job.ver # held[w].ver
     THEN /\ IF held[w].tries = 0
             THEN held' = [held EXCEPT ![w].pc = "beat", ![w].tries = 1] ELSE Leave(w)
          /\ UNCHANGED <<job, fresh>>
     ELSE /\ IF HoldsLive(w) THEN Release(FinalizedDiscovery(w)) ELSE UNCHANGED <<job, fresh>>
          /\ Leave(w)
  /\ UNCHANGED <<kind, claims, retries, faults>>

(* FinalizeCandidateProposal; the build plan is a transaction of its own.  *)
FinalizeProposal(w) ==
  /\ Step(w, "write") /\ kind = "proposal"
  /\ IF job.ver = held[w].ver /\ HoldsLive(w)
     THEN Release("done") /\ Go(w, "plan")
     ELSE Leave(w) /\ UNCHANGED <<job, fresh>>
  /\ UNCHANGED <<kind, claims, retries, faults>>

(* ReleaseCandidateProposal: also just after the lease expired.            *)
ReleaseProposal(w) ==
  /\ Step(w, "release")
  /\ IF Holds(w) THEN Release(IF job.att >= MaxAttempts THEN "dead" ELSE "ready")
                 ELSE UNCHANGED <<job, fresh>>
  /\ Leave(w)
  /\ UNCHANGED <<kind, claims, retries, faults>>

(* FinalizeCandidateProposalNoOp.                                          *)
NoOpProposal(w) ==
  /\ Step(w, "noop")
  /\ IF Holds(w) THEN Release("noop") ELSE UNCHANGED <<job, fresh>>
  /\ Leave(w)
  /\ UNCHANGED <<kind, claims, retries, faults>>

FinalizesRegistry(w) == HoldsLive(w)
FinalizesNotification(w) == HoldsLive(w)

(* FinalizeRegistryJob and FinalizeNotification.                           *)
Settle(w) ==
  /\ Step(w, "settle")
  /\ IF (kind = "registry" /\ FinalizesRegistry(w)) \/ (kind = "notification" /\ FinalizesNotification(w))
     THEN Release(held[w].out) ELSE UNCHANGED <<job, fresh>>
  /\ Leave(w)
  /\ UNCHANGED <<kind, claims, retries, faults>>

(* EnqueueCandidateBuildPlan: an existing plan is left alone.  Nothing     *)
(* looks at the candidate's state.                                         *)
EnqueuePlan(w) ==
  /\ Step(w, "plan")
  /\ job' = [job EXCEPT !.plan = TRUE]
  /\ Leave(w)
  /\ UNCHANGED <<kind, fresh, claims, retries, faults>>

Unplanned_Never == FALSE   \* mutant: nobody looks for a candidate without a plan
Unplanned == job.state = "done" /\ ~job.plan

(* reconcileQueuedCandidate, when there is nothing to claim.               *)
ReconcileQueued(w) ==
  /\ Step(w, "idle") /\ kind = "proposal" /\ Unplanned
  /\ Go(w, "plan")
  /\ UNCHANGED <<kind, job, fresh, claims, retries, faults>>

-----------------------------------------------------------------------------
(* The operator                                                            *)

(* RequestDiscoveryCancellation: a queued run is cancelled at once.        *)
CancelRun ==
  /\ kind = "discovery" /\ job.state \notin Settled /\ ~job.cancel
  /\ job' = [job EXCEPT !.cancel = TRUE, !.ver = @ + 1,
                        !.state = IF @ = "ready" THEN "cancelled" ELSE @]
  /\ UNCHANGED <<kind, fresh, claims, held, retries, faults>>

(* CancelCandidate before there is a build: the candidate is rejected, its *)
(* proposal lease stays where it is.                                       *)
RejectCandidate ==
  /\ kind = "proposal" /\ job.state \in {"ready", "leased", "done"} /\ ~job.plan
  /\ job' = [job EXCEPT !.state = "cancelled", !.ver = @ + 1]
  /\ UNCHANGED <<kind, fresh, claims, held, retries, faults>>

(* RetryDeadLetterRegistryJob and RetryDeadLetterNotification.             *)
RetryDead ==
  /\ kind \in Outbox /\ job.state = "dead"
  /\ retries < MaxRetries /\ retries' = retries + 1
  /\ job' = [job EXCEPT !.state = "ready", !.att = 0, !.ver = @ + 1]
  /\ UNCHANGED <<kind, fresh, claims, held, faults>>

-----------------------------------------------------------------------------
WorkerStep(w) ==
  \/ Refused(w) \/ SeeCancel(w) \/ Work(w) \/ FinalHeartbeat(w)
  \/ FinalizeDiscovery(w) \/ FinalizeProposal(w) \/ ReleaseProposal(w) \/ NoOpProposal(w)
  \/ Settle(w) \/ EnqueuePlan(w)

Poll(w) == Reclaim(w) \/ Claim(w) \/ ReconcileQueued(w)

Next ==
  \/ \E w \in Workers : Poll(w) \/ WorkerStep(w) \/ Crash(w)
  \/ Expire \/ Suspend
  \/ CancelRun \/ RejectCandidate \/ RetryDead

Spec == Init /\ [][Next]_vars

(* Workers poll and go on with what they do; time passes.  Nothing makes   *)
(* an operator act or a fault happen.                                      *)
FairSpec ==
  /\ Spec
  /\ \A w \in Workers : WF_vars(Poll(w)) /\ WF_vars(WorkerStep(w))
  /\ WF_vars(Expire)

-----------------------------------------------------------------------------
(* Properties                                                              *)

(* Every variable keeps its type.  The attempts stay within the budget,    *)
(* also in the queue whose claim does not look at it                       *)
(* (ClaimNextDiscoveryRun, ReclaimStaleDiscoveryRuns).                     *)
TypeOK ==
  /\ kind \in Kinds
  /\ job \in [state : States, att : 0..MaxAttempts, token : Nat, ver : Nat,
              cancel : BOOLEAN, plan : BOOLEAN]
  /\ fresh \in BOOLEAN /\ claims \in Nat

(* A discovery whose cancellation was requested never ends as completed or *)
(* failed, whenever its worker last looked (FinalizeDiscoveryRun,          *)
(* ReclaimStaleDiscoveryRuns).                                             *)
CancelHonoured == job.cancel /\ job.state \in Settled => job.state = "cancelled"

(* A candidate fails for its proposal, and a registry job becomes a dead   *)
(* letter, only with its attempts used up, however workers were lost or    *)
(* late in between (ReleaseCandidateProposal, ReclaimStaleCandidateProposals, *)
(* runOne, ReclaimStaleRegistryJobs).                                      *)
GivenUpAtBudget ==
  kind \in {"proposal", "registry"} /\ job.state = "dead" => job.att = MaxAttempts

(* While the lease is live, only the worker it was given to or an operator *)
(* takes the job out of it (FinalizeDiscoveryRun, FinalizeRegistryJob,     *)
(* FinalizeNotification, FinalizeCandidateProposal,                        *)
(* docs/scanner-release-worker.md:111-114).                                *)
SettledByHolder ==
  [][job.state = "leased" /\ fresh /\ job'.state # "leased"
     => \/ kind = "proposal" /\ job'.state = "cancelled"
        \/ \E w \in Workers : held[w].token = job.token /\ held'[w] # held[w]]_vars

(* Whatever crashes or is suspended on the way, the job ends and stays so  *)
(* (ReclaimStale..., the polls of the workers).                            *)
Settles == <>[](job.state \in Settled)

(* A candidate whose proposal is accepted gets its build plan, also when   *)
(* the worker dies between the two transactions, unless an operator        *)
(* rejects it (processClaim, reconcileQueuedCandidate).                    *)
Planned == (kind = "proposal" /\ job.state = "done") ~> (job.plan \/ job.state = "cancelled")

=============================================================================
