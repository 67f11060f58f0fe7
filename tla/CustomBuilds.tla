---------------------------- MODULE CustomBuilds ---------------------------
(***************************************************************************)
(* A custom build of scanner images: the row of scanner_custom_builds, the *)
(* rows of its variants, and the workers that build them one by one        *)
(* (src/internal/db/scanner_custom_build_repository.go,                    *)
(* src/internal/scannercustombuildworker/worker.go).                       *)
(*                                                                         *)
(* A transaction whose UPDATE repeats what it checked is one action.  Two  *)
(* kinds are not: StartCustomBuildVariant and CompleteCustomBuildVariant   *)
(* read the lease and then write a row that has none, FinalizeCustomBuild  *)
(* counts the variants and then writes the build.  Under READ COMMITTED    *)
(* others get in between, so each is two actions.  Any error ends the      *)
(* worker's process; the lease brings the build back.                      *)
(***************************************************************************)
EXTENDS Naturals

CONSTANTS
  Workers, Variants, None,
  MaxAttempts,     \* max_attempts of the build
  MaxFaults        \* bound on crashes, suspensions and operation timeouts

ASSUME BuildAssumption ==
  MaxAttempts \in Nat \ {0} /\ MaxFaults \in Nat

VARIABLES
  build,    \* the row of the build
  vs,       \* the state of each variant
  fresh,    \* the lease has not expired
  claims,   \* number of claims made: the value of the newest lease token
  held,     \* what each worker is doing
  faults

buildVars == <<build, vs, fresh, claims, held, faults>>

Leased == {"claimed", "running"}
Ended == {"completed", "partial", "failed", "cancelled"}
Unfinished == {"queued", "running"}    \* of a variant

NewBuild == [state |-> "queued", att |-> 0, token |-> 0, cancel |-> FALSE]
Idle == [pc |-> "idle", token |-> 0, todo |-> {}, begun |-> {}, cur |-> None,
         failing |-> FALSE, stop |-> FALSE, out |-> "none"]

InitBuild ==
  /\ build = NewBuild
  /\ vs = [v \in Variants |-> "queued"]
  /\ fresh = FALSE /\ claims = 0
  /\ held = [w \in Workers |-> Idle]
  /\ faults = 0

Fault == faults < MaxFaults /\ faults' = faults + 1

Step(w, pc) == held[w].pc = pc
Go(w, pc) == held' = [held EXCEPT ![w].pc = pc]
Leave(w) == held' = [held EXCEPT ![w] = Idle]

Holds(w) == build.state \in Leased /\ build.token = held[w].token

(* requireCustomBuildLeaseTx: the lease is the worker's and live, and no   *)
(* cancellation was asked for.                                             *)
LeaseOK(w) == Holds(w) /\ fresh /\ ~build.cancel

(* The build's context ended before this call, which fails then.  The      *)
(* calls that report a timeout or missing credentials have another one.    *)
Cut(w) == held[w].stop /\ ~held[w].failing

Release(to) ==
  /\ build' = [build EXCEPT !.state = to, !.token = 0]
  /\ fresh' = FALSE

(* Every variant in a state of "from" goes to "to".                        *)
Sweep(from, to) == vs' = [v \in Variants |-> IF vs[v] \in from THEN to ELSE vs[v]]

-----------------------------------------------------------------------------
(* The queue                                                               *)

Claimable == build.state = "queued" /\ ~build.cancel /\ build.att < MaxAttempts

Claim(w) ==
  /\ Step(w, "idle") /\ Claimable
  /\ claims' = claims + 1
  /\ build' = [build EXCEPT !.state = "claimed", !.att = @ + 1, !.token = claims + 1]
  /\ fresh' = TRUE
  /\ held' = [held EXCEPT ![w] = [Idle EXCEPT !.pc = "begin", !.token = claims + 1]]
  /\ UNCHANGED <<vs, faults>>

Stale_Running == build.state = "running" /\ ~fresh   \* mutant: a claim is never stale
Stale == build.state \in Leased /\ ~fresh

Reclaimed ==
  IF build.cancel THEN "cancelled" ELSE IF build.att >= MaxAttempts THEN "failed" ELSE "queued"

(* Only a build that goes back takes its running variants along.           *)
Reclaim(w) ==
  /\ Step(w, "idle") /\ Stale
  /\ Release(Reclaimed)
  /\ IF Reclaimed = "queued" THEN Sweep({"running"}, "queued") ELSE UNCHANGED vs
  /\ UNCHANGED <<claims, held, faults>>

(* The heartbeats end with the build's context and before the final write. *)
Beating(w) ==
  /\ held[w].pc \in {"list", "next", "start", "build", "report", "record"}
  /\ ~held[w].stop /\ ~held[w].failing

RunOut ==
  /\ build.state \in Leased /\ fresh
  /\ fresh' = FALSE
  /\ UNCHANGED <<build, vs, claims, held>>

Holder == {w \in Workers : held[w].pc # "idle" /\ held[w].token = build.token}

Expire == Holder = {} /\ RunOut /\ UNCHANGED faults
Suspend == Holder # {} /\ RunOut /\ Fault

(* A process dies, or is told to stop.                                     *)
Crash(w) ==
  /\ held[w].pc # "idle"
  /\ Fault /\ Leave(w)
  /\ UNCHANGED <<build, vs, fresh, claims>>

-----------------------------------------------------------------------------
(* The worker                                                              *)

(* HeartbeatCustomBuild renews also an expired lease nobody took back.     *)
Renews(w) == Holds(w) /\ ~build.cancel

Heartbeat(w) ==
  /\ Beating(w)
  /\ IF Renews(w) THEN ~fresh /\ fresh' = TRUE /\ UNCHANGED held
                  ELSE held' = [held EXCEPT ![w].stop = TRUE] /\ UNCHANGED fresh
  /\ UNCHANGED <<build, vs, claims, faults>>

(* The operation timeout.                                                  *)
TimeOut(w) ==
  /\ Beating(w)
  /\ Fault /\ held' = [held EXCEPT ![w].stop = TRUE]
  /\ UNCHANGED <<build, vs, fresh, claims>>

(* StartCustomBuild.                                                       *)
Begin(w) ==
  /\ Step(w, "begin")
  /\ IF build.state = "claimed" /\ LeaseOK(w)
     THEN build' = [build EXCEPT !.state = "running"] /\ Go(w, "list")
     ELSE UNCHANGED build /\ Leave(w)
  /\ UNCHANGED <<vs, fresh, claims, faults>>

In(states) == {v \in Variants : vs[v] \in states}

(* What is queued now is built, or failed if the credentials are missing   *)
(* (failWithoutSecretDetail).                                              *)
List(w) ==
  /\ Step(w, "list")
  /\ \E failing \in BOOLEAN :
       held' = [held EXCEPT ![w].pc = "next", ![w].todo = In({"queued"}), ![w].failing = failing]
  /\ UNCHANGED <<build, vs, fresh, claims, faults>>

(* StartCustomBuildVariant reads the lease for the next variant; one that  *)
(* an interrupted worker found running is only reported.  The order of the *)
(* request is abstracted away.                                             *)
Take(w) ==
  /\ Step(w, "next") /\ ~Cut(w)
  /\ \E v \in held[w].todo :
       held' = [held EXCEPT ![w] =
                  IF v \in @.begun THEN [@ EXCEPT !.pc = "report", !.cur = v, !.out = "failed"]
                  ELSE IF LeaseOK(w) THEN [@ EXCEPT !.pc = "start", !.cur = v]
                  ELSE Idle]
  /\ UNCHANGED <<build, vs, fresh, claims, faults>>

(* Its write.                                                              *)
Start(w) ==
  /\ Step(w, "start")
  /\ LET v == held[w].cur IN
     IF vs[v] = "queued"
     THEN /\ vs' = [vs EXCEPT ![v] = "running"]
          /\ held' = [held EXCEPT ![w] = IF @.failing THEN [@ EXCEPT !.pc = "report", !.out = "failed"]
                                         ELSE [@ EXCEPT !.pc = "build"]]
     ELSE UNCHANGED vs /\ Leave(w)
  /\ UNCHANGED <<build, fresh, claims, faults>>

(* Executor.Build returns.  With its context ended it fails, unless it had *)
(* just succeeded.                                                         *)
Built(w) ==
  /\ Step(w, "build")
  /\ \E out \in {"completed", "failed"} :
       /\ out = "failed" => ~held[w].stop
       /\ held' = [held EXCEPT ![w].pc = "report", ![w].out = out]
  /\ UNCHANGED <<build, vs, fresh, claims, faults>>

(* AppendCustomBuildLog refuses a line of the build: the process ends.     *)
LogRefused(w) ==
  /\ Step(w, "build") /\ (~LeaseOK(w) \/ Cut(w))
  /\ Leave(w)
  /\ UNCHANGED <<build, vs, fresh, claims, faults>>

(* finishInterrupted: what is not finished failed by a timeout, unless it  *)
(* was cancelled.                                                          *)
Interrupted(w) ==
  /\ Cut(w) /\ (Step(w, "build") \/ (Step(w, "next") /\ held[w].todo # {}))
  /\ held' = [held EXCEPT ![w] =
                [@ EXCEPT !.pc = "next", !.failing = TRUE,
                          !.todo = IF build.cancel THEN {} ELSE In(Unfinished),
                          !.begun = In({"running"})]]
  /\ UNCHANGED <<build, vs, fresh, claims, faults>>

(* CompleteCustomBuildVariant reads the lease...                           *)
Report(w) ==
  /\ Step(w, "report")
  /\ IF LeaseOK(w) /\ ~Cut(w) THEN Go(w, "record") ELSE Leave(w)
  /\ UNCHANGED <<build, vs, fresh, claims, faults>>

MayRecord_Any(v) == TRUE   \* mutant: the state of the variant is not looked at
MayRecord(v) == vs[v] = "running"

(* ... and writes the variant.                                             *)
Record(w) ==
  /\ Step(w, "record")
  /\ LET v == held[w].cur IN
     IF MayRecord(v)
     THEN /\ vs' = [vs EXCEPT ![v] = held[w].out]
          /\ held' = [held EXCEPT ![w].pc = "next", ![w].todo = @ \ {v}]
     ELSE UNCHANGED vs /\ Leave(w)
  /\ UNCHANGED <<build, fresh, claims, faults>>

(* FinalizeCustomBuild: variants that are not finished are an error only   *)
(* if none failed.                                                         *)
Verdict_Unchecked ==   \* mutant: nothing is an error
  IF build.cancel THEN "cancelled"
  ELSE IF In({"failed"}) # {} THEN IF In({"completed"}) # {} THEN "partial" ELSE "failed"
  ELSE "completed"
Verdict ==
  IF build.cancel THEN "cancelled"
  ELSE IF In({"failed"}) # {} THEN IF In({"completed"}) # {} THEN "partial" ELSE "failed"
  ELSE IF In(Unfinished) # {} THEN "none" ELSE "completed"

MayFinalize == Verdict # "none"

Tally(w) ==
  /\ Step(w, "next") /\ held[w].todo = {}
  /\ IF Holds(w) /\ fresh /\ MayFinalize
     THEN held' = [held EXCEPT ![w].pc = "final", ![w].out = Verdict] ELSE Leave(w)
  /\ UNCHANGED <<build, vs, fresh, claims, faults>>

(* Its write, under the lease token only.                                  *)
Finalize(w) ==
  /\ Step(w, "final")
  /\ IF Holds(w)
     THEN /\ Release(held[w].out)
          /\ IF held[w].out = "cancelled" THEN Sweep(Unfinished, "cancelled") ELSE UNCHANGED vs
     ELSE UNCHANGED <<build, vs, fresh>>
  /\ Leave(w)
  /\ UNCHANGED <<claims, faults>>

-----------------------------------------------------------------------------
(* The operator                                                            *)

(* RequestCustomBuildCancellation: what is queued ends at once.            *)
Cancel ==
  /\ build.state \notin Ended /\ ~build.cancel
  /\ build' = [build EXCEPT !.cancel = TRUE, !.state = IF @ = "queued" THEN "cancelled" ELSE @]
  /\ IF build.state = "queued" THEN Sweep({"queued"}, "cancelled") ELSE UNCHANGED vs
  /\ UNCHANGED <<fresh, claims, held, faults>>

Rebuilt == {"failed"}

(* RetryCustomBuild.                                                       *)
Retry ==
  /\ build.state \in {"failed", "partial"} /\ build.att < MaxAttempts
  /\ build' = [build EXCEPT !.state = "queued", !.cancel = FALSE]
  /\ Sweep(Rebuilt, "queued")
  /\ UNCHANGED <<fresh, claims, held, faults>>

-----------------------------------------------------------------------------
WorkerStep(w) ==
  \/ Begin(w) \/ List(w) \/ Take(w) \/ Start(w) \/ Built(w) \/ LogRefused(w)
  \/ Interrupted(w) \/ Report(w) \/ Record(w) \/ Tally(w) \/ Finalize(w)

Poll(w) == Reclaim(w) \/ Claim(w)

NextBuild ==
  \/ \E w \in Workers : Poll(w) \/ WorkerStep(w) \/ Heartbeat(w) \/ TimeOut(w) \/ Crash(w)
  \/ Expire \/ Suspend \/ Cancel \/ Retry

BuildSpec == InitBuild /\ [][NextBuild]_buildVars

(* Workers poll and go on with what they do, time passes.  No fairness for *)
(* heartbeats, operators and faults.                                       *)
FairBuildSpec ==
  /\ BuildSpec
  /\ \A w \in Workers : WF_buildVars(Poll(w)) /\ WF_buildVars(WorkerStep(w))
  /\ WF_buildVars(Expire)

-----------------------------------------------------------------------------
(* Properties                                                              *)

(* Every variable keeps its type; the attempts stay within the budget.     *)
BuildTypeOK ==
  /\ build \in [state : Leased \cup Ended \cup {"queued"}, att : 0..MaxAttempts,
                token : Nat, cancel : BOOLEAN]
  /\ vs \in [Variants -> {"queued", "running", "completed", "failed", "cancelled"}]
  /\ fresh \in BOOLEAN /\ claims \in Nat

(* The state a build ends in is the truth about its variants, although the *)
(* variants are counted before the build is written and a worker that lost *)
(* its lease may write a variant late (FinalizeCustomBuild,                *)
(* CompleteCustomBuildVariant).                                            *)
VerdictMatches ==
  /\ build.state = "completed" => \A v \in Variants : vs[v] = "completed"
  /\ build.state = "partial" => {"completed", "failed"} \subseteq {vs[v] : v \in Variants}

(* A build whose cancellation was requested is not queued again: worker    *)
(* loss, reclaim and the claim of another worker do not forget the request *)
(* (RequestCustomBuildCancellation, ReclaimStaleCustomBuilds).             *)
CancelKept == build.cancel => build.state # "queued"

(* "rebuilds failed variants without rebuilding completed variants": over  *)
(* retries, lost workers and late writes a completed variant stays so      *)
(* (docs/scanner-custom-builds.md:93-95).                                  *)
NeverRebuilt ==
  [][\A v \in Variants : vs[v] = "completed" => vs'[v] = "completed"]_buildVars

(* Whatever is lost on the way, the build ends and stays ended             *)
(* (ReclaimStaleCustomBuilds).                                             *)
Settles == <>[](build.state \in Ended)

=============================================================================
