------------------------------ MODULE FixJobs ------------------------------
(***************************************************************************)
(* The fix jobs of one repository: who may run an agent on a branch, who   *)
(* may remove its checkout, and what a cancellation, a hand-off, a stale   *)
(* claim and the follow-up run of a lineage do to each other.              *)
(*                                                                         *)
(* src/internal/db/fixjobs.go, fix_creation.go, fix_cancellation.go and    *)
(* fix_handoff.go hold the transactions, each of which is one action: they *)
(* take the repository row lock or the advisory claim lock.  An HTTP       *)
(* handler reads a job in one statement and writes it in another, and the  *)
(* lineage code after an agent run or a child scan takes several, so those *)
(* are split.  The fixer process is not in the repository; its actions are *)
(* the calls the store and the lineage package offer it, in the order      *)
(* docs/validation/2026-10-24/fix-leases.md describes.                     *)
(*                                                                         *)
(* A read-modify-write of a job carries only the revision it read: every   *)
(* write but a heartbeat moves the revision, so a write that lands found   *)
(* the row it read.  Jobs start from a scan; a job made from loose finding *)
(* ids has no remediation and shares nothing, and is left out.             *)
(***************************************************************************)
EXTENDS Naturals, Sequences, FiniteSets

CONSTANTS
  Origins,      \* root scans of the repository
  BranchOf,     \* BranchOf[o]: the fix branch asked for origin o
  Workers,      \* fixer processes
  Clients,      \* HTTP requests that read a job and later write it
  Ends,         \* the results, among Results, that agent runs end with
  None,         \* no worker, no client
  PlannedRuns,  \* planned_runs of every request
  MaxJobs, MaxRems, MaxScans,   \* bounds on the rows ever inserted
  MaxAsks,      \* bound on the user's requests
  MaxFaults     \* bound on crashes, pauses past the cutoff and failed cleanups

Active == {"claimed", "running"}
Busy == {"queued"} \cup Active
Paused == {"awaiting_review", "awaiting_push", "push_failed"}
Terminal == {"succeeded", "failed", "cancelled", "superseded"}
Statuses == Busy \cup Paused \cup Terminal

(* What an agent run may end with.                                         *)
NoResult == [status |-> "none", pushed |-> FALSE]
Results == {[status |-> s, pushed |-> FALSE] : s \in Paused \cup {"succeeded", "failed"}}
           \cup {[status |-> s, pushed |-> TRUE] : s \in {"succeeded", "push_failed"}}

ASSUME FixAssumption ==
  /\ Ends \subseteq Results
  /\ None \notin Workers
  /\ \A n \in {PlannedRuns, MaxJobs, MaxRems, MaxScans} : n \in Nat \ {0}
  /\ MaxAsks \in Nat /\ MaxFaults \in Nat

VARIABLES
  jobs,       \* the table fix_jobs, in creation order
  rems,       \* the table remediations, in creation order
  scans,      \* the child scans of remediations, in creation order
  beat,       \* the jobs whose heartbeat_at is newer than the cutoff
  claims,     \* number of claims made: the value of the newest claimed_at
  held,       \* what each worker process believes it runs
  dead,       \* the claims whose worker crashed
  req,        \* what each HTTP request has read
  checkouts,  \* the workspaces that exist on disk
  lost,       \* workspaces removed by a transaction that did not commit
  asks, faults

vars == <<jobs, rems, scans, beat, claims, held, dead, req, checkouts, lost, asks, faults>>

JobIds == 1..Len(jobs)
RemIds == 1..Len(rems)
Idle == [job |-> 0, rev |-> 0, claim |-> 0, ws |-> 0, phase |-> "idle",
         out |-> NoResult]
NoReq == [op |-> "none", job |-> 0, rev |-> 0]

-----------------------------------------------------------------------------
(* What the transactions look for                                          *)

BranchOfJob(j) == BranchOf[rems[jobs[j].rem].origin]

(* Two jobs that share a remediation, a branch or a workspace.  A          *)
(* workspace is named by the claim that created it; 0 is none.             *)
Shares(j, k) ==
  \/ jobs[j].rem = jobs[k].rem
  \/ BranchOfJob(j) = BranchOfJob(k)
  \/ jobs[j].ws # 0 /\ jobs[j].ws = jobs[k].ws

(* A job whose cancellation still owns its checkout.                       *)
Cleaning(j) == jobs[j].status = "cancelled" /\ jobs[j].cleanup

(* checkFixWorkspaceScans.                                                 *)
ScanOn(r) == \E s \in DOMAIN scans : scans[s].rem = r /\ scans[s].status = "pending"

BusyOn(r) == \E k \in JobIds : jobs[k].rem = r /\ jobs[k].status \in Busy

PausedOn_Miss(r) == {}   \* mutant: a new run leaves the paused one alone
PausedOn(r) == {k \in JobIds : jobs[k].rem = r /\ jobs[k].status \in Paused}

LatestRem(o) ==
  LET mine == {r \in RemIds : rems[r].origin = o}
  IN IF mine = {} THEN 0 ELSE CHOOSE r \in mine : \A q \in mine : q <= r

(* A row written by updateFixJob or by a bulk UPDATE.                      *)
Bump(job) == [job EXCEPT !.rev = @ + 1]
SetJob(j, job) == jobs' = [jobs EXCEPT ![j] = Bump(job)]

MayWrite_Reload(j, rev, status) ==   \* mutant: reload and retry on a conflict
  jobs[j].status \in Terminal => jobs[j].status = status

(* The conditional UPDATE: the revision that was read, and a terminal row  *)
(* keeps its status.                                                       *)
MayWrite(j, rev, status) ==
  /\ jobs[j].rev = rev
  /\ jobs[j].status \in Terminal => jobs[j].status = status

(* The extra test of a write that queues a job again.                      *)
MayQueue(j) ==
  /\ ~ScanOn(jobs[j].rem)
  /\ \A k \in JobIds \ {j} : Shares(j, k) => jobs[k].status \notin Busy /\ ~Cleaning(k)

-----------------------------------------------------------------------------
Init ==
  /\ jobs = <<>> /\ rems = <<>> /\ scans = <<>>
  /\ beat = {} /\ claims = 0 /\ dead = {}
  /\ held = [w \in Workers |-> Idle]
  /\ req = [c \in Clients |-> NoReq]
  /\ checkouts = {} /\ lost = {}
  /\ asks = 0 /\ faults = 0

Ask == asks < MaxAsks /\ asks' = asks + 1
Fault == faults < MaxFaults /\ faults' = faults + 1

(* createFixJob for a job of origin o.  "from" is the job it follows, 0     *)
(* when the user asked for it.                                             *)
Enqueue(o, run, from) ==
  LET r == LatestRem(o)
      open == r # 0 /\ rems[r].state = "open"
      rem == IF open THEN r ELSE Len(rems) + 1
      job == [status |-> "queued", rev |-> 0, rem |-> rem, cleanup |-> FALSE,
              worker |-> None, claim |-> 0, ws |-> IF open THEN rems[r].ws ELSE 0,
              pushed |-> FALSE, run |-> run, from |-> from]
  IN /\ Len(jobs) < MaxJobs
     /\ \A k \in JobIds : ~Cleaning(k)
     /\ r # 0 => rems[r].state # "frozen"
     /\ open => ~ScanOn(r) /\ ~BusyOn(r)
     /\ ~open => Len(rems) < MaxRems
     /\ rems' = IF open THEN rems
                ELSE Append(rems, [origin |-> o, state |-> "open", ws |-> 0])
     /\ jobs' = Append([k \in JobIds |->
                          IF k \in PausedOn(rem)
                          THEN Bump([jobs[k] EXCEPT !.status = "superseded"])
                          ELSE jobs[k]], job)

(* POST /api/fixes.                                                        *)
CreateFix(o) ==
  /\ Ask
  /\ Enqueue(o, 1, 0)
  /\ UNCHANGED <<scans, beat, claims, held, dead, req, checkouts, lost, faults>>

-----------------------------------------------------------------------------
(* The claim of a fixer                                                    *)

Claimable_Any(j) ==   \* mutant: the exclusion of shared branches is missing
  jobs[j].status = "queued"

(* claimNextFixJob skips a job while another on its branch, remediation or *)
(* workspace runs or still owns its checkout, or a child scan reads it.    *)
Claimable(j) ==
  /\ jobs[j].status = "queued"
  /\ ~ScanOn(jobs[j].rem)
  /\ \A k \in JobIds \ {j} : Shares(j, k) => jobs[k].status \notin Active /\ ~Cleaning(k)

Claim(w) ==
  \E j \in JobIds :
    /\ held[w].phase = "idle"
    /\ Claimable(j) /\ \A k \in 1..(j - 1) : ~Claimable(k)
    /\ claims' = claims + 1
    /\ SetJob(j, [jobs[j] EXCEPT !.status = "claimed", !.worker = w, !.claim = claims + 1])
    /\ beat' = beat \cup {j}
    /\ held' = [held EXCEPT ![w] = [Idle EXCEPT !.job = j, !.rev = jobs[j].rev + 1,
                                               !.claim = claims + 1, !.phase = "claimed"]]
    /\ UNCHANGED <<rems, scans, dead, req, checkouts, lost, asks, faults>>

(* heartbeatFixJob renews the claim it was given and nothing else; when it *)
(* is refused the worker stops its engine.                                 *)
Renews(j, w) ==
  jobs[j].worker = w /\ jobs[j].claim = held[w].claim /\ jobs[j].status \in Active

Heartbeat(w) ==
  LET j == held[w].job IN
  /\ held[w].phase \in {"claimed", "engine"}
  /\ \/ /\ Renews(j, w) /\ j \notin beat
        /\ beat' = beat \cup {j}
        /\ UNCHANGED held
     \/ /\ ~Renews(j, w)
        /\ held' = [held EXCEPT ![w].phase = "stopped"]
        /\ UNCHANGED beat
  /\ UNCHANGED <<jobs, rems, scans, claims, dead, req, checkouts, lost, asks, faults>>

(* Time passes the cutoff of a job's heartbeat.  It costs a fault while    *)
(* the worker of the claim is alive: it was suspended or cut off.          *)
Holder(j) == {w \in Workers : held[w].job = j /\ held[w].claim = jobs[j].claim}

Age(j) ==
  /\ jobs[j].status \in Active /\ j \in beat
  /\ beat' = beat \ {j}
  /\ UNCHANGED <<jobs, rems, scans, claims, held, dead, req, checkouts, lost, asks>>

Expire(j) == Holder(j) = {} /\ Age(j) /\ UNCHANGED faults
Suspend(j) == Holder(j) # {} /\ Age(j) /\ Fault

(* ReclaimStaleJobs.                                                       *)
Stale_Running ==   \* mutant: a job that never reached its engine is forgotten
  {j \in JobIds : jobs[j].status = "running" /\ j \notin beat}

Stale == {j \in JobIds : jobs[j].status \in Active /\ j \notin beat}

Reclaim ==
  /\ Stale # {}
  /\ jobs' = [j \in JobIds |-> IF j \in Stale
                               THEN Bump([jobs[j] EXCEPT !.status = "queued", !.worker = None])
                               ELSE jobs[j]]
  /\ UNCHANGED <<rems, scans, beat, claims, held, dead, req, checkouts, lost, asks, faults>>

Crash(w) ==
  /\ held[w].phase # "idle"
  /\ Fault
  /\ held' = [held EXCEPT ![w] = Idle]
  /\ dead' = dead \cup {held[w].claim}
  /\ UNCHANGED <<jobs, rems, scans, beat, claims, req, checkouts, lost, asks>>

(* A write of the worker's copy through updateFixJob: it lands, or the     *)
(* conflict stops the engine.                                              *)
Save(w, job, phase, out) ==
  LET j == held[w].job IN
  IF MayWrite(j, held[w].rev, job.status)
  THEN /\ SetJob(j, job)
       /\ held' = [held EXCEPT ![w].rev = jobs[j].rev + 1, ![w].ws = job.ws,
                               ![w].phase = phase, ![w].out = out]
  ELSE /\ held' = [held EXCEPT ![w].phase = "stopped"]
       /\ UNCHANGED jobs

(* The engine starts in the workspace of the job, made if it has none.     *)
StartEngine(w) ==
  LET j == held[w].job
      ws == IF jobs[j].ws = 0 THEN held[w].claim ELSE jobs[j].ws
  IN /\ held[w].phase = "claimed"
     /\ Save(w, [jobs[j] EXCEPT !.status = "running", !.ws = ws], "engine", NoResult)
     /\ checkouts' = IF jobs' # jobs /\ jobs[j].ws = 0 THEN checkouts \cup {ws} ELSE checkouts
     /\ UNCHANGED <<rems, scans, beat, claims, dead, req, lost, asks, faults>>

(* The engine returns and its result is written.                           *)
Finish(w) ==
  \E out \in Ends :
    /\ held[w].phase = "engine"
    /\ Save(w, [jobs[held[w].job] EXCEPT !.status = out.status, !.pushed = out.pushed],
            "done", out)
    /\ UNCHANGED <<rems, scans, beat, claims, dead, req, checkouts, lost, asks, faults>>

-----------------------------------------------------------------------------
(* Releasing a checkout                                                    *)

(* completeFixCancellation, up to the cleanup it calls.                    *)
CanRelease(j, rev) ==
  /\ jobs[j].rev = rev /\ Cleaning(j)
  /\ \A k \in JobIds \ {j} : Shares(j, k) => jobs[k].status \notin Busy \cup Paused
  /\ ~ScanOn(jobs[j].rem)

(* What it commits: the checkout is gone, the session discarded, and the   *)
(* job keeps nothing to recover.                                           *)
Release(j) ==
  /\ checkouts' = checkouts \ {jobs[j].ws}
  /\ rems' = [rems EXCEPT ![jobs[j].rem] =
                IF @.state = "open" THEN [@ EXCEPT !.state = "discarded", !.ws = 0] ELSE @]
  /\ SetJob(j, [jobs[j] EXCEPT !.cleanup = FALSE, !.worker = None, !.ws = 0])
  /\ UNCHANGED <<lost, faults>>

(* It fails.  The checkout survives when the branch is busy or when the    *)
(* cleanup itself failed, but not when only the commit did; the caller     *)
(* then writes the error into the job.                                     *)
ReleaseFails(j, rev, worker) ==
  /\ rems' = rems
  /\ IF MayWrite(j, rev, "cancelled")
     THEN SetJob(j, [jobs[j] EXCEPT !.worker = worker])
     ELSE jobs' = jobs
  /\ \/ /\ ~CanRelease(j, rev)
        /\ UNCHANGED <<checkouts, lost, faults>>
     \/ /\ CanRelease(j, rev)
        /\ Fault
        /\ \/ UNCHANGED <<checkouts, lost>>
           \/ /\ lost' = lost \cup ({jobs[j].ws} \ {0})
              /\ checkouts' = checkouts \ {jobs[j].ws}

Mine_Active(j, w) ==   \* mutant: a cancelled job counts as no longer its own
  Cleaning(j) /\ Renews(j, w)

(* The engine has stopped.  The worker of a cancelled claim acknowledges   *)
(* the cancellation; when that fails it leaves the job to a repeated       *)
(* DELETE.                                                                 *)
Mine(j, w) == Cleaning(j) /\ jobs[j].worker = w /\ jobs[j].claim = held[w].claim
Acknowledge(w) ==
  LET j == held[w].job IN
  /\ held[w].phase = "stopped"
  /\ held' = [held EXCEPT ![w] = Idle]
  /\ IF ~Mine(j, w) THEN UNCHANGED <<jobs, rems, checkouts, lost, faults>>
     ELSE \/ CanRelease(j, jobs[j].rev) /\ Release(j)
          \/ ReleaseFails(j, jobs[j].rev, None)
  /\ UNCHANGED <<scans, beat, claims, dead, req, asks>>

-----------------------------------------------------------------------------
(* The lineage after an agent run                                          *)

(* AfterAgentRun reads the session and records its workspace, if the       *)
(* worker's result is still the persisted one.                             *)
AfterRun(w) ==
  LET j == held[w].job
      r == jobs[j].rem
      live == jobs[j].rev = held[w].rev /\ rems[r].state = "open"
  IN /\ held[w].phase = "done"
     /\ rems' = IF live THEN [rems EXCEPT ![r].ws = held[w].ws] ELSE rems
     /\ held' = [held EXCEPT ![w] = IF live THEN [@ EXCEPT !.phase = "saved"] ELSE Idle]
     /\ UNCHANGED <<jobs, scans, beat, claims, dead, req, checkouts, lost, asks, faults>>

(* SupersedeSiblings lists the jobs of the session and writes each other   *)
(* paused one under the revision it listed.  A session has one job at most *)
(* that is not terminal (OneRunPerSession), so there is one write at most, *)
(* and it lands on the row that was listed or finds that the row moved     *)
(* since: then AfterAgentRun returns the error, and neither a freeze nor a *)
(* child scan follows.                                                     *)
SupersedeSiblings(w) ==
  LET j == held[w].job IN
  /\ held[w].phase = "saved"
  /\ \/ /\ jobs' = [k \in JobIds |-> IF k \in PausedOn(jobs[j].rem) \ {j}
                                   THEN Bump([jobs[k] EXCEPT !.status = "superseded"])
                                   ELSE jobs[k]]
        /\ held' = [held EXCEPT ![w].phase = "alone"]
     \/ /\ held' = [held EXCEPT ![w] = Idle]
        /\ UNCHANGED jobs
  /\ UNCHANGED <<rems, scans, beat, claims, dead, req, checkouts, lost, asks, faults>>

(* A pushed branch freezes the session; another result is scanned.         *)
(* beginRemediationScan admits the scan to the workspace.                  *)
MayScan(r, ws) ==
  /\ rems[r].state = "open" /\ rems[r].ws = ws
  /\ \A k \in JobIds : jobs[k].rem = r => jobs[k].status \notin Busy /\ ~Cleaning(k)

Conclude(w) ==
  LET j == held[w].job
      r == jobs[j].rem
      out == held[w].out
      ws == held[w].ws
  IN /\ held[w].phase = "alone"
     /\ held' = [held EXCEPT ![w] = Idle]
     /\ rems' = IF out.pushed /\ rems[r].state = "open"
                THEN [rems EXCEPT ![r].state = "frozen"] ELSE rems
     /\ scans' = IF /\ ~out.pushed /\ Len(scans) < MaxScans
                    /\ out.status \in {"succeeded", "awaiting_review", "awaiting_push"}
                    /\ MayScan(r, ws)
                 THEN Append(scans, [rem |-> r, ws |-> ws, job |-> j, status |-> "pending"])
                 ELSE scans
     /\ UNCHANGED <<jobs, beat, claims, dead, req, checkouts, lost, asks, faults>>

(* The child scan ends; a completed one calls MaybeEnqueueNextRun, whose   *)
(* checks and whose insertion are separate transactions.                   *)
SetScan(s, status) == scans' = [scans EXCEPT ![s].status = status]

EndScan(s) ==
  /\ scans[s].status = "pending"
  /\ \E status \in {"checking", "failed"} : SetScan(s, status)
  /\ UNCHANGED <<jobs, rems, beat, claims, held, dead, req, checkouts, lost, asks, faults>>

(* A job whose result may be followed by another run.                      *)
Ended(j) == jobs[j].status \in {"awaiting_push", "succeeded"}

MoreRuns(j) == jobs[j].run < PlannedRuns

NextRunCheck(s) ==
  LET j == scans[s].job
      wanted == /\ MoreRuns(j) /\ Ended(j)
                /\ rems[jobs[j].rem].state = "open"
                /\ \A k \in JobIds : jobs[k].rem = jobs[j].rem =>
                     jobs[k].status \notin Busy /\ jobs[k].run <= jobs[j].run
  IN /\ scans[s].status = "checking"
     /\ SetScan(s, IF wanted THEN "creating" ELSE "over")
     /\ UNCHANGED <<jobs, rems, beat, claims, held, dead, req, checkouts, lost, asks, faults>>

MayFollow_Stale(j) == TRUE   \* mutant: the earlier check is trusted

(* createFixJob checks the predecessor and the number of the run again.    *)
MayFollow(j) == Ended(j) /\ MoreRuns(j)
NextRun(j) == jobs[j].run + 1

NextRunCreate(s) ==
  LET j == scans[s].job IN
  /\ scans[s].status = "creating"
  /\ SetScan(s, "over")
  /\ \/ MayFollow(j) /\ Enqueue(rems[jobs[j].rem].origin, NextRun(j), j)
     \/ UNCHANGED <<jobs, rems>>      \* refused, or the process stopped here
  /\ UNCHANGED <<beat, claims, held, dead, req, checkouts, lost, asks, faults>>

-----------------------------------------------------------------------------
(* Requests                                                                *)

SetReq(c, op, j, rev) == req' = [req EXCEPT ![c] = [op |-> op, job |-> j, rev |-> rev]]
EndReq(c) == req' = [req EXCEPT ![c] = NoReq]

(* DELETE /api/fixes/{id} reads the job: a finished one is refused, one    *)
(* that is cancelled already has its cleanup retried once no worker holds  *)
(* it.                                                                     *)
CancelRead(c) ==
  \E j \in JobIds :
    /\ req[c] = NoReq /\ Ask
    /\ \/ jobs[j].status \notin Terminal /\ SetReq(c, "cancel", j, jobs[j].rev)
       \/ Cleaning(j) /\ jobs[j].worker = None /\ SetReq(c, "cleanup", j, jobs[j].rev)
    /\ UNCHANGED <<jobs, rems, scans, beat, claims, held, dead, checkouts, lost, faults>>

KeepsClaim_Never(j) == FALSE   \* mutant: the request cleans up under the engine

(* It persists the cancellation; the worker of an active claim keeps the   *)
(* checkout, any other is cleaned up by the request.                       *)
KeepsClaim(j) == jobs[j].status \in Active
CancelWrite(c) ==
  LET j == req[c].job
      worker == IF KeepsClaim(j) THEN jobs[j].worker ELSE None
  IN /\ req[c].op = "cancel"
     /\ IF MayWrite(j, req[c].rev, "cancelled")
        THEN /\ SetJob(j, [jobs[j] EXCEPT !.status = "cancelled", !.cleanup = TRUE,
                                           !.worker = worker])
             /\ IF worker = None THEN SetReq(c, "cleanup", j, jobs[j].rev + 1) ELSE EndReq(c)
        ELSE UNCHANGED jobs /\ EndReq(c)
     /\ UNCHANGED <<rems, scans, beat, claims, held, dead, checkouts, lost, asks, faults>>

CancelCleanup(c) ==
  LET j == req[c].job IN
  /\ req[c].op = "cleanup"
  /\ EndReq(c)
  /\ \/ CanRelease(j, req[c].rev) /\ Release(j)
     \/ ReleaseFails(j, req[c].rev, jobs[j].worker)
  /\ UNCHANGED <<scans, beat, claims, held, dead, asks>>

(* POST /api/fixes/{id}/resume.                                            *)
ResumeRead(c) ==
  \E j \in JobIds :
    /\ req[c] = NoReq /\ Ask
    /\ jobs[j].status \in Paused
    /\ SetReq(c, "resume", j, jobs[j].rev)
    /\ UNCHANGED <<jobs, rems, scans, beat, claims, held, dead, checkouts, lost, faults>>

ResumeWrite(c) ==
  LET j == req[c].job IN
  /\ req[c].op = "resume"
  /\ EndReq(c)
  /\ IF MayQueue(j) /\ MayWrite(j, req[c].rev, "queued")
     THEN SetJob(j, [jobs[j] EXCEPT !.status = "queued", !.worker = None])
     ELSE UNCHANGED jobs
  /\ UNCHANGED <<rems, scans, beat, claims, held, dead, checkouts, lost, asks, faults>>

MayAccept_Scan(r) ==   \* mutant: a child scan of the checkout is no obstacle
  /\ rems[r].state = "open"
  /\ \E j \in JobIds : jobs[j].rem = r /\ jobs[j].claim # 0
  /\ \A k \in JobIds : jobs[k].rem = r => jobs[k].status \notin Busy /\ ~Cleaning(k)

(* POST /api/v1/remediations/{id}/accept: an open session with a branch,   *)
(* or a frozen one whose publication succeeded, gives up its checkout.     *)
MayAccept(r) ==
  /\ \/ /\ rems[r].state = "open"
        /\ \E j \in JobIds : jobs[j].rem = r /\ jobs[j].claim # 0
     \/ /\ rems[r].state = "frozen" /\ rems[r].ws # 0
        /\ \E j \in JobIds : /\ jobs[j].rem = r /\ jobs[j].ws = rems[r].ws
                             /\ jobs[j].status = "succeeded" /\ jobs[j].pushed
  /\ \A k \in JobIds :
       \/ jobs[k].rem = r
       \/ BranchOfJob(k) = BranchOf[rems[r].origin]
       \/ rems[r].ws # 0 /\ jobs[k].ws = rems[r].ws
       => jobs[k].status \notin Busy /\ ~Cleaning(k)
  /\ ~ScanOn(r)

Accept(r) ==
  /\ Ask
  /\ MayAccept(r)
  /\ checkouts' = checkouts \ {rems[r].ws}
  /\ \/ /\ rems' = [rems EXCEPT ![r].state = "frozen", ![r].ws = 0]
        /\ jobs' = [k \in JobIds |->
             IF /\ jobs[k].rem = r
                /\ \/ jobs[k].status \in Paused
                   \/ jobs[k].status = "succeeded" /\ jobs[k].ws = rems[r].ws
             THEN Bump([jobs[k] EXCEPT !.status = "succeeded", !.ws = 0])
             ELSE jobs[k]]
        /\ UNCHANGED <<lost, faults>>
     \/ /\ Fault                       \* the commit fails after the cleanup
        /\ lost' = lost \cup ({rems[r].ws} \ {0})
        /\ UNCHANGED <<jobs, rems>>
  /\ UNCHANGED <<scans, beat, claims, held, dead, req>>

-----------------------------------------------------------------------------
Fixer(w) == Claim(w) \/ StartEngine(w) \/ Finish(w) \/ Acknowledge(w)
            \/ AfterRun(w) \/ SupersedeSiblings(w) \/ Conclude(w)
Request(c) == CancelWrite(c) \/ CancelCleanup(c) \/ ResumeWrite(c)
Server(s) == EndScan(s) \/ NextRunCheck(s) \/ NextRunCreate(s)

Next ==
  \/ \E o \in Origins : CreateFix(o)
  \/ \E w \in Workers : Fixer(w) \/ Heartbeat(w) \/ Crash(w)
  \/ \E c \in Clients : CancelRead(c) \/ ResumeRead(c) \/ Request(c)
  \/ \E s \in DOMAIN scans : Server(s)
  \/ \E r \in RemIds : Accept(r)
  \/ \E j \in JobIds : Expire(j) \/ Suspend(j)
  \/ Reclaim

Spec == Init /\ [][Next]_vars

(* A live process takes its next step, a request and a child scan end, the *)
(* reclaim loop runs and time passes.  Heartbeats, requests and faults are *)
(* not promised.                                                           *)
FairSpec ==
  /\ Spec
  /\ \A w \in Workers : WF_vars(Fixer(w))
  /\ \A c \in Clients : WF_vars(Request(c))
  /\ \A s \in 1..MaxScans : WF_vars(s \in DOMAIN scans /\ Server(s))
  /\ \A j \in 1..MaxJobs : WF_vars(j \in JobIds /\ Expire(j))
  /\ WF_vars(Reclaim)

-----------------------------------------------------------------------------
TypeOK ==
  /\ jobs \in Seq([status : Statuses, rev : Nat, rem : 1..MaxRems, cleanup : BOOLEAN,
                   worker : Workers \cup {None}, claim : 0..claims, ws : 0..claims,
                   pushed : BOOLEAN, run : 1..PlannedRuns, from : 0..MaxJobs])
  /\ Len(jobs) <= MaxJobs
  /\ rems \in Seq([origin : Origins, state : {"open", "frozen", "discarded"}, ws : 0..claims])
  /\ Len(rems) <= MaxRems
  /\ scans \in Seq([rem : RemIds, ws : 1..claims, job : JobIds,
                    status : {"pending", "failed", "checking", "creating", "over"}])
  /\ \A j \in JobIds : jobs[j].rem \in RemIds
  /\ beat \subseteq JobIds /\ claims \in Nat /\ dead \subseteq 1..claims
  /\ held \in [Workers -> [job : 0..MaxJobs, rev : Nat, claim : 0..claims, ws : 0..claims,
                           out : Results \cup {NoResult},
                           phase : {"idle", "claimed", "engine", "stopped", "done", "saved", "alone"}]]
  /\ req \in [Clients -> [op : {"none", "cancel", "cleanup", "resume"}, job : 0..MaxJobs, rev : Nat]]
  /\ checkouts \subseteq 1..claims /\ lost \subseteq 1..claims
  /\ asks \in 0..MaxAsks /\ faults \in 0..MaxFaults

(* Two agents never run on one branch, session or workspace, whatever is   *)
(* reclaimed, resumed or created meanwhile.                                *)
OneActivePerBranch ==
  \A j, k \in JobIds :
    j # k /\ Shares(j, k) => ~(jobs[j].status \in Active /\ jobs[k].status \in Active)

(* A session has one run that is still going or waiting for its review:    *)
(* a new run supersedes the paused one in the transaction that creates it, *)
(* and neither a resume nor a stale claim brings an older one back.        *)
OneRunPerSession ==
  \A j, k \in JobIds :
    j # k /\ jobs[j].rem = jobs[k].rem => jobs[j].status \in Terminal \/ jobs[k].status \in Terminal

(* A job that can still run or be resumed, a child scan and an open        *)
(* session never name a workspace that a cancellation or a hand-off of     *)
(* someone else removed; only a cleanup whose commit failed leaves one     *)
(* behind.                                                                 *)
CheckoutSafe ==
  LET there(ws) == ws # 0 => ws \in checkouts \cup lost
  IN /\ \A j \in JobIds : jobs[j].status \in Busy \cup Paused => there(jobs[j].ws)
     /\ \A s \in DOMAIN scans : scans[s].status = "pending" => there(scans[s].ws)
     /\ \A r \in RemIds : rems[r].state = "open" => there(rems[r].ws)

(* An engine whose claim is the newest and was renewed in time keeps its   *)
(* workspace until it has returned, also after the job was cancelled.      *)
EngineKeepsCheckout ==
  \A w \in Workers :
    LET j == held[w].job IN
    held[w].phase = "engine" /\ j \in beat /\ jobs[j].claim = held[w].claim
      => jobs[j].ws \in checkouts \cup lost

(* A follow-up run exists only after a predecessor that was not cancelled: *)
(* the cancellation that wins between the check and the insertion stops it.*)
FollowsSuccess ==
  \A j \in JobIds :
    jobs[j].from # 0 => jobs[jobs[j].from].status \in {"succeeded", "superseded"}

(* A terminal status is final and the result of an agent is written only   *)
(* by the worker of the newest claim, while the job is still active.       *)
Fenced ==
  [][/\ \A j \in JobIds : jobs[j].status \in Terminal => jobs'[j].status = jobs[j].status
     /\ \A w \in Workers : LET j == held[w].job IN
          held[w].phase # held'[w].phase /\ held'[w].phase \in {"engine", "done"} =>
            jobs[j].worker = w /\ jobs[j].claim = held[w].claim /\ jobs[j].status \in Active]_vars

(* A queued job is taken, unless a cancellation that is not cleaned up     *)
(* holds the repository.                                                   *)
QueueDrains ==
  \A j \in 1..MaxJobs :
    (j \in JobIds /\ jobs[j].status = "queued")
      ~> (j \in JobIds /\ (jobs[j].status # "queued" \/ \E k \in JobIds : Cleaning(k)))

(* A live worker whose job was cancelled under it acknowledges: the        *)
(* cleanup is done, or left to a repeated DELETE.                          *)
CancelAcknowledged ==
  \A w \in Workers, j \in 1..MaxJobs :
    (j \in JobIds /\ Cleaning(j) /\ jobs[j].worker = w /\ held[w].job = j /\ held[w].claim = jobs[j].claim)
      ~> (j \in JobIds /\ (~Cleaning(j) \/ jobs[j].worker = None \/ jobs[j].claim \in dead))

=============================================================================
