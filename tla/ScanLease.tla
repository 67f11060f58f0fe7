------------------------------ MODULE ScanLease ------------------------------
(***************************************************************************)
(* One scan row of the durable scan queue and the claim-loop slots that    *)
(* work on it: the statements of internal/db/postgres_scanqueue.go, the    *)
(* worker and heartbeat goroutines of internal/scanjob/worker.go and the   *)
(* row-level skeleton of executeScan in internal/api/routes/scans.go.      *)
(*                                                                         *)
(* Every database statement is one step; whatever the executor remembers   *)
(* between two statements (its token, a whole copy of the row) is state of *)
(* its own.  Time is counted in ticks.  lease_expires_at is kept as the    *)
(* number of ticks left, 0 once it lies in the past.  A lease token, a     *)
(* fresh UUID per claim, is the number of the claim; 0 is the empty token. *)
(***************************************************************************)
EXTENDS Integers

CONSTANTS
    Workers,          \* claim-loop slots of all scan-worker processes
    MaxAttempts,      \* scans.max_attempts (2 for a scan made by the API)
    MaxClaims,        \* bound: claims of the scan in one behaviour
    LeaseTicks,       \* Config.Lease
    HeartbeatTicks,   \* Config.Heartbeat
    CopyTicks,        \* longest time a row copy is held before it is written
    CallTicks,        \* longest time one heartbeat statement takes
    StallPhases,      \* phases in which a worker process may freeze
    MaxStalls,        \* bound: process freezes
    MaxCrashes,       \* bound: process crashes and shutdowns
    MaxErrors         \* bound: heartbeat statements that return an error

ASSUME LeaseAssumption ==
    /\ MaxAttempts \in Nat \ {0}
    /\ MaxClaims \in Nat \ {0}
    /\ HeartbeatTicks \in Nat \ {0}
    /\ LeaseTicks \in Nat \ {0}
    /\ CopyTicks \in Nat
    /\ CallTicks \in Nat
    /\ MaxStalls \in Nat
    /\ MaxCrashes \in Nat
    /\ MaxErrors \in Nat

VARIABLES
    scan,         \* the row of table scans
    claims,       \* number of claims so far, i.e. of lease tokens drawn
    phase,        \* where each slot is in claimLoop / executeScan
    claim,        \* scan.LeaseToken as ClaimNextScan returned it
    fence,        \* executionLeaseToken, as executeScan read it
    copy,         \* the whole-row copy the executor will write back
    copyAge,      \* ticks since that copy was read
    live,         \* FALSE once the executor's context is cancelled
    beat,         \* ticks since the heartbeat ticker last fired
    renewed,      \* ticks since lastSuccess
    call,         \* the heartbeat statement in flight: the lease it will set
    stalled,      \* frozen processes
    publisher,    \* claim of the executor whose CompleteScan committed
    budget        \* what is left of the environment's bounds

execVars  == <<phase, claim, fence, copy, copyAge>>
beatVars  == <<live, beat, renewed, call>>
envVars   == <<claims, stalled, budget>>
vars == <<scan, claims, execVars, beatVars, stalled, publisher, budget>>

-----------------------------------------------------------------------------
NoToken == 0
NoLease == -1
NoCall  == -1
NoCopy  == [status |-> "none", token |-> NoToken, attempt |-> 0,
            lease |-> NoLease, cancel |-> FALSE]

Statuses  == {"pending", "running", "completed", "failed", "cancelled"}
Finished  == {"completed", "failed", "cancelled"}
Phases    == {"idle", "claimed", "loaded", "started", "preparing", "prepared",
              "scanning", "updating", "completing", "finalizing", "failing"}
Tokens    == 0 .. MaxClaims

Row == [status : Statuses, token : Tokens, attempt : 0 .. MaxAttempts,
        lease : NoLease .. LeaseTicks, cancel : BOOLEAN]

TypeOK ==
    /\ scan \in Row
    /\ claims \in Tokens
    /\ phase \in [Workers -> Phases]
    /\ claim \in [Workers -> Tokens]
    /\ fence \in [Workers -> Tokens]
    /\ copy \in [Workers -> Row \cup {NoCopy}]
    /\ copyAge \in [Workers -> 0 .. CopyTicks]
    /\ live \in [Workers -> BOOLEAN]
    /\ beat \in [Workers -> 0 .. HeartbeatTicks]
    /\ renewed \in [Workers -> 0 .. LeaseTicks]
    /\ call \in [Workers -> NoCall .. LeaseTicks]
    /\ stalled \in [Workers -> BOOLEAN]
    /\ publisher \in Tokens
    /\ budget \in [stalls : 0 .. MaxStalls, crashes : 0 .. MaxCrashes,
                   errors : 0 .. MaxErrors]

Init ==
    /\ scan = [status |-> "pending", token |-> NoToken, attempt |-> 0,
               lease |-> NoLease, cancel |-> FALSE]
    /\ claims = 0
    /\ phase = [w \in Workers |-> "idle"]
    /\ claim = [w \in Workers |-> NoToken]
    /\ fence = [w \in Workers |-> NoToken]
    /\ copy = [w \in Workers |-> NoCopy]
    /\ copyAge = [w \in Workers |-> 0]
    /\ live = [w \in Workers |-> FALSE]
    /\ beat = [w \in Workers |-> 0]
    /\ renewed = [w \in Workers |-> 0]
    /\ call = [w \in Workers |-> NoCall]
    /\ stalled = [w \in Workers |-> FALSE]
    /\ publisher = NoToken
    /\ budget = [stalls |-> MaxStalls, crashes |-> MaxCrashes,
                 errors |-> MaxErrors]

-----------------------------------------------------------------------------
(* What the statements' WHERE clauses and the goroutines test. *)

Executing(w) == phase[w] # "idle"
At(w, p)     == phase[w] = p /\ ~stalled[w]

\* WHERE status='running' AND lease_token=tok AND cancel_requested_at IS NULL
HoldsAnyToken(tok) == scan.status = "running" /\ ~scan.cancel   \* mutant
HoldsByToken(tok) == scan.token = tok                            \* mutant
Holds(tok) == scan.status = "running" /\ scan.token = tok /\ ~scan.cancel

\* scanExecutionOwned: an executor without a token does not ask.
Owned(w) == fence[w] = NoToken \/ Holds(fence[w])

Goto(w, p) == phase' = [phase EXCEPT ![w] = p]

\* executeScan has returned: its goroutines end and its locals are gone.
Return(w) ==
    /\ phase' = [phase EXCEPT ![w] = "idle"]
    /\ claim' = [claim EXCEPT ![w] = NoToken]
    /\ fence' = [fence EXCEPT ![w] = NoToken]
    /\ copy' = [copy EXCEPT ![w] = NoCopy]
    /\ copyAge' = [copyAge EXCEPT ![w] = 0]
    /\ live' = [live EXCEPT ![w] = FALSE]
    /\ beat' = [beat EXCEPT ![w] = 0]
    /\ renewed' = [renewed EXCEPT ![w] = 0]
    /\ call' = [call EXCEPT ![w] = NoCall]

TakeCopy(w) ==
    /\ copy' = [copy EXCEPT ![w] = scan]
    /\ copyAge' = [copyAge EXCEPT ![w] = 0]

DropCopy(w) ==
    /\ copy' = [copy EXCEPT ![w] = NoCopy]
    /\ copyAge' = [copyAge EXCEPT ![w] = 0]

\* UpdateScan writes every column of the caller's copy, the lease columns
\* included; a copy with the empty token skips the ownership test.
UpdateAccepted(row) ==
    /\ row.token = NoToken \/ Holds(row.token)
    /\ ~scan.cancel \/ row.cancel

UpdateScan(row) == scan' = IF UpdateAccepted(row) THEN row ELSE scan

\* FinalizeScan and CompleteScan end the claim in the same statement.
Finalized(status) == [scan EXCEPT !.status = status, !.token = NoToken,
                                  !.lease = NoLease]

\* A worker's lease has run out / may be taken over once more.
StaleRetryable == /\ scan.status = "running" /\ scan.lease = 0   \* mutant
                  /\ scan.attempt < MaxAttempts
Stale == scan.status = "running" /\ scan.lease = 0

RetryLeft == scan.attempt < MaxAttempts

\* The executor is stopped once the lease was not renewed for so long.
WholeLease == LeaseTicks                                          \* mutant
StopAfter == LeaseTicks - HeartbeatTicks

-----------------------------------------------------------------------------
(* claimLoop *)

ClaimNextScan(w) ==
    /\ At(w, "idle")
    /\ scan.status = "pending" /\ ~scan.cancel
    /\ claims < MaxClaims
    /\ claims' = claims + 1
    /\ scan' = [scan EXCEPT !.status = "running", !.token = claims',
                            !.attempt = @ + 1, !.lease = LeaseTicks]
    /\ Goto(w, "claimed")
    /\ claim' = [claim EXCEPT ![w] = claims']
    /\ live' = [live EXCEPT ![w] = TRUE]
    /\ UNCHANGED <<fence, copy, copyAge, beat, renewed, call, publisher,
                   stalled, budget>>

ReclaimStaleScans(w) ==
    /\ At(w, "idle")
    /\ Stale
    /\ scan' = [scan EXCEPT
                   !.status = IF RetryLeft THEN "pending" ELSE "failed",
                   !.token = NoToken, !.lease = NoLease]
    /\ UNCHANGED <<execVars, beatVars, publisher, envVars>>

-----------------------------------------------------------------------------
(* executeScan, one action per database statement *)

\* The fence is read back from the row, not taken from the claim.
LoadToken(w) ==
    /\ At(w, "claimed") /\ live[w]
    /\ fence' = [fence EXCEPT ![w] = scan.token]
    /\ Goto(w, "loaded")
    /\ UNCHANGED <<scan, claim, copy, copyAge, beatVars, publisher, envVars>>

StartGuard(w) ==
    /\ scan.status = IF fence[w] = NoToken THEN "pending" ELSE "running"
    /\ fence[w] # NoToken => scan.token = fence[w]
    /\ ~scan.cancel

StartScanExecution(w) ==
    /\ At(w, "loaded") /\ live[w]
    /\ StartGuard(w)
    /\ scan' = [scan EXCEPT !.status = "running"]
    /\ Goto(w, "started")
    /\ UNCHANGED <<claim, fence, copy, copyAge, beatVars, publisher, envVars>>

\* The claim was lost or cancelled, or the context is gone: plain return.
AbandonStart(w) ==
    /\ \/ At(w, "loaded") /\ ~StartGuard(w)
       \/ \E p \in {"claimed", "loaded", "started"} : At(w, p) /\ ~live[w]
    /\ Return(w)
    /\ UNCHANGED <<scan, publisher, envVars>>

LoadScan(w) ==
    /\ At(w, "started") /\ live[w]
    /\ TakeCopy(w)
    /\ Goto(w, "preparing")
    /\ UNCHANGED <<scan, claim, fence, beatVars, publisher, envVars>>

\* Release resolution, clone, and the reset of an earlier attempt's evidence.
PrepareSource(w) ==
    /\ At(w, "preparing") /\ live[w]
    /\ Goto(w, "prepared")
    /\ UNCHANGED <<scan, claim, fence, copy, copyAge, beatVars, publisher,
                   envVars>>

PrepareFails(w) ==
    /\ \/ At(w, "preparing")
       \/ At(w, "prepared") /\ ~live[w]
    /\ Goto(w, "failing")
    /\ UNCHANGED <<scan, claim, fence, copy, copyAge, beatVars, publisher,
                   envVars>>

SaveSource(w) ==
    /\ At(w, "prepared") /\ live[w]
    /\ UpdateScan(copy[w])
    /\ DropCopy(w)
    /\ Goto(w, "scanning")
    /\ UNCHANGED <<claim, fence, beatVars, publisher, envVars>>

\* OnToolsSelected and OnToolDone: read the row, then write all of it back.
ReadProgress(w) ==
    /\ At(w, "scanning")
    /\ Owned(w)
    /\ TakeCopy(w)
    /\ Goto(w, "updating")
    /\ UNCHANGED <<scan, claim, fence, beatVars, publisher, envVars>>

WriteProgress(w) ==
    /\ At(w, "updating")
    /\ UpdateScan([copy[w] EXCEPT !.token = fence[w]])
    /\ DropCopy(w)
    /\ Goto(w, "scanning")
    /\ UNCHANGED <<claim, fence, beatVars, publisher, envVars>>

\* runner.Run has returned and the row is reloaded.
FinishRun(w, outcome) ==
    /\ At(w, "scanning")
    /\ fence[w] = NoToken \/ scan.token = fence[w]
    /\ scan.status # "cancelled"
    /\ outcome = "completing" => live[w]
    /\ Goto(w, outcome)
    /\ UNCHANGED <<scan, claim, fence, copy, copyAge, beatVars, publisher,
                   envVars>>

\* A stale executor returns at the reload; a cancelled one at the fenced
\* cluster write that follows it.
AbandonRun(w) ==
    /\ At(w, "scanning")
    /\ \/ fence[w] # NoToken /\ scan.token # fence[w]
       \/ scan.status = "cancelled"
    /\ Return(w)
    /\ UNCHANGED <<scan, publisher, envVars>>

CompleteScan(w) ==
    /\ At(w, "completing")
    /\ IF Holds(fence[w])
       THEN /\ scan' = Finalized("completed")
            /\ publisher' = claim[w]
       ELSE UNCHANGED <<scan, publisher>>
    /\ Return(w)
    /\ UNCHANGED envVars

\* Publication failed or its snapshot stayed stale: the run becomes failed.
CompleteFails(w) ==
    /\ At(w, "completing")
    /\ Goto(w, "finalizing")
    /\ UNCHANGED <<scan, claim, fence, copy, copyAge, beatVars, publisher,
                   envVars>>

FinalizeScan(w) ==
    /\ At(w, "finalizing")
    /\ scan' = IF Holds(fence[w]) THEN Finalized("failed") ELSE scan
    /\ Return(w)
    /\ UNCHANGED <<publisher, envVars>>

FailPreparedScan(w) ==
    /\ At(w, "failing")
    /\ IF fence[w] = NoToken
       THEN UpdateScan([copy[w] EXCEPT !.status = "failed"])
       ELSE scan' = IF Holds(fence[w]) THEN Finalized("failed") ELSE scan
    /\ Return(w)
    /\ UNCHANGED <<publisher, envVars>>

-----------------------------------------------------------------------------
(* scanHeartbeat and watchDurableScanCancellation *)

SendHeartbeat(w) ==
    /\ Executing(w) /\ ~stalled[w] /\ live[w]
    /\ call[w] = NoCall /\ beat[w] = HeartbeatTicks
    /\ call' = [call EXCEPT ![w] = LeaseTicks]
    /\ beat' = [beat EXCEPT ![w] = 0]
    /\ UNCHANGED <<scan, execVars, live, renewed, publisher, envVars>>

HeartbeatScanLease(w) ==
    /\ call[w] # NoCall /\ ~stalled[w]
    /\ IF scan.token = claim[w] /\ scan.status = "running"
       THEN /\ scan' = [scan EXCEPT !.lease = call[w]]
            /\ renewed' = [renewed EXCEPT ![w] = 0]
            /\ UNCHANGED live
       ELSE /\ live' = [live EXCEPT ![w] = FALSE]
            /\ UNCHANGED <<scan, renewed>>
    /\ call' = [call EXCEPT ![w] = NoCall]
    /\ UNCHANGED <<execVars, beat, publisher, envVars>>

HeartbeatErrs(w) ==
    /\ call[w] # NoCall /\ ~stalled[w]
    /\ budget.errors > 0
    /\ budget' = [budget EXCEPT !.errors = @ - 1]
    /\ live' = [live EXCEPT ![w] =
                  live[w] /\ renewed[w] < StopAfter]
    /\ call' = [call EXCEPT ![w] = NoCall]
    /\ UNCHANGED <<scan, claims, execVars, beat, renewed, stalled, publisher>>

WatchCancellation(w) ==
    /\ Executing(w) /\ ~stalled[w] /\ live[w]
    /\ scan.cancel
    /\ live' = [live EXCEPT ![w] = FALSE]
    /\ UNCHANGED <<scan, execVars, beat, renewed, call, publisher, envVars>>

-----------------------------------------------------------------------------
(* The API and the environment *)

RequestScanCancellation ==
    /\ scan.status \in {"pending", "running"}
    /\ scan' = [scan EXCEPT !.status = "cancelled", !.cancel = TRUE]
    /\ UNCHANGED <<execVars, beatVars, publisher, envVars>>

\* SIGTERM cancels the context every executor of the process derives from.
StopWorker(w) ==
    /\ Executing(w) /\ ~stalled[w] /\ live[w] /\ budget.crashes > 0
    /\ budget' = [budget EXCEPT !.crashes = @ - 1]
    /\ live' = [live EXCEPT ![w] = FALSE]
    /\ UNCHANGED <<scan, claims, execVars, beat, renewed, call, stalled,
                   publisher>>

Crash(w) ==
    /\ Executing(w) /\ budget.crashes > 0
    /\ budget' = [budget EXCEPT !.crashes = @ - 1]
    /\ stalled' = [stalled EXCEPT ![w] = FALSE]
    /\ Return(w)
    /\ UNCHANGED <<scan, claims, publisher>>

Stall(w) ==
    /\ phase[w] \in StallPhases /\ ~stalled[w] /\ budget.stalls > 0
    /\ budget' = [budget EXCEPT !.stalls = @ - 1]
    /\ stalled' = [stalled EXCEPT ![w] = TRUE]
    /\ UNCHANGED <<scan, claims, execVars, beatVars, publisher>>

Thaw(w) ==
    /\ stalled[w]
    /\ stalled' = [stalled EXCEPT ![w] = FALSE]
    /\ UNCHANGED <<scan, claims, execVars, beatVars, publisher, budget>>

\* A running process serves its ticker, its calls and its row copies in time.
OnTime(w) ==
    \/ ~Executing(w)
    \/ stalled[w]
    \/ /\ live[w] => beat[w] < HeartbeatTicks \/ call[w] # NoCall
       /\ call[w] # NoCall => call[w] > LeaseTicks - CallTicks
       /\ copy[w] # NoCopy => copyAge[w] < CopyTicks

Older(age, limit) == IF age < limit THEN age + 1 ELSE age
Shorter(left)     == IF left > 0 THEN left - 1 ELSE left

Tick ==
    /\ \A w \in Workers : OnTime(w)
    /\ scan' = [scan EXCEPT !.lease = Shorter(@)]
    /\ copy' = [w \in Workers |-> [copy[w] EXCEPT !.lease = Shorter(@)]]
    /\ copyAge' = [w \in Workers |->
                     IF copy[w] = NoCopy THEN 0
                                         ELSE Older(copyAge[w], CopyTicks)]
    /\ beat' = [w \in Workers |->
                  IF live[w] THEN Older(beat[w], HeartbeatTicks) ELSE beat[w]]
    /\ renewed' = [w \in Workers |->
                     IF live[w] THEN Older(renewed[w], LeaseTicks)
                                ELSE renewed[w]]
    /\ call' = [w \in Workers |-> Shorter(call[w])]
    /\ UNCHANGED <<phase, claim, fence, live, publisher, envVars>>

-----------------------------------------------------------------------------
Execute(w) ==
    \/ LoadToken(w) \/ StartScanExecution(w) \/ AbandonStart(w) \/ LoadScan(w)
    \/ PrepareSource(w) \/ PrepareFails(w) \/ SaveSource(w)
    \/ WriteProgress(w) \/ CompleteScan(w) \/ CompleteFails(w)
    \/ FinalizeScan(w) \/ FailPreparedScan(w)

EndRun(w) ==
    \/ \E outcome \in {"completing", "finalizing"} : FinishRun(w, outcome)
    \/ AbandonRun(w)

Heartbeat(w) == SendHeartbeat(w) \/ HeartbeatScanLease(w)

Next ==
    \/ \E w \in Workers :
          \/ ClaimNextScan(w) \/ ReclaimStaleScans(w)
          \/ Execute(w) \/ ReadProgress(w) \/ EndRun(w)
          \/ Heartbeat(w) \/ HeartbeatErrs(w) \/ WatchCancellation(w)
          \/ StopWorker(w) \/ Crash(w) \/ Stall(w) \/ Thaw(w)
    \/ RequestScanCancellation
    \/ Tick

Spec == Init /\ [][Next]_vars

\* Claim loops poll for ever, goroutines run, clocks advance, freezes end.
\* EndRun is strongly fair: tool callbacks interrupt it, but finitely many.
Fairness ==
    /\ WF_vars(Tick)
    /\ \A w \in Workers :
          /\ WF_vars(ClaimNextScan(w)) /\ WF_vars(ReclaimStaleScans(w))
          /\ WF_vars(Execute(w)) /\ SF_vars(EndRun(w))
          /\ WF_vars(Heartbeat(w)) /\ WF_vars(WatchCancellation(w))
          /\ WF_vars(Thaw(w))

FairSpec == Spec /\ Fairness

-----------------------------------------------------------------------------
(* Properties *)

\* A scan is handed out at most max_attempts times, although ClaimNextScan
\* never looks at the budget: it rests on every other writer of the row.
AttemptBudget == claims <= MaxAttempts

\* "UpdateScan never lets a writer that did not see a cancellation (stale
\* whole-row copy) erase it": once cancellation is requested, no statement of
\* any executor, however stale its token or its copy, erases the request or
\* brings the scan back to be queued, run or completed.
CancelIsFinal ==
    [][scan.cancel =>
         scan'.cancel /\ scan'.status \in {"cancelled", "failed"}]_vars

\* What makes TypeOK and CancelIsFinal inductive.  Every row that may still be
\* written, the table's and each copy in memory, keeps a cancelled scan ended
\* and a queued scan within its attempts; an executor that will write a copy
\* has read one.
Sound(row) ==
    /\ row.cancel => row.status \in {"cancelled", "failed"}
    /\ row.status = "pending" => row.attempt < MaxAttempts
CopyHeld(w) ==
    phase[w] \in {"preparing", "prepared", "updating", "failing"} =>
       copy[w] \in Row
RowsSound ==
    /\ Sound(scan)
    /\ \A w \in Workers : CopyHeld(w) /\ Sound(copy[w])

\* Exclusive ownership: while the context of an executor is live, nobody else
\* has been given its scan and the scan has not been requeued.  The worker
\* stops by a clock of its own, the row expires by its stored column; this says
\* that the two agree.
LiveExecutorOwns ==
    \A w \in Workers :
       Executing(w) /\ live[w] =>
          scan.token = claim[w] \/ scan.status \in Finished

\* However its renewals fail and however long they take, an executor that no
\* freeze keeps from asking is past its window only while it waits for the
\* answer to a heartbeat that it sent inside it: once the statement returns,
\* renewed, refused or failed, the executor is in its window or stopped.
StopsInTime ==
    budget.stalls = MaxStalls =>
       \A w \in Workers :
          Executing(w) /\ live[w] /\ call[w] = NoCall =>
             renewed[w] < LeaseTicks

\* "Stop this executor before that ownership window elapses" (scanHeartbeat):
\* no executor outlives its window, one that waits for an answer included.
StopsBeforeWindow ==
    budget.stalls = MaxStalls =>
       \A w \in Workers : Executing(w) /\ live[w] => renewed[w] < LeaseTicks

\* The published result of a completed scan is the latest claim's, however
\* late a superseded executor arrives at its CompleteScan.
PublishedByOwner == scan.status = "completed" => publisher = claims

\* A running scan can be recovered: it has a lease that expires and a token.
LeasedWhileRunning ==
    scan.status = "running" => scan.token # NoToken /\ scan.lease # NoLease

\* No step of a stale executor, a late whole-row write or a reclaim moves a
\* finished scan, and a cancellation is never erased.
FinishedIsFinal ==
    [][scan.status \in Finished =>
         scan' = [scan EXCEPT !.lease = scan'.lease]]_vars

\* Crashes, failed heartbeats and cancellations notwithstanding, every scan
\* reaches a terminal status.
EventuallyFinished == <>(scan.status \in Finished)

\* The queue implements the abstract promise of ScanJob.
Job == INSTANCE ScanJob WITH status <- scan.status, attempt <- claims,
                             result <- publisher
ImplementsScanJob == Job!Spec
=============================================================================
