---------------------------- MODULE ScanEvidence ----------------------------
(***************************************************************************)
(* The evidence of one scan: what each tool's run leaves in the tables     *)
(* findings and scanner_run_records, how an executor of a later attempt    *)
(* decides from the records which tools to keep and which to reset, and    *)
(* how a user's cancellation of one tool meets both.  The code is the      *)
(* callbacks and the recovery branch of executeScan, the fenced writes of  *)
(* postgres_scanqueue.go and the run-record upsert.                        *)
(*                                                                         *)
(* Leases are reduced to their effect: any claim may be lost at any time.  *)
(* ScanLease models when.  A tool run that succeeds or fails part-way has  *)
(* found something, so that its evidence can be told from none; a finding  *)
(* is represented by the claim of the executor that wrote it.              *)
(***************************************************************************)
EXTENDS Naturals, FiniteSets

CONSTANTS
    Workers,       \* claim-loop slots
    Tools,         \* the tools selected for the scan
    Cancellable,   \* bound: tools a user may ask to cancel
    MaxAttempts,   \* scans.max_attempts
    LateToken,     \* may a claim be lost before its executor reads its token?
    Fallible,      \* kinds of statements that may fail once in a while
    MaxErrors      \* bound: failing statements

ASSUME EvidenceAssumption ==
    /\ Cancellable \subseteq Tools
    /\ MaxAttempts \in Nat \ {0}
    /\ LateToken \in BOOLEAN
    /\ Fallible \subseteq {"owned", "evidence", "record"}
    /\ MaxErrors \in Nat

VARIABLES
    scan,       \* the scan row: status, token, attempt, cancel
    record,     \* scanner_run_records: status and cancel request by tool;
                \* history: was the tool ever recorded as completed?
    evidence,   \* findings: the claims that wrote some, by tool
    reported,   \* tools_completed of the finished scan
    asked,      \* tool cancellations between their read and their insert
    phase,      \* where each executor is
    claim,      \* the claim it was given
    row,        \* its copy of the scan row; the token in it is its fence
    kept,       \* tools it keeps from earlier attempts
    todo,       \* tools still to be reset, or to be queued
    step,       \* the callbacks' progress by tool
    outcome,    \* what each tool run returned
    told,       \* tools its watcher has cancelled
    live,       \* FALSE once its context is cancelled
    broken,     \* findingPersistErr
    errors      \* failing statements left

tables == <<record, evidence, reported, asked>>
slots  == <<phase, claim, row, kept, todo, step, outcome, told, live, broken>>
vars   == <<scan, tables, slots, errors>>

-----------------------------------------------------------------------------
NoToken == 0
Tokens  == 0 .. MaxAttempts
Row     == [status : {"pending", "running", "completed", "failed",
                      "cancelled"},
            token : Tokens, attempt : Tokens, cancel : BOOLEAN]
Unread  == [status |-> "pending", token |-> NoToken, attempt |-> 0,
            cancel |-> FALSE]
Ended   == {"completed", "failed", "cancelled"}

TypeOK ==
    /\ scan \in Row
    /\ record \in [Tools -> [status : {"none", "queued", "running",
                                       "completed", "failed", "cancelled"},
                             cancel : BOOLEAN, once : BOOLEAN]]
    /\ evidence \in [Tools -> SUBSET Tokens]
    /\ reported \subseteq Tools /\ asked \subseteq Cancellable
    /\ phase \in [Workers -> {"idle", "claimed", "loading", "resetting",
                              "selecting", "scanning", "failing"}]
    /\ claim \in [Workers -> Tokens]
    /\ row \in [Workers -> Row]
    /\ kept \in [Workers -> SUBSET Tools]
    /\ todo \in [Workers -> SUBSET Tools]
    /\ step \in [Workers -> [Tools -> {"off", "waiting", "running",
                                       "reporting", "persisted", "done"}]]
    /\ outcome \in [Workers -> [Tools -> {"none", "completed", "failed"}]]
    /\ told \in [Workers -> SUBSET Tools]
    /\ live \in [Workers -> BOOLEAN]
    /\ broken \in [Workers -> BOOLEAN]
    /\ errors \in 0 .. MaxErrors

Init ==
    /\ scan = Unread
    /\ record = [t \in Tools |-> [status |-> "none", cancel |-> FALSE,
                                   once |-> FALSE]]
    /\ evidence = [t \in Tools |-> {}]
    /\ reported = {} /\ asked = {}
    /\ phase = [w \in Workers |-> "idle"]
    /\ claim = [w \in Workers |-> NoToken]
    /\ row = [w \in Workers |-> Unread]
    /\ kept = [w \in Workers |-> {}]
    /\ todo = [w \in Workers |-> {}]
    /\ step = [w \in Workers |-> [t \in Tools |-> "off"]]
    /\ outcome = [w \in Workers |-> [t \in Tools |-> "none"]]
    /\ told = [w \in Workers |-> {}]
    /\ live = [w \in Workers |-> FALSE]
    /\ broken = [w \in Workers |-> FALSE]
    /\ errors = MaxErrors

-----------------------------------------------------------------------------
\* WHERE status='running' AND lease_token=tok AND cancel_requested_at IS NULL
HoldsAnyToken(tok) == scan.status = "running" /\ ~scan.cancel    \* mutant
Holds(tok) == scan.status = "running" /\ scan.token = tok /\ ~scan.cancel

\* The fence of scanExecutionOwned and of the fenced writes, which an empty
\* token passes.
Fence(w) == row[w].token
Owned(w) == Fence(w) = NoToken \/ Holds(Fence(w))

Fails(kind) == kind \in Fallible /\ errors > 0 /\ errors' = errors - 1

Goto(w, p)    == phase' = [phase EXCEPT ![w] = p]
Step(w, t, s) == step' = [step EXCEPT ![w][t] = s]

\* UpdateScan writes the caller's copy of the row, with its token.
UpdateScan(copy) ==
    scan' = IF /\ copy.token = NoToken \/ Holds(copy.token)
               /\ ~scan.cancel \/ copy.cancel
            THEN copy ELSE scan
SaveProgress(w) == UpdateScan([scan EXCEPT !.token = Fence(w)])

\* The upsert keeps a requested cancellation.
UpsertedBlind(t, status) == status                               \* mutant
Upserted(t, status) == IF record[t].cancel THEN "cancelled" ELSE status
Upsert(t, status) ==
    record' = [record EXCEPT ![t].status = Upserted(t, status),
                 ![t].once = @ \/ Upserted(t, status) = "completed"]

\* The executor's record writes are fenced and their errors are ignored; an
\* ownership test that fails before one has the effect of a failing write.
WriteRecord(w, t, status) ==
    \/ /\ IF Owned(w) THEN Upsert(t, status) ELSE UNCHANGED record
       /\ UNCHANGED errors
    \/ Fails("record") /\ UNCHANGED record

Return(w) ==
    /\ Goto(w, "idle")
    /\ claim' = [claim EXCEPT ![w] = NoToken]
    /\ row' = [row EXCEPT ![w] = Unread]
    /\ kept' = [kept EXCEPT ![w] = {}]
    /\ todo' = [todo EXCEPT ![w] = {}]
    /\ step' = [step EXCEPT ![w] = [t \in Tools |-> "off"]]
    /\ outcome' = [outcome EXCEPT ![w] = [t \in Tools |-> "none"]]
    /\ told' = [told EXCEPT ![w] = {}]
    /\ live' = [live EXCEPT ![w] = FALSE]
    /\ broken' = [broken EXCEPT ![w] = FALSE]

Finalize(status) ==
    scan' = [scan EXCEPT !.status = status, !.token = NoToken]

-----------------------------------------------------------------------------
(* Claims, and how they end from outside *)

ClaimNextScan(w) ==
    /\ phase[w] = "idle"
    /\ scan.status = "pending" /\ ~scan.cancel
    /\ scan' = [scan EXCEPT !.status = "running", !.attempt = @ + 1,
                            !.token = scan.attempt + 1]
    /\ claim' = [claim EXCEPT ![w] = scan.attempt + 1]
    /\ live' = [live EXCEPT ![w] = TRUE]
    /\ Goto(w, "claimed")
    /\ UNCHANGED <<tables, row, kept, todo, step, outcome, told, broken,
                   errors>>

RetryLeft == scan.attempt < MaxAttempts
ReclaimStaleScans ==
    /\ scan.status = "running" /\ scan.token # NoToken
    /\ \/ LateToken
       \/ \A w \in Workers : phase[w] = "claimed" => claim[w] # scan.token
    /\ Finalize(IF RetryLeft THEN "pending" ELSE "failed")
    /\ UNCHANGED <<tables, slots, errors>>

RequestScanCancellation ==
    /\ scan.status \in {"pending", "running"}
    /\ scan' = [scan EXCEPT !.status = "cancelled", !.cancel = TRUE]
    /\ UNCHANGED <<tables, slots, errors>>

\* A lost heartbeat, the cancellation watcher, or SIGTERM.
LoseContext(w) ==
    /\ live[w]
    /\ live' = [live EXCEPT ![w] = FALSE]
    /\ UNCHANGED <<scan, tables, phase, claim, row, kept, todo, step, outcome,
                   told, broken, errors>>

Crash(w) ==
    /\ phase[w] # "idle"
    /\ Return(w)
    /\ UNCHANGED <<scan, tables, errors>>

-----------------------------------------------------------------------------
(* executeScan up to runner.Run *)

\* Reads the token, starts under it and reloads the row.
Begin(w) ==
    /\ phase[w] = "claimed"
    /\ IF /\ live[w] /\ ~scan.cancel
          /\ scan.status = IF scan.token = NoToken THEN "pending"
                                                   ELSE "running"
       THEN /\ scan' = [scan EXCEPT !.status = "running"]
            /\ row' = [row EXCEPT ![w] = scan']
            /\ Goto(w, "loading")
            /\ UNCHANGED <<claim, kept, todo, step, outcome, told, live,
                           broken>>
       ELSE Return(w) /\ UNCHANGED scan
    /\ UNCHANGED <<tables, errors>>

\* A later attempt keeps what is recorded as completed, and resets the rest.
KeepsAnyEnd(t) == record[t].status \in {"completed", "failed"}    \* mutant
Keeps(t) == record[t].status = "completed"
Resets(t) == record[t].status # "none" /\ ~Keeps(t)
LoadEvidence(w) ==
    /\ phase[w] = "loading" /\ live[w]
    /\ IF row[w].attempt > 1
       THEN /\ kept' = [kept EXCEPT ![w] = {t \in Tools : Keeps(t)}]
            /\ todo' = [todo EXCEPT ![w] = {t \in Tools : Resets(t)}]
       ELSE UNCHANGED <<kept, todo>>
    /\ Goto(w, "resetting")
    /\ UNCHANGED <<scan, tables, claim, row, step, outcome, told, live, broken,
                   errors>>

DeleteFindingsByScanTool(w, t) ==
    /\ phase[w] = "resetting" /\ live[w] /\ t \in todo[w]
    /\ Holds(Fence(w))
    /\ evidence' = [evidence EXCEPT ![t] = {}]
    /\ todo' = [todo EXCEPT ![w] = @ \ {t}]
    /\ UNCHANGED <<scan, record, reported, asked, phase, claim, row, kept,
                   step, outcome, told, live, broken, errors>>

PrepareFails(w) ==
    /\ \/ phase[w] \in {"loading", "resetting"} /\ ~live[w] /\ UNCHANGED errors
       \/ phase[w] \in {"loading", "resetting"} /\ Fails("evidence")
       \/ /\ phase[w] = "resetting" /\ todo[w] # {} /\ ~Holds(Fence(w))
          /\ UNCHANGED errors
    /\ Goto(w, "failing")
    /\ UNCHANGED <<scan, tables, claim, row, kept, todo, step, outcome, told,
                   live, broken>>

FailPreparedScan(w) ==
    /\ phase[w] = "failing"
    /\ IF Fence(w) = NoToken
       THEN UpdateScan([row[w] EXCEPT !.status = "failed"])
       ELSE IF Holds(Fence(w)) THEN Finalize("failed") ELSE UNCHANGED scan
    /\ Return(w)
    /\ UNCHANGED <<tables, errors>>

\* The prepared source is saved; the runner selects what is not kept.
StartRun(w) ==
    /\ phase[w] = "resetting" /\ live[w] /\ todo[w] = {}
    /\ UpdateScan(row[w])
    /\ todo' = [todo EXCEPT ![w] = Tools \ kept[w]]
    /\ Goto(w, IF kept[w] = Tools THEN "scanning" ELSE "selecting")
    /\ UNCHANGED <<tables, claim, row, kept, step, outcome, told, live,
                   broken, errors>>

\* OnToolsSelected, one tool's record at a time.
QueueTool(w, t) ==
    /\ phase[w] = "selecting" /\ t \in todo[w]
    /\ SaveProgress(w)
    /\ WriteRecord(w, t, "queued")
    /\ todo' = [todo EXCEPT ![w] = @ \ {t}]
    /\ Step(w, t, "waiting")
    /\ Goto(w, IF todo[w] = {t} THEN "scanning" ELSE "selecting")
    /\ UNCHANGED <<evidence, reported, asked, claim, row, kept, outcome, told,
                   live, broken>>

-----------------------------------------------------------------------------
(* runner.Run and its callbacks, one tool each *)

StopRequested(w, t) == ~live[w] \/ t \in told[w]

\* The context was tested when the slots were taken: it may be cancelled by
\* now, or be told to once its cancel function is registered.
OnToolStart(w, t) ==
    /\ phase[w] = "scanning" /\ step[w][t] = "waiting"
    /\ WriteRecord(w, t, "running")
    /\ Step(w, t, "running")
    /\ UNCHANGED <<scan, evidence, reported, asked, phase, claim, row, kept,
                   todo, outcome, told, live, broken>>

\* Cancelled while it waited for a slot: OnToolDone with no findings.
SkipTool(w, t) ==
    /\ phase[w] = "scanning" /\ step[w][t] = "waiting"
    /\ StopRequested(w, t)
    /\ outcome' = [outcome EXCEPT ![w][t] = "failed"]
    /\ Step(w, t, IF Owned(w) THEN "persisted" ELSE "done")
    /\ UNCHANGED <<scan, tables, phase, claim, row, kept, todo, told, live,
                   broken, errors>>

\* OnToolDone returns at once when its ownership test says no, or fails.
OnToolDone(w, t, result) ==
    /\ step[w][t] = "running"
    /\ outcome' = [outcome EXCEPT ![w][t] = result]
    /\ \/ /\ Step(w, t, IF Owned(w) THEN "reporting" ELSE "done")
          /\ UNCHANGED errors
       \/ Fails("owned") /\ Fence(w) # NoToken /\ Step(w, t, "done")
    /\ UNCHANGED <<scan, tables, phase, claim, row, kept, todo, told, live,
                   broken>>

CreateFindingsForScanLease(w, t) ==
    /\ step[w][t] = "reporting"
    /\ IF Owned(w)
       THEN /\ evidence' = [evidence EXCEPT ![t] = @ \cup {claim[w]}]
            /\ Step(w, t, "persisted")
       ELSE UNCHANGED evidence /\ Step(w, t, "done")
    /\ UNCHANGED <<scan, record, reported, asked, phase, claim, row, kept,
                   todo, outcome, told, live, broken, errors>>

\* The insert fails: the tool and, through findingPersistErr, the scan fail.
CreateFindingsFails(w, t) ==
    /\ step[w][t] = "reporting" /\ Fails("evidence")
    /\ broken' = [broken EXCEPT ![w] = TRUE]
    /\ outcome' = [outcome EXCEPT ![w][t] = "failed"]
    /\ Step(w, t, "persisted")
    /\ UNCHANGED <<scan, tables, phase, claim, row, kept, todo, told, live>>

RecordTool(w, t) ==
    /\ step[w][t] = "persisted"
    /\ SaveProgress(w)
    /\ WriteRecord(w, t, IF t \in told[w] THEN "cancelled" ELSE outcome[w][t])
    /\ Step(w, t, "done")
    /\ UNCHANGED <<evidence, reported, asked, phase, claim, row, kept, todo,
                   outcome, told, live, broken>>

\* Publication: tools_completed is the kept tools and the runner's successes.
FinishScan(w) ==
    /\ phase[w] = "scanning"
    /\ \A t \in Tools \ kept[w] : step[w][t] = "done"
    /\ IF Holds(Fence(w))
       THEN IF live[w] /\ ~broken[w]
            THEN /\ Finalize("completed")
                 /\ reported' = kept[w] \cup
                      {t \in Tools : outcome[w][t] = "completed"}
            ELSE Finalize("failed") /\ UNCHANGED reported
       ELSE UNCHANGED <<scan, reported>>
    /\ Return(w)
    /\ UNCHANGED <<record, evidence, asked, errors>>

-----------------------------------------------------------------------------
(* Cancelling one tool, from the API process *)

\* RequestScannerRunCancellation, when the tool has a record.
RequestScannerRunCancellation(t) ==
    /\ t \in Cancellable
    /\ scan.status \notin Ended
    /\ record[t].status \in {"queued", "running"}
    /\ record' = [record EXCEPT ![t].status = "cancelled", ![t].cancel = TRUE]
    /\ UNCHANGED <<scan, evidence, reported, asked, slots, errors>>

\* queueToolCancellation found the tool selected but not recorded ...
FindNoRecord(t) ==
    /\ t \in Cancellable \ asked
    /\ scan.status \notin Ended
    /\ record[t].status = "none"
    /\ asked' = asked \cup {t}
    /\ UNCHANGED <<scan, record, evidence, reported, slots, errors>>

\* ... and inserts a cancelled one, over whatever is there by then.
InsertCancelledRecord(t) ==
    /\ t \in asked
    /\ record' = [record EXCEPT ![t].status = "cancelled", ![t].cancel = TRUE]
    /\ asked' = asked \ {t}
    /\ UNCHANGED <<scan, evidence, reported, slots, errors>>

WatchToolCancellation(w, t) ==
    /\ phase[w] # "idle" /\ live[w]
    /\ record[t].cancel /\ t \notin told[w]
    /\ told' = [told EXCEPT ![w] = @ \cup {t}]
    /\ UNCHANGED <<scan, tables, phase, claim, row, kept, todo, step, outcome,
                   live, broken, errors>>

-----------------------------------------------------------------------------
ToolStep(w, t) ==
    \/ DeleteFindingsByScanTool(w, t) \/ QueueTool(w, t)
    \/ OnToolStart(w, t) \/ SkipTool(w, t)
    \/ \E result \in {"completed", "failed"} : OnToolDone(w, t, result)
    \/ CreateFindingsForScanLease(w, t) \/ CreateFindingsFails(w, t)
    \/ RecordTool(w, t) \/ WatchToolCancellation(w, t)

ExecutorStep(w) ==
    \/ ClaimNextScan(w) \/ Begin(w) \/ LoadEvidence(w) \/ PrepareFails(w)
    \/ FailPreparedScan(w) \/ StartRun(w) \/ FinishScan(w)
    \/ LoseContext(w) \/ Crash(w)

Next ==
    \/ \E w \in Workers : ExecutorStep(w) \/ \E t \in Tools : ToolStep(w, t)
    \/ ReclaimStaleScans \/ RequestScanCancellation
    \/ \E t \in Tools : \/ RequestScannerRunCancellation(t)
                        \/ FindNoRecord(t) \/ InsertCancelledRecord(t)

Spec == Init /\ [][Next]_vars

-----------------------------------------------------------------------------
(* Properties *)

\* A tool recorded as completed has the findings of exactly one run, although
\* attempts die between the insert and the record and stale executors go on.
OneRunPerTool ==
    \A t \in Tools :
       record[t].status = "completed" => Cardinality(evidence[t]) = 1

\* What a completed run recorded is kept: no later reset, on a reading of the
\* records however old, deletes it and no other run adds to it.
CompletedKept ==
    [][\A t \in Tools : record[t].status = "completed" =>
                          evidence'[t] = evidence[t]]_vars

\* "finding insert/read/update errors fail the scan" (CHANGELOG): a completed
\* scan has the findings of every tool it reports as completed.
CompletedHasEvidence ==
    scan.status = "completed" => \A t \in reported : evidence[t] # {}

\* A tool's cancellation survives every record write of every executor.
ToolCancelSticky ==
    [][\A t \in Tools : record[t].cancel =>
          record'[t].cancel /\ record'[t].status = "cancelled"]_vars

\* "a superseded or cancelled executor must not erase findings written by the
\* current lease holder" (DeleteFindingsByScanTool).
HolderEvidenceSafe ==
    [][\A t \in Tools :
          scan.status = "running" /\ scan.token \in evidence[t] =>
             scan.token \in evidence'[t]]_vars

\* "Findings already persisted from completed tools are preserved."
\* (CancelScanTool): whatever is cancelled, a tool once recorded as completed
\* keeps its findings.
CancelPreservesFindings ==
    \A t \in Tools : record[t].once => evidence[t] # {}
=============================================================================
