--------------------------- MODULE ScanLeaseProofs ---------------------------
(***************************************************************************)
(* Theorems about ScanLease for every set of workers and every value of    *)
(* the bounds.  Type correctness, and that a requested cancellation is     *)
(* final whatever freezes, crashes and stale copies there are, assume      *)
(* nothing.  That failing and slow heartbeats stop an executor once its    *)
(* ownership window is over follows from Clocks: what every deadline       *)
(* leaves before the lease it guards runs out.  That the queue implements  *)
(* ScanJob follows from Ownership: the row's token is its attempt's, no    *)
(* two executors were given the same one, and a worker past its first      *)
(* reads remembers the row as its claim made it.  Ownership rests on       *)
(* FencedInTime, a lease that lasts until those reads; the last part says  *)
(* when it does.                                                           *)
(***************************************************************************)
EXTENDS ScanLease, TLAPS

Leases == NoLease .. LeaseTicks

\* The null values and the extremes lie in their ranges.
LEMMA Extremes ==
    /\ NoToken \in Tokens /\ NoLease \in Leases /\ NoCall \in Leases
    /\ LeaseTicks \in Leases /\ 0 \in Tokens /\ 0 \in 0 .. MaxAttempts
    /\ 0 \in 0 .. CopyTicks /\ 0 \in 0 .. HeartbeatTicks
    /\ 0 \in 0 .. LeaseTicks
  BY LeaseAssumption
     DEF LeaseAssumption, Tokens, Leases, NoToken, NoLease, NoCall

LEMMA ShorterLease ==
    ASSUME NEW left \in Leases PROVE Shorter(left) \in Leases
  BY LeaseAssumption DEF LeaseAssumption, Leases, Shorter, NoLease

LEMMA OlderAge ==
    ASSUME NEW limit \in Nat, NEW age \in 0 .. limit
    PROVE  Older(age, limit) \in 0 .. limit
  BY DEF Older

\* Writing row columns keeps a legal row.
LEMMA RowUpdates ==
    ASSUME NEW r \in Row, NEW s \in Statuses, NEW t \in Tokens,
           NEW l \in Leases, NEW a \in 0 .. MaxAttempts, NEW c \in BOOLEAN
    PROVE  /\ [r EXCEPT !.status = s, !.token = t, !.lease = l] \in Row
           /\ [r EXCEPT !.status = s, !.token = t, !.attempt = a, !.lease = l]
                 \in Row
           /\ [r EXCEPT !.status = s, !.cancel = c] \in Row
           /\ [r EXCEPT !.status = s] \in Row
           /\ [r EXCEPT !.token = t] \in Row
           /\ [r EXCEPT !.lease = l] \in Row
  BY DEF Row, Leases

\* Ending an executor resets what it remembers to values of the right type.
LEMMA ReturnTyped ==
    ASSUME TypeOK, NEW w \in Workers, Return(w)
    PROVE  /\ phase' \in [Workers -> Phases]
           /\ claim' \in [Workers -> Tokens]
           /\ fence' \in [Workers -> Tokens]
           /\ copy' \in [Workers -> Row \cup {NoCopy}]
           /\ copyAge' \in [Workers -> 0 .. CopyTicks]
           /\ live' \in [Workers -> BOOLEAN]
           /\ beat' \in [Workers -> 0 .. HeartbeatTicks]
           /\ renewed' \in [Workers -> 0 .. LeaseTicks]
           /\ call' \in [Workers -> NoCall .. LeaseTicks]
<1>1. "idle" \in Phases
  BY DEF Phases
<1>2. NoCall \in NoCall .. LeaseTicks
  BY Extremes DEF Leases, NoCall, NoLease
<1>3. QED
  BY <1>1, <1>2, Extremes DEF TypeOK, Return

-----------------------------------------------------------------------------
(* What every statement does to the row: it stays a row, and a sound one. *)

LegalRow(row) == row \in Row /\ Sound(row)

LEMMA ClaimedRow ==
    ASSUME LegalRow(scan), scan.status = "pending", ~scan.cancel,
           NEW t \in Tokens
    PROVE  LegalRow([scan EXCEPT !.status = "running", !.token = t,
                                 !.attempt = @ + 1, !.lease = LeaseTicks])
<1>1. scan.attempt + 1 \in 0 .. MaxAttempts
  BY LeaseAssumption DEF LeaseAssumption, LegalRow, Sound, Row
<1>2. "running" \in Statuses
  BY DEF Statuses
<1>3. [scan EXCEPT !.status = "running", !.token = t, !.attempt = @ + 1,
                   !.lease = LeaseTicks] \in Row
  BY <1>1, <1>2, RowUpdates, Extremes DEF LegalRow
<1>4. QED
  BY <1>3 DEF LegalRow, Sound, Row

LEMMA FinalizedRow ==
    ASSUME LegalRow(scan), NEW tok, Holds(tok),
           NEW s \in {"completed", "failed"}
    PROVE  LegalRow(Finalized(s))
<1>1. Finalized(s) \in Row
  BY RowUpdates, Extremes DEF Finalized, LegalRow, Statuses
<1>2. QED
  BY <1>1 DEF LegalRow, Sound, Finalized, Holds, Row

LEMMA ReclaimedRow ==
    ASSUME LegalRow(scan), Stale
    PROVE  LegalRow([scan EXCEPT
                       !.status = IF RetryLeft THEN "pending" ELSE "failed",
                       !.token = NoToken, !.lease = NoLease])
<1>1. (IF RetryLeft THEN "pending" ELSE "failed") \in Statuses
  BY DEF Statuses
<1>2. [scan EXCEPT !.status = IF RetryLeft THEN "pending" ELSE "failed",
                   !.token = NoToken, !.lease = NoLease] \in Row
  BY <1>1, RowUpdates, Extremes DEF LegalRow
<1>3. QED
  BY <1>2 DEF LegalRow, Sound, Stale, RetryLeft, Row

LEMMA RelabelledRow ==
    ASSUME NEW r, LegalRow(r), NEW t \in Tokens
    PROVE  /\ LegalRow([r EXCEPT !.token = t])
           /\ LegalRow([r EXCEPT !.status = "failed"])
           /\ ~r.cancel => LegalRow([r EXCEPT !.status = "running"])
           /\ LegalRow([r EXCEPT !.status = "cancelled", !.cancel = TRUE])
<1>1. r \in Row /\ Sound(r)
  BY DEF LegalRow
<1>2. {"failed", "running", "cancelled"} \subseteq Statuses
  BY DEF Statuses
<1>3. LegalRow([r EXCEPT !.token = t])
  BY <1>1, RowUpdates DEF LegalRow, Sound, Row
<1>4. LegalRow([r EXCEPT !.status = "failed"])
  BY <1>1, <1>2, RowUpdates DEF LegalRow, Sound, Row
<1>5. ~r.cancel => LegalRow([r EXCEPT !.status = "running"])
  BY <1>1, <1>2, RowUpdates DEF LegalRow, Sound, Row
<1>6. LegalRow([r EXCEPT !.status = "cancelled", !.cancel = TRUE])
  BY <1>1, <1>2, RowUpdates DEF LegalRow, Sound, Row
<1>7. QED
  BY <1>3, <1>4, <1>5, <1>6

LEMMA RenewedRow ==
    ASSUME NEW r, LegalRow(r), NEW l \in Leases
    PROVE  LegalRow([r EXCEPT !.lease = l])
  BY ZenonT(30), RowUpdates DEF LegalRow, Sound, Row

\* The row after UpdateScan is the row before or the copy that was written.
LEMMA UpdateScanRow ==
    ASSUME LegalRow(scan), NEW r, LegalRow(r), UpdateScan(r)
    PROVE  LegalRow(scan')
  BY DEF UpdateScan

-----------------------------------------------------------------------------
(* The inductive invariant and its steps. *)

IInv == TypeOK /\ RowsSound

\* Ending an executor leaves nothing that could still be written.
LEMMA ReturnSafe ==
    ASSUME IInv, NEW w \in Workers, Return(w)
    PROVE  \A v \in Workers : CopyHeld(v)' /\ Sound(copy[v])'
<1>1. Sound(NoCopy)
  BY DEF Sound, NoCopy
<1>2. QED
  BY <1>1 DEF IInv, TypeOK, RowsSound, Return, CopyHeld

\* An executor step that neither reads nor writes a copy.
LEMMA CopiesKept ==
    ASSUME IInv, UNCHANGED copy, NEW w \in Workers, NEW p, Goto(w, p),
           p \in {"preparing", "prepared", "updating", "failing"} =>
              copy[w] \in Row
    PROVE  \A v \in Workers : CopyHeld(v)' /\ Sound(copy[v])'
  BY DEF IInv, TypeOK, RowsSound, CopyHeld, Goto, Sound

LEMMA CopiesDropped ==
    ASSUME IInv, NEW w \in Workers, DropCopy(w), Goto(w, "scanning")
    PROVE  /\ copy' \in [Workers -> Row \cup {NoCopy}]
           /\ copyAge' \in [Workers -> 0 .. CopyTicks]
           /\ \A v \in Workers : CopyHeld(v)' /\ Sound(copy[v])'
<1>1. Sound(NoCopy)
  BY DEF Sound, NoCopy
<1>2. QED
  BY <1>1, Extremes DEF IInv, TypeOK, RowsSound, DropCopy, CopyHeld, Goto

LEMMA CopyTaken ==
    ASSUME IInv, NEW w \in Workers, NEW p \in Phases, TakeCopy(w), Goto(w, p)
    PROVE  /\ copy' \in [Workers -> Row \cup {NoCopy}]
           /\ copyAge' \in [Workers -> 0 .. CopyTicks]
           /\ \A v \in Workers : CopyHeld(v)' /\ Sound(copy[v])'
  BY Extremes DEF IInv, TypeOK, RowsSound, TakeCopy, CopyHeld, Goto

LEMMA PhaseTyped ==
    ASSUME TypeOK, NEW w \in Workers, NEW p \in Phases, Goto(w, p)
    PROVE  phase' \in [Workers -> Phases]
  BY DEF TypeOK, Goto

LEMMA Initially == ASSUME Init PROVE IInv
<1>1. NoCopy \in Row \cup {NoCopy} /\ Sound(NoCopy)
  BY DEF Sound, NoCopy
<1>2. LegalRow(scan)
  BY Extremes, LeaseAssumption
     DEF LeaseAssumption, Init, LegalRow, Row, Sound, Statuses, Leases
<1>3. "idle" \in Phases
  BY DEF Phases
<1>4. budget \in [stalls : 0 .. MaxStalls, crashes : 0 .. MaxCrashes,
                  errors : 0 .. MaxErrors]
  BY LeaseAssumption DEF LeaseAssumption, Init
<1>5. NoCall \in NoCall .. LeaseTicks
  BY LeaseAssumption DEF LeaseAssumption, NoCall
<1>6. TypeOK
  BY <1>1, <1>2, <1>3, <1>4, <1>5, Extremes DEF LegalRow, Init, TypeOK
<1>7. RowsSound
  BY <1>1, <1>2 DEF LegalRow, Init, RowsSound, CopyHeld
<1>8. QED
  BY <1>6, <1>7 DEF IInv

LEMMA ClaimStep == ASSUME IInv, NEW w \in Workers, ClaimNextScan(w) PROVE IInv'
<1>1. claims' \in Tokens
  BY LeaseAssumption
     DEF LeaseAssumption, ClaimNextScan, IInv, TypeOK, Tokens
<1>2. LegalRow(scan')
  BY <1>1, ClaimedRow DEF ClaimNextScan, IInv, TypeOK, RowsSound, LegalRow
<1>3. "claimed" \in Phases
  BY DEF Phases
<1>4. phase' \in [Workers -> Phases]
  BY <1>3, PhaseTyped DEF ClaimNextScan, IInv
<1>5. \A v \in Workers : CopyHeld(v)' /\ Sound(copy[v])'
  BY CopiesKept DEF ClaimNextScan
<1>6. TypeOK'
  BY <1>1, <1>2, <1>4 DEF IInv, TypeOK, LegalRow, ClaimNextScan
<1>7. QED
  BY <1>2, <1>5, <1>6 DEF IInv, RowsSound, LegalRow

LEMMA ReclaimStep ==
    ASSUME IInv, NEW w \in Workers, ReclaimStaleScans(w) PROVE IInv'
<1>1. LegalRow(scan')
  BY ReclaimedRow DEF ReclaimStaleScans, IInv, TypeOK, RowsSound, LegalRow
<1>2. QED
  BY <1>1 DEF IInv, TypeOK, RowsSound, LegalRow, CopyHeld, ReclaimStaleScans,
              execVars, beatVars, envVars

\* Every step that ends an executor, given what it does to the row.
LEMMA ReturnStep ==
    ASSUME IInv, NEW w \in Workers, Return(w), LegalRow(scan'),
           publisher' \in Tokens, claims' = claims,
           stalled' \in [Workers -> BOOLEAN],
           budget' \in [stalls : 0 .. MaxStalls, crashes : 0 .. MaxCrashes,
                        errors : 0 .. MaxErrors]
    PROVE  IInv'
<1>1. TypeOK'
  BY ReturnTyped DEF IInv, TypeOK, LegalRow
<1>2. RowsSound'
  BY ReturnSafe DEF RowsSound, LegalRow
<1>3. QED
  BY <1>1, <1>2 DEF IInv

\* Every step that only moves an executor on, or writes the row as well.
LEMMA MoveStep ==
    ASSUME IInv, NEW w \in Workers, NEW p \in Phases, Goto(w, p),
           LegalRow(scan'), fence' \in [Workers -> Tokens],
           p \in {"preparing", "prepared", "updating", "failing"} =>
              copy[w] \in Row,
           UNCHANGED <<claim, copy, copyAge, beatVars, publisher, envVars>>
    PROVE  IInv'
<1>1. phase' \in [Workers -> Phases]
  BY PhaseTyped DEF IInv
<1>2. \A v \in Workers : CopyHeld(v)' /\ Sound(copy[v])'
  BY CopiesKept
<1>3. TypeOK'
  BY <1>1 DEF IInv, TypeOK, LegalRow, beatVars, envVars
<1>4. QED
  BY <1>2, <1>3 DEF IInv, RowsSound, LegalRow

LEMMA SaveStep ==
    ASSUME IInv, NEW w \in Workers, SaveSource(w) \/ WriteProgress(w)
    PROVE  IInv'
<1>1. LegalRow(copy[w])
  BY DEF IInv, RowsSound, CopyHeld, LegalRow, SaveSource, WriteProgress, At
<1>2. LegalRow([copy[w] EXCEPT !.token = fence[w]])
  BY <1>1, RelabelledRow DEF IInv, TypeOK
<1>3. LegalRow(scan)
  BY DEF IInv, TypeOK, RowsSound, LegalRow
<1>4. LegalRow(scan')
  BY <1>1, <1>2, <1>3, UpdateScanRow DEF SaveSource, WriteProgress
<1>5. "scanning" \in Phases
  BY DEF Phases
<1>6. DropCopy(w) /\ Goto(w, "scanning")
  BY DEF SaveSource, WriteProgress
<1>7. phase' \in [Workers -> Phases]
  BY <1>5, <1>6, PhaseTyped DEF IInv
<1>8. UNCHANGED <<claim, fence, beatVars, publisher, envVars>>
  BY DEF SaveSource, WriteProgress
<1>9. TypeOK'
  BY <1>4, <1>6, <1>7, <1>8, CopiesDropped
     DEF IInv, TypeOK, LegalRow, beatVars, envVars
<1>10. QED
  BY <1>4, <1>6, <1>9, CopiesDropped DEF IInv, RowsSound, LegalRow

LEMMA CopyStep ==
    ASSUME IInv, NEW w \in Workers, LoadScan(w) \/ ReadProgress(w)
    PROVE  IInv'
<1>1. PICK p \in Phases : TakeCopy(w) /\ Goto(w, p)
  BY DEF LoadScan, ReadProgress, Phases
<1>2. phase' \in [Workers -> Phases]
  BY <1>1, PhaseTyped DEF IInv
<1>3. UNCHANGED <<scan, claim, fence, beatVars, publisher, envVars>>
  BY DEF LoadScan, ReadProgress
<1>4. TypeOK'
  BY <1>1, <1>2, <1>3, CopyTaken DEF IInv, TypeOK, beatVars, envVars
<1>5. QED
  BY <1>1, <1>3, <1>4, CopyTaken DEF IInv, RowsSound

LEMMA ExecuteStep == ASSUME IInv, NEW w \in Workers, Execute(w) PROVE IInv'
<1> DEFINE Kept == UNCHANGED <<claim, copy, copyAge, beatVars, publisher,
                               envVars>>
<1>1. LegalRow(scan)
  BY DEF IInv, TypeOK, RowsSound, LegalRow
<1>2. phase[w] \in {"preparing", "prepared", "failing"} => LegalRow(copy[w])
  BY DEF IInv, RowsSound, CopyHeld, LegalRow
<1>3. CASE LoadToken(w)
  <2>1. fence' \in [Workers -> Tokens]
    BY <1>1, <1>3 DEF LoadToken, IInv, TypeOK, LegalRow, Row
  <2>2. Goto(w, "loaded") /\ Kept /\ scan' = scan
    BY <1>3 DEF LoadToken
  <2>3. QED
    BY <1>1, <2>1, <2>2, MoveStep DEF Phases
<1>4. CASE StartScanExecution(w)
  <2>1. LegalRow(scan')
    BY <1>1, <1>4, RelabelledRow, Extremes DEF StartScanExecution, StartGuard
  <2>2. Goto(w, "started") /\ Kept /\ fence' = fence
    BY <1>4 DEF StartScanExecution
  <2>3. QED
    BY <2>1, <2>2, MoveStep DEF Phases, IInv, TypeOK
<1>5. CASE AbandonStart(w)
  BY <1>1, <1>5, ReturnStep DEF AbandonStart, IInv, TypeOK, envVars
<1>6. CASE LoadScan(w)
  BY <1>6, CopyStep
<1>7. CASE PrepareSource(w)
  <2>1. Goto(w, "prepared") /\ Kept /\ scan' = scan /\ fence' = fence
    BY <1>7 DEF PrepareSource
  <2>2. copy[w] \in Row
    BY <1>2, <1>7 DEF PrepareSource, At, LegalRow
  <2>3. QED
    BY <1>1, <2>1, <2>2, MoveStep DEF Phases, IInv, TypeOK
<1>8. CASE PrepareFails(w)
  <2>1. Goto(w, "failing") /\ Kept /\ scan' = scan /\ fence' = fence
    BY <1>8 DEF PrepareFails
  <2>2. copy[w] \in Row
    BY <1>2, <1>8 DEF PrepareFails, At, LegalRow
  <2>3. QED
    BY <1>1, <2>1, <2>2, MoveStep DEF Phases, IInv, TypeOK
<1>9. CASE SaveSource(w) \/ WriteProgress(w)
  BY <1>9, SaveStep
<1>10. CASE CompleteScan(w)
  <2>1. LegalRow(scan')
    BY <1>1, <1>10, FinalizedRow DEF CompleteScan
  <2>2. publisher' \in Tokens
    BY <1>10 DEF CompleteScan, IInv, TypeOK
  <2>3. QED
    BY <1>10, <2>1, <2>2, ReturnStep DEF CompleteScan, IInv, TypeOK, envVars
<1>11. CASE CompleteFails(w)
  <2>1. Goto(w, "finalizing") /\ Kept /\ scan' = scan /\ fence' = fence
    BY <1>11 DEF CompleteFails
  <2>2. QED
    BY <1>1, <2>1, MoveStep DEF Phases, IInv, TypeOK
<1>12. CASE FinalizeScan(w)
  <2>1. LegalRow(scan')
    BY <1>1, <1>12, FinalizedRow DEF FinalizeScan
  <2>2. QED
    BY <1>12, <2>1, ReturnStep DEF FinalizeScan, IInv, TypeOK, envVars
<1>13. CASE FailPreparedScan(w)
  <2>1. LegalRow([copy[w] EXCEPT !.status = "failed"])
    BY <1>2, <1>13, RelabelledRow, Extremes DEF FailPreparedScan, At
  <2>2. LegalRow(scan')
    BY <1>1, <1>13, <2>1, FinalizedRow, UpdateScanRow DEF FailPreparedScan
  <2>3. QED
    BY <1>13, <2>2, ReturnStep DEF FailPreparedScan, IInv, TypeOK, envVars
<1>14. QED
  BY <1>3, <1>4, <1>5, <1>6, <1>7, <1>8, <1>9, <1>10, <1>11, <1>12, <1>13
     DEF Execute

LEMMA EndRunStep == ASSUME IInv, NEW w \in Workers, EndRun(w) PROVE IInv'
<1>1. LegalRow(scan)
  BY DEF IInv, TypeOK, RowsSound, LegalRow
<1>2. ASSUME NEW o \in {"completing", "finalizing"}, FinishRun(w, o)
      PROVE  IInv'
  <2>1. /\ Goto(w, o) /\ scan' = scan /\ fence' = fence
        /\ UNCHANGED <<claim, copy, copyAge, beatVars, publisher, envVars>>
    BY <1>2 DEF FinishRun
  <2>2. QED
    BY <1>1, <2>1, MoveStep DEF Phases, IInv, TypeOK
<1>3. CASE AbandonRun(w)
  BY <1>1, <1>3, ReturnStep DEF AbandonRun, IInv, TypeOK, envVars
<1>4. QED
  BY <1>2, <1>3 DEF EndRun

\* The heartbeat and the cancellation watcher touch the lease and the context.
LEMMA HeartbeatStep ==
    ASSUME IInv, NEW w \in Workers,
           Heartbeat(w) \/ HeartbeatErrs(w) \/ WatchCancellation(w)
    PROVE  IInv'
<1>1. LegalRow(scan)
  BY DEF IInv, TypeOK, RowsSound, LegalRow
<1>2. NoCall \in NoCall .. LeaseTicks /\ LeaseTicks \in NoCall .. LeaseTicks
  BY LeaseAssumption DEF LeaseAssumption, NoCall
<1>3. CASE SendHeartbeat(w)
  BY <1>2, <1>3, Extremes
     DEF SendHeartbeat, IInv, TypeOK, RowsSound, CopyHeld, execVars, envVars
<1>4. CASE HeartbeatScanLease(w)
  <2>1. call[w] \in Leases
    BY DEF IInv, TypeOK, Leases, NoCall, NoLease
  <2>2. LegalRow(scan')
    BY <1>1, <1>4, <2>1, RenewedRow DEF HeartbeatScanLease
  <2>3. QED
    BY <1>2, <1>4, <2>2, Extremes
       DEF HeartbeatScanLease, IInv, TypeOK, RowsSound, LegalRow, CopyHeld,
           execVars, envVars
<1>5. CASE HeartbeatErrs(w)
  <2>1. budget' \in [stalls : 0 .. MaxStalls, crashes : 0 .. MaxCrashes,
                     errors : 0 .. MaxErrors]
    BY <1>5, LeaseAssumption DEF LeaseAssumption, HeartbeatErrs, IInv, TypeOK
  <2>2. live' \in [Workers -> BOOLEAN]
    BY <1>5 DEF HeartbeatErrs, IInv, TypeOK
  <2>3. QED
    BY <1>2, <1>5, <2>1, <2>2
       DEF HeartbeatErrs, IInv, TypeOK, RowsSound, CopyHeld, execVars
<1>6. CASE WatchCancellation(w)
  BY <1>6 DEF WatchCancellation, IInv, TypeOK, RowsSound, CopyHeld, execVars,
              envVars
<1>7. QED
  BY <1>3, <1>4, <1>5, <1>6 DEF Heartbeat

LEMMA EnvironmentStep ==
    ASSUME IInv, NEW w \in Workers,
           StopWorker(w) \/ Crash(w) \/ Stall(w) \/ Thaw(w)
    PROVE  IInv'
<1>1. LegalRow(scan)
  BY DEF IInv, TypeOK, RowsSound, LegalRow
<1>2. stalled' \in [Workers -> BOOLEAN]
  BY DEF StopWorker, Crash, Stall, Thaw, IInv, TypeOK
<1>3. budget' \in [stalls : 0 .. MaxStalls, crashes : 0 .. MaxCrashes,
                   errors : 0 .. MaxErrors]
  BY LeaseAssumption
     DEF LeaseAssumption, StopWorker, Crash, Stall, Thaw, IInv, TypeOK
<1>4. CASE Crash(w)
  BY <1>1, <1>2, <1>3, <1>4, ReturnStep DEF Crash, IInv, TypeOK
<1>5. CASE Stall(w) \/ Thaw(w)
  BY <1>2, <1>3, <1>5
     DEF Stall, Thaw, IInv, TypeOK, RowsSound, CopyHeld, execVars, beatVars
<1>6. CASE StopWorker(w)
  BY <1>3, <1>6
     DEF StopWorker, IInv, TypeOK, RowsSound, CopyHeld, execVars
<1>7. QED
  BY <1>4, <1>5, <1>6

LEMMA CancelStep == ASSUME IInv, RequestScanCancellation PROVE IInv'
<1>1. LegalRow(scan)
  BY DEF IInv, TypeOK, RowsSound, LegalRow
<1>2. LegalRow(scan')
  BY <1>1, RelabelledRow, Extremes DEF RequestScanCancellation
<1>3. QED
  BY <1>2 DEF RequestScanCancellation, IInv, TypeOK, RowsSound, LegalRow,
              CopyHeld, execVars, beatVars, envVars

\* Time shortens leases, the copied ones too, and ages timers within bounds.
LEMMA TickStep == ASSUME IInv, Tick PROVE IInv'
<1>1. LegalRow(scan)
  BY DEF IInv, TypeOK, RowsSound, LegalRow
<1>2. LegalRow(scan')
  <2>1. Shorter(scan.lease) \in Leases
    BY <1>1, ShorterLease DEF LegalRow, Row, Leases
  <2>2. QED
    BY <1>1, <2>1, RenewedRow DEF Tick
<1>3. ASSUME NEW v \in Workers
      PROVE  /\ copy'[v] \in Row \cup {NoCopy}
             /\ copy[v] \in Row => copy'[v] \in Row
             /\ Sound(copy'[v])
  <2>1. copy'[v] = [copy[v] EXCEPT !.lease = Shorter(@)]
    BY <1>3 DEF Tick
  <2>2. CASE copy[v] \in Row
    <3>1. LegalRow(copy[v])
      BY <1>3, <2>2 DEF IInv, RowsSound, LegalRow
    <3>2. Shorter(copy[v].lease) \in Leases
      BY <2>2, ShorterLease DEF Row, Leases
    <3>3. QED
      BY <2>1, <3>1, <3>2, RenewedRow DEF LegalRow
  <2>3. CASE copy[v] = NoCopy /\ copy[v] \notin Row
    <3>1. Shorter(NoCopy.lease) = NoCopy.lease
      BY DEF NoCopy, Shorter, NoLease
    <3>2. [NoCopy EXCEPT !.lease = NoCopy.lease] = NoCopy
      BY DEF NoCopy
    <3>3. copy'[v] = NoCopy
      BY <2>1, <2>3, <3>1, <3>2
    <3>4. QED
      BY <2>3, <3>3 DEF Sound, NoCopy
  <2>4. QED
    BY <1>3, <2>2, <2>3 DEF IInv, TypeOK
<1>4. copy' \in [Workers -> Row \cup {NoCopy}]
  BY <1>3 DEF Tick
<1>5. copyAge' \in [Workers -> 0 .. CopyTicks]
  BY OlderAge, Extremes, LeaseAssumption
     DEF LeaseAssumption, Tick, IInv, TypeOK
<1>6. beat' \in [Workers -> 0 .. HeartbeatTicks]
  BY OlderAge, LeaseAssumption DEF LeaseAssumption, Tick, IInv, TypeOK
<1>7. renewed' \in [Workers -> 0 .. LeaseTicks]
  BY OlderAge, LeaseAssumption DEF LeaseAssumption, Tick, IInv, TypeOK
<1>8. call' \in [Workers -> NoCall .. LeaseTicks]
  BY ShorterLease DEF Tick, IInv, TypeOK, Leases, NoCall, NoLease
<1>9. TypeOK'
  BY <1>2, <1>4, <1>5, <1>6, <1>7, <1>8
     DEF LegalRow, Tick, IInv, TypeOK, envVars
<1>10. RowsSound'
  BY <1>2, <1>3 DEF LegalRow, RowsSound, CopyHeld, IInv, Tick
<1>11. QED
  BY <1>9, <1>10 DEF IInv

LEMMA Inductive == ASSUME IInv, [Next]_vars PROVE IInv'
<1>1. CASE UNCHANGED vars
  BY <1>1 DEF vars, execVars, beatVars, IInv, TypeOK, RowsSound, CopyHeld
<1>2. ASSUME NEW w \in Workers, ClaimNextScan(w) \/ ReclaimStaleScans(w)
      PROVE  IInv'
  BY <1>2, ClaimStep, ReclaimStep
<1>3. ASSUME NEW w \in Workers, Execute(w) \/ ReadProgress(w) \/ EndRun(w)
      PROVE  IInv'
  BY <1>3, ExecuteStep, CopyStep, EndRunStep
<1>4. ASSUME NEW w \in Workers,
             Heartbeat(w) \/ HeartbeatErrs(w) \/ WatchCancellation(w)
      PROVE  IInv'
  BY <1>4, HeartbeatStep
<1>5. ASSUME NEW w \in Workers,
             StopWorker(w) \/ Crash(w) \/ Stall(w) \/ Thaw(w)
      PROVE  IInv'
  BY <1>5, EnvironmentStep
<1>6. CASE RequestScanCancellation
  BY <1>6, CancelStep
<1>7. CASE Tick
  BY <1>7, TickStep
<1>8. QED
  BY <1>1, <1>2, <1>3, <1>4, <1>5, <1>6, <1>7 DEF Next

LEMMA Invariance == Spec => []IInv
<1>1. Init => IInv
  BY Initially
<1>2. IInv /\ [Next]_vars => IInv'
  BY Inductive
<1>3. QED
  BY <1>1, <1>2, PTL DEF Spec

-----------------------------------------------------------------------------
(* Theorems *)

\* Every reachable state is well typed; in particular scans.attempt never
\* exceeds max_attempts, although ClaimNextScan does not look at it.
THEOREM TypeCorrect == Spec => []TypeOK
<1>1. IInv => TypeOK
  BY DEF IInv
<1>2. QED
  BY <1>1, Invariance, PTL

\* No row or copy of it, in the table or in the memory of a worker however
\* long frozen, describes a cancelled scan as still to be worked on.
THEOREM RowsStaySound == Spec => []RowsSound
<1>1. IInv => RowsSound
  BY DEF IInv
<1>2. QED
  BY <1>1, Invariance, PTL

\* One step of a cancelled scan keeps it cancelled.
LEMMA CancelKept ==
    ASSUME IInv, IInv', [Next]_vars, scan.cancel
    PROVE  scan'.cancel /\ scan'.status \in {"cancelled", "failed"}
<1>1. scan.status \in {"cancelled", "failed"}
  BY DEF IInv, RowsSound, Sound
<1>2. ASSUME NEW row, UpdateScan(row) PROVE scan'.cancel
  BY <1>2 DEF UpdateScan, UpdateAccepted
<1>3. ASSUME NEW tok PROVE ~Holds(tok)
  BY DEF Holds
<1>4. scan'.cancel
  <2>1. CASE UNCHANGED vars
    BY <2>1 DEF vars
  <2>2. ASSUME NEW w \in Workers, ClaimNextScan(w) \/ ReclaimStaleScans(w)
        PROVE  scan'.cancel
    BY <2>2, <1>1 DEF ClaimNextScan, ReclaimStaleScans, Stale
  <2>3. ASSUME NEW w \in Workers, Execute(w) \/ ReadProgress(w) \/ EndRun(w)
        PROVE  scan'.cancel
    <3>1. CASE SaveSource(w) \/ WriteProgress(w) \/ FailPreparedScan(w)
      BY <3>1, <1>2, <1>3 DEF SaveSource, WriteProgress, FailPreparedScan
    <3>2. CASE StartScanExecution(w)
      BY <3>2 DEF StartScanExecution, StartGuard
    <3>3. CASE CompleteScan(w) \/ FinalizeScan(w)
      BY <3>3, <1>3 DEF CompleteScan, FinalizeScan
    <3>4. CASE scan' = scan
      BY <3>4
    <3>5. QED
      BY <2>3, <3>1, <3>2, <3>3, <3>4
         DEF Execute, EndRun, LoadToken, AbandonStart, LoadScan, PrepareSource,
             PrepareFails, CompleteFails, ReadProgress, FinishRun, AbandonRun
  <2>4. ASSUME NEW w \in Workers,
               Heartbeat(w) \/ HeartbeatErrs(w) \/ WatchCancellation(w)
        PROVE  scan'.cancel
    BY <2>4 DEF Heartbeat, SendHeartbeat, HeartbeatScanLease, HeartbeatErrs,
                WatchCancellation, IInv, TypeOK, Row
  <2>5. ASSUME NEW w \in Workers,
               StopWorker(w) \/ Crash(w) \/ Stall(w) \/ Thaw(w)
        PROVE  scan'.cancel
    BY <2>5 DEF StopWorker, Crash, Stall, Thaw
  <2>6. CASE RequestScanCancellation
    BY <1>1, <2>6 DEF RequestScanCancellation
  <2>7. CASE Tick
    BY <2>7 DEF Tick, IInv, TypeOK, Row
  <2>8. QED
    BY <2>1, <2>2, <2>3, <2>4, <2>5, <2>6, <2>7 DEF Next
<1>5. QED
  BY <1>4 DEF IInv, RowsSound, Sound

\* A cancellation survives every later statement of every executor, whatever
\* token or copy of the row it still carries.
THEOREM CancelStaysFinal == Spec => CancelIsFinal
<1>1. IInv /\ IInv' /\ [Next]_vars =>
        [scan.cancel =>
           scan'.cancel /\ scan'.status \in {"cancelled", "failed"}]_vars
  BY CancelKept
<1>2. QED
  BY <1>1, Invariance, PTL DEF Spec, CancelIsFinal
-----------------------------------------------------------------------------
(* Failing renewals stop an executor in its window. *)

\* Between its claim and its first copy of the row an executor learns whose
\* scan it works on.
Early == {"claimed", "loaded", "started"}
Sheltered == StallPhases \cap Early = {}

\* The window is longer than the time between two heartbeats, and no freeze
\* has kept the executor from asking.
Punctual(w) ==
    /\ HeartbeatTicks < LeaseTicks
    /\ budget.stalls = MaxStalls \/ (Sheltered /\ phase[w] \in Early)

\* A frozen process has used up a freeze.
NoneFrozen == \A w \in Workers : Punctual(w) => ~stalled[w]

\* What the window still allows covers the wait for the next ticker, and an
\* executor that returned has reset its clocks.
Clock(w) ==
    /\ phase[w] = "idle" =>
          ~live[w] /\ beat[w] = 0 /\ renewed[w] = 0 /\ call[w] = NoCall
    /\ Punctual(w) /\ live[w] /\ call[w] = NoCall =>
          renewed[w] + HeartbeatTicks - beat[w] < LeaseTicks
    /\ Punctual(w) /\ CallTicks = 0 =>
          /\ live[w] => renewed[w] < LeaseTicks
          /\ call[w] # NoCall => call[w] = LeaseTicks
Clocks == NoneFrozen /\ \A w \in Workers : Clock(w)

LEMMA ClockTypes ==
    ASSUME IInv, NEW w \in Workers
    PROVE  /\ beat[w] \in 0 .. HeartbeatTicks
           /\ renewed[w] \in 0 .. LeaseTicks
           /\ call[w] \in NoCall .. LeaseTicks
           /\ live[w] \in BOOLEAN /\ stalled[w] \in BOOLEAN
           /\ budget.stalls \in 0 .. MaxStalls
           /\ HeartbeatTicks \in Nat \ {0} /\ LeaseTicks \in Nat
           /\ CallTicks \in Nat /\ MaxStalls \in Nat
  BY LeaseAssumption DEF LeaseAssumption, IInv, TypeOK

LEMMA PunctualKept ==
    ASSUME NEW w \in Workers,
           budget'.stalls = MaxStalls => budget.stalls = MaxStalls,
           phase'[w] \in Early => phase[w] \in Early
    PROVE  Punctual(w)' => Punctual(w)
  BY DEF Punctual

\* A worker that does nothing with its clocks keeps them in order.
LEMMA ClockKept ==
    ASSUME NEW w \in Workers, Clock(w), Punctual(w)' => Punctual(w),
           live'[w] => live[w], beat'[w] = beat[w], renewed'[w] = renewed[w],
           call'[w] = call[w],
           phase'[w] = "idle" => phase[w] = "idle"
    PROVE  Clock(w)'
  BY DEF Clock

\* Executors start and end with their clocks reset.
LEMMA ClockReset ==
    ASSUME IInv, NEW w \in Workers, beat'[w] = 0, renewed'[w] = 0,
           call'[w] = NoCall, phase'[w] = "idle" => ~live'[w]
    PROVE  Clock(w)'
  BY ClockTypes DEF Clock, Punctual

LEMMA ClocksReturn ==
    ASSUME IInv, Clocks, NEW w \in Workers, Return(w),
           budget'.stalls = MaxStalls => budget.stalls = MaxStalls
    PROVE  \A v \in Workers : Clock(v)' /\ (Punctual(v)' => Punctual(v))
<1>1. Clock(w)'
  BY ClockReset DEF IInv, TypeOK, Return
<1>2. ASSUME NEW v \in Workers PROVE Punctual(v)' => Punctual(v)
  <2>1. phase'[v] \in Early => phase[v] \in Early
    BY DEF IInv, TypeOK, Return, Early
  <2>2. QED
    BY <2>1, PunctualKept
<1>3. ASSUME NEW v \in Workers, v # w PROVE Clock(v)'
  BY <1>2, <1>3, ClockKept DEF IInv, TypeOK, Return, Clocks
<1>4. QED
  BY <1>1, <1>2, <1>3

\* A step that moves an executor on, or none, and leaves the clocks alone.
LEMMA ClocksMove ==
    ASSUME IInv, Clocks, UNCHANGED <<beat, renewed, call>>,
           \A v \in Workers : Punctual(v)' => Punctual(v),
           \A v \in Workers : live'[v] => live[v],
           \A v \in Workers : phase'[v] = "idle" => phase[v] = "idle"
    PROVE  \A v \in Workers : Clock(v)'
  BY ClockKept DEF Clocks

LEMMA GotoMoves ==
    ASSUME IInv, NEW w \in Workers, NEW p, Goto(w, p), p # "idle",
           p \in Early => phase[w] \in Early
    PROVE  \A v \in Workers :
              /\ phase'[v] = "idle" => phase[v] = "idle"
              /\ phase'[v] \in Early => phase[v] \in Early
  BY DEF IInv, TypeOK, Goto

LEMMA ClocksClaim ==
    ASSUME IInv, Clocks, NEW w \in Workers, ClaimNextScan(w)
    PROVE  \A v \in Workers : Clock(v)'
<1>1. phase[w] = "idle" /\ phase'[w] = "claimed"
  BY DEF ClaimNextScan, At, Goto, IInv, TypeOK
<1>2. UNCHANGED <<beat, renewed, call, stalled, budget>>
  BY DEF ClaimNextScan
<1>3. Clock(w)'
  <2>1. beat[w] = 0 /\ renewed[w] = 0 /\ call[w] = NoCall
    BY <1>1 DEF Clocks, Clock
  <2>2. QED
    BY <1>1, <1>2, <2>1, ClockReset
<1>4. ASSUME NEW v \in Workers, v # w PROVE Clock(v)'
  <2>1. live'[v] = live[v] /\ phase'[v] = phase[v]
    BY <1>4 DEF ClaimNextScan, Goto, IInv, TypeOK
  <2>2. Punctual(v)' => Punctual(v)
    BY <1>2, <2>1, PunctualKept
  <2>3. QED
    BY <1>2, <2>1, <2>2, ClockKept DEF Clocks
<1>5. QED
  BY <1>3, <1>4

\* The ticker fires at most a heartbeat after the last statement failed.
LEMMA ClocksSend ==
    ASSUME IInv, Clocks, NEW w \in Workers, SendHeartbeat(w)
    PROVE  \A v \in Workers : Clock(v)'
<1>1. UNCHANGED <<phase, live, renewed, stalled, budget>>
  BY DEF SendHeartbeat, execVars, envVars
<1>2. Clock(w)'
  <2>1. call'[w] # NoCall /\ phase[w] # "idle"
    BY ClockTypes DEF SendHeartbeat, Executing, IInv, TypeOK, NoCall
  <2>2. /\ call'[w] = LeaseTicks
        /\ Punctual(w) /\ live[w] /\ CallTicks = 0 =>
              renewed[w] < LeaseTicks
    BY DEF SendHeartbeat, IInv, TypeOK, Clocks, Clock
  <2>3. QED
    BY <1>1, <2>1, <2>2 DEF Clock, Punctual
<1>3. ASSUME NEW v \in Workers, v # w PROVE Clock(v)'
  <2>1. beat'[v] = beat[v] /\ call'[v] = call[v]
    BY <1>3 DEF SendHeartbeat, IInv, TypeOK
  <2>2. QED
    BY <1>1, <2>1, ClockKept DEF Clocks, Punctual
<1>4. QED
  BY <1>2, <1>3

\* A renewal restarts the window; a refusal ends the executor.
LEMMA ClocksRenew ==
    ASSUME IInv, Clocks, NEW w \in Workers, HeartbeatScanLease(w)
    PROVE  \A v \in Workers : Clock(v)'
<1>1. UNCHANGED <<phase, beat, stalled, budget>>
  BY DEF HeartbeatScanLease, execVars, envVars
<1>2. phase[w] # "idle"
  BY DEF HeartbeatScanLease, Clocks, Clock
<1>3. Clock(w)'
  <2>1. call'[w] = NoCall
    BY DEF HeartbeatScanLease, IInv, TypeOK
  <2>2. renewed'[w] = 0 \/ ~live'[w]
    BY DEF HeartbeatScanLease, IInv, TypeOK
  <2>3. CASE renewed'[w] = 0
    BY <1>1, <1>2, <2>1, <2>3, ClockTypes DEF Clock, Punctual
  <2>4. CASE ~live'[w]
    BY <1>1, <1>2, <2>1, <2>4 DEF Clock
  <2>5. QED
    BY <2>2, <2>3, <2>4
<1>4. ASSUME NEW v \in Workers, v # w PROVE Clock(v)'
  <2>1. /\ renewed'[v] = renewed[v] /\ call'[v] = call[v]
        /\ live'[v] = live[v]
    BY <1>4 DEF HeartbeatScanLease, IInv, TypeOK
  <2>2. QED
    BY <1>1, <2>1, ClockKept DEF Clocks, Punctual
<1>5. QED
  BY <1>3, <1>4

\* After an error the executor goes on only with a heartbeat to spare.
LEMMA ClocksErr ==
    ASSUME IInv, Clocks, NEW w \in Workers, HeartbeatErrs(w)
    PROVE  \A v \in Workers : Clock(v)'
<1>1. UNCHANGED <<phase, beat, renewed, stalled>>
  BY DEF HeartbeatErrs, execVars
<1>2. budget'.stalls = budget.stalls
  BY DEF HeartbeatErrs, IInv, TypeOK
<1>3. phase[w] # "idle"
  BY DEF HeartbeatErrs, Clocks, Clock
<1>4. Clock(w)'
  <2>1. /\ call'[w] = NoCall
        /\ live'[w] => live[w] /\ renewed[w] < StopAfter
    BY DEF HeartbeatErrs, IInv, TypeOK
  <2>2. call'[w] = NoCall /\ beat'[w] = beat[w] /\ renewed'[w] = renewed[w]
    BY <1>1, <2>1
  <2>3. live'[w] => renewed[w] + HeartbeatTicks < LeaseTicks
    BY <2>1, ClockTypes DEF StopAfter
  <2>4. live'[w] =>
           /\ renewed'[w] + HeartbeatTicks - beat'[w] < LeaseTicks
           /\ renewed'[w] < LeaseTicks
    BY <2>2, <2>3, ClockTypes
  <2>5. QED
    BY <1>1, <1>3, <2>2, <2>4 DEF Clock
<1>5. ASSUME NEW v \in Workers, v # w PROVE Clock(v)'
  <2>1. live'[v] = live[v] /\ call'[v] = call[v]
    BY <1>5 DEF HeartbeatErrs, IInv, TypeOK
  <2>2. QED
    BY <1>1, <1>2, <2>1, ClockKept DEF Clocks, Punctual
<1>6. QED
  BY <1>4, <1>5

\* Time passes only once every process has served its ticker.
LEMMA ClocksTick ==
    ASSUME IInv, Clocks, Tick
    PROVE  \A v \in Workers : Clock(v)'
<1> SUFFICES ASSUME NEW v \in Workers PROVE Clock(v)'
  OBVIOUS
<1>1. UNCHANGED <<phase, live, stalled, budget>>
  BY DEF Tick, envVars
<1>2. /\ beat'[v] = IF live[v] THEN Older(beat[v], HeartbeatTicks)
                               ELSE beat[v]
      /\ renewed'[v] = IF live[v] THEN Older(renewed[v], LeaseTicks)
                                  ELSE renewed[v]
      /\ call'[v] = Shorter(call[v])
  BY DEF Tick
<1>3. call'[v] = NoCall <=> call[v] = NoCall
  BY <1>2, ClockTypes DEF Shorter, NoCall
<1>0. Punctual(v)' <=> Punctual(v)
  BY <1>1 DEF Punctual
<1>4. CASE Punctual(v) /\ ~live[v]
  <2>1. CASE call[v] = NoCall
    BY <1>0, <1>1, <1>2, <1>3, <1>4, <2>1 DEF Clock, Clocks
  <2>2. CASE call[v] # NoCall
    <3>1. phase[v] # "idle" /\ ~stalled[v]
      BY <1>4, <2>2 DEF Clock, Clocks, NoneFrozen
    <3>2. call[v] > LeaseTicks - CallTicks
      BY <2>2, <3>1 DEF Tick, OnTime, Executing
    <3>3. CallTicks # 0
      BY <2>2, <3>2, ClockTypes DEF NoCall
    <3>4. QED
      BY <1>0, <1>1, <1>2, <1>3, <1>4, <3>1, <3>3 DEF Clock
  <2>3. QED
    BY <2>1, <2>2
<1>5. CASE ~Punctual(v)
  <2>1. CASE live[v]
    <3>1. phase[v] # "idle"
      BY <2>1 DEF Clock, Clocks
    <3>2. QED
      BY <1>0, <1>1, <1>5, <3>1 DEF Clock
  <2>2. CASE ~live[v]
    BY <1>0, <1>1, <1>2, <1>3, <1>5, <2>2 DEF Clock, Clocks
  <2>3. QED
    BY <2>1, <2>2
<1>6. CASE live[v] /\ Punctual(v)
  <2>1. phase[v] # "idle" /\ ~stalled[v]
    BY <1>6 DEF Clock, Clocks, NoneFrozen
  <2>2. /\ beat[v] < HeartbeatTicks \/ call[v] # NoCall
        /\ call[v] # NoCall => call[v] > LeaseTicks - CallTicks
    BY <1>6, <2>1 DEF Tick, OnTime, Executing
  <2>3. CASE call[v] = NoCall
    <3>1. renewed[v] + HeartbeatTicks - beat[v] < LeaseTicks
      BY <1>6, <2>3 DEF Clock, Clocks
    <3>2. beat'[v] = beat[v] + 1 /\ renewed'[v] <= renewed[v] + 1
      BY <1>2, <1>6, <2>2, <2>3, ClockTypes DEF Older
    <3>3. renewed'[v] \in Nat /\ beat'[v] <= HeartbeatTicks
      BY <1>2, <1>6, <2>2, <2>3, ClockTypes DEF Older
    <3>4. renewed'[v] + HeartbeatTicks - beat'[v] < LeaseTicks
      BY <3>1, <3>2, <3>3, ClockTypes
    <3>5. renewed'[v] < LeaseTicks
      BY <3>2, <3>3, <3>4, ClockTypes
    <3>6. QED
      BY <1>1, <1>3, <2>1, <2>3, <3>4, <3>5 DEF Clock
  <2>4. CASE call[v] # NoCall
    <3>1. CallTicks # 0
      BY <2>2, <2>4, ClockTypes DEF NoCall
    <3>2. QED
      BY <1>1, <1>3, <2>1, <2>4, <3>1 DEF Clock
  <2>5. QED
    BY <2>3, <2>4
<1>7. QED
  BY <1>4, <1>5, <1>6

\* The executor's own statements return it or leave its clocks alone.
LEMMA ClocksExecute ==
    ASSUME IInv, Clocks, NEW w \in Workers,
           Execute(w) \/ ReadProgress(w) \/ EndRun(w)
    PROVE  /\ \A v \in Workers : Clock(v)' /\ (Punctual(v)' => Punctual(v))
           /\ UNCHANGED <<stalled, budget>>
<1>1. UNCHANGED <<stalled, budget>>
  BY DEF Execute, EndRun, LoadToken, StartScanExecution, AbandonStart,
         LoadScan, PrepareSource, PrepareFails, SaveSource, WriteProgress,
         CompleteScan, CompleteFails, FinalizeScan, FailPreparedScan,
         ReadProgress, FinishRun, AbandonRun, envVars
<1>3. \/ Return(w)
      \/ /\ UNCHANGED beatVars
         /\ \E p \in Phases \ {"idle"} :
               Goto(w, p) /\ (p \in Early => phase[w] \in Early)
  BY DEF At, Early, Execute, EndRun, LoadToken, StartScanExecution,
         AbandonStart,
         LoadScan, PrepareSource, PrepareFails, SaveSource, WriteProgress,
         CompleteScan, CompleteFails, FinalizeScan, FailPreparedScan,
         ReadProgress, FinishRun, AbandonRun, Phases
<1>4. CASE Return(w)
  BY <1>1, <1>4, ClocksReturn
<1>5. CASE /\ UNCHANGED beatVars
           /\ \E p \in Phases \ {"idle"} :
                 Goto(w, p) /\ (p \in Early => phase[w] \in Early)
  <2>1. ASSUME NEW v \in Workers
        PROVE  /\ phase'[v] = "idle" => phase[v] = "idle"
               /\ phase'[v] \in Early => phase[v] \in Early
    BY <1>5, GotoMoves
  <2>2. \A v \in Workers : Punctual(v)' => Punctual(v)
    BY <1>1, <2>1, PunctualKept
  <2>3. QED
    BY <1>1, <1>5, <2>1, <2>2, ClocksMove DEF beatVars
<1>6. QED
  BY <1>3, <1>4, <1>5

LEMMA ClocksEnvironment ==
    ASSUME IInv, Clocks, NEW w \in Workers,
           StopWorker(w) \/ Crash(w) \/ Stall(w) \/ Thaw(w)
    PROVE  Clocks'
<1>1. budget'.stalls = MaxStalls => budget.stalls = MaxStalls /\ ~Stall(w)
  BY ClockTypes DEF StopWorker, Crash, Stall, Thaw, IInv, TypeOK
<1>2. CASE Crash(w)
  <2>1. \A v \in Workers : stalled'[v] => stalled[v]
    BY <1>2 DEF Crash, IInv, TypeOK
  <2>2. QED
    BY <1>1, <1>2, <2>1, ClocksReturn DEF Crash, Clocks, NoneFrozen
<1>3. CASE ~Crash(w)
  <2>1. /\ UNCHANGED <<phase, beat, renewed, call>>
        /\ \A v \in Workers : live'[v] => live[v]
    BY <1>3 DEF StopWorker, Stall, Thaw, IInv, TypeOK, execVars, beatVars
  <2>2. \A v \in Workers : Punctual(v)' => Punctual(v)
    BY <1>1, <2>1, PunctualKept
  <2>3. \A v \in Workers : Clock(v)'
    BY <2>1, <2>2, ClocksMove
  <2>4. ASSUME NEW v \in Workers, Punctual(v)', stalled'[v] PROVE stalled[v]
    <3>1. CASE Stall(w) /\ v = w
      <4>1. phase[w] \notin Early \/ ~Sheltered
        BY <3>1 DEF Stall, Sheltered
      <4>2. budget'.stalls # MaxStalls
        BY <1>1, <3>1
      <4>3. QED
        BY <2>1, <2>4, <3>1, <4>1, <4>2 DEF Punctual
    <3>2. CASE ~(Stall(w) /\ v = w)
      BY <1>3, <2>4, <3>2 DEF StopWorker, Stall, Thaw, IInv, TypeOK
    <3>3. QED
      BY <3>1, <3>2
  <2>5. QED
    BY <2>2, <2>3, <2>4 DEF Clocks, NoneFrozen
<1>4. QED
  BY <1>2, <1>3

LEMMA ClocksInductive == ASSUME IInv, Clocks, [Next]_vars PROVE Clocks'
<1>1. ASSUME UNCHANGED stalled, \A v \in Workers : Clock(v)',
             \A v \in Workers : Punctual(v)' => Punctual(v) \/ ~stalled[v]
      PROVE  Clocks'
  BY <1>1 DEF Clocks, NoneFrozen
<1>2. ASSUME UNCHANGED <<phase, stalled>>, budget'.stalls = budget.stalls
      PROVE  \A v \in Workers : Punctual(v)' => Punctual(v)
  BY <1>2, PunctualKept
<1>3. ASSUME UNCHANGED <<phase, stalled, beat, renewed, call>>,
             budget'.stalls = budget.stalls,
             \A v \in Workers : live'[v] => live[v]
      PROVE  Clocks'
  BY <1>1, <1>2, <1>3, ClocksMove
<1>4. CASE UNCHANGED vars
  BY <1>3, <1>4 DEF vars, execVars, beatVars
<1>5. ASSUME NEW w \in Workers, ClaimNextScan(w) \/ ReclaimStaleScans(w)
      PROVE  Clocks'
  <2>1. CASE ClaimNextScan(w)
    <3>1. UNCHANGED <<stalled, budget>> /\ ~stalled[w]
      BY <2>1 DEF ClaimNextScan, At
    <3>2. ASSUME NEW v \in Workers, v # w PROVE Punctual(v)' => Punctual(v)
      <4>1. phase'[v] = phase[v]
        BY <2>1, <3>2 DEF ClaimNextScan, Goto, IInv, TypeOK
      <4>2. QED
        BY <3>1, <4>1, PunctualKept
    <3>3. QED
      BY <1>1, <2>1, <3>1, <3>2, ClocksClaim
  <2>2. CASE ReclaimStaleScans(w)
    BY <1>3, <2>2 DEF ReclaimStaleScans, execVars, beatVars, envVars
  <2>3. QED
    BY <1>5, <2>1, <2>2
<1>6. ASSUME NEW w \in Workers, Execute(w) \/ ReadProgress(w) \/ EndRun(w)
      PROVE  Clocks'
  BY <1>1, <1>6, ClocksExecute
<1>7. ASSUME NEW w \in Workers,
             Heartbeat(w) \/ HeartbeatErrs(w) \/ WatchCancellation(w)
      PROVE  Clocks'
  <2>1. CASE SendHeartbeat(w)
    BY <1>1, <1>2, <2>1, ClocksSend DEF SendHeartbeat, execVars, envVars
  <2>2. CASE HeartbeatScanLease(w)
    BY <1>1, <1>2, <2>2, ClocksRenew
       DEF HeartbeatScanLease, execVars, envVars
  <2>3. CASE HeartbeatErrs(w)
    <3>1. budget'.stalls = budget.stalls /\ UNCHANGED <<phase, stalled>>
      BY <2>3 DEF HeartbeatErrs, IInv, TypeOK, execVars
    <3>2. QED
      BY <1>1, <1>2, <2>3, <3>1, ClocksErr
  <2>4. CASE WatchCancellation(w)
    <3>1. \A v \in Workers : live'[v] => live[v]
      BY <2>4 DEF WatchCancellation, IInv, TypeOK
    <3>2. QED
      BY <1>3, <2>4, <3>1 DEF WatchCancellation, execVars, envVars
  <2>5. QED
    BY <1>7, <2>1, <2>2, <2>3, <2>4 DEF Heartbeat
<1>8. ASSUME NEW w \in Workers,
             StopWorker(w) \/ Crash(w) \/ Stall(w) \/ Thaw(w)
      PROVE  Clocks'
  BY <1>8, ClocksEnvironment
<1>9. CASE RequestScanCancellation
  BY <1>3, <1>9 DEF RequestScanCancellation, execVars, beatVars, envVars
<1>10. CASE Tick
  BY <1>1, <1>2, <1>10, ClocksTick DEF Tick, envVars
<1>11. QED
  BY <1>4, <1>5, <1>6, <1>7, <1>8, <1>9, <1>10 DEF Next

LEMMA ClocksInitially == ASSUME Init PROVE Clocks
  BY LeaseAssumption
     DEF LeaseAssumption, Init, Clocks, NoneFrozen, Clock, NoCall

LEMMA ClocksInvariance == Spec => []Clocks
<1>1. Init => Clocks
  BY ClocksInitially
<1>2. IInv /\ Clocks /\ [Next]_vars => Clocks'
  BY ClocksInductive
<1>3. QED
  BY <1>1, <1>2, Invariance, PTL DEF Spec

\* However its renewals fail and however long the statements take, an executor
\* no freeze holds up is past its window only while it waits for the answer to
\* a heartbeat it sent inside it: an error stops it unless the window still has
\* room for a whole heartbeat.  A lease that New keeps is longer than two
\* heartbeats (worker.go:76); one it replaces need not be, so that the lease
\* outlasts one heartbeat is a hypothesis.
THEOREM StopsInTimeHolds ==
    ASSUME HeartbeatTicks < LeaseTicks PROVE Spec => []StopsInTime
<1>1. IInv /\ Clocks => StopsInTime
  <2> SUFFICES ASSUME IInv, Clocks, budget.stalls = MaxStalls,
                      NEW w \in Workers, live[w], call[w] = NoCall
               PROVE  renewed[w] < LeaseTicks
    BY DEF StopsInTime
  <2>1. renewed[w] + HeartbeatTicks - beat[w] < LeaseTicks
    BY DEF Clocks, Clock, Punctual
  <2>2. QED
    BY <2>1, ClockTypes
<1>2. QED
  BY <1>1, Invariance, ClocksInvariance, PTL
-----------------------------------------------------------------------------
(* The row belongs to the claim whose token it carries, and the queue does *)
(* to a scan what ScanJob promises.                                        *)

\* No lease is left to run out under an executor that is about to read from
\* the row whose scan it works on, however slow its statements are and
\* whatever freezes it.
FencedInTime ==
    \A w \in Workers :
       live[w] /\ phase[w] \in Early /\ scan.token = claim[w] => ~Stale

\* The token is the latest claim's and is taken back when the claim ends.
RowOwned ==
    /\ scan.token \in {NoToken, claims}
    /\ scan.attempt = claims
    /\ scan.status = "running" => scan.token # NoToken
    /\ scan.status \in {"pending", "completed", "failed"} =>
          scan.token = NoToken
    /\ scan.status = "cancelled" => scan.cancel

\* A copy of the row as it was during the executor's own claim.
Fits(row, w) ==
    /\ row.token = claim[w] /\ row.attempt = claim[w]
    /\ IF row.cancel THEN scan.cancel ELSE row.status = "running"

Copying == {"preparing", "prepared", "updating"}

\* What an executor remembers is of its own claim.
Remembers(w) ==
    phase[w] # "idle" =>
       /\ claim[w] \in 1 .. claims
       /\ phase[w] # "claimed" => fence[w] = claim[w]
       /\ phase[w] \in Copying => Fits(copy[w], w)

\* A starting executor owns the row.
Holding(w) == live[w] /\ phase[w] \in Early => scan.token = claim[w]

OneTokenEach ==
    \A v, w \in Workers :
       v # w /\ phase[v] # "idle" /\ phase[w] # "idle" => claim[v] # claim[w]

Ownership ==
    /\ RowOwned
    /\ OneTokenEach
    /\ \A w \in Workers : Remembers(w) /\ Holding(w)

OInv == IInv /\ Clocks /\ Ownership

LEMMA RowTypes ==
    ASSUME IInv
    PROVE  /\ scan \in Row /\ scan.status \in Statuses
           /\ scan.token \in Nat /\ scan.attempt \in Nat
           /\ scan.lease \in Leases /\ scan.cancel \in BOOLEAN
           /\ claims \in Nat /\ NoToken = 0
           /\ \A w \in Workers : claim[w] \in Nat /\ fence[w] \in Nat
  BY LeaseAssumption
     DEF LeaseAssumption, IInv, TypeOK, Row, Tokens, Leases, NoToken

\* A row that carries an executor's token is a copy that fits it.
LEMMA OwnRowFits ==
    ASSUME IInv, RowOwned, NEW w \in Workers, claim[w] \in 1 .. claims,
           scan.token = claim[w]
    PROVE  Fits(scan, w) /\ scan.token = claims
<1>1. scan.token # NoToken /\ scan.token = claims
  BY RowTypes DEF RowOwned
<1>2. scan.status \in {"running", "cancelled"}
  BY <1>1, RowTypes DEF RowOwned, Statuses
<1>3. QED
  BY <1>1, <1>2 DEF RowOwned, Fits

\* Writing a fitting copy changes no more than the lease.
RowKept ==
    /\ scan'.status = scan.status /\ scan'.token = scan.token
    /\ scan'.attempt = scan.attempt /\ scan'.cancel = scan.cancel

LEMMA FittingWrite ==
    ASSUME IInv, RowOwned, NEW w \in Workers, claim[w] \in 1 .. claims,
           NEW row \in Row, Fits(row, w), UpdateScan(row)
    PROVE  /\ RowKept
           /\ scan.token # claim[w] => scan' = scan
<1>1. CASE UpdateAccepted(row)
  <2>1. row.token # NoToken
    BY RowTypes DEF Fits
  <2>2. Holds(claim[w])
    BY <1>1, <2>1 DEF UpdateAccepted, Fits
  <2>3. scan.status = "running" /\ scan.token = claim[w] /\ ~scan.cancel
    BY <2>2 DEF Holds
  <2>4. Fits(scan, w)
    BY <2>3, OwnRowFits
  <2>5. scan' = row
    BY <1>1 DEF UpdateScan
  <2>6. ~row.cancel /\ row.status = "running"
    BY <2>3 DEF Fits
  <2>7. row.cancel = scan.cancel
    BY <2>3, <2>6, RowTypes DEF Row
  <2>8. QED
    BY <2>3, <2>4, <2>5, <2>6, <2>7 DEF Fits, RowKept
<1>2. CASE ~UpdateAccepted(row)
  BY <1>2 DEF UpdateScan, RowKept
<1>3. QED
  BY <1>1, <1>2

\* What an executor writes back is a fitting copy.
LEMMA WritesBack ==
    ASSUME OInv, NEW w \in Workers, SaveSource(w) \/ WriteProgress(w)
    PROVE  /\ RowKept
           /\ scan.token # claim[w] => scan' = scan
<1>1. /\ phase[w] \in Copying /\ copy[w] \in Row
  BY DEF SaveSource, WriteProgress, At, Copying, OInv, IInv, RowsSound,
         CopyHeld
<1>2. /\ claim[w] \in 1 .. claims /\ fence[w] = claim[w]
      /\ Fits(copy[w], w)
  BY <1>1 DEF OInv, Ownership, Remembers, Copying
<1>3. [copy[w] EXCEPT !.token = fence[w]] = copy[w]
  BY <1>1, <1>2 DEF Fits, Row
<1>4. UpdateScan(copy[w])
  BY <1>3 DEF SaveSource, WriteProgress
<1>5. QED
  BY <1>1, <1>2, <1>4, FittingWrite DEF OInv, Ownership

\* Starting marks as running what the claim has marked already.
LEMMA StartsOwn ==
    ASSUME OInv, NEW w \in Workers, StartScanExecution(w)
    PROVE  scan' = scan /\ scan.token = claim[w]
<1>1. /\ phase[w] = "loaded"
      /\ StartGuard(w) /\ scan' = [scan EXCEPT !.status = "running"]
  BY DEF StartScanExecution, At
<1>2. fence[w] = claim[w] /\ claim[w] \in 1 .. claims
  BY <1>1 DEF OInv, Ownership, Remembers
<1>3. scan.status = "running" /\ scan.token = claim[w]
  BY <1>1, <1>2, RowTypes DEF OInv, StartGuard
<1>4. QED
  BY <1>1, <1>3, RowTypes DEF OInv, Row

\* A live starting executor is asked for by nobody's reclaim.
LEMMA NotStale ==
    ASSUME FencedInTime, OInv, NEW w \in Workers, live[w], phase[w] \in Early
    PROVE  ~Stale /\ scan.status # "pending"
<1>1. scan.token = claim[w] /\ claim[w] \in 1 .. claims
  BY DEF OInv, Ownership, Holding, Remembers, Early
<1>2. QED
  BY <1>1, RowTypes DEF FencedInTime, OInv, Ownership, RowOwned

\* The terminal writes are of an executor with a fence of its own.
LEMMA EndsOwn ==
    ASSUME OInv, NEW w \in Workers,
           CompleteScan(w) \/ FinalizeScan(w) \/ FailPreparedScan(w)
    PROVE  /\ claim[w] \in 1 .. claims
           /\ \/ /\ Holds(fence[w])
                 /\ scan.status = "running" /\ scan.token = claim[w]
                 /\ claim[w] = claims
                 /\ \/ /\ CompleteScan(w)
                       /\ scan' = Finalized("completed")
                       /\ publisher' = claim[w]
                    \/ scan' = Finalized("failed") /\ publisher' = publisher
              \/ scan' = scan /\ publisher' = publisher
<1>1. fence[w] = claim[w] /\ claim[w] \in 1 .. claims
  BY DEF CompleteScan, FinalizeScan, FailPreparedScan, At, OInv, Ownership,
         Remembers
<1>2. fence[w] # NoToken
  BY <1>1, RowTypes DEF OInv
<1>3. CASE Holds(fence[w])
  <2>1. scan.status = "running" /\ scan.token = claim[w]
    BY <1>1, <1>3 DEF Holds
  <2>2. claim[w] = claims
    BY <1>1, <2>1, OwnRowFits DEF OInv, Ownership
  <2>3. QED
    BY <1>1, <1>2, <1>3, <2>1, <2>2
       DEF CompleteScan, FinalizeScan, FailPreparedScan
<1>4. CASE ~Holds(fence[w])
  BY <1>1, <1>2, <1>4 DEF CompleteScan, FinalizeScan, FailPreparedScan
<1>5. QED
  BY <1>3, <1>4

-----------------------------------------------------------------------------
(* What a step may do to the row. *)

Begins ==
    /\ scan.status = "pending" /\ scan.attempt < MaxAttempts
    /\ claims' = claims + 1 /\ publisher' = publisher
    /\ scan'.status = "running" /\ scan'.token = claims'
    /\ scan'.attempt = scan.attempt + 1 /\ scan'.cancel = scan.cancel
GivenUp ==
    /\ Stale
    /\ claims' = claims /\ publisher' = publisher
    /\ scan'.status = IF RetryLeft THEN "pending" ELSE "failed"
    /\ scan'.token = NoToken
    /\ scan'.attempt = scan.attempt /\ scan'.cancel = scan.cancel
Ends ==
    /\ scan.status = "running" /\ scan.token = claims
    /\ claims' = claims
    /\ \/ scan'.status = "completed" /\ publisher' = claims
       \/ scan'.status = "failed" /\ publisher' = publisher
    /\ scan'.token = NoToken
    /\ scan'.attempt = scan.attempt /\ scan'.cancel = scan.cancel
IsCancelled ==
    /\ scan.status \in {"pending", "running"}
    /\ claims' = claims /\ publisher' = publisher
    /\ scan'.status = "cancelled" /\ scan'.cancel
    /\ scan'.token = scan.token /\ scan'.attempt = scan.attempt
Stays == RowKept /\ claims' = claims /\ publisher' = publisher

LEMMA ExecutorWrites ==
    ASSUME OInv, NEW w \in Workers, Execute(w) \/ ReadProgress(w) \/ EndRun(w)
    PROVE  /\ Stays \/ Ends
           /\ scan.token # claim[w] => scan' = scan
<1>1. claims' = claims
  BY DEF Execute, EndRun, LoadToken, StartScanExecution, AbandonStart,
         LoadScan, PrepareSource, PrepareFails, SaveSource, WriteProgress,
         CompleteScan, CompleteFails, FinalizeScan, FailPreparedScan,
         ReadProgress, FinishRun, AbandonRun, envVars
<1>2. CASE scan' = scan /\ publisher' = publisher
  BY <1>1, <1>2 DEF Stays, RowKept
<1>3. CASE SaveSource(w) \/ WriteProgress(w)
  BY <1>1, <1>3, WritesBack DEF Stays, SaveSource, WriteProgress
<1>4. CASE StartScanExecution(w)
  BY <1>1, <1>4, StartsOwn DEF Stays, RowKept, StartScanExecution
<1>5. CASE CompleteScan(w) \/ FinalizeScan(w) \/ FailPreparedScan(w)
  <2>1. CASE scan' = scan /\ publisher' = publisher
    BY <1>2, <2>1
  <2>2. CASE /\ scan.status = "running" /\ scan.token = claim[w]
             /\ claim[w] = claims
             /\ \/ scan' = Finalized("completed") /\ publisher' = claim[w]
                \/ scan' = Finalized("failed") /\ publisher' = publisher
    BY <1>1, <2>2, RowTypes DEF Ends, Finalized, OInv, Row
  <2>3. QED
    BY <1>5, <2>1, <2>2, EndsOwn
<1>6. QED
  BY <1>2, <1>3, <1>4, <1>5
     DEF Execute, EndRun, LoadToken, AbandonStart, LoadScan, PrepareSource,
         PrepareFails, CompleteFails, ReadProgress, FinishRun, AbandonRun

LEMMA RowSteps ==
    ASSUME OInv, [Next]_vars
    PROVE  Begins \/ GivenUp \/ Ends \/ IsCancelled \/ Stays
<1>1. scan \in Row
  BY RowTypes DEF OInv
<1>2. CASE UNCHANGED vars
  BY <1>2 DEF vars, Stays, RowKept
<1>3. ASSUME NEW w \in Workers, ClaimNextScan(w) PROVE Begins
  BY <1>1, <1>3 DEF ClaimNextScan, Begins, Row, OInv, IInv, RowsSound, Sound
<1>4. ASSUME NEW w \in Workers, ReclaimStaleScans(w) PROVE GivenUp
  BY <1>1, <1>4 DEF ReclaimStaleScans, GivenUp, Row, envVars
<1>5. ASSUME NEW w \in Workers, Execute(w) \/ ReadProgress(w) \/ EndRun(w)
      PROVE  Stays \/ Ends
  BY <1>5, ExecutorWrites
<1>6. ASSUME NEW w \in Workers,
             \/ Heartbeat(w) \/ HeartbeatErrs(w) \/ WatchCancellation(w)
             \/ StopWorker(w) \/ Crash(w) \/ Stall(w) \/ Thaw(w)
      PROVE  Stays
  BY <1>1, <1>6
     DEF Heartbeat, SendHeartbeat, HeartbeatScanLease, HeartbeatErrs,
         WatchCancellation, StopWorker, Crash, Stall, Thaw, Stays, RowKept,
         envVars, Row
<1>7. CASE RequestScanCancellation
  BY <1>1, <1>7 DEF RequestScanCancellation, IsCancelled, Row, envVars
<1>8. CASE Tick
  BY <1>1, <1>8 DEF Tick, Stays, RowKept, Row, envVars
<1>9. QED
  BY <1>2, <1>3, <1>4, <1>5, <1>6, <1>7, <1>8 DEF Next

-----------------------------------------------------------------------------
(* Ownership is inductive. *)

LEMMA CancelStays ==
    ASSUME OInv, Begins \/ GivenUp \/ Ends \/ IsCancelled \/ Stays,
           scan.cancel
    PROVE  scan'.cancel
  BY DEF Begins, GivenUp, Ends, IsCancelled, Stays, RowKept

LEMMA RowOwnedStep ==
    ASSUME OInv, Begins \/ GivenUp \/ Ends \/ IsCancelled \/ Stays
    PROVE  RowOwned' /\ claims' \in Nat /\ claims' >= claims
<1>1. RowOwned /\ claims \in Nat /\ scan.attempt \in Nat /\ NoToken = 0
  BY RowTypes DEF OInv, Ownership
<1>2. CASE Begins
  BY <1>1, <1>2 DEF Begins, RowOwned
<1>3. CASE GivenUp
  BY <1>1, <1>3 DEF GivenUp, RowOwned
<1>4. CASE Ends
  BY <1>1, <1>4 DEF Ends, RowOwned
<1>5. CASE IsCancelled
  BY <1>1, <1>5 DEF IsCancelled, RowOwned
<1>6. CASE Stays
  BY <1>1, <1>6 DEF Stays, RowKept, RowOwned
<1>7. QED
  BY <1>2, <1>3, <1>4, <1>5, <1>6

\* An executor whose memory a step leaves alone.
LEMMA RemembersKept ==
    ASSUME OInv, NEW v \in Workers, phase'[v] = phase[v],
           claim'[v] = claim[v], fence'[v] = fence[v], copy'[v] = copy[v],
           claims' \in Nat, claims' >= claims, scan.cancel => scan'.cancel
    PROVE  Remembers(v)'
  BY RowTypes DEF OInv, Ownership, Remembers, Fits

\* An executor that moves on keeps its claim; a copy it will write is fitting.
LEMMA RemembersMoved ==
    ASSUME OInv, NEW w \in Workers, NEW p, Goto(w, p), p # "claimed",
           phase[w] # "idle",
           claim' = claim, claims' = claims, fence'[w] = claim[w],
           p \in Copying => Fits(copy'[w], w), scan.cancel => scan'.cancel
    PROVE  Remembers(w)'
<1>1. phase'[w] = p
  BY DEF Goto, OInv, IInv, TypeOK
<1>2. claim[w] \in 1 .. claims
  BY DEF OInv, Ownership, Remembers
<1>3. QED
  BY <1>1, <1>2 DEF Remembers, Fits

\* A starting executor is alone with the row: others' tokens are not its own.
LEMMA HoldsAlone ==
    ASSUME OInv, NEW v \in Workers, NEW w \in Workers, v # w,
           live[v], phase[v] \in Early
    PROVE  /\ scan.token = claim[v]
           /\ phase[w] # "idle" => scan.token # claim[w]
  BY DEF OInv, Ownership, OneTokenEach, Holding, Early

\* An executor that keeps its claim, while the row keeps its token.
LEMMA HoldingKept ==
    ASSUME OInv, NEW v \in Workers, claim'[v] = claim[v],
           live'[v] => live[v], phase'[v] \in Early => phase[v] \in Early,
           live'[v] /\ phase'[v] \in Early => scan'.token = scan.token
    PROVE  Holding(v)'
  BY DEF OInv, Ownership, Holding

LEMMA OneTokenKept ==
    ASSUME OInv, claim' = claim,
           \A v \in Workers : phase'[v] # "idle" => phase[v] # "idle"
    PROVE  OneTokenEach'
  BY DEF OInv, Ownership, OneTokenEach

\* The steps that end an executor.
LEMMA OwnershipReturn ==
    ASSUME OInv, NEW w \in Workers, Return(w), phase[w] # "idle",
           Begins \/ GivenUp \/ Ends \/ IsCancelled \/ Stays,
           scan.token # claim[w] => scan' = scan
    PROVE  Ownership'
<1>1. phase'[w] = "idle" /\ live'[w] = FALSE
  BY DEF Return, OInv, IInv, TypeOK
<1>2. RowOwned' /\ claims' \in Nat /\ claims' >= claims
  BY RowOwnedStep
<1>3. scan.cancel => scan'.cancel
  BY CancelStays
<1>4. ASSUME NEW v \in Workers, v # w
      PROVE  /\ phase'[v] = phase[v] /\ claim'[v] = claim[v]
             /\ fence'[v] = fence[v] /\ copy'[v] = copy[v]
             /\ live'[v] = live[v]
  BY <1>4 DEF Return, OInv, IInv, TypeOK
<1>5. OneTokenEach'
  BY <1>1, <1>4 DEF OInv, Ownership, OneTokenEach
<1>6. Remembers(w)' /\ Holding(w)'
  BY <1>1 DEF Remembers, Holding
<1>7. ASSUME NEW v \in Workers, v # w PROVE Remembers(v)' /\ Holding(v)'
  <2>1. Remembers(v)'
    BY <1>2, <1>3, <1>4, <1>7, RemembersKept
  <2>2. live[v] /\ phase[v] \in Early => scan' = scan
    BY <1>7, HoldsAlone
  <2>3. QED
    BY <1>4, <1>7, <2>1, <2>2, HoldingKept
<1>8. QED
  BY <1>2, <1>5, <1>6, <1>7 DEF Ownership

\* The steps that move an executor on.
LEMMA OwnershipMove ==
    ASSUME OInv, NEW w \in Workers, NEW p, Goto(w, p),
           p # "idle", p # "claimed", phase[w] # "idle",
           UNCHANGED <<claim, claims, beatVars>>,
           \A v \in Workers \ {w} :
              fence'[v] = fence[v] /\ copy'[v] = copy[v],
           fence'[w] = claim[w],
           p \in Copying => Fits(copy'[w], w),
           p \in Early => phase[w] \in Early /\ scan' = scan,
           Begins \/ GivenUp \/ Ends \/ IsCancelled \/ Stays,
           scan.token # claim[w] => scan' = scan
    PROVE  Ownership'
<1>1. phase'[w] = p /\ \A v \in Workers \ {w} : phase'[v] = phase[v]
  BY DEF Goto, OInv, IInv, TypeOK
<1>2. RowOwned' /\ claims' \in Nat /\ claims' >= claims
  BY RowOwnedStep
<1>3. scan.cancel => scan'.cancel
  BY CancelStays
<1>4. OneTokenEach'
  BY <1>1, OneTokenKept
<1>5. Remembers(w)'
  BY <1>3, RemembersMoved
<1>6. Holding(w)'
  BY <1>1, HoldingKept DEF beatVars
<1>7. ASSUME NEW v \in Workers, v # w PROVE Remembers(v)' /\ Holding(v)'
  <2>1. Remembers(v)'
    BY <1>1, <1>2, <1>3, <1>7, RemembersKept
  <2>2. live[v] /\ phase[v] \in Early => scan' = scan
    BY <1>7, HoldsAlone
  <2>3. QED
    BY <1>1, <1>7, <2>1, <2>2, HoldingKept DEF beatVars
<1>8. QED
  BY <1>2, <1>4, <1>5, <1>6, <1>7 DEF Ownership

LEMMA OwnershipExecute ==
    ASSUME OInv, [Next]_vars, NEW w \in Workers,
           Execute(w) \/ ReadProgress(w) \/ EndRun(w)
    PROVE  Ownership'
<1>1. Begins \/ GivenUp \/ Ends \/ IsCancelled \/ Stays
  BY RowSteps
<1>2. scan.token # claim[w] => scan' = scan
  BY ExecutorWrites
<1>3. phase[w] # "idle"
  BY DEF Execute, EndRun, LoadToken, StartScanExecution, AbandonStart,
         LoadScan, PrepareSource, PrepareFails, SaveSource, WriteProgress,
         CompleteScan, CompleteFails, FinalizeScan, FailPreparedScan,
         ReadProgress, FinishRun, AbandonRun, At
<1>4. /\ claim[w] \in 1 .. claims
      /\ phase[w] # "claimed" => fence[w] = claim[w]
      /\ phase[w] \in Copying => Fits(copy[w], w)
  BY <1>3 DEF OInv, Ownership, Remembers
<1>5. CASE Return(w)
  BY <1>1, <1>2, <1>3, <1>5, OwnershipReturn
<1>6. CASE LoadToken(w)
  <2>1. phase[w] = "claimed" /\ live[w]
    BY <1>6 DEF LoadToken, At
  <2>2. scan.token = claim[w]
    BY <2>1 DEF OInv, Ownership, Holding, Early
  <2>3. fence'[w] = claim[w] /\ \A v \in Workers \ {w} : fence'[v] = fence[v]
    BY <1>6, <2>2 DEF LoadToken, OInv, IInv, TypeOK
  <2>4. /\ Goto(w, "loaded") /\ scan' = scan /\ copy' = copy
        /\ UNCHANGED <<claim, claims, beatVars>>
    BY <1>6 DEF LoadToken, envVars
  <2>5. QED
    BY <1>1, <1>3, <2>1, <2>3, <2>4, OwnershipMove DEF Early, Copying
<1>7. CASE StartScanExecution(w)
  <2>1. phase[w] = "loaded" /\ scan' = scan
    BY <1>7, StartsOwn DEF StartScanExecution, At
  <2>2. /\ Goto(w, "started") /\ copy' = copy /\ fence' = fence
        /\ UNCHANGED <<claim, claims, beatVars>>
    BY <1>7 DEF StartScanExecution, envVars
  <2>3. QED
    BY <1>1, <1>3, <1>4, <2>1, <2>2, OwnershipMove DEF Early, Copying
<1>8. CASE LoadScan(w) \/ ReadProgress(w)
  <2>1. PICK p \in {"preparing", "updating"} : Goto(w, p)
    BY <1>8 DEF LoadScan, ReadProgress
  <2>2. phase[w] # "claimed"
    BY <1>8 DEF LoadScan, ReadProgress, At
  <2>3. scan.token = claim[w]
    <3>1. CASE LoadScan(w)
      BY <3>1 DEF LoadScan, At, OInv, Ownership, Holding, Early
    <3>2. CASE ReadProgress(w)
      BY <1>4, <2>2, <3>2, RowTypes DEF ReadProgress, Owned, Holds, OInv
    <3>3. QED
      BY <1>8, <3>1, <3>2
  <2>4. Fits(scan, w)
    BY <1>4, <2>3, OwnRowFits DEF OInv, Ownership
  <2>5. copy'[w] = scan /\ \A v \in Workers \ {w} : copy'[v] = copy[v]
    BY <1>8 DEF LoadScan, ReadProgress, TakeCopy, OInv, IInv, TypeOK
  <2>6. /\ scan' = scan /\ fence' = fence
        /\ UNCHANGED <<claim, claims, beatVars>>
    BY <1>8 DEF LoadScan, ReadProgress, envVars
  <2>7. QED
    BY <1>1, <1>3, <1>4, <2>1, <2>2, <2>4, <2>5, <2>6, OwnershipMove
       DEF Early, Copying
<1>9. CASE PrepareSource(w)
  <2>1. phase[w] = "preparing"
    BY <1>9 DEF PrepareSource, At
  <2>2. /\ Goto(w, "prepared") /\ scan' = scan /\ copy' = copy
        /\ fence' = fence /\ UNCHANGED <<claim, claims, beatVars>>
    BY <1>9 DEF PrepareSource, envVars
  <2>3. QED
    BY <1>1, <1>3, <1>4, <2>1, <2>2, OwnershipMove DEF Early, Copying
<1>10. CASE SaveSource(w) \/ WriteProgress(w)
  <2>1. phase[w] # "claimed"
    BY <1>10 DEF SaveSource, WriteProgress, At
  <2>2. \A v \in Workers \ {w} : copy'[v] = copy[v]
    BY <1>10 DEF SaveSource, WriteProgress, DropCopy, OInv, IInv, TypeOK
  <2>3. /\ Goto(w, "scanning") /\ fence' = fence
        /\ UNCHANGED <<claim, claims, beatVars>>
    BY <1>10 DEF SaveSource, WriteProgress, envVars
  <2>4. QED
    BY <1>1, <1>2, <1>3, <1>4, <2>1, <2>2, <2>3, OwnershipMove
       DEF Early, Copying
<1>11. CASE \/ PrepareFails(w) \/ CompleteFails(w)
            \/ \E o \in {"completing", "finalizing"} : FinishRun(w, o)
  <2>1. PICK p \in {"failing", "completing", "finalizing"} : Goto(w, p)
    BY <1>11 DEF PrepareFails, CompleteFails, FinishRun
  <2>2. phase[w] # "claimed"
    BY <1>11 DEF PrepareFails, CompleteFails, FinishRun, At
  <2>3. /\ scan' = scan /\ copy' = copy /\ fence' = fence
        /\ UNCHANGED <<claim, claims, beatVars>>
    BY <1>11 DEF PrepareFails, CompleteFails, FinishRun, envVars
  <2>4. QED
    BY <1>1, <1>3, <1>4, <2>1, <2>2, <2>3, OwnershipMove DEF Early, Copying
<1>12. QED
  BY <1>5, <1>6, <1>7, <1>8, <1>9, <1>10, <1>11
     DEF Execute, EndRun, AbandonStart, CompleteScan, FinalizeScan,
         FailPreparedScan, AbandonRun

LEMMA OwnershipClaim ==
    ASSUME FencedInTime, OInv, [Next]_vars, NEW w \in Workers, ClaimNextScan(w)
    PROVE  Ownership'
<1>1. /\ phase[w] = "idle" /\ scan.status = "pending"
      /\ claims' = claims + 1
      /\ UNCHANGED <<fence, copy>>
  BY DEF ClaimNextScan, At
<1>2. /\ phase'[w] = "claimed" /\ claim'[w] = claims + 1
      /\ \A v \in Workers \ {w} :
            /\ phase'[v] = phase[v] /\ claim'[v] = claim[v]
            /\ live'[v] = live[v]
  BY <1>1 DEF ClaimNextScan, Goto, OInv, IInv, TypeOK
<1>3. RowOwned' /\ claims' \in Nat /\ claims' >= claims
  BY RowSteps, RowOwnedStep
<1>4. scan.cancel => scan'.cancel
  BY RowSteps, CancelStays
<1>5. \A v \in Workers : phase[v] # "idle" => claim[v] \in 1 .. claims
  BY DEF OInv, Ownership, Remembers
<1>6. OneTokenEach'
  <2>1. OneTokenEach /\ claims \in Nat
    BY RowTypes DEF OInv, Ownership
  <2>2. \A v \in Workers \ {w} : phase'[v] # "idle" => claim'[v] # claims + 1
    BY <1>2, <1>5, <2>1
  <2>3. QED
    BY <1>2, <2>1, <2>2 DEF OneTokenEach
<1>7. Remembers(w)'
  <2>1. claim'[w] \in 1 .. claims'
    BY <1>1, <1>2, RowTypes DEF OInv
  <2>2. QED
    BY <1>2, <2>1 DEF Remembers, Copying
<1>8. Holding(w)'
  <2>1. scan'.token = claim'[w]
    BY <1>1, <1>2, RowTypes DEF ClaimNextScan, OInv, Row
  <2>2. QED
    BY <2>1 DEF Holding
<1>9. ASSUME NEW v \in Workers, v # w PROVE Remembers(v)' /\ Holding(v)'
  <2>1. Remembers(v)'
    BY <1>1, <1>2, <1>3, <1>4, <1>9, RemembersKept
  <2>2. ~(live'[v] /\ phase'[v] \in Early)
    BY <1>1, <1>2, <1>9, NotStale
  <2>3. QED
    BY <2>1, <2>2 DEF Holding
<1>10. QED
  BY <1>3, <1>6, <1>7, <1>8, <1>9 DEF Ownership

\* Steps that leave what executors remember alone and touch the row or the
\* clocks.
LEMMA OwnershipQuiet ==
    ASSUME OInv, [Next]_vars,
           UNCHANGED <<phase, claim, fence, copy>>,
           \A v \in Workers : Holding(v)'
    PROVE  Ownership'
<1>1. RowOwned' /\ claims' \in Nat /\ claims' >= claims
  BY RowSteps, RowOwnedStep
<1>2. scan.cancel => scan'.cancel
  BY RowSteps, CancelStays
<1>3. \A v \in Workers : Remembers(v)'
  BY <1>1, <1>2, RemembersKept
<1>4. OneTokenEach'
  BY OneTokenKept
<1>5. QED
  BY <1>1, <1>3, <1>4 DEF Ownership

LEMMA OwnershipReclaim ==
    ASSUME FencedInTime, OInv, [Next]_vars, NEW w \in Workers, ReclaimStaleScans(w)
    PROVE  Ownership'
<1>1. UNCHANGED <<phase, claim, fence, copy, live>> /\ Stale
  BY DEF ReclaimStaleScans, execVars, beatVars
<1>2. \A v \in Workers : ~(live[v] /\ phase[v] \in Early)
  BY <1>1, NotStale
<1>3. \A v \in Workers : Holding(v)'
  BY <1>1, <1>2 DEF Holding
<1>4. QED
  BY <1>1, <1>3, OwnershipQuiet

LEMMA OwnershipRenew ==
    ASSUME OInv, [Next]_vars, NEW w \in Workers, HeartbeatScanLease(w)
    PROVE  Ownership'
<1>1. UNCHANGED <<phase, claim, fence, copy>>
  BY DEF HeartbeatScanLease, execVars
<1>2. scan'.token = scan.token
  BY RowTypes DEF HeartbeatScanLease, OInv, Row
<1>3. \A v \in Workers : live'[v] => live[v]
  BY DEF HeartbeatScanLease, OInv, IInv, TypeOK
<1>4. \A v \in Workers : Holding(v)'
  BY <1>1, <1>2, <1>3, HoldingKept
<1>5. QED
  BY <1>1, <1>4, OwnershipQuiet

LEMMA OwnershipTick ==
    ASSUME OInv, [Next]_vars, Tick
    PROVE  Ownership'
<1>1. UNCHANGED <<phase, claim, fence, live, claims, publisher>>
  BY DEF Tick, envVars
<1>2. Stays
  BY RowTypes DEF Tick, Stays, RowKept, OInv, Row, envVars
<1>3. RowOwned' /\ claims' \in Nat /\ claims' >= claims
  BY <1>2, RowOwnedStep
<1>4. OneTokenEach'
  BY <1>1, OneTokenKept
<1>5. ASSUME NEW v \in Workers PROVE Remembers(v)'
  <2>1. copy'[v] = [copy[v] EXCEPT !.lease = Shorter(@)]
    BY DEF Tick
  <2>2. phase[v] \in Copying => copy[v] \in Row
    BY DEF Copying, OInv, IInv, RowsSound, CopyHeld
  <2>3. phase[v] \in Copying =>
           /\ copy'[v].token = copy[v].token
           /\ copy'[v].attempt = copy[v].attempt
           /\ copy'[v].cancel = copy[v].cancel
           /\ copy'[v].status = copy[v].status
    BY <2>1, <2>2 DEF Row
  <2>4. QED
    BY <1>1, <1>2, <2>3
       DEF OInv, Ownership, Remembers, Fits, Copying, Stays, RowKept
<1>6. \A v \in Workers : Holding(v)'
  BY <1>1, <1>2, HoldingKept DEF Stays, RowKept
<1>7. QED
  BY <1>3, <1>4, <1>5, <1>6 DEF Ownership

LEMMA OwnershipStep ==
    ASSUME FencedInTime, OInv, [Next]_vars PROVE Ownership'
<1>1. ASSUME UNCHANGED <<scan, phase, claim, fence, copy>>,
             \A v \in Workers : live'[v] => live[v]
      PROVE  Ownership'
  <2>1. \A v \in Workers : Holding(v)'
    BY <1>1, HoldingKept
  <2>2. QED
    BY <1>1, <2>1, OwnershipQuiet
<1>2. CASE UNCHANGED vars
  BY <1>1, <1>2 DEF vars, execVars, beatVars
<1>3. ASSUME NEW w \in Workers, ClaimNextScan(w) \/ ReclaimStaleScans(w)
      PROVE  Ownership'
  BY <1>3, OwnershipClaim, OwnershipReclaim
<1>4. ASSUME NEW w \in Workers, Execute(w) \/ ReadProgress(w) \/ EndRun(w)
      PROVE  Ownership'
  BY <1>4, OwnershipExecute
<1>5. ASSUME NEW w \in Workers, HeartbeatScanLease(w) PROVE Ownership'
  BY <1>5, OwnershipRenew
<1>6. ASSUME NEW w \in Workers, Crash(w) PROVE Ownership'
  <2>1. Return(w) /\ phase[w] # "idle" /\ scan' = scan
    BY <1>6 DEF Crash, Executing
  <2>2. QED
    BY <2>1, RowSteps, OwnershipReturn
<1>7. ASSUME NEW w \in Workers,
             \/ SendHeartbeat(w) \/ HeartbeatErrs(w) \/ WatchCancellation(w)
             \/ StopWorker(w) \/ Stall(w) \/ Thaw(w)
      PROVE  Ownership'
  <2>1. UNCHANGED <<scan, phase, claim, fence, copy>>
    BY <1>7 DEF SendHeartbeat, HeartbeatErrs, WatchCancellation, StopWorker,
                Stall, Thaw, execVars, beatVars
  <2>2. \A v \in Workers : live'[v] => live[v]
    BY <1>7 DEF SendHeartbeat, HeartbeatErrs, WatchCancellation, StopWorker,
                Stall, Thaw, beatVars, OInv, IInv, TypeOK
  <2>3. QED
    BY <1>1, <2>1, <2>2
<1>8. CASE RequestScanCancellation
  <2>1. UNCHANGED <<phase, claim, fence, copy, live>>
    BY <1>8 DEF RequestScanCancellation, execVars, beatVars
  <2>2. scan'.token = scan.token
    BY <1>8, RowTypes DEF RequestScanCancellation, OInv, Row
  <2>3. \A v \in Workers : Holding(v)'
    BY <2>1, <2>2, HoldingKept
  <2>4. QED
    BY <2>1, <2>3, OwnershipQuiet
<1>9. CASE Tick
  BY <1>9, OwnershipTick
<1>10. QED
  BY <1>2, <1>3, <1>4, <1>5, <1>6, <1>7, <1>8, <1>9 DEF Next, Heartbeat

LEMMA OwnershipInitially == ASSUME Init PROVE Ownership
  BY DEF Init, Ownership, RowOwned, OneTokenEach, Remembers, Holding, Early

LEMMA OwnershipInvariance == Spec /\ []FencedInTime => []OInv
<1>1. Init => OInv
  BY Initially, ClocksInitially, OwnershipInitially DEF OInv
<1>2. FencedInTime /\ OInv /\ [Next]_vars => OInv'
  BY Inductive, ClocksInductive, OwnershipStep DEF OInv
<1>3. QED
  BY <1>1, <1>2, PTL DEF Spec

-----------------------------------------------------------------------------
(* The queue implements ScanJob. *)

\* Whatever freezes, crashes, is cancelled, renewed in vain or kept waiting: if
\* executors read whose scan they work on before their lease runs out, a scan
\* is handed out at most max_attempts times, ends once, a loss requeues it only
\* while attempts are left, and a completed scan carries the result of its
\* latest claim.
THEOREM QueueImplementsScanJob ==
    Spec /\ []FencedInTime => ImplementsScanJob
<1>1. Init => Job!Init
  BY DEF Init, Job!Init, NoToken
<1>2. OInv /\ [Next]_vars => [Job!Next]_(Job!vars)
  <2> SUFFICES ASSUME OInv, [Next]_vars PROVE [Job!Next]_(Job!vars)
    OBVIOUS
  <2>1. scan.attempt = claims
    BY DEF OInv, Ownership, RowOwned
  <2>2. CASE Begins
    BY <2>1, <2>2 DEF Begins, Job!Next, Job!Start
  <2>3. CASE GivenUp
    BY <2>1, <2>3 DEF GivenUp, Stale, RetryLeft, Job!Next, Job!Lose
  <2>4. CASE Ends
    BY <2>4 DEF Ends, Job!Next, Job!Complete, Job!Fail
  <2>5. CASE IsCancelled
    BY <2>5 DEF IsCancelled, Job!Next, Job!Cancel
  <2>6. CASE Stays
    BY <2>6 DEF Stays, RowKept, Job!vars
  <2>7. QED
    BY <2>2, <2>3, <2>4, <2>5, <2>6, RowSteps
<1>3. QED
  BY <1>1, <1>2, OwnershipInvariance, PTL DEF Spec, ImplementsScanJob, Job!Spec
-----------------------------------------------------------------------------
(* When executors read in time. *)

\* The lease outlasts a heartbeat, the database answers before time passes,
\* and no process freezes before it has read whose scan it works on.
Prompt == HeartbeatTicks < LeaseTicks /\ CallTicks = 0 /\ Sheltered

\* The stored lease lasts at least as long as a starting executor's window.
LeaseCovers(w) ==
    live[w] /\ phase[w] \in Early /\ scan.status = "running" =>
       scan.lease + renewed[w] >= LeaseTicks

PInv == OInv /\ \A w \in Workers : LeaseCovers(w)

LEMMA CoveredInTime == ASSUME Prompt, PInv PROVE FencedInTime
<1> SUFFICES ASSUME NEW w \in Workers, live[w], phase[w] \in Early, Stale
             PROVE  FALSE
  BY DEF FencedInTime
<1>1. renewed[w] < LeaseTicks
  BY DEF Prompt, Punctual, PInv, OInv, Clocks, Clock
<1>2. scan.lease + renewed[w] >= LeaseTicks /\ scan.lease = 0
  BY DEF PInv, LeaseCovers, Stale
<1>3. QED
  BY <1>1, <1>2, ClockTypes DEF PInv, OInv

\* An executor whose window a step leaves alone, while the lease stays or ends.
LEMMA CoversKept ==
    ASSUME PInv, NEW v \in Workers,
           renewed'[v] = renewed[v], live'[v] => live[v],
           phase'[v] \in Early => phase[v] \in Early,
           live'[v] /\ phase'[v] \in Early /\ scan'.status = "running" =>
              scan.status = "running" /\ scan'.lease = scan.lease
    PROVE  LeaseCovers(v)'
  BY DEF PInv, LeaseCovers

LEMMA CoversReturn ==
    ASSUME PInv, NEW w \in Workers, Return(w),
           scan.token # claim[w] => scan' = scan, phase[w] # "idle",
           NEW v \in Workers
    PROVE  LeaseCovers(v)'
<1>1. CASE v = w
  BY <1>1 DEF Return, LeaseCovers, PInv, OInv, IInv, TypeOK
<1>2. CASE v # w
  <2>1. /\ phase'[v] = phase[v] /\ live'[v] = live[v]
        /\ renewed'[v] = renewed[v]
    BY <1>2 DEF Return, PInv, OInv, IInv, TypeOK
  <2>2. live[v] /\ phase[v] \in Early => scan' = scan
    BY <1>2, HoldsAlone DEF PInv
  <2>3. QED
    BY <2>1, <2>2, CoversKept
<1>3. QED
  BY <1>1, <1>2

LEMMA CoversExecute ==
    ASSUME PInv, NEW w \in Workers, Execute(w) \/ ReadProgress(w) \/ EndRun(w),
           NEW v \in Workers
    PROVE  LeaseCovers(v)'
<1>1. scan.token # claim[w] => scan' = scan
  BY ExecutorWrites DEF PInv
<1>2. phase[w] # "idle"
  BY DEF Execute, EndRun, LoadToken, StartScanExecution, AbandonStart,
         LoadScan, PrepareSource, PrepareFails, SaveSource, WriteProgress,
         CompleteScan, CompleteFails, FinalizeScan, FailPreparedScan,
         ReadProgress, FinishRun, AbandonRun, At
<1>3. CASE Return(w)
  BY <1>1, <1>2, <1>3, CoversReturn
<1>4. ASSUME NEW p, Goto(w, p), UNCHANGED beatVars,
             p \in Early => phase[w] \in Early /\ scan' = scan
      PROVE  LeaseCovers(v)'
  <2>1. /\ phase'[w] = p
        /\ v # w => phase'[v] = phase[v]
        /\ live' = live /\ renewed' = renewed
    BY <1>4 DEF Goto, beatVars, PInv, OInv, IInv, TypeOK
  <2>2. v # w /\ live[v] /\ phase[v] \in Early => scan' = scan
    BY <1>1, <1>2, HoldsAlone DEF PInv
  <2>3. QED
    BY <1>4, <2>1, <2>2, CoversKept
<1>5. CASE LoadToken(w) \/ StartScanExecution(w)
  <2>1. PICK p \in {"loaded", "started"} : Goto(w, p)
    BY <1>5 DEF LoadToken, StartScanExecution
  <2>2. phase[w] \in Early /\ scan' = scan /\ UNCHANGED beatVars
    BY <1>5, StartsOwn
       DEF LoadToken, StartScanExecution, At, Early, PInv
  <2>3. QED
    BY <1>4, <2>1, <2>2
<1>6. CASE \/ LoadScan(w) \/ PrepareSource(w) \/ PrepareFails(w)
           \/ SaveSource(w) \/ WriteProgress(w) \/ CompleteFails(w)
           \/ ReadProgress(w)
           \/ \E o \in {"completing", "finalizing"} : FinishRun(w, o)
  <2>1. PICK p \in {"preparing", "prepared", "scanning", "updating",
                    "completing", "finalizing", "failing"} : Goto(w, p)
    BY <1>6 DEF LoadScan, PrepareSource, PrepareFails, SaveSource,
                WriteProgress, CompleteFails, ReadProgress, FinishRun
  <2>2. UNCHANGED beatVars
    BY <1>6 DEF LoadScan, PrepareSource, PrepareFails, SaveSource,
                WriteProgress, CompleteFails, ReadProgress, FinishRun
  <2>3. QED
    BY <1>4, <2>1, <2>2 DEF Early
<1>7. QED
  BY <1>3, <1>5, <1>6
     DEF Execute, EndRun, AbandonStart, CompleteScan, FinalizeScan,
         FailPreparedScan, AbandonRun

LEMMA CoversRenew ==
    ASSUME Prompt, PInv, NEW w \in Workers, HeartbeatScanLease(w),
           NEW v \in Workers
    PROVE  LeaseCovers(v)'
<1>1. phase' = phase /\ phase[w] # "idle" /\ call[w] # NoCall
  BY DEF HeartbeatScanLease, execVars, PInv, OInv, Clocks, Clock
<1>2. CASE v # w
  <2>1. renewed'[v] = renewed[v] /\ live'[v] = live[v]
    BY <1>2 DEF HeartbeatScanLease, PInv, OInv, IInv, TypeOK
  <2>2. live[v] /\ phase[v] \in Early => scan.token # claim[w]
    BY <1>1, <1>2, HoldsAlone DEF PInv
  <2>3. live[v] /\ phase[v] \in Early => scan' = scan
    BY <2>2 DEF HeartbeatScanLease
  <2>4. QED
    BY <1>1, <2>1, <2>3, CoversKept
<1>3. CASE v = w
  <2> SUFFICES ASSUME live'[w], phase'[w] \in Early
               PROVE  scan'.lease + renewed'[w] >= LeaseTicks
    BY <1>3 DEF LeaseCovers
  <2>1. scan' = [scan EXCEPT !.lease = call[w]] /\ renewed'[w] = 0
    BY DEF HeartbeatScanLease, PInv, OInv, IInv, TypeOK
  <2>2. call[w] = LeaseTicks
    BY <1>1 DEF Punctual, Prompt, PInv, OInv, Clocks, Clock
  <2>3. scan'.lease = LeaseTicks
    BY <2>1, <2>2, RowTypes DEF PInv, OInv, Row
  <2>4. LeaseTicks + 0 >= LeaseTicks
    BY ClockTypes DEF PInv, OInv
  <2>5. QED
    BY <2>1, <2>3, <2>4
<1>4. QED
  BY <1>2, <1>3

\* Time shortens the lease and ages the window alike.
LEMMA CoversTick ==
    ASSUME Prompt, PInv, Tick, NEW v \in Workers
    PROVE  LeaseCovers(v)'
<1> SUFFICES ASSUME live[v], phase[v] \in Early, scan'.status = "running"
             PROVE  scan'.lease + renewed'[v] >= LeaseTicks
  BY DEF LeaseCovers, Tick
<1>1. scan'.status = scan.status /\ scan'.lease = Shorter(scan.lease)
  BY RowTypes DEF Tick, PInv, OInv, Row
<1>2. scan.lease + renewed[v] >= LeaseTicks
  BY <1>1 DEF PInv, LeaseCovers
<1>3. renewed[v] < LeaseTicks
  BY DEF Prompt, Punctual, PInv, OInv, Clocks, Clock
<1>4. renewed'[v] = renewed[v] + 1
  BY <1>3 DEF Tick, Older
<1>5. renewed[v] \in Nat /\ LeaseTicks \in Nat /\ scan.lease \in Int
  BY ClockTypes, RowTypes DEF PInv, OInv, Leases, NoLease
<1>6. QED
  BY <1>1, <1>2, <1>3, <1>4, <1>5 DEF Shorter

LEMMA CoversStep ==
    ASSUME Prompt, PInv, [Next]_vars, NEW v \in Workers PROVE LeaseCovers(v)'
<1>1. ASSUME UNCHANGED <<scan, phase, renewed>>, live'[v] => live[v]
      PROVE  LeaseCovers(v)'
  BY <1>1, CoversKept
<1>2. CASE UNCHANGED vars
  BY <1>1, <1>2 DEF vars, execVars, beatVars
<1>3. ASSUME NEW w \in Workers, ClaimNextScan(w) PROVE LeaseCovers(v)'
  <2>1. CASE v = w
    <3>1. scan'.lease = LeaseTicks
      BY <1>3, RowTypes DEF ClaimNextScan, PInv, OInv, Row
    <3>2. renewed'[w] = 0
      BY <1>3 DEF ClaimNextScan, At, PInv, OInv, Clocks, Clock
    <3>3. LeaseTicks + 0 >= LeaseTicks
      BY ClockTypes DEF PInv, OInv
    <3>4. QED
      BY <2>1, <3>1, <3>2, <3>3 DEF LeaseCovers
  <2>2. CASE v # w
    <3>1. phase'[v] = phase[v] /\ live'[v] = live[v]
      BY <1>3, <2>2 DEF ClaimNextScan, Goto, PInv, OInv, IInv, TypeOK
    <3>2. ~(live[v] /\ phase[v] \in Early)
      BY <1>3, CoveredInTime, NotStale DEF ClaimNextScan, PInv
    <3>3. QED
      BY <3>1, <3>2 DEF LeaseCovers
  <2>3. QED
    BY <2>1, <2>2
<1>4. ASSUME NEW w \in Workers, ReclaimStaleScans(w) PROVE LeaseCovers(v)'
  <2>1. ~(live[v] /\ phase[v] \in Early)
    BY <1>4, CoveredInTime, NotStale DEF ReclaimStaleScans, PInv
  <2>2. QED
    BY <1>4, <2>1 DEF ReclaimStaleScans, execVars, beatVars, LeaseCovers
<1>5. ASSUME NEW w \in Workers, Execute(w) \/ ReadProgress(w) \/ EndRun(w)
      PROVE  LeaseCovers(v)'
  BY <1>5, CoversExecute
<1>6. ASSUME NEW w \in Workers, HeartbeatScanLease(w) PROVE LeaseCovers(v)'
  BY <1>6, CoversRenew
<1>7. ASSUME NEW w \in Workers, Crash(w) PROVE LeaseCovers(v)'
  BY <1>7, CoversReturn DEF Crash, Executing
<1>8. ASSUME NEW w \in Workers,
             \/ SendHeartbeat(w) \/ HeartbeatErrs(w) \/ WatchCancellation(w)
             \/ StopWorker(w) \/ Stall(w) \/ Thaw(w)
      PROVE  LeaseCovers(v)'
  <2>1. UNCHANGED <<scan, phase, renewed>>
    BY <1>8 DEF SendHeartbeat, HeartbeatErrs, WatchCancellation, StopWorker,
                Stall, Thaw, execVars, beatVars
  <2>2. live'[v] => live[v]
    BY <1>8 DEF SendHeartbeat, HeartbeatErrs, WatchCancellation, StopWorker,
                Stall, Thaw, beatVars, PInv, OInv, IInv, TypeOK
  <2>3. QED
    BY <1>1, <2>1, <2>2
<1>9. CASE RequestScanCancellation
  <2>1. UNCHANGED <<phase, live, renewed>> /\ scan'.status = "cancelled"
    BY <1>9, RowTypes
       DEF RequestScanCancellation, execVars, beatVars, PInv, OInv, Row
  <2>2. QED
    BY <2>1 DEF LeaseCovers
<1>10. CASE Tick
  BY <1>10, CoversTick
<1>11. QED
  BY <1>2, <1>3, <1>4, <1>5, <1>6, <1>7, <1>8, <1>9, <1>10
     DEF Next, Heartbeat

\* A database that answers within its tick and processes that do not freeze
\* before their first reads are enough: no lease runs out under an executor
\* that is about to read its token, however many heartbeats are lost.
THEOREM FencedWhenPrompt == ASSUME Prompt PROVE Spec => []FencedInTime
<1>1. Init => PInv
  <2>1. Init => \A w \in Workers : LeaseCovers(w)
    BY DEF Init, LeaseCovers
  <2>2. QED
    BY <2>1, Initially, ClocksInitially, OwnershipInitially DEF PInv, OInv
<1>2. PInv /\ [Next]_vars => PInv'
  <2> SUFFICES ASSUME PInv, [Next]_vars PROVE PInv'
    OBVIOUS
  <2>1. OInv'
    BY CoveredInTime, Inductive, ClocksInductive, OwnershipStep
       DEF PInv, OInv
  <2>2. QED
    BY <2>1, CoversStep DEF PInv
<1>3. PInv => FencedInTime
  BY CoveredInTime
<1>4. QED
  BY <1>1, <1>2, <1>3, PTL DEF Spec
=============================================================================
